---------------------------- MODULE PlayerQueue ----------------------------
(***************************************************************************)
(* The queue a player is given and how it asks for more of it              *)
(* (src/back_go/internal/player/service.go, build and what it calls).      *)
(*                                                                         *)
(* The gateway keeps nothing between two pages: it computes the queue of   *)
(* the moment from the runtime, finds the place in it by the clock or, if  *)
(* the player sends the continuation token of an earlier page, by the      *)
(* index in the token, and signs the next one.  An answer that is lost     *)
(* leaves no trace.  Between two pages the clock moves into another block, *)
(* playlists come into and go out of their windows, the day's shuffle      *)
(* changes, Django renews the manifest or rebuilds the zone, and, Django   *)
(* being down, an older runtime stands in.                                 *)
(*                                                                         *)
(* Signatures are perfect: a token is one the gateway made.  Which entry   *)
(* of the schedule is in force is in Schedules; here Programme is what it  *)
(* plays.  The caches are in PlayerGateway.                                *)
(***************************************************************************)
EXTENDS Integers, Sequences, FiniteSets

CONSTANTS
    Items,         \* playlist items of the zone's snapshots, numbers in the order of their ids
    Track,         \* of an item [playlist, position, duration]; playlists are numbered by id too
    PriorityOf,    \* of a playlist in its channel
    ActiveTimes,   \* of a playlist, the times within active_from and active_until
    Programme,     \* at a time of day a playlist, Everything or Nothing
    Everything,    \* a CHANNEL block: all that is active
    Nothing,       \* silence, or no entry
    Orders,        \* order modes: "SEQUENTIAL", "SHUFFLE"
    Score,         \* of an item in the shuffle of a version and a day
    Window,        \* manifestWindow
    DayLength, Lifetime,
    LastMoment,    \* bounds of the exploration: the clock,
    MaxBuilds,     \* the manifests built
    MaxHeard       \* and what the player hears of a queue

VARIABLES
    moment,   \* the wall clock
    runtime,  \* what Django would answer
    cached,   \* what the gateway would use if Django were down
    page,     \* the page the player has
    heard     \* what it was given of one queue, page after page

queueVars == <<moment, runtime, cached, page, heard>>

Playlists == DOMAIN PriorityOf
Moments == 0..LastMoment
Until == LastMoment + Lifetime
Runtimes == [manifest : 1..MaxBuilds, version : 1..MaxBuilds, until : 0..Until,
             items : SUBSET Items, order : Orders]
Tokens == [manifest : 1..MaxBuilds, version : 1..MaxBuilds, index : 0..Cardinality(Items),
           until : 0..Until]
Queues == UNION {[1..n -> Items] : n \in 0..Cardinality(Items)}
NoToken == [manifest |-> 0, version |-> 0, index |-> 0, until |-> 0]
NoPage == [items |-> <<>>, queue |-> <<>>, position |-> 0, at |-> 0, token |-> NoToken]

ASSUME QueueAssumption ==
    /\ Items \subseteq Nat \ {0} /\ IsFiniteSet(Items)
    /\ \A p \in Playlists : p \in Int /\ PriorityOf[p] \in Int
    /\ \A i \in Items : /\ Track[i].playlist \in Playlists /\ Track[i].position \in Nat
                        /\ Track[i].duration \in Nat \ {0}
    \* uniq_playlist_snapshot_item_position
    /\ \A i, j \in Items : Track[i].playlist = Track[j].playlist /\ Track[i].position = Track[j].position => i = j
    /\ \A v \in 1..MaxBuilds, t \in Moments, i \in Items : Score[v, t \div DayLength][i] \in Int
    /\ Orders \subseteq {"SEQUENTIAL", "SHUFFLE"}
    /\ Window \in Nat \ {0} /\ DayLength \in Nat \ {0} /\ Lifetime \in Nat \ {0}
    /\ LastMoment \in Nat /\ MaxBuilds \in Nat \ {0} /\ MaxHeard \in Nat

QueueTypeOK ==
    /\ moment \in Moments
    /\ runtime \in Runtimes /\ cached \in Runtimes
    /\ page \in [items : Queues, queue : Queues, position : Nat, at : Moments,
                 token : Tokens \cup {NoToken}]
    /\ page.token # NoToken => page.token.index < Len(page.queue)
    /\ heard \in Seq(Items)

QueueInit ==
    /\ moment = 0
    /\ runtime \in [manifest : {1}, version : {1}, until : {Lifetime}, items : {Items}, order : Orders]
    /\ cached = runtime
    /\ page = NoPage /\ heard = <<>>

----------------------------------------------------------------------------
(* The queue of a moment *)

\* Items are ordered by the priority of their playlist, the playlist, the position ...
Precedes(i, j) ==
    LET Rank(x) == <<PriorityOf[Track[x].playlist], Track[x].playlist, Track[x].position>>
        a == Rank(i)
        b == Rank(j)
    IN  \/ a[1] > b[1]
        \/ a[1] = b[1] /\ a[2] < b[2]
        \/ a[1] = b[1] /\ a[2] = b[2] /\ a[3] < b[3]

\* ... or by the score the version and the date give them, then by id.
Shuffled(r, t, i, j) ==
    LET score == Score[r.version, t \div DayLength]
    IN  score[i] < score[j] \/ (score[i] = score[j] /\ i < j)

\* resolveAssets: what the programme of the moment asks for, of the playlists that are
\* active, as far as the manifest has an asset for it.
Admissible(r, t) ==
    LET asked == Programme[t % DayLength]
    IN  {i \in r.items : /\ asked \in {Everything, Track[i].playlist}
                         /\ t \in ActiveTimes[Track[i].playlist]}

Before(r, t, i, j) == IF r.order = "SHUFFLE" THEN Shuffled(r, t, i, j) ELSE Precedes(i, j)

\* What is sorted has before it what comes before it.
Queue(r, t) ==
    LET queued == Admissible(r, t)
        Ahead(i) == {j \in queued : Before(r, t, j, i)}
    IN  [n \in 1..Cardinality(queued) |-> CHOOSE i \in queued : Cardinality(Ahead(i)) = n - 1]

\* How long the first items of a queue last.
Lasting(queue) ==
    LET sum[n \in 0..Len(queue)] == IF n = 0 THEN 0 ELSE sum[n - 1] + Track[queue[n]].duration
    IN  sum

\* deterministicPosition: the item that plays now if the queue repeats since time 0.
InCycle(queue, t) == t % Lasting(queue)[Len(queue)]

\* The mistake of staying with an item at the moment it ends.
IndexAt_Late(queue, t) ==
    CHOOSE n \in 0..Len(queue) - 1 :
        /\ n = 0 \/ Lasting(queue)[n] < InCycle(queue, t)
        /\ InCycle(queue, t) <= Lasting(queue)[n + 1]
IndexAt(queue, t) ==
    CHOOSE n \in 0..Len(queue) - 1 :
        Lasting(queue)[n] <= InCycle(queue, t) /\ InCycle(queue, t) < Lasting(queue)[n + 1]

----------------------------------------------------------------------------
(* Pages *)

Least(a, b) == IF a < b THEN a ELSE b

\* The mistake of counting a full window when the queue is shorter.
NextIndex_FullWindow(index, given, length) == (index + Window) % length
NextIndex(index, given, length) == (index + given) % length

\* build, from an index of the queue on.
Page(r, queue, index, position, t) ==
    LET length == Len(queue)
        given == Least(Window, length)
    IN  [items |-> [k \in 1..given |-> queue[((index + k - 1) % length) + 1]],
         queue |-> queue, position |-> position, at |-> t,
         token |-> [manifest |-> r.manifest, version |-> r.version,
                    index |-> NextIndex(index, given, length), until |-> r.until]]

ByClock(r, t) ==
    LET queue == Queue(r, t)
        index == IndexAt(queue, t)
    IN  IF queue = <<>> THEN NoPage
        ELSE Page(r, queue, index, InCycle(queue, t) - Lasting(queue)[index], t)

\* verifyCursor
Accepted(token, r, t) ==
    token.manifest = r.manifest /\ token.version = r.version /\ token.until > t

\* The index is taken modulo the queue of this moment.
ByToken(token, r, t) ==
    LET queue == Queue(r, t)
    IN  IF queue = <<>> THEN NoPage
        ELSE Page(r, queue, token.index % Len(queue), 0, t)

\* Django's answer, for which it builds a manifest first if the last is over, or the one the
\* gateway has kept.
Usable(r) == r.until > moment
Keep(r) == cached' = IF r = runtime THEN r ELSE cached

\* The player starts with what plays now.
AskStart(r) ==
    /\ Usable(r)
    /\ Keep(r)
    /\ page' = ByClock(r, moment)
    /\ heard' = page'.items
    /\ UNCHANGED <<moment, runtime>>

\* It goes on where its page ends.
AskMore(r) ==
    /\ Usable(r) /\ page # NoPage
    /\ Accepted(page.token, r, moment)
    /\ Len(heard) < MaxHeard
    /\ Keep(r)
    /\ page' = ByToken(page.token, r, moment)
    /\ heard' = IF page'.queue = page.queue THEN heard \o page'.items ELSE page'.items
    /\ UNCHANGED <<moment, runtime>>

\* queue_cursor_invalid: it will have to start again.
AskTooLate(r) ==
    /\ Usable(r) /\ page # NoPage
    /\ ~Accepted(page.token, r, moment)
    /\ Keep(r)
    /\ page' = NoPage /\ heard' = <<>>
    /\ UNCHANGED <<moment, runtime>>

----------------------------------------------------------------------------
(* What changes meanwhile *)

Tick ==
    /\ moment < LastMoment
    /\ moment' = moment + 1
    /\ UNCHANGED <<runtime, cached, page, heard>>

\* create_manifest: with the assets that are ready, of the same snapshot when the manifest
\* has expired, or of a new one (create_zone_operational_snapshot), or at any time of the
\* same when the player forces it.
BuildManifest(items, rebuilt, order) ==
    /\ runtime.manifest < MaxBuilds
    /\ rebuilt \/ order = runtime.order
    /\ runtime' = [manifest |-> runtime.manifest + 1,
                   version |-> IF rebuilt THEN runtime.version + 1 ELSE runtime.version,
                   until |-> moment + Lifetime, items |-> items, order |-> order]
    /\ UNCHANGED <<moment, cached, page, heard>>

QueueNext ==
    \/ Tick
    \/ \E items \in SUBSET Items, rebuilt \in BOOLEAN, order \in Orders :
            BuildManifest(items, rebuilt, order)
    \/ \E r \in {runtime, cached} : AskStart(r) \/ AskMore(r) \/ AskTooLate(r)

QueueSpec == QueueInit /\ [][QueueNext]_queueVars

----------------------------------------------------------------------------
(* Properties *)

\* As long as the queue stays what it is, page after page the player is given each of its
\* items once before any comes again, in the same order round after round, and none is
\* skipped, whatever the window and wherever the clock made it start (Service.build and
\* its continuation tokens).
PagesTile ==
    LET length == Len(page.queue)
    IN  \A k \in DOMAIN heard :
            /\ \A m \in DOMAIN heard : k < m /\ m < k + length => heard[k] # heard[m]
            /\ k + length \in DOMAIN heard => heard[k + length] = heard[k]

\* What a player that starts is given, and from which point of it, is what plays at that
\* moment if the queue repeats from time 0, so that all players of a zone agree
\* (deterministicPosition): the time before that point is the clock's.
OnTheClock ==
    page # NoPage /\ page.position # 0 =>
        \E n \in DOMAIN page.queue :
            /\ page.items[1] = page.queue[n]
            /\ Lasting(page.queue)[n - 1] + page.position = InCycle(page.queue, page.at)
            /\ page.position < Track[page.queue[n]].duration
=============================================================================
