------------------------ MODULE PlayerGatewayProofs -------------------------
(***************************************************************************)
(* For any number of requests and tokens, any lifetimes and any size of    *)
(* the cache, every state of PlayerGateway satisfies its invariants.  What *)
(* makes them inductive is what a request carries while it waits for       *)
(* Django (RequestJustified), what an entry of the first cache promises    *)
(* (CacheJustified): it was paid for by a request that came in before the  *)
(* token's revocation; and what is true of every runtime on its way or in  *)
(* the second cache (RuntimeJustified): its end was fixed when Django      *)
(* published it, so it lies within a lifetime of its being overtaken.      *)
(***************************************************************************)
EXTENDS PlayerGateway, FiniteSetTheorems, TLAPS

\* The time a request has read is past, a verdict under way is for a token that was
\* good when the request came in, and only a served request carries a cached answer.
RequestJustified ==
    \A r \in Requests :
        /\ request[r].stage # "idle" => request[r].began <= now
        /\ request[r].stage = "introspected" /\ request[r].verdict = "accepted" =>
            request[r].began <= revokedAt[request[r].token]
        /\ request[r].fromCache => request[r].stage = "manifest"

\* An entry ends within one lifetime of now and of its token's revocation, and no
\* later than its token.
CacheJustified ==
    \A t \in Tokens :
        cached[t] # 0 =>
            /\ cached[t] <= now + TTL
            /\ cached[t] <= revokedAt[t] + TTL
            /\ cached[t] <= TokenExpiry[t]

\* A runtime ends within one lifetime of now and of its being overtaken.
EndsInTime(rt) ==
    rt # Nothing =>
        /\ rt.until <= now + Validity
        /\ rt.until <= overtakenAt[rt.version] + Validity

\* The latest version is the only one Django answers with.
PublicationJustified ==
    /\ EndsInTime(published)
    /\ published # Nothing =>
        published.version = version /\ overtakenAt[published.version] = Never
    /\ \A v \in Versions :
        /\ v > version => overtakenAt[v] = Never
        /\ overtakenAt[v] = Never \/ overtakenAt[v] <= now

\* What a request has of Django was not overtaken before the call; what it has of the
\* cache had not ended.
AnswerJustified(q) ==
    /\ q.called <= now
    /\ EndsInTime(q.answer)
    /\ q.answer # Nothing =>
        /\ q.stage \in {"called", "manifest"}
        /\ IF q.fromCache THEN q.called < q.answer.until
                          ELSE q.called <= overtakenAt[q.answer.version]

RuntimeJustified ==
    /\ PublicationJustified
    /\ EndsInTime(runtime)
    /\ \A r \in Requests : AnswerJustified(request[r])

IInv ==
    /\ TypeOK
    /\ RequestJustified
    /\ CacheJustified
    /\ RevocationReachesGateway
    /\ TokenNotOutlived
    /\ AuthenticationCacheBounded
    /\ RuntimeJustified

----------------------------------------------------------------------------
(* The operators of the cache *)

\* The new entry's end is the smaller of two ends.
LEMMA EntryExpiryBounds ==
    ASSUME TypeOK, NEW r \in Requests, request[r].stage # "idle"
    PROVE  /\ EntryExpiry(r) \in Nat
           /\ EntryExpiry(r) <= request[r].began + TTL
           /\ EntryExpiry(r) <= TokenExpiry[request[r].token]
BY GatewayAssumption DEF TypeOK, RequestRecords, EntryExpiry, Smaller

\* Making room drops entries and changes none.
LEMMA RoomsDrop ==
    ASSUME NEW c \in [Tokens -> Nat], NEW at, NEW room \in Rooms(c, at)
    PROVE  /\ room \in [Tokens -> Nat]
           /\ \A t \in Tokens : room[t] \in {0, c[t]}
<1> DEFINE live == Dropped(c, {t \in Tokens : at > c[t]})
<1>1. live \in [Tokens -> Nat] /\ \A t \in Tokens : live[t] \in {0, c[t]}
  BY DEF Dropped
<1>2. \/ room = c
      \/ room = live
      \/ \E t \in Entries(live) : room = Dropped(live, {t})
  BY DEF Rooms
<1>3. ASSUME NEW t \in Entries(live), room = Dropped(live, {t})
      PROVE  room \in [Tokens -> Nat] /\ \A u \in Tokens : room[u] \in {0, c[u]}
  BY <1>1, <1>3 DEF Dropped
<1>4. QED
  BY <1>1, <1>2, <1>3

\* It leaves at most CacheLimit entries, if there was one more before.
LEMMA RoomsFit ==
    ASSUME NEW c \in [Tokens -> Nat], NEW at, NEW room \in Rooms(c, at),
           Cardinality(Entries(c)) <= CacheLimit + 1
    PROVE  IsFiniteSet(Entries(room)) /\ Cardinality(Entries(room)) <= CacheLimit
<1> DEFINE live == Dropped(c, {t \in Tokens : at > c[t]})
<1>1. CacheLimit \in Nat /\ IsFiniteSet(Tokens)
  BY GatewayAssumption
<1>2. \A d : Entries(d) \subseteq Tokens
  BY DEF Entries
<1>3. \A d : IsFiniteSet(Entries(d)) /\ Cardinality(Entries(d)) \in Nat
  BY <1>1, <1>2, FS_Subset, FS_CardinalityType
<1>4. Entries(live) \subseteq Entries(c)
  BY DEF Entries, Dropped
<1>5. Cardinality(Entries(live)) <= CacheLimit + 1
  BY <1>1, <1>3, <1>4, FS_Subset
<1>6. CASE room = c /\ Cardinality(Entries(c)) <= CacheLimit
  BY <1>3, <1>6
<1>7. CASE room = live /\ Cardinality(Entries(live)) <= CacheLimit
  BY <1>3, <1>7
<1>8. ASSUME NEW t \in Entries(live), room = Dropped(live, {t})
      PROVE  Cardinality(Entries(room)) <= CacheLimit
  <2>1. Entries(room) = Entries(live) \ {t}
    BY <1>8 DEF Entries, Dropped
  <2>2. Cardinality(Entries(room)) = Cardinality(Entries(live)) - 1
    BY <1>3, <2>1, FS_RemoveElement
  <2>3. QED
    BY <1>1, <1>3, <1>5, <2>2
<1>9. \/ room = c /\ Cardinality(Entries(c)) <= CacheLimit
      \/ room = live /\ Cardinality(Entries(live)) <= CacheLimit
      \/ \E t \in Entries(live) : room = Dropped(live, {t})
  BY DEF Rooms
<1>10. QED
  BY <1>3, <1>6, <1>7, <1>8, <1>9

----------------------------------------------------------------------------
(* Each part of the invariant *)

\* Nothing has happened yet.
LEMMA InitInvariant == Init => IInv
<1> SUFFICES ASSUME Init PROVE IInv
  OBVIOUS
<1>1. TypeOK
  BY GatewayAssumption DEF Init, TypeOK, NoRequest, RequestRecords, Stages, Verdicts, Never
<1>2. RequestJustified /\ CacheJustified /\ RevocationReachesGateway /\ TokenNotOutlived
  BY DEF Init, RequestJustified, CacheJustified, RevocationReachesGateway,
     TokenNotOutlived, Authorised, NoRequest
<1>6. RuntimeJustified
  BY GatewayAssumption DEF Init, RuntimeJustified, PublicationJustified, AnswerJustified,
     EndsInTime, NoRequest
<1>3. Entries(cached) = {}
  BY DEF Init, Entries
<1>4. AuthenticationCacheBounded
  BY <1>3, FS_EmptySet, GatewayAssumption DEF AuthenticationCacheBounded
<1>5. QED
  BY <1>1, <1>2, <1>4, <1>6 DEF IInv

\* A step that only replaces a request's record by a well-typed one keeps the types.
LEMMA RecordTypeStep ==
    ASSUME TypeOK, UNCHANGED <<now, djangoVars, cached, runtime>>,
           NEW r \in Requests, NEW q \in RequestRecords,
           q.stage # "idle" => q.token \in Tokens,
           q.fromCache => q.answer \in Runtimes,
           request' = [request EXCEPT ![r] = q]
    PROVE  TypeOK'
BY DEF TypeOK, djangoVars

\* Every step keeps the types.
LEMMA TypeStep == TypeOK /\ RequestJustified /\ [Next]_vars => TypeOK'
<1> SUFFICES ASSUME TypeOK, RequestJustified, [Next]_vars PROVE TypeOK'
  OBVIOUS
<1> USE GatewayAssumption DEF TypeOK, RequestRecords, Verdicts
<1>1. CASE UNCHANGED vars
  BY <1>1 DEF vars, djangoVars
<1>2. CASE Tick
  BY <1>2 DEF Tick, djangoVars
<1>3. ASSUME NEW t \in Tokens, Revoke(t) PROVE TypeOK'
  BY <1>3 DEF Revoke, Never
<1>4. ASSUME NEW withManifest \in BOOLEAN, Publish(withManifest) PROVE TypeOK'
  <2>1. version + 1 \in Versions /\ Never \in Nat /\ now \in 0..Never
    BY <1>4 DEF Publish, Versions, Never
  <2>2. overtakenAt' \in [Versions -> 0..Never]
    BY <1>4, <2>1 DEF Publish
  <2>3. published' \in Runtimes \cup {Nothing}
    BY <1>4, <2>1 DEF Publish, Runtimes
  <2>4. QED
    BY <1>4, <2>1, <2>2, <2>3 DEF Publish
<1>5. ASSUME NEW r \in Requests, NEW t \in Tokens, AuthenticateFromCache(r, t)
      PROVE  TypeOK'
  BY <1>5 DEF AuthenticateFromCache, Arrived, Stages, djangoVars
<1>6. ASSUME NEW r \in Requests, NEW t \in Tokens, AskIntrospection(r, t)
      PROVE  TypeOK'
  BY <1>6 DEF AskIntrospection, Arrived, Stages, djangoVars
<1>7. ASSUME NEW r \in Requests, Introspect(r) PROVE TypeOK'
  <2> DEFINE q == [request[r] EXCEPT !.stage = "introspected",
                    !.verdict = IF Accepts(request[r].token) THEN "accepted" ELSE "rejected"]
  <2>1. q \in RequestRecords /\ q.token = request[r].token
        /\ q.fromCache = request[r].fromCache /\ q.answer = request[r].answer
    BY DEF Stages
  <2>2. /\ request[r].token \in Tokens
        /\ request[r].fromCache => request[r].answer \in Runtimes
        /\ request' = [request EXCEPT ![r] = q]
        /\ UNCHANGED <<now, djangoVars, cached, runtime>>
    BY <1>7 DEF Introspect
  <2> HIDE DEF q, TypeOK, RequestRecords
  <2>3. QED
    BY <2>1, <2>2, RecordTypeStep
<1>8. ASSUME NEW r \in Requests, Authorise(r) PROVE TypeOK'
  <2>1. cached' \in [Tokens -> Nat]
    BY <1>8, EntryExpiryBounds, RoomsDrop DEF Authorise
  <2>2. QED
    BY <1>8, <2>1 DEF Authorise, Stages, djangoVars
<1>9. ASSUME NEW r \in Requests, RefuseAuthentication(r) \/ ServeNothing(r) \/ Finish(r)
      PROVE  TypeOK'
  <2>1. NoRequest \in RequestRecords /\ NoRequest.stage = "idle" /\ ~NoRequest.fromCache
    BY DEF NoRequest, Stages
  <2>2. QED
    BY <1>9, <2>1, RecordTypeStep DEF RefuseAuthentication, ServeNothing, Finish
<1>10. ASSUME NEW r \in Requests, CallRuntime(r) PROVE TypeOK'
  <2> DEFINE q == [request[r] EXCEPT !.stage = "calling", !.called = now]
  <2>0. now \in Nat /\ request[r] \in RequestRecords
    OBVIOUS
  <2>1. q \in RequestRecords /\ q.token = request[r].token
        /\ q.fromCache = request[r].fromCache /\ q.answer = request[r].answer
    BY <2>0 DEF Stages
  <2>2. /\ request[r].token \in Tokens
        /\ request[r].fromCache => request[r].answer \in Runtimes
        /\ request' = [request EXCEPT ![r] = q]
        /\ UNCHANGED <<now, djangoVars, cached, runtime>>
    BY <1>10 DEF CallRuntime
  <2> HIDE DEF q, TypeOK, RequestRecords
  <2>3. QED
    BY <2>1, <2>2, RecordTypeStep
<1>11. ASSUME NEW r \in Requests, AnswerRuntime(r) PROVE TypeOK'
  <2> DEFINE q == [request[r] EXCEPT !.stage = "called",
                    !.verdict = IF Accepts(request[r].token) THEN "accepted" ELSE "rejected",
                    !.answer = IF Accepts(request[r].token) THEN published ELSE Nothing]
  <2>1. q \in RequestRecords /\ q.token = request[r].token
        /\ q.fromCache = request[r].fromCache
    BY DEF Stages
  <2>2. /\ request[r].token \in Tokens /\ ~request[r].fromCache
        /\ request' = [request EXCEPT ![r] = q]
        /\ UNCHANGED <<now, djangoVars, cached, runtime>>
    BY <1>11 DEF AnswerRuntime, RequestJustified
  <2> HIDE DEF q, TypeOK, RequestRecords
  <2>3. QED
    BY <2>1, <2>2, RecordTypeStep
<1>12. ASSUME NEW r \in Requests, CallFails(r) PROVE TypeOK'
  BY <1>12 DEF CallFails, Stages, djangoVars
<1>13. ASSUME NEW r \in Requests, ServeFresh(r) PROVE TypeOK'
  BY <1>13 DEF ServeFresh, Stages, djangoVars
<1>14. ASSUME NEW r \in Requests, ServeCached(r) PROVE TypeOK'
  <2> DEFINE q == [request[r] EXCEPT !.stage = "manifest", !.answer = runtime,
                                     !.fromCache = TRUE]
  <2>1. runtime \in Runtimes
    BY <1>14 DEF ServeCached, CacheStandsIn, ValidAt
  <2>2. q \in RequestRecords /\ q.token = request[r].token /\ q.answer = runtime
    BY <2>1 DEF Stages
  <2>3. /\ request[r].token \in Tokens
        /\ request' = [request EXCEPT ![r] = q]
        /\ UNCHANGED <<now, djangoVars, cached, runtime>>
    BY <1>14 DEF ServeCached
  <2> HIDE DEF q, TypeOK, RequestRecords
  <2>4. QED
    BY <2>1, <2>2, <2>3, RecordTypeStep
<1>15. QED
  BY <1>1, <1>2, <1>3, <1>4, <1>5, <1>6, <1>7, <1>8, <1>9, <1>10, <1>11, <1>12, <1>13,
     <1>14 DEF Next

\* What a request carries stays justified: the clock only runs forward, and a token
\* is accepted only while it is not revoked.
LEMMA RequestStep == TypeOK /\ RequestJustified /\ [Next]_vars => RequestJustified'
<1> SUFFICES ASSUME TypeOK, RequestJustified, [Next]_vars PROVE RequestJustified'
  OBVIOUS
<1> USE DEF TypeOK, RequestJustified, RequestRecords
<1>1. CASE UNCHANGED vars
  BY <1>1 DEF vars, djangoVars
<1>2. CASE Tick
  BY <1>2 DEF Tick, djangoVars
<1>3. ASSUME NEW t \in Tokens, Revoke(t) PROVE RequestJustified'
  BY <1>3 DEF Revoke
<1>4. ASSUME NEW withManifest \in BOOLEAN, Publish(withManifest) PROVE RequestJustified'
  BY <1>4 DEF Publish
<1>5. ASSUME NEW r \in Requests, NEW t \in Tokens,
             AuthenticateFromCache(r, t) \/ AskIntrospection(r, t)
      PROVE  RequestJustified'
  BY <1>5 DEF AuthenticateFromCache, AskIntrospection, Arrived, djangoVars
<1>6. ASSUME NEW r \in Requests, Introspect(r) PROVE RequestJustified'
  BY <1>6, GatewayAssumption DEF Introspect, Accepts, Never, djangoVars
<1>7. ASSUME NEW r \in Requests,
             RefuseAuthentication(r) \/ ServeNothing(r) \/ Finish(r)
      PROVE  RequestJustified'
  BY <1>7 DEF RefuseAuthentication, ServeNothing, Finish, NoRequest, djangoVars
<1>8. ASSUME NEW r \in Requests,
             Authorise(r) \/ CallRuntime(r) \/ AnswerRuntime(r) \/ CallFails(r)
      PROVE  RequestJustified'
  BY <1>8 DEF Authorise, CallRuntime, AnswerRuntime, CallFails, djangoVars
<1>9. ASSUME NEW r \in Requests, ServeFresh(r) \/ ServeCached(r) PROVE RequestJustified'
  BY <1>9 DEF ServeFresh, ServeCached, djangoVars
<1>10. QED
  BY <1>1, <1>2, <1>3, <1>4, <1>5, <1>6, <1>7, <1>8, <1>9 DEF Next

\* Entries stay justified: a new one inherits its request's justification, and a
\* revocation finds none that ends later than a lifetime from now.
LEMMA CacheStep ==
    TypeOK /\ RequestJustified /\ CacheJustified /\ [Next]_vars => CacheJustified'
<1> SUFFICES ASSUME TypeOK, RequestJustified, CacheJustified, [Next]_vars
             PROVE  CacheJustified'
  OBVIOUS
<1> USE GatewayAssumption DEF TypeOK, CacheJustified
<1>1. CASE UNCHANGED <<now, revokedAt, cached>>
  BY <1>1
<1>2. CASE Tick
  BY <1>2 DEF Tick, djangoVars
<1>3. ASSUME NEW t \in Tokens, Revoke(t) PROVE CacheJustified'
  BY <1>3 DEF Revoke
<1>4. ASSUME NEW r \in Requests, NEW t \in Tokens, AskIntrospection(r, t)
      PROVE  CacheJustified'
  BY <1>4 DEF AskIntrospection, djangoVars
<1>5. ASSUME NEW r \in Requests, Authorise(r) PROVE CacheJustified'
  <2> DEFINE t == request[r].token
  <2>1. /\ t \in Tokens /\ EntryExpiry(r) \in Nat
        /\ EntryExpiry(r) <= request[r].began + TTL
        /\ EntryExpiry(r) <= TokenExpiry[t]
    BY <1>5, EntryExpiryBounds DEF Authorise
  <2>2. /\ request[r].began \in Nat
        /\ request[r].began <= now
        /\ request[r].began <= revokedAt[t]
    BY <1>5 DEF Authorise, RequestJustified, RequestRecords
  <2>3. EntryExpiry(r) <= now + TTL /\ EntryExpiry(r) <= revokedAt[t] + TTL
    BY <2>1, <2>2
  <2>4. PICK room \in Rooms(cached, request[r].began) :
            cached' = [room EXCEPT ![t] = EntryExpiry(r)]
    BY <1>5 DEF Authorise
  <2>5. room \in [Tokens -> Nat] /\ \A u \in Tokens : room[u] \in {0, cached[u]}
    BY <2>4, RoomsDrop
  <2>6. UNCHANGED <<now, revokedAt>>
    BY <1>5 DEF Authorise, djangoVars
  <2>7. QED
    BY <2>1, <2>3, <2>4, <2>5, <2>6
<1>6. QED
  BY <1>1, <1>2, <1>3, <1>4, <1>5
  DEF Next, vars, djangoVars, Publish, AuthenticateFromCache, Introspect,
      RefuseAuthentication, CallRuntime, AnswerRuntime, CallFails, ServeFresh, ServeCached,
      ServeNothing, Finish

\* A request is authorised by an entry or by a verdict, which are both justified; from
\* then on its arrival and its token stay, and a revocation comes later.
LEMMA AuthorisedStep ==
    /\ TypeOK /\ RequestJustified /\ CacheJustified
    /\ RevocationReachesGateway /\ TokenNotOutlived /\ [Next]_vars
    => RevocationReachesGateway' /\ TokenNotOutlived'
<1> SUFFICES ASSUME TypeOK, RequestJustified, CacheJustified, RevocationReachesGateway,
                    TokenNotOutlived, [Next]_vars
             PROVE  RevocationReachesGateway' /\ TokenNotOutlived'
  OBVIOUS
<1> USE GatewayAssumption
    DEF TypeOK, RequestRecords, RevocationReachesGateway, TokenNotOutlived, Authorised
<1>1. CASE UNCHANGED <<revokedAt, request>>
  BY <1>1
<1>2. ASSUME NEW t \in Tokens, Revoke(t)
      PROVE  RevocationReachesGateway' /\ TokenNotOutlived'
  BY <1>2 DEF Revoke, RequestJustified
<1>3. ASSUME NEW r \in Requests, NEW t \in Tokens, AuthenticateFromCache(r, t)
      PROVE  RevocationReachesGateway' /\ TokenNotOutlived'
  BY <1>3 DEF AuthenticateFromCache, Arrived, CacheJustified, djangoVars
<1>4. ASSUME NEW r \in Requests, NEW t \in Tokens, AskIntrospection(r, t)
      PROVE  RevocationReachesGateway' /\ TokenNotOutlived'
  BY <1>4 DEF AskIntrospection, Arrived, djangoVars
<1>5. ASSUME NEW r \in Requests, Authorise(r)
      PROVE  RevocationReachesGateway' /\ TokenNotOutlived'
  <2>1. /\ request[r].token \in Tokens /\ request[r].began \in Nat
        /\ request[r].began <= revokedAt[request[r].token]
        /\ request[r].began < TokenExpiry[request[r].token]
    BY <1>5, EntryExpiryBounds DEF Authorise, RequestJustified
  <2>2. request[r].began < revokedAt[request[r].token] + TTL
    BY <2>1
  <2>3. QED
    BY <1>5, <2>1, <2>2 DEF Authorise, djangoVars
<1>6. ASSUME NEW r \in Requests, Introspect(r) \/ CallRuntime(r) \/ AnswerRuntime(r)
      PROVE  RevocationReachesGateway' /\ TokenNotOutlived'
  BY <1>6 DEF Introspect, CallRuntime, AnswerRuntime, djangoVars
<1>7. ASSUME NEW r \in Requests, CallFails(r) \/ ServeFresh(r) \/ ServeCached(r)
      PROVE  RevocationReachesGateway' /\ TokenNotOutlived'
  BY <1>7 DEF CallFails, ServeFresh, ServeCached, djangoVars
<1>8. ASSUME NEW r \in Requests,
             RefuseAuthentication(r) \/ ServeNothing(r) \/ Finish(r)
      PROVE  RevocationReachesGateway' /\ TokenNotOutlived'
  BY <1>8 DEF RefuseAuthentication, ServeNothing, Finish, NoRequest, djangoVars
<1>9. QED
  BY <1>1, <1>2, <1>3, <1>4, <1>5, <1>6, <1>7, <1>8
  DEF Next, vars, djangoVars, Tick, Publish

\* The cache grows only by one entry, after room has been made for it.
LEMMA SizeStep ==
    TypeOK /\ AuthenticationCacheBounded /\ [Next]_vars => AuthenticationCacheBounded'
<1> SUFFICES ASSUME TypeOK, AuthenticationCacheBounded, [Next]_vars
             PROVE  AuthenticationCacheBounded'
  OBVIOUS
<1> USE DEF AuthenticationCacheBounded
<1>1. CASE UNCHANGED cached
  BY <1>1 DEF Entries
<1>2. ASSUME NEW r \in Requests, NEW t \in Tokens, AskIntrospection(r, t)
      PROVE  AuthenticationCacheBounded'
  <2>1. Entries(cached') \subseteq Entries(cached)
    BY <1>2 DEF AskIntrospection, Entries, TypeOK
  <2>2. IsFiniteSet(Entries(cached))
    BY GatewayAssumption, FS_Subset DEF Entries
  <2>3. /\ Cardinality(Entries(cached')) \in Nat /\ Cardinality(Entries(cached)) \in Nat
        /\ Cardinality(Entries(cached')) <= Cardinality(Entries(cached))
    BY <2>1, <2>2, FS_Subset, FS_CardinalityType
  <2>4. Cardinality(Entries(cached')) <= CacheLimit + 1
    BY <2>3, GatewayAssumption
  <2>5. QED
    BY <2>4 DEF Entries
<1>3. ASSUME NEW r \in Requests, Authorise(r) PROVE AuthenticationCacheBounded'
  <2> DEFINE t == request[r].token
  <2>1. PICK room \in Rooms(cached, request[r].began) :
            cached' = [room EXCEPT ![t] = EntryExpiry(r)]
    BY <1>3 DEF Authorise
  <2>2. room \in [Tokens -> Nat] /\ IsFiniteSet(Entries(room))
        /\ Cardinality(Entries(room)) <= CacheLimit
    BY <2>1, RoomsDrop, RoomsFit DEF TypeOK
  <2>3. Entries(cached') \subseteq Entries(room) \cup {t}
    BY <2>1, <2>2 DEF Entries
  <2>4. /\ IsFiniteSet(Entries(room) \cup {t})
        /\ Cardinality(Entries(room) \cup {t}) <= Cardinality(Entries(room)) + 1
    <3>1. Cardinality(Entries(room)) \in Nat
      BY <2>2, FS_CardinalityType
    <3>2. /\ IsFiniteSet(Entries(room) \cup {t})
          /\ Cardinality(Entries(room) \cup {t}) =
                IF t \in Entries(room) THEN Cardinality(Entries(room))
                                       ELSE Cardinality(Entries(room)) + 1
      BY <2>2, FS_AddElement, Zenon
    <3>3. QED
      BY <3>1, <3>2
  <2>5. /\ Cardinality(Entries(cached')) \in Nat /\ Cardinality(Entries(room)) \in Nat
        /\ Cardinality(Entries(room) \cup {t}) \in Nat
        /\ Cardinality(Entries(cached')) <= Cardinality(Entries(room) \cup {t})
    BY <2>2, <2>3, <2>4, FS_Subset, FS_CardinalityType
  <2>6. Cardinality(Entries(cached')) <= CacheLimit + 1
    BY <2>2, <2>4, <2>5, GatewayAssumption
  <2>7. QED
    BY <2>6 DEF Entries
<1>4. QED
  BY <1>1, <1>2, <1>3
  DEF Next, vars, Tick, Revoke, Publish, AuthenticateFromCache, Introspect,
      RefuseAuthentication, CallRuntime, AnswerRuntime, CallFails, ServeFresh, ServeCached,
      ServeNothing, Finish

\* A step of one request, with a runtime in the cache that ends in time, keeps the
\* runtimes justified if the request stays so.
LEMMA OneRequestStep ==
    ASSUME RuntimeJustified, UNCHANGED <<now, djangoVars>>, EndsInTime(runtime)',
           NEW r \in Requests, AnswerJustified(request[r])',
           \A o \in Requests : o # r => request'[o] = request[o]
    PROVE  RuntimeJustified'
<1>1. \A o \in Requests : AnswerJustified(request[o])'
  BY DEF RuntimeJustified, AnswerJustified, EndsInTime, djangoVars
<1>2. PublicationJustified'
  BY DEF RuntimeJustified, PublicationJustified, EndsInTime, djangoVars
<1>3. QED
  BY <1>1, <1>2 DEF RuntimeJustified

\* Runtimes stay justified: only Django sets their ends, and the one it overtakes was
\* published before.
LEMMA RuntimeStep ==
    TypeOK /\ RequestJustified /\ RuntimeJustified /\ [Next]_vars => RuntimeJustified'
<1> SUFFICES ASSUME TypeOK, RequestJustified, RuntimeJustified, [Next]_vars
             PROVE  RuntimeJustified'
  OBVIOUS
<1>0. /\ now \in Nat /\ now <= MaxTime /\ version \in 0..MaxVersion
      /\ overtakenAt \in [Versions -> 0..Never] /\ Never \in Nat /\ Never > MaxTime
      /\ published \in Runtimes \cup {Nothing} /\ runtime \in Runtimes \cup {Nothing}
      /\ Validity \in Nat \ {0} /\ MaxVersion \in Nat /\ MaxTime \in Nat
  BY GatewayAssumption DEF TypeOK, Never
<1>01. \A r \in Requests :
        /\ request[r] \in RequestRecords /\ AnswerJustified(request[r])
        /\ request[r].called \in Nat /\ request[r].answer \in Runtimes \cup {Nothing}
        /\ request[r].fromCache \in BOOLEAN
  BY DEF TypeOK, RequestRecords, RuntimeJustified
<1>02. /\ EndsInTime(runtime) /\ PublicationJustified
       /\ \A rt \in Runtimes : rt.version \in Versions /\ rt.until \in Nat
  BY DEF RuntimeJustified, Runtimes
<1>03. request \in [Requests -> RequestRecords]
  BY DEF TypeOK
<1>1. CASE UNCHANGED vars
  BY <1>1 DEF vars, djangoVars, RuntimeJustified, PublicationJustified, AnswerJustified, EndsInTime
<1>2. CASE Tick
  <2>1. now' = now + 1 /\ UNCHANGED <<published, version, overtakenAt, runtime, request>>
    BY <1>2 DEF Tick, djangoVars
  <2>2. \A rt \in Runtimes \cup {Nothing} : EndsInTime(rt) => EndsInTime(rt)'
    BY <1>0, <1>02, <2>1 DEF EndsInTime
  <2>3. \A r \in Requests : AnswerJustified(request[r])'
    BY <1>0, <1>01, <2>1, <2>2 DEF AnswerJustified
  <2>4. PublicationJustified'
    BY <1>0, <1>02, <2>1, <2>2 DEF PublicationJustified
  <2>5. QED
    BY <1>0, <1>02, <2>1, <2>2, <2>3, <2>4 DEF RuntimeJustified
<1>3. ASSUME NEW t \in Tokens, Revoke(t) PROVE RuntimeJustified'
  BY <1>3 DEF Revoke, RuntimeJustified, PublicationJustified, AnswerJustified, EndsInTime
<1>4. ASSUME NEW withManifest \in BOOLEAN, Publish(withManifest) PROVE RuntimeJustified'
  <2> DEFINE new == [version |-> version + 1, until |-> now + Validity]
  <2>1. /\ UNCHANGED <<now, runtime, request>> /\ version' = version + 1
        /\ published' \in {new, Nothing} /\ version < MaxVersion
        /\ overtakenAt' = IF published = Nothing THEN overtakenAt
                          ELSE [overtakenAt EXCEPT ![published.version] = now]
    BY <1>4 DEF Publish
  <2>2. /\ now <= Never /\ overtakenAt \in [Versions -> Nat]
        /\ \A v \in Versions : overtakenAt[v] \in Nat /\ overtakenAt'[v] \in Nat
    <3>1. /\ now <= Never /\ 0..Never \subseteq Nat
          /\ \A v \in Versions : overtakenAt[v] \in 0..Never
      BY <1>0
    <3>2. overtakenAt \in [Versions -> Nat]
      BY <1>0, <3>1
    <3>3. QED
      BY <1>0, <2>1, <3>1, <3>2
  <2>3. published # Nothing => published.version \in Versions /\ published.until \in Nat
    BY <1>0, <1>02
  \* Only what was published is overtaken, and it ends within a lifetime of now.
  <2>4. \A v \in Versions :
            \/ overtakenAt'[v] = overtakenAt[v]
            \/ v = version /\ overtakenAt[v] = Never /\ overtakenAt'[v] = now
    BY <1>02, <2>1, <2>2, <2>3 DEF PublicationJustified
  <2>5. \A rt \in Runtimes \cup {Nothing} : EndsInTime(rt) => EndsInTime(rt)'
    BY <1>0, <1>02, <2>1, <2>2, <2>4 DEF EndsInTime
  <2>6. \A r \in Requests : AnswerJustified(request[r])'
    <3>1. ASSUME NEW r \in Requests PROVE AnswerJustified(request[r])'
      <4>1. EndsInTime(request[r].answer)'
        BY <1>01, <2>1, <2>5 DEF AnswerJustified
      <4>2. request[r].answer # Nothing => request[r].answer.version \in Versions
        BY <1>01, <1>02
      <4>3. QED
        BY <1>0, <1>01, <2>1, <2>2, <2>4, <4>1, <4>2 DEF AnswerJustified
    <3>2. QED
      BY <3>1
  <2>7. version + 1 \in Versions /\ \A v \in Versions : v \in Nat
    BY <1>0, <2>1 DEF Versions
  <2>8. new.version = version + 1 /\ new.until = now + Validity
    OBVIOUS
  <2>9. overtakenAt'[version + 1] = Never
    BY <1>0, <1>02, <2>1, <2>4, <2>7 DEF PublicationJustified
  <2> HIDE DEF new
  <2>10. PublicationJustified'
    <3>1. published' # Nothing =>
            published'.version = version' /\ overtakenAt'[published'.version] = Never
      BY <2>1, <2>8, <2>9
    <3>2. EndsInTime(published)'
      BY <1>0, <2>1, <2>2, <2>8, <3>1 DEF EndsInTime
    <3>3. \A v \in Versions :
            /\ v > version' => overtakenAt'[v] = Never
            /\ overtakenAt'[v] = Never \/ overtakenAt'[v] <= now'
      BY <1>0, <1>02, <2>1, <2>4, <2>7 DEF PublicationJustified
    <3>4. QED
      BY <2>1, <3>1, <3>2, <3>3 DEF PublicationJustified, Never
  <2>11. QED
    BY <1>0, <1>02, <2>1, <2>5, <2>6, <2>10 DEF RuntimeJustified
<1>5. ASSUME NEW r \in Requests,
             \/ \E t \in Tokens : AuthenticateFromCache(r, t) \/ AskIntrospection(r, t)
             \/ RefuseAuthentication(r) \/ ServeNothing(r) \/ Finish(r)
      PROVE  RuntimeJustified'
  <2>1. /\ request'[r].answer = Nothing /\ request'[r].called = 0
        /\ \A o \in Requests : o # r => request'[o] = request[o]
        /\ UNCHANGED <<now, djangoVars, runtime>>
    BY <1>5, <1>03
    DEF AuthenticateFromCache, AskIntrospection, Arrived, RefuseAuthentication, ServeNothing,
        Finish, NoRequest
  <2>2. AnswerJustified(request[r])' /\ EndsInTime(runtime)'
    BY <1>0, <1>02, <2>1 DEF AnswerJustified, EndsInTime, djangoVars
  <2>3. QED
    BY <2>1, <2>2, OneRequestStep
\* Before Django answers a request carries nothing of it.
<1>6. ASSUME NEW r \in Requests,
             Introspect(r) \/ Authorise(r) \/ CallRuntime(r) \/ CallFails(r)
      PROVE  RuntimeJustified'
  <2>1. /\ request[r].stage \notin {"called", "manifest"}
        /\ request'[r].answer = request[r].answer
        /\ request'[r].called \in {request[r].called, now}
        /\ \A o \in Requests : o # r => request'[o] = request[o]
        /\ UNCHANGED <<now, djangoVars, runtime>>
    <3>0. CASE Introspect(r)
      BY <1>01, <1>03, <3>0 DEF Introspect
    <3>1. CASE Authorise(r)
      <4>1. request[r].stage = "introspected"
            /\ request' = [request EXCEPT ![r].stage = "authorised", ![r].verdict = "none"]
            /\ UNCHANGED <<now, djangoVars, runtime>>
        BY <3>1 DEF Authorise
      <4>2. QED
        BY <1>01, <1>03, <4>1
    <3>2. CASE CallRuntime(r)
      BY <1>01, <1>03, <3>2 DEF CallRuntime
    <3>3. CASE CallFails(r)
      BY <1>01, <1>03, <3>3 DEF CallFails
    <3>4. QED
      BY <1>6, <3>0, <3>1, <3>2, <3>3
  <2>2. request'[r].answer = Nothing
    BY <1>01, <2>1 DEF AnswerJustified
  <2>3. AnswerJustified(request[r])' /\ EndsInTime(runtime)'
    BY <1>0, <1>01, <1>02, <2>1, <2>2 DEF AnswerJustified, EndsInTime, djangoVars
  <2>4. QED
    BY <2>1, <2>3, OneRequestStep
\* What Django answers with is not overtaken yet.
<1>7. ASSUME NEW r \in Requests, AnswerRuntime(r) PROVE RuntimeJustified'
  <2>1. /\ request'[r].answer \in {published, Nothing}
        /\ request'[r].stage = "called" /\ request'[r].called = request[r].called
        /\ request'[r].fromCache = request[r].fromCache
        /\ \A o \in Requests : o # r => request'[o] = request[o]
        /\ UNCHANGED <<now, djangoVars, runtime>> /\ ~request[r].fromCache
    BY <1>7, <1>01, <1>03 DEF AnswerRuntime, RequestJustified
  <2>2. request'[r].answer # Nothing =>
            EndsInTime(request'[r].answer) /\ overtakenAt[request'[r].answer.version] = Never
    BY <1>02, <2>1 DEF PublicationJustified
  <2>3. EndsInTime(request[r].answer)' /\ EndsInTime(runtime)'
    BY <1>02, <2>1, <2>2 DEF EndsInTime, djangoVars
  <2>4. request[r].called <= now /\ request[r].called <= Never
    BY <1>0, <1>01 DEF AnswerJustified
  <2>5. AnswerJustified(request[r])'
    BY <2>1, <2>2, <2>3, <2>4 DEF AnswerJustified, djangoVars
  <2>6. QED
    BY <2>1, <2>3, <2>5, OneRequestStep
\* The answer becomes the runtime, or is not kept; the request keeps it.
<1>8. ASSUME NEW r \in Requests, ServeFresh(r) PROVE RuntimeJustified'
  <2>1. /\ request'[r].answer = request[r].answer /\ request'[r].called = request[r].called
        /\ request'[r].stage = "manifest" /\ request'[r].fromCache = request[r].fromCache
        /\ runtime' \in {runtime, request[r].answer}
        /\ \A o \in Requests : o # r => request'[o] = request[o]
        /\ UNCHANGED <<now, djangoVars>>
    BY <1>8, <1>01, <1>03 DEF ServeFresh, Stored
  <2>2. AnswerJustified(request[r])' /\ EndsInTime(runtime)'
    BY <1>0, <1>01, <1>02, <2>1 DEF AnswerJustified, EndsInTime, djangoVars
  <2>3. QED
    BY <2>1, <2>2, OneRequestStep
\* What is served of the cache has not ended.
<1>9. ASSUME NEW r \in Requests, ServeCached(r) PROVE RuntimeJustified'
  <2>1. /\ request'[r].answer = runtime /\ request'[r].called = request[r].called
        /\ request'[r].stage = "manifest" /\ request'[r].fromCache
        /\ request[r].called < runtime.until
        /\ \A o \in Requests : o # r => request'[o] = request[o]
        /\ UNCHANGED <<now, djangoVars, runtime>>
    BY <1>9, <1>0, <1>01, <1>02, <1>03 DEF ServeCached, CacheStandsIn, ValidAt
  <2>2. AnswerJustified(request[r])' /\ EndsInTime(runtime)'
    BY <1>0, <1>01, <1>02, <2>1 DEF AnswerJustified, EndsInTime, djangoVars
  <2>3. QED
    BY <2>1, <2>2, OneRequestStep
<1>10. QED
  BY <1>1, <1>2, <1>3, <1>4, <1>5, <1>6, <1>7, <1>8, <1>9 DEF Next

----------------------------------------------------------------------------

\* Every reachable state of the gateway satisfies the inductive invariant.
THEOREM GatewayInvariant == Spec => []IInv
<1>1. IInv /\ [Next]_vars => IInv'
  BY TypeStep, RequestStep, CacheStep, AuthorisedStep, SizeStep,
     RuntimeStep DEF IInv
<1>2. QED
  BY <1>1, InitInvariant, PTL DEF Spec

\* Every variable of the gateway keeps its type.
THEOREM GatewayTypeCorrect == Spec => []TypeOK
<1>1. IInv => TypeOK
  BY DEF IInv
<1>2. QED
  BY <1>1, GatewayInvariant, PTL

\* No request is let in a cache lifetime or more after its token was revoked.
THEOREM RevocationIsPrompt == Spec => []RevocationReachesGateway
<1>1. IInv => RevocationReachesGateway
  BY DEF IInv
<1>2. QED
  BY <1>1, GatewayInvariant, PTL

\* No request is let in with a token past its expiry.
THEOREM TokensEnd == Spec => []TokenNotOutlived
<1>1. IInv => TokenNotOutlived
  BY DEF IInv
<1>2. QED
  BY <1>1, GatewayInvariant, PTL

\* The cache of introspections never holds more than one entry over its limit.
THEOREM CacheStaysSmall == Spec => []AuthenticationCacheBounded
<1>1. IInv => AuthenticationCacheBounded
  BY DEF IInv
<1>2. QED
  BY <1>1, GatewayInvariant, PTL

\* What the cache of introspections lets in and holds is what it should.
THEOREM CacheIsSound == Spec => []AuthenticationCacheSound
<1>1. IInv => AuthenticationCacheSound
  BY DEF IInv, AuthenticationCacheSound
<1>2. QED
  BY <1>1, GatewayInvariant, PTL

\* OvertakenRuntimeDiesOut: what Django has replaced or withdrawn is not served to a request
\* that reaches the handler a manifest's lifetime later, whichever call stored it and
\* whatever fails since (Service.runtime).
THEOREM OvertakenDiesOut == Spec => []OvertakenRuntimeDiesOut
<1>1. ASSUME IInv PROVE OvertakenRuntimeDiesOut
  <2> SUFFICES ASSUME NEW r \in Requests, request[r].answer # Nothing
               PROVE  request[r].called < overtakenAt[request[r].answer.version] + Validity
    BY DEF OvertakenRuntimeDiesOut
  <2>1. /\ request[r] \in RequestRecords /\ request[r].answer \in Runtimes
        /\ overtakenAt[request[r].answer.version] \in Nat
    BY <1>1, GatewayAssumption DEF IInv, TypeOK, RequestRecords, Runtimes, Never
  <2>2. AnswerJustified(request[r])
    BY <1>1 DEF IInv, RuntimeJustified
  <2>3. QED
    BY <2>1, <2>2, GatewayAssumption
    DEF AnswerJustified, EndsInTime, RequestRecords, Runtimes
<1>2. QED
  BY <1>1, GatewayInvariant, PTL
=============================================================================
