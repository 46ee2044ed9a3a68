----------------------------- MODULE Playlists -----------------------------
(***************************************************************************)
(* The editing of playlists and channels of one company                    *)
(* (apps/playlists/views.py, serializers.py, services.py).                 *)
(*                                                                         *)
(* An editor's panel shows a playlist or a channel with its revision.  A   *)
(* request carries the revision it was shown; its view reads the row,      *)
(* without a lock, and refuses an archived one; its service locks the row  *)
(* and compares the revision.  Between the three others may do the same.   *)
(* A service is one transaction and, its row being locked, one action,     *)
(* except the publication of a channel, which reads its playlists twice    *)
(* without locking them.  Creations, copies and reactivations lock the     *)
(* company, so that what they count is what there is when they write.      *)
(*                                                                         *)
(* Names, codes and weights are left out, and so are the playlists other   *)
(* companies share.  Whether a song is available, a playlist is scheduled  *)
(* or a channel is in use is left open: such requests are refused          *)
(* (Withdraw) or not.  What a publication does to zones is in              *)
(* ZoneConfiguration.                                                      *)
(***************************************************************************)
EXTENDS Naturals, Sequences, SequencesExt, FiniteSets

CONSTANTS
    Lists,          \* playlists that exist or may be created
    Channels,       \* and channels
    Songs, Editors,
    ListLimit,      \* the limits of the company's subscription
    ChannelLimit,
    MaxItems,       \* bounds of the exploration: items of a playlist
    MaxRevision,    \* and revisions of a row
    NoRow

VARIABLES
    status,      \* of a playlist or channel, ABSENT before it exists
    revision,
    items,       \* of a playlist, PlaylistItem in the order of their positions
    versions,    \* the items of its PlaylistSnapshots
    relations,   \* of a channel, the playlists of its ChannelPlaylist rows
    issues,      \* its ChannelSnapshots
    publishing,  \* the publication that has locked a channel
    desk         \* what an editor's panel shows and how far the request made from it is

listVars == <<items, versions>>
channelVars == <<relations, issues, publishing>>
playlistsVars == <<status, revision, listVars, channelVars, desk>>

Rows == Lists \cup Channels
StatusValues == {"ABSENT", "DRAFT", "PUBLISHED", "ARCHIVED"}
ItemSeqs == UNION {[1..n -> Songs] : n \in 0..MaxItems}

\* The playlist versions a channel is made of: PlaylistSnapshot by playlist, 0 for others.
Mixes == [Lists -> Nat]
\* A version of a channel: the mix its checksum was made of, the one it has, and the
\* channel's revision with it.
Issues == [checksum : Mixes, rows : Mixes, revision : 0..MaxRevision]
NoPublication == [editor |-> NoRow, checksum |-> [p \in Lists |-> 0]]

\* What the panel shows of a row; a revision stands for it.
Drafts == [status : StatusValues, items : ItemSeqs, relations : SUBSET Lists]
PlaylistDraft(p) == [status |-> status[p], items |-> items[p], relations |-> {}]
ChannelDraft(c) == [status |-> status[c], items |-> <<>>, relations |-> relations[c]]
Draft(x) == IF x \in Lists THEN PlaylistDraft(x) ELSE ChannelDraft(x)

NoDraft == [status |-> "ABSENT", items |-> <<>>, relations |-> {}]
EmptyDesk == [row |-> NoRow, revision |-> 0, draft |-> NoDraft, admitted |-> FALSE]

ASSUME PlaylistsAssumption ==
    /\ Lists \cap Channels = {} /\ NoRow \notin Rows \cup Editors
    /\ IsFiniteSet(Lists) /\ IsFiniteSet(Channels)
    /\ ListLimit \in Nat /\ ChannelLimit \in Nat /\ MaxItems \in Nat /\ MaxRevision \in Nat \ {0}

PlaylistsTypeOK ==
    /\ status \in [Rows -> StatusValues]
    /\ revision \in [Rows -> 0..MaxRevision]
    /\ items \in [Lists -> ItemSeqs]
    /\ versions \in [Lists -> Seq(ItemSeqs)]
    /\ relations \in [Channels -> SUBSET Lists]
    /\ issues \in [Channels -> Seq(Issues)]
    /\ publishing \in [Channels -> [editor : Editors \cup {NoRow}, checksum : Mixes]]
    /\ desk \in [Editors -> [row : Rows \cup {NoRow}, revision : 0..MaxRevision,
                             draft : Drafts, admitted : BOOLEAN]]
    /\ \A p \in Lists : status[p] = "PUBLISHED" => versions[p] # <<>>

PlaylistsInit ==
    /\ status = [x \in Rows |-> "ABSENT"]
    /\ revision = [x \in Rows |-> 0]
    /\ items = [p \in Lists |-> <<>>]
    /\ versions = [p \in Lists |-> <<>>]
    /\ relations = [c \in Channels |-> {}]
    /\ issues = [c \in Channels |-> <<>>]
    /\ publishing = [c \in Channels |-> NoPublication]
    /\ desk = [e \in Editors |-> EmptyDesk]

----------------------------------------------------------------------------
(* Requests *)

Publishes(e) == \E c \in Channels : publishing[c].editor = e

\* Every row that exists can be opened, archived ones included.
Look(e, x) ==
    /\ ~desk[e].admitted /\ ~Publishes(e)
    /\ status[x] # "ABSENT"
    /\ desk' = [desk EXCEPT ![e] = [row |-> x, revision |-> revision[x],
                                    draft |-> Draft(x), admitted |-> FALSE]]
    /\ UNCHANGED <<status, revision, listVars, channelVars>>

LookPlaylist(e, p) == Look(e, p)
LookChannel(e, c) == Look(e, c)

\* A view reads the row, without locking it, and goes on if it is not archived.
Admit(e, x) ==
    /\ desk[e].row = x /\ ~desk[e].admitted /\ ~Publishes(e)
    /\ status[x] # "ARCHIVED"
    /\ desk' = [desk EXCEPT ![e].admitted = TRUE]
    /\ UNCHANGED <<status, revision, listVars, channelVars>>

\* The views of edits and of the publication of a playlist, ...
AdmitPlaylist(e, p) == Admit(e, p)
\* ... those of edits of a channel.
AdmitChannel(e, c) == Admit(e, c)

\* The request is answered or refused: the panel is closed.
Close(e) == desk' = [desk EXCEPT ![e] = EmptyDesk]

Withdraw(e) ==
    /\ desk[e].row # NoRow /\ ~Publishes(e)
    /\ Close(e)
    /\ UNCHANGED <<status, revision, listVars, channelVars>>

Locked(x) == x \in Channels /\ publishing[x] # NoPublication
Fresh(e, x) == desk[e].revision = revision[x]

\* The mistake of trusting what the view read.
Serves_AnyRevision(e, x) == desk[e].row = x /\ ~Locked(x)
\* A service on row x that compares the revision, with the row locked.
Serves(e, x) == desk[e].row = x /\ ~Locked(x) /\ Fresh(e, x)
\* One whose view refuses archived rows.
Edits(e, x) == desk[e].admitted /\ Serves(e, x)

Bump(x) ==
    /\ revision[x] < MaxRevision
    /\ revision' = [revision EXCEPT ![x] = @ + 1]
SetStatus(x, s) == status' = [status EXCEPT ![x] = s]

\* count_billable_playlists, count_billable_channels
Billable(S) == {x \in S : status[x] \notin {"ABSENT", "ARCHIVED"}}
\* The mistake of letting the one that fills the limit be followed by another.
WithinLimit_OneMore(x) ==
    /\ x \in Lists => Cardinality(Billable(Lists)) <= ListLimit
    /\ x \in Channels => Cardinality(Billable(Channels)) <= ChannelLimit
WithinLimit(x) ==
    /\ x \in Lists => Cardinality(Billable(Lists)) < ListLimit
    /\ x \in Channels => Cardinality(Billable(Channels)) < ChannelLimit

----------------------------------------------------------------------------
(* Playlists *)

\* create_playlist, create_channel: a new row, in DRAFT and with revision 1.
Insert(x) ==
    /\ status[x] = "ABSENT"
    /\ WithinLimit(x)
    /\ SetStatus(x, "DRAFT")
    /\ revision' = [revision EXCEPT ![x] = 1]

CreatePlaylist(p) ==
    /\ Insert(p)
    /\ UNCHANGED <<listVars, channelVars, desk>>

\* Name, code, description, a channel's policy: the revision alone shows.
UpdateRow(e, x) ==
    /\ Edits(e, x)
    /\ Bump(x)
    /\ Close(e)
    /\ UNCHANGED <<status, listVars, channelVars>>

UpdatePlaylistMetadata(e, p) == UpdateRow(e, p)

SetItems(e, p, new) ==
    /\ Edits(e, p)
    /\ items' = [items EXCEPT ![p] = new]
    /\ Bump(p)
    /\ Close(e)
    /\ UNCHANGED <<status, versions, channelVars>>

\* The position after the highest.
AddItem(e, p, song) ==
    /\ Len(items[p]) < MaxItems
    /\ SetItems(e, p, Append(items[p], song))

\* The serializer wants positions 1 to n, once each.
ReplaceItems(e, p, new) == SetItems(e, p, new)

\* The mistake of leaving the gap.
Without_NotCompacted(s, i) == [j \in DOMAIN s \ {i} |-> s[j]]
\* The items that follow move up.
Without(s, i) == RemoveAt(s, i)
RemoveItem(e, p, i) ==
    /\ i \in DOMAIN items[p]
    /\ SetItems(e, p, Without(items[p], i))

\* The ids sent are those of the items, in another order.
ReorderItems(e, p, order) ==
    /\ order \in [DOMAIN items[p] -> DOMAIN items[p]] /\ IsInjective(order)
    /\ SetItems(e, p, [i \in DOMAIN order |-> items[p][order[i]]])

\* Any playlist can be copied, whatever its revision; the view reads it, nothing locks it
\* until the service does.
DuplicatePlaylist(source, copy) ==
    /\ status[source] # "ABSENT"
    /\ Insert(copy)
    /\ items' = [items EXCEPT ![copy] = items[source]]
    /\ UNCHANGED <<versions, channelVars, desk>>

\* playlist_checksum is that of the items: equal when the latest version has them.
Unchanged(p) == versions[p] # <<>> /\ Last(versions[p]) = items[p]

\* A request with an old revision is answered with the latest version if that has the
\* items of the draft, and changes nothing.
AnswerPublished(e, p) ==
    /\ desk[e].row = p /\ desk[e].admitted
    /\ ~Fresh(e, p) /\ items[p] # <<>> /\ Unchanged(p)
    /\ Close(e)
    /\ UNCHANGED <<status, revision, listVars, channelVars>>

\* publish_playlist: a new version, unless the latest has the same items; a playlist that
\* is PUBLISHED with them stays as it is.
PublishPlaylist(e, p) ==
    /\ Edits(e, p)
    /\ items[p] # <<>>
    /\ versions' = IF Unchanged(p) THEN versions
                   ELSE [versions EXCEPT ![p] = Append(@, items[p])]
    /\ SetStatus(p, "PUBLISHED")
    /\ IF Unchanged(p) /\ status[p] = "PUBLISHED" THEN UNCHANGED revision ELSE Bump(p)
    /\ Close(e)
    /\ UNCHANGED <<items, channelVars>>

Archive(e, x) ==
    /\ Serves(e, x)
    /\ SetStatus(x, "ARCHIVED")
    /\ Bump(x)
    /\ Close(e)
    /\ UNCHANGED <<listVars, channelVars>>

\* Refused while a schedule block uses the playlist.
ArchivePlaylist(e, p) == Archive(e, p)

\* From any status; a row that counts already counts against itself.
Reactivate(e, x) ==
    /\ Serves(e, x)
    /\ WithinLimit(x)
    /\ SetStatus(x, "DRAFT")
    /\ Bump(x)
    /\ Close(e)
    /\ UNCHANGED <<listVars, channelVars>>

ReactivatePlaylist(e, p) == Reactivate(e, p)

----------------------------------------------------------------------------
(* Channels *)

CreateChannel(c) ==
    /\ Insert(c)
    /\ UNCHANGED <<listVars, channelVars, desk>>

\* update_channel_metadata, update_channel_policy
UpdateChannel(e, c) == UpdateRow(e, c)

\* assert_playlist_channel_available
Usable(p) == status[p] = "PUBLISHED" /\ versions[p] # <<>>

ReplaceChannelPlaylists(e, c, S) ==
    /\ Edits(e, c)
    /\ \A p \in S : Usable(p)
    /\ relations' = [relations EXCEPT ![c] = S]
    /\ Bump(c)
    /\ Close(e)
    /\ UNCHANGED <<status, listVars, issues, publishing>>

DuplicateChannel(source, copy) ==
    /\ status[source] # "ABSENT" /\ ~Locked(source)
    /\ \A p \in relations[source] : Usable(p)
    /\ Insert(copy)
    /\ relations' = [relations EXCEPT ![copy] = relations[source]]
    /\ UNCHANGED <<listVars, issues, publishing, desk>>

\* Of channel_snapshot_payload: the latest versions of the channel's playlists.
LatestMix(c) == [p \in Lists |-> IF p \in relations[c] THEN Len(versions[p]) ELSE 0]
SameMix(c) == issues[c] # <<>> /\ Last(issues[c]).checksum = LatestMix(c)

\* The checksum covers name, code, policy and weights too, which are left out here:
\* since the last version they may have changed in any revision.
MayDiffer(c) == SameMix(c) => Last(issues[c]).revision # revision[c]

Publishable(c) == status[c] # "ARCHIVED" /\ relations[c] # {} /\ \A p \in relations[c] : Usable(p)

\* publish_channel finds the checksum of the latest version; a stale request ends here.
PublishSameMix(e, c) ==
    /\ desk[e].row = c /\ ~Locked(c) /\ Publishable(c) /\ SameMix(c)
    /\ IF Fresh(e, c) /\ status[c] # "PUBLISHED"
       THEN SetStatus(c, "PUBLISHED") /\ Bump(c) ELSE UNCHANGED <<status, revision>>
    /\ Close(e)
    /\ UNCHANGED <<listVars, channelVars>>

\* It finds another, and will write it as the checksum of a new version ...
BeginPublishChannel(e, c) ==
    /\ Serves(e, c) /\ Publishable(c) /\ MayDiffer(c) /\ ~Publishes(e)
    /\ revision[c] < MaxRevision
    /\ publishing' = [publishing EXCEPT ![c] = [editor |-> e, checksum |-> LatestMix(c)]]
    /\ UNCHANGED <<status, revision, listVars, relations, issues, desk>>

\* ... whose rows are what it reads then.
FinishPublishChannel(c) ==
    /\ Locked(c)
    /\ issues' = [issues EXCEPT ![c] =
            Append(@, [checksum |-> publishing[c].checksum, rows |-> LatestMix(c),
                       revision |-> revision[c] + 1])]
    /\ publishing' = [publishing EXCEPT ![c] = NoPublication]
    /\ SetStatus(c, "PUBLISHED")
    /\ revision' = [revision EXCEPT ![c] = @ + 1]
    /\ Close(publishing[c].editor)
    /\ UNCHANGED <<listVars, relations>>

\* Refused while a zone plays the channel.
ArchiveChannel(e, c) == Archive(e, c)
ReactivateChannel(e, c) == Reactivate(e, c)

----------------------------------------------------------------------------

ListNext(p) ==
    \/ CreatePlaylist(p)
    \/ \E q \in Lists : DuplicatePlaylist(p, q)
    \/ \E e \in Editors :
        \/ \E song \in Songs : AddItem(e, p, song)
        \/ \E new \in ItemSeqs : ReplaceItems(e, p, new)
        \/ \E i \in 1..MaxItems : RemoveItem(e, p, i)
        \/ \E order \in UNION {[1..n -> 1..n] : n \in 0..MaxItems} : ReorderItems(e, p, order)
        \/ AnswerPublished(e, p) \/ PublishPlaylist(e, p)
        \/ ArchivePlaylist(e, p) \/ ReactivatePlaylist(e, p)

ChannelNext(c) ==
    \/ CreateChannel(c) \/ FinishPublishChannel(c)
    \/ \E d \in Channels : DuplicateChannel(c, d)
    \/ \E e \in Editors :
        \/ \E S \in SUBSET Lists : ReplaceChannelPlaylists(e, c, S)
        \/ PublishSameMix(e, c) \/ BeginPublishChannel(e, c)
        \/ ArchiveChannel(e, c) \/ ReactivateChannel(e, c)

PlaylistsNext ==
    \/ \E p \in Lists : ListNext(p)
    \/ \E c \in Channels : ChannelNext(c)
    \/ \E e \in Editors :
        \/ Withdraw(e)
        \/ \E p \in Lists : LookPlaylist(e, p) \/ AdmitPlaylist(e, p) \/ UpdatePlaylistMetadata(e, p)
        \/ \E c \in Channels : LookChannel(e, c) \/ AdmitChannel(e, c) \/ UpdateChannel(e, c)

PlaylistsSpec == PlaylistsInit /\ [][PlaylistsNext]_playlistsVars

----------------------------------------------------------------------------
(* Properties *)

\* No editor undoes what it has not been shown: a playlist or channel is changed only by
\* a request whose panel showed it as it is at that moment, however many requests are
\* under way (assert_expected_revision, assert_expected_channel_revision).
NoLostUpdate ==
    [][\A x \in Rows : status[x] # "ABSENT" /\ Draft(x)' # Draft(x) =>
        \E e \in Editors : /\ desk[e].row = x /\ desk[e].draft = Draft(x)
                           /\ desk'[e] = EmptyDesk]_playlistsVars

\* The company never has more playlists, or channels, out of the archive than its
\* subscription allows; publish_playlist, which tests neither the limit nor the status,
\* never takes one out of it.
ListLimitHolds ==
    /\ Cardinality(Billable(Lists)) <= ListLimit
    /\ Cardinality(Billable(Channels)) <= ChannelLimit
=============================================================================
