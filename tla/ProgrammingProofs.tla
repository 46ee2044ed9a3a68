-------------------------- MODULE ProgrammingProofs ---------------------------
(***************************************************************************)
(* What is proved of playlists and channels, of schedules, and of the two  *)
(* together, in this order.                                                *)
(***************************************************************************)
EXTENDS Programming, SequenceTheorems, FiniteSetTheorems, WellFoundedInduction, TLAPS

----------------------------------------------------------------------------
(***************************************************************************)
(* For any playlists, channels, editors and limits: no editor undoes what  *)
(* it has not been shown, and no limit is exceeded.                        *)
(*                                                                         *)
(* Both rest on what a revision says.  What the panel of an editor shows   *)
(* is what the row holds, unless the row has a higher revision             *)
(* (DeskHonest); a request that was admitted, by a view that locked        *)
(* nothing, can only be for an archived row if the row has a higher        *)
(* revision (AdmittedLive); and a channel that is being published keeps    *)
(* the revision its editor was shown (LockHeld).                           *)
(***************************************************************************)

Counts(x) == status[x] \in {"DRAFT", "PUBLISHED"}

\* A panel is never ahead of its row, and shows it as it is when the revisions agree.
DeskHonest ==
    \A e \in Editors : \A x \in Rows : desk[e].row = x =>
        /\ status[x] # "ABSENT"
        /\ desk[e].revision <= revision[x]
        /\ Fresh(e, x) => desk[e].draft = Draft(x)

AdmittedLive ==
    \A e \in Editors : \A x \in Rows :
        desk[e].row = x /\ desk[e].admitted /\ Fresh(e, x) => Counts(x)

LockHeld ==
    \A c \in Channels : \A e \in Editors : publishing[c].editor = e =>
        /\ desk[e].row = c /\ Fresh(e, c)
        /\ Counts(c) /\ revision[c] < MaxRevision

LockOwned == \A c \in Channels : Locked(c) => publishing[c].editor \in Editors

Held == DeskHonest /\ AdmittedLive /\ LockHeld /\ LockOwned

PlaylistsIInv == PlaylistsTypeOK /\ Held /\ ListLimitHolds

\* What NoLostUpdate says of a step.
ShownFirst ==
    \A x \in Rows : status[x] # "ABSENT" /\ Draft(x)' # Draft(x) =>
        \E e \in Editors : /\ desk[e].row = x /\ desk[e].draft = Draft(x)
                           /\ desk'[e] = EmptyDesk

----------------------------------------------------------------------------
(* Kinds of steps, by what they do to the rows and the panels *)

\* The types that what follows needs.
Shapes ==
    /\ status \in [Rows -> StatusValues]
    /\ revision \in [Rows -> 0..MaxRevision]
    /\ publishing \in [Channels -> [editor : Editors \cup {NoRow}, checksum : Mixes]]
    /\ desk \in [Editors -> [row : Rows \cup {NoRow}, revision : 0..MaxRevision,
                             draft : Drafts, admitted : BOOLEAN]]

LEMMA TypesHaveShapes == PlaylistsTypeOK => Shapes
BY DEF PlaylistsTypeOK, Shapes

\* Rows that keep their columns are shown as before.
LEMMA SameDraft ==
    ASSUME NEW x \in Rows, status'[x] = status[x],
           x \in Lists => items'[x] = items[x],
           x \in Channels => relations'[x] = relations[x]
    PROVE  Draft(x)' = Draft(x)
BY DEF Draft, PlaylistDraft, ChannelDraft, Rows

\* An editor whose panel shows a row that is not locked publishes nothing.
LEMMA FreeEditor ==
    ASSUME Held, Shapes, NEW e \in Editors, ~Locked(desk[e].row)
    PROVE  ~Publishes(e)
BY PlaylistsAssumption DEF Held, LockHeld, Publishes, Locked, NoPublication, Shapes

\* Nothing happens to the rows, and to the panel of one editor that publishes nothing,
\* that is honest after it.
LEMMA PanelStep ==
    ASSUME Held, Shapes, NEW e \in Editors, ~Publishes(e),
           NEW panel \in [row : Rows \cup {NoRow}, revision : 0..MaxRevision,
                          draft : Drafts, admitted : BOOLEAN],
           panel.row \in Rows =>
                /\ status[panel.row] # "ABSENT"
                /\ panel.revision <= revision[panel.row]
                /\ panel.revision = revision[panel.row] =>
                        /\ panel.draft = Draft(panel.row)
                        /\ panel.admitted => Counts(panel.row),
           desk' = [desk EXCEPT ![e] = panel],
           UNCHANGED <<status, revision, publishing>>,
           \A y \in Rows : Draft(y)' = Draft(y)
    PROVE  Held' /\ Shapes' /\ ShownFirst
<1>1. desk'[e] = panel /\ \A f \in Editors : f # e => desk'[f] = desk[f]
  BY DEF Shapes
<1>2. DeskHonest'
  BY <1>1 DEF Held, DeskHonest, Fresh
<1>3. AdmittedLive'
  BY <1>1 DEF Held, AdmittedLive, Fresh, Counts
<1>4. LockHeld' /\ LockOwned'
  BY <1>1 DEF Held, LockHeld, LockOwned, Locked, Publishes, Fresh, Counts
<1>5. Shapes'
  BY DEF Shapes
<1>6. QED
  BY <1>2, <1>3, <1>4, <1>5 DEF Held, ShownFirst

LEMMA EmptyDeskTyped ==
    /\ <<>> \in ItemSeqs
    /\ EmptyDesk \in [row : Rows \cup {NoRow}, revision : 0..MaxRevision,
                      draft : Drafts, admitted : BOOLEAN]
    /\ EmptyDesk.row = NoRow /\ NoRow \notin Rows
<1>1. <<>> \in ItemSeqs
  BY PlaylistsAssumption DEF ItemSeqs
<1>2. NoDraft \in Drafts
  BY <1>1 DEF NoDraft, Drafts, StatusValues
<1>3. QED
  BY <1>1, <1>2, PlaylistsAssumption DEF EmptyDesk

\* The panel of an editor that publishes nothing is closed, and that is all.
LEMMA ClosingStep ==
    ASSUME Held, Shapes, NEW e \in Editors, ~Publishes(e), Close(e),
           UNCHANGED <<status, revision, publishing>>,
           \A y \in Rows : Draft(y)' = Draft(y)
    PROVE  Held' /\ Shapes' /\ ShownFirst
BY EmptyDeskTyped, PanelStep DEF Close

\* A service writes the row its editor was shown, with a new revision, unlocks it and answers.
LEMMA EditStep ==
    ASSUME Held, Shapes, NEW x \in Rows, NEW e \in Editors, desk[e].row = x, Fresh(e, x), Close(e),
           NEW s \in StatusValues \ {"ABSENT"}, SetStatus(x, s), Bump(x),
           publishing' \in [Channels -> [editor : Editors \cup {NoRow}, checksum : Mixes]],
           \A c \in Channels : publishing'[c] = IF c = x THEN NoPublication ELSE publishing[c],
           \A y \in Rows : y # x => Draft(y)' = Draft(y)
    PROVE  Held' /\ Shapes' /\ ShownFirst
<1>1. /\ desk'[e] = EmptyDesk /\ \A f \in Editors : f # e => desk'[f] = desk[f]
      /\ EmptyDesk.row = NoRow /\ NoRow \notin Rows
      /\ EmptyDesk \in [row : Rows \cup {NoRow}, revision : 0..MaxRevision,
                        draft : Drafts, admitted : BOOLEAN]
  BY EmptyDeskTyped DEF Shapes, Close
<1>2. /\ status'[x] = s /\ revision'[x] = revision[x] + 1 /\ revision[x] < MaxRevision
      /\ \A y \in Rows : y # x => status'[y] = status[y] /\ revision'[y] = revision[y]
      /\ \A y \in Rows : revision[y] \in Nat
  BY PlaylistsAssumption DEF Shapes, SetStatus, Bump
<1>3. Shapes'
  <2>1. desk' \in [Editors -> [row : Rows \cup {NoRow}, revision : 0..MaxRevision,
                               draft : Drafts, admitted : BOOLEAN]]
    BY <1>1 DEF Shapes, Close
  <2>2. revision[x] + 1 \in 0..MaxRevision
    BY <1>2, PlaylistsAssumption
  <2>3. revision' \in [Rows -> 0..MaxRevision]
    BY <2>2 DEF Shapes, Bump
  <2>4. QED
    BY <2>1, <2>3 DEF Shapes, SetStatus
<1>4. \A f \in Editors : desk[f].revision \in Nat
  BY PlaylistsAssumption DEF Shapes
<1>5. DeskHonest'
  <2> SUFFICES ASSUME NEW f \in Editors, NEW y \in Rows, desk'[f].row = y
               PROVE  /\ status'[y] # "ABSENT"
                      /\ desk'[f].revision <= revision'[y]
                      /\ Fresh(f, y)' => desk'[f].draft = Draft(y)'
    BY DEF DeskHonest
  <2>1. f # e /\ desk'[f] = desk[f]
    BY <1>1
  <2>2. CASE y = x
    BY <1>2, <1>4, <2>1, <2>2 DEF Held, DeskHonest, Fresh
  <2>3. CASE y # x
    BY <1>2, <2>1, <2>3 DEF Held, DeskHonest, Fresh
  <2>4. QED
    BY <2>2, <2>3
<1>6. AdmittedLive'
  <2> SUFFICES ASSUME NEW f \in Editors, NEW y \in Rows, desk'[f].row = y, desk'[f].admitted,
                      Fresh(f, y)'
               PROVE  Counts(y)'
    BY DEF AdmittedLive
  <2>1. f # e /\ desk'[f] = desk[f]
    BY <1>1
  <2>2. y # x
    BY <1>2, <1>4, <2>1 DEF Held, DeskHonest, Fresh
  <2>3. QED
    BY <1>2, <2>1, <2>2 DEF Held, AdmittedLive, Fresh, Counts
<1>7. \A c \in Channels : \A f \in Editors :
        publishing'[c].editor = f => c # x /\ publishing[c].editor = f /\ desk'[f] = desk[f]
  BY <1>1, PlaylistsAssumption DEF Held, LockHeld, NoPublication
<1>8. LockHeld' /\ LockOwned'
  BY <1>2, <1>7 DEF Held, LockHeld, LockOwned, Locked, Fresh, Counts, Rows
<1>9. ShownFirst
  BY <1>1 DEF ShownFirst, Held, DeskHonest
<1>10. QED
  BY <1>3, <1>5, <1>6, <1>8, <1>9 DEF Held

\* A row is made.
LEMMA InsertStep ==
    ASSUME Held, Shapes, NEW x \in Rows, Insert(x), UNCHANGED <<publishing, desk>>,
           \A y \in Rows : y # x => Draft(y)' = Draft(y)
    PROVE  Held' /\ ShownFirst
<1>1. /\ status[x] = "ABSENT" /\ status'[x] = "DRAFT"
      /\ \A y \in Rows : y # x => status'[y] = status[y] /\ revision'[y] = revision[y]
  BY DEF Insert, SetStatus, Shapes
<1>2. \A e \in Editors : desk[e].row # x
  BY <1>1 DEF Held, DeskHonest
<1>3. DeskHonest' /\ AdmittedLive'
  BY <1>1, <1>2 DEF Held, DeskHonest, AdmittedLive, Fresh, Counts
<1>4. LockHeld' /\ LockOwned'
  BY <1>1, <1>2 DEF Held, LockHeld, LockOwned, Locked, Fresh, Counts, Rows
<1>5. ShownFirst
  BY <1>1 DEF ShownFirst
<1>6. QED
  BY <1>3, <1>4, <1>5 DEF Held

\* The limits hold after a row takes status s, if it counted already, or does not any more,
\* or there was room for it.
LEMMA LimitKept ==
    ASSUME Shapes, ListLimitHolds, NEW x \in Rows, NEW s \in StatusValues, SetStatus(x, s),
           s \in {"DRAFT", "PUBLISHED"} => Counts(x) \/ WithinLimit(x)
    PROVE  ListLimitHolds'
<1>1. /\ status'[x] = s /\ \A y \in Rows : y # x => status'[y] = status[y]
      /\ \A y \in Rows : status[y] \in StatusValues /\ status'[y] \in StatusValues
  BY DEF SetStatus, Shapes
<1>2. \A S \in SUBSET Rows : /\ Billable(S)' \subseteq Billable(S) \cup {x}
                             /\ x \notin S \/ Counts(x) \/ s \notin {"DRAFT", "PUBLISHED"}
                                    => Billable(S)' \subseteq Billable(S)
  BY <1>1 DEF Billable, Counts, StatusValues
<1>3. ASSUME NEW S \in SUBSET Rows, IsFiniteSet(S), NEW limit \in Nat,
             Cardinality(Billable(S)) <= limit, WithinLimit(x) /\ x \in S => Cardinality(Billable(S)) < limit
      PROVE  Cardinality(Billable(S)') <= limit
  <2>1. Billable(S) \in SUBSET S
    BY DEF Billable
  <2>2. IsFiniteSet(Billable(S)) /\ Cardinality(Billable(S)) \in Nat
    BY <1>3, <2>1, FS_Subset, FS_CardinalityType
  <2>3. CASE Billable(S)' \subseteq Billable(S)
    <3>1. IsFiniteSet(Billable(S)') /\ Cardinality(Billable(S)') <= Cardinality(Billable(S))
      BY <2>2, <2>3, FS_Subset
    <3>2. QED
      BY <1>3, <2>2, <3>1, FS_CardinalityType
  <2>4. CASE WithinLimit(x) /\ x \in S
    <3>1. /\ IsFiniteSet(Billable(S) \cup {x})
          /\ Cardinality(Billable(S) \cup {x}) <= Cardinality(Billable(S)) + 1
          /\ Cardinality(Billable(S) \cup {x}) \in Nat
      <4>1. /\ IsFiniteSet(Billable(S) \cup {x})
            /\ Cardinality(Billable(S) \cup {x}) =
                    IF x \in Billable(S) THEN Cardinality(Billable(S)) ELSE Cardinality(Billable(S)) + 1
        BY <2>2, FS_AddElement
      <4>2. QED
        BY <2>2, <4>1
    <3>2. Billable(S)' \in SUBSET (Billable(S) \cup {x})
      BY <1>2, <1>3
    <3>3. IsFiniteSet(Billable(S)') /\ Cardinality(Billable(S)') <= Cardinality(Billable(S) \cup {x})
      BY <3>1, <3>2, FS_Subset
    <3>4. Cardinality(Billable(S)') \in Nat
      BY <3>3, FS_CardinalityType
    <3>5. QED
      BY <1>3, <2>2, <2>4, <3>1, <3>3, <3>4
  <2>5. QED
    BY <1>2, <2>3, <2>4
<1>4. Cardinality(Billable(Lists)') <= ListLimit
  <2>1. Lists \in SUBSET Rows /\ (WithinLimit(x) /\ x \in Lists => Cardinality(Billable(Lists)) < ListLimit)
    BY DEF Rows, WithinLimit
  <2>2. QED
    BY <1>3, <2>1, PlaylistsAssumption DEF ListLimitHolds
<1>5. Cardinality(Billable(Channels)') <= ChannelLimit
  <2>1. /\ Channels \in SUBSET Rows
        /\ WithinLimit(x) /\ x \in Channels => Cardinality(Billable(Channels)) < ChannelLimit
    BY DEF Rows, WithinLimit
  <2>2. QED
    BY <1>3, <2>1, PlaylistsAssumption DEF ListLimitHolds
<1>6. QED
  BY <1>4, <1>5 DEF ListLimitHolds

LEMMA SameStatusSameLimit == ListLimitHolds /\ UNCHANGED status => ListLimitHolds'
BY DEF ListLimitHolds, Billable

----------------------------------------------------------------------------
(* Items *)

LEMMA ItemsAreSequences ==
    ASSUME NEW s
    PROVE  s \in ItemSeqs <=> s \in Seq(Songs) /\ Len(s) <= MaxItems
<1>1. ASSUME s \in ItemSeqs PROVE s \in Seq(Songs) /\ Len(s) <= MaxItems
  <2>1. PICK n \in 0..MaxItems : s \in [1..n -> Songs]
    BY <1>1 DEF ItemSeqs
  <2>2. QED
    BY <2>1, PlaylistsAssumption, SeqDef
<1>2. ASSUME s \in Seq(Songs), Len(s) <= MaxItems PROVE s \in ItemSeqs
  <2>1. Len(s) \in 0..MaxItems /\ s \in [1..Len(s) -> Songs]
    BY <1>2, LenProperties, PlaylistsAssumption
  <2>2. QED
    BY <2>1 DEF ItemSeqs
<1>3. QED
  BY <1>1, <1>2

LEMMA AddedItem ==
    ASSUME NEW s \in ItemSeqs, Len(s) < MaxItems, NEW song \in Songs
    PROVE  Append(s, song) \in ItemSeqs
<1>1. s \in Seq(Songs) /\ Len(s) \in Nat
  BY ItemsAreSequences, LenProperties
<1>2. Append(s, song) \in Seq(Songs) /\ Len(Append(s, song)) = Len(s) + 1
  BY <1>1, AppendProperties
<1>3. Len(Append(s, song)) <= MaxItems
  BY <1>1, <1>2, PlaylistsAssumption
<1>4. QED
  BY <1>2, <1>3, ItemsAreSequences

LEMMA RemovedItem ==
    ASSUME NEW s \in ItemSeqs, NEW i \in DOMAIN s
    PROVE  Without(s, i) \in ItemSeqs
<1> DEFINE head == SubSeq(s, 1, i - 1)
           tail == SubSeq(s, i + 1, Len(s))
<1>1. /\ s \in Seq(Songs) /\ Len(s) \in Nat /\ i \in 1..Len(s) /\ Len(s) <= MaxItems
      /\ \A j \in 1..Len(s) : s[j] \in Songs
  BY ItemsAreSequences, LenProperties, ElementOfSeq
<1>2. head \in Seq(Songs) /\ Len(head) = i - 1
  <2>1. 1 \in Int /\ i - 1 \in Int /\ \A j \in 1..(i - 1) : s[j] \in Songs
    BY <1>1
  <2>2. Len(head) = IF 1 <= i - 1 THEN (i - 1) - 1 + 1 ELSE 0
    BY <2>1, SubSeqProperties
  <2>3. QED
    BY <1>1, <2>1, <2>2, SubSeqProperties
<1>3. tail \in Seq(Songs) /\ Len(tail) = Len(s) - i
  <2>1. i + 1 \in Int /\ Len(s) \in Int /\ \A j \in (i + 1)..Len(s) : s[j] \in Songs
    BY <1>1
  <2>2. Len(tail) = IF i + 1 <= Len(s) THEN Len(s) - (i + 1) + 1 ELSE 0
    BY <2>1, SubSeqProperties
  <2>3. QED
    BY <1>1, <2>1, <2>2, SubSeqProperties
<1> HIDE DEF head, tail
<1>4. head \o tail \in Seq(Songs) /\ Len(head \o tail) = Len(head) + Len(tail)
  BY <1>2, <1>3, ConcatProperties
<1>5. Len(head \o tail) <= MaxItems
  BY <1>1, <1>2, <1>3, <1>4, PlaylistsAssumption
<1>6. QED
  BY <1>4, <1>5, ItemsAreSequences DEF Without, RemoveAt, head, tail

LEMMA ReorderedItems ==
    ASSUME NEW s \in ItemSeqs, NEW order \in [DOMAIN s -> DOMAIN s]
    PROVE  [i \in DOMAIN order |-> s[order[i]]] \in ItemSeqs
<1>1. PICK n \in 0..MaxItems : s \in [1..n -> Songs]
  BY DEF ItemSeqs
<1>2. [i \in DOMAIN order |-> s[order[i]]] \in [1..n -> Songs]
  BY <1>1
<1>3. QED
  BY <1>2 DEF ItemSeqs

----------------------------------------------------------------------------
(* Steps *)

\* What the rest of PlaylistsTypeOK says.
Columns ==
    /\ items \in [Lists -> ItemSeqs]
    /\ versions \in [Lists -> Seq(ItemSeqs)]
    /\ relations \in [Channels -> SUBSET Lists]
    /\ issues \in [Channels -> Seq(Issues)]
    /\ \A p \in Lists : status[p] = "PUBLISHED" => versions[p] # <<>>

LEMMA TypeParts == /\ PlaylistsTypeOK <=> Shapes /\ Columns
                   /\ PlaylistsTypeOK' <=> Shapes' /\ Columns'
BY DEF PlaylistsTypeOK, Shapes, Columns

\* What is to be shown of every step.
Kept == PlaylistsIInv' /\ ShownFirst

LEMMA Panels ==
    ASSUME PlaylistsIInv, NEW e \in Editors, NEW x \in Rows, Look(e, x) \/ Admit(e, x)
    PROVE  Kept
<1>1. Shapes /\ Held /\ Columns
  BY TypeParts DEF PlaylistsIInv
<1>2. UNCHANGED <<status, revision, listVars, channelVars>> /\ ~Publishes(e)
  BY DEF Look, Admit
<1>3. \A y \in Rows : Draft(y)' = Draft(y)
  BY <1>2, SameDraft DEF listVars, channelVars
<1>4. CASE Look(e, x)
  <2> DEFINE panel == [row |-> x, revision |-> revision[x], draft |-> Draft(x), admitted |-> FALSE]
  <2>1. Draft(x) \in Drafts
    <3>1. x \in Lists => PlaylistDraft(x) \in Drafts
      BY <1>1 DEF PlaylistDraft, Drafts, Shapes, Columns
    <3>2. x \in Channels => ChannelDraft(x) \in Drafts
      BY <1>1, EmptyDeskTyped, PlaylistsAssumption DEF Rows, ChannelDraft, Drafts, Shapes, Columns
    <3>3. QED
      BY <3>1, <3>2 DEF Draft, Rows
  <2>2. panel \in [row : Rows \cup {NoRow}, revision : 0..MaxRevision, draft : Drafts, admitted : BOOLEAN]
    BY <1>1, <2>1 DEF Shapes
  <2>3. /\ status[x] # "ABSENT" /\ desk' = [desk EXCEPT ![e] = panel]
        /\ UNCHANGED <<status, revision, publishing>>
    BY <1>4 DEF Look, channelVars
  <2>4. revision[x] <= revision[x]
    BY <1>1, PlaylistsAssumption DEF Shapes
  <2>5. Held' /\ Shapes' /\ ShownFirst
    BY <1>1, <1>2, <1>3, <2>2, <2>3, <2>4, PanelStep
  <2>6. QED
    BY <1>1, <1>2, <2>5, TypeParts, SameStatusSameLimit DEF Kept, PlaylistsIInv, Columns, listVars, channelVars
<1>5. CASE Admit(e, x)
  <2> DEFINE panel == [desk[e] EXCEPT !.admitted = TRUE]
  <2>1. /\ panel \in [row : Rows \cup {NoRow}, revision : 0..MaxRevision, draft : Drafts, admitted : BOOLEAN]
        /\ panel.row = desk[e].row /\ panel.revision = desk[e].revision /\ panel.draft = desk[e].draft
    BY <1>1 DEF Shapes
  <2>2. /\ status[x] # "ARCHIVED" /\ desk[e].row = x /\ desk' = [desk EXCEPT ![e] = panel]
        /\ UNCHANGED <<status, revision, publishing>>
    BY <1>5 DEF Admit, channelVars
  <2>3. /\ status[x] # "ABSENT" /\ desk[e].revision <= revision[x]
        /\ desk[e].revision = revision[x] => desk[e].draft = Draft(x)
    BY <1>1, <2>2 DEF Held, DeskHonest, Fresh
  <2>4. Counts(x)
    BY <1>1, <2>2, <2>3 DEF Shapes, StatusValues, Counts
  <2>5. Held' /\ Shapes' /\ ShownFirst
    <3> HIDE DEF panel
    <3>1. QED
      BY <1>1, <1>2, <1>3, <2>1, <2>2, <2>3, <2>4, PanelStep
  <2>6. QED
    BY <1>1, <1>2, <2>5, TypeParts, SameStatusSameLimit DEF Kept, PlaylistsIInv, Columns, listVars, channelVars
<1>6. QED
  BY <1>4, <1>5

\* A panel is closed, and nothing else is done.
LEMMA Answers ==
    ASSUME PlaylistsIInv, NEW e \in Editors, Close(e), ~Publishes(e),
           UNCHANGED <<status, revision, listVars, channelVars>>
    PROVE  Kept
<1>1. Shapes /\ Held /\ Columns
  BY TypeParts DEF PlaylistsIInv
<1>2. \A y \in Rows : Draft(y)' = Draft(y)
  BY SameDraft DEF listVars, channelVars
<1>3. Held' /\ Shapes' /\ ShownFirst
  BY <1>1, <1>2, ClosingStep DEF channelVars
<1>4. QED
  BY <1>1, <1>3, TypeParts, SameStatusSameLimit DEF Kept, PlaylistsIInv, Columns, listVars, channelVars

\* A service that locks its row writes it.
LEMMA Edit ==
    ASSUME PlaylistsIInv, NEW x \in Rows, NEW e \in Editors, Serves(e, x), Close(e),
           NEW s \in StatusValues \ {"ABSENT"}, SetStatus(x, s), Bump(x),
           s \in {"DRAFT", "PUBLISHED"} => Counts(x) \/ WithinLimit(x),
           UNCHANGED publishing, Columns',
           \A p \in Lists : p # x => items'[p] = items[p],
           \A c \in Channels : c # x => relations'[c] = relations[c]
    PROVE  Kept
<1>1. Shapes /\ Held
  BY TypeParts DEF PlaylistsIInv
<1>2. \A y \in Rows : y # x => status'[y] = status[y]
  BY DEF SetStatus
<1>3. \A y \in Rows : y # x => Draft(y)' = Draft(y)
  BY <1>2, SameDraft
<1>4. /\ desk[e].row = x /\ Fresh(e, x)
      /\ \A c \in Channels : publishing'[c] = IF c = x THEN NoPublication ELSE publishing[c]
      /\ publishing' \in [Channels -> [editor : Editors \cup {NoRow}, checksum : Mixes]]
  BY <1>1 DEF Serves, Locked, Shapes
<1>5. Held' /\ Shapes' /\ ShownFirst
  BY <1>1, <1>3, <1>4, EditStep
<1>6. ListLimitHolds'
  BY <1>1, LimitKept DEF PlaylistsIInv
<1>7. QED
  BY <1>5, <1>6, TypeParts DEF Kept, PlaylistsIInv

\* An edit that its view admitted finds its row out of the archive.
LEMMA EditedCounts ==
    ASSUME PlaylistsIInv, NEW x \in Rows, NEW e \in Editors, Edits(e, x)
    PROVE  Counts(x) /\ Serves(e, x)
BY DEF PlaylistsIInv, Held, AdmittedLive, Edits, Serves

\* A row is made, perhaps as a copy of another.
LEMMA Creation ==
    ASSUME PlaylistsIInv, NEW x \in Rows, Insert(x), UNCHANGED <<publishing, desk>>, Columns',
           \A p \in Lists : p # x => items'[p] = items[p],
           \A c \in Channels : c # x => relations'[c] = relations[c]
    PROVE  Kept
<1>1. Shapes /\ Held
  BY TypeParts DEF PlaylistsIInv
<1>2. \A y \in Rows : y # x => status'[y] = status[y]
  BY DEF Insert, SetStatus
<1>3. \A y \in Rows : y # x => Draft(y)' = Draft(y)
  BY <1>2, SameDraft
<1>4. Held' /\ ShownFirst
  BY <1>1, <1>3, InsertStep
<1>5. Shapes'
  BY <1>1, PlaylistsAssumption DEF Shapes, Insert, SetStatus, StatusValues
<1>6. ListLimitHolds'
  BY <1>1, LimitKept DEF PlaylistsIInv, Insert, StatusValues
<1>7. QED
  BY <1>4, <1>5, <1>6, TypeParts DEF Kept, PlaylistsIInv

\* The columns keep their types when a row takes status s without a new version.
LEMMA ColumnsAfter ==
    ASSUME Columns, Shapes, NEW x \in Rows, NEW s, SetStatus(x, s),
           s = "PUBLISHED" => x \in Channels \/ status[x] = "PUBLISHED",
           UNCHANGED versions,
           items' \in [Lists -> ItemSeqs],
           relations' \in [Channels -> SUBSET Lists],
           issues' \in [Channels -> Seq(Issues)]
    PROVE  Columns'
<1>1. \A p \in Lists : status'[p] = "PUBLISHED" => status[p] = "PUBLISHED"
  BY PlaylistsAssumption DEF SetStatus, Shapes, Rows
<1>2. QED
  BY <1>1 DEF Columns

\* An edit of items, of a channel's playlists, or of neither: the status stays.
LEMMA EditOfContents ==
    ASSUME PlaylistsIInv, NEW x \in Rows, NEW e \in Editors, Edits(e, x), Bump(x), Close(e),
           UNCHANGED <<status, versions, issues, publishing>>,
           items' \in [Lists -> ItemSeqs], relations' \in [Channels -> SUBSET Lists],
           \A p \in Lists : p # x => items'[p] = items[p],
           \A c \in Channels : c # x => relations'[c] = relations[c]
    PROVE  Kept
<1>1. Shapes /\ Columns
  BY TypeParts DEF PlaylistsIInv
<1>2. Counts(x) /\ Serves(e, x)
  BY EditedCounts
<1>3. SetStatus(x, status[x]) /\ status[x] \in StatusValues \ {"ABSENT"}
  BY <1>1, <1>2 DEF SetStatus, Shapes, Counts, StatusValues
<1>4. Columns'
  BY <1>1 DEF Columns
<1>5. QED
  BY <1>2, <1>3, <1>4, Edit

LEMMA ContentsStep ==
    ASSUME PlaylistsIInv, NEW e \in Editors,
           \/ \E x \in Rows : UpdateRow(e, x)
           \/ \E p \in Lists : \E new \in ItemSeqs : SetItems(e, p, new)
           \/ \E c \in Channels : \E S \in SUBSET Lists : ReplaceChannelPlaylists(e, c, S)
    PROVE  Kept
<1>1. Columns
  BY TypeParts DEF PlaylistsIInv
<1>2. ASSUME NEW x \in Rows, UpdateRow(e, x) PROVE Kept
  BY <1>1, <1>2, EditOfContents DEF UpdateRow, Columns, listVars, channelVars
<1>3. ASSUME NEW p \in Lists, NEW new \in ItemSeqs, SetItems(e, p, new) PROVE Kept
  <2>1. /\ items' \in [Lists -> ItemSeqs] /\ \A q \in Lists : q # p => items'[q] = items[q]
        /\ UNCHANGED <<status, versions, relations, issues, publishing>>
        /\ Edits(e, p) /\ Bump(p) /\ Close(e) /\ p \in Rows
    BY <1>1, <1>3 DEF SetItems, Columns, channelVars, Rows
  <2>2. QED
    BY <1>1, <2>1, EditOfContents DEF Columns
<1>4. ASSUME NEW c \in Channels, NEW S \in SUBSET Lists, ReplaceChannelPlaylists(e, c, S) PROVE Kept
  <2>1. /\ relations' \in [Channels -> SUBSET Lists]
        /\ \A d \in Channels : d # c => relations'[d] = relations[d]
        /\ UNCHANGED <<status, items, versions, issues, publishing>>
        /\ Edits(e, c) /\ Bump(c) /\ Close(e) /\ c \in Rows
    BY <1>1, <1>4 DEF ReplaceChannelPlaylists, Columns, listVars, Rows
  <2>2. QED
    BY <1>1, <2>1, EditOfContents DEF Columns
<1>5. QED
  BY <1>2, <1>3, <1>4

LEMMA ItemEdits ==
    ASSUME PlaylistsIInv, NEW e \in Editors, NEW p \in Lists,
           \/ \E song \in Songs : AddItem(e, p, song)
           \/ \E new \in ItemSeqs : ReplaceItems(e, p, new)
           \/ \E i \in 1..MaxItems : RemoveItem(e, p, i)
           \/ \E order \in UNION {[1..n -> 1..n] : n \in 0..MaxItems} : ReorderItems(e, p, order)
    PROVE  Kept
<1>1. items[p] \in ItemSeqs
  BY TypeParts DEF PlaylistsIInv, Columns
<1>2. \E new \in ItemSeqs : SetItems(e, p, new)
  BY <1>1, AddedItem, RemovedItem, ReorderedItems DEF AddItem, ReplaceItems, RemoveItem, ReorderItems
<1>3. QED
  BY <1>2, ContentsStep

LEMMA Publication ==
    ASSUME PlaylistsIInv, NEW e \in Editors, NEW p \in Lists, PublishPlaylist(e, p)
    PROVE  Kept
<1>1. Shapes /\ Columns /\ Held /\ p \in Rows
  BY TypeParts DEF PlaylistsIInv, Rows
<1>2. Counts(p) /\ Serves(e, p)
  BY EditedCounts, <1>1 DEF PublishPlaylist
<1>3. /\ SetStatus(p, "PUBLISHED") /\ Close(e) /\ UNCHANGED <<items, relations, issues, publishing>>
      /\ versions' = IF Unchanged(p) THEN versions ELSE [versions EXCEPT ![p] = Append(@, items[p])]
  BY DEF PublishPlaylist, channelVars
<1>4. versions' \in [Lists -> Seq(ItemSeqs)] /\ versions'[p] # <<>>
      /\ \A q \in Lists : q # p => versions'[q] = versions[q]
  <2>1. Append(versions[p], items[p]) \in Seq(ItemSeqs) /\ Append(versions[p], items[p]) # <<>>
    BY <1>1, AppendProperties DEF Columns
  <2>2. QED
    BY <1>1, <1>3, <2>1 DEF Columns, Unchanged
<1>5. Columns'
  <2>1. \A q \in Lists : q # p => status'[q] = status[q]
    BY <1>3 DEF SetStatus
  <2>2. QED
    BY <1>1, <1>3, <1>4, <2>1 DEF Columns
<1>6. CASE Bump(p)
  BY <1>1, <1>2, <1>3, <1>5, <1>6, Edit DEF StatusValues
<1>7. CASE Unchanged(p) /\ status[p] = "PUBLISHED" /\ UNCHANGED revision
  <2>1. UNCHANGED <<status, revision, listVars, channelVars>>
    BY <1>1, <1>3, <1>7 DEF SetStatus, Shapes, listVars, channelVars
  <2>2. ~Publishes(e)
    BY <1>1, <1>2, FreeEditor DEF Serves
  <2>3. QED
    BY <1>3, <2>1, <2>2, Answers
<1>8. QED
  BY <1>6, <1>7 DEF PublishPlaylist

LEMMA InAndOutOfTheArchive ==
    ASSUME PlaylistsIInv, NEW e \in Editors, NEW x \in Rows, Archive(e, x) \/ Reactivate(e, x)
    PROVE  Kept
<1>1. Shapes /\ Columns
  BY TypeParts DEF PlaylistsIInv
<1>2. ASSUME NEW s \in {"DRAFT", "ARCHIVED"}, SetStatus(x, s), s = "DRAFT" => WithinLimit(x),
             Serves(e, x), Bump(x), Close(e), UNCHANGED <<listVars, channelVars>>
      PROVE  Kept
  <2>1. Columns'
    BY <1>1, <1>2, ColumnsAfter DEF Columns, listVars, channelVars
  <2>2. QED
    BY <1>2, <2>1, Edit DEF StatusValues, listVars, channelVars
<1>3. CASE Archive(e, x)
  BY <1>2, <1>3 DEF Archive
<1>4. CASE Reactivate(e, x)
  BY <1>2, <1>4 DEF Reactivate
<1>5. QED
  BY <1>3, <1>4

LEMMA Creations ==
    ASSUME PlaylistsIInv,
           \/ \E p \in Lists : CreatePlaylist(p) \/ \E q \in Lists : DuplicatePlaylist(p, q)
           \/ \E c \in Channels : CreateChannel(c) \/ \E d \in Channels : DuplicateChannel(c, d)
    PROVE  Kept
<1>1. Shapes /\ Columns /\ Lists \subseteq Rows /\ Channels \subseteq Rows
  BY TypeParts DEF PlaylistsIInv, Rows
<1>2. \A x : Insert(x) => SetStatus(x, "DRAFT")
  BY DEF Insert
<1>3. ASSUME NEW p \in Lists, CreatePlaylist(p) PROVE Kept
  <2>1. Columns'
    BY <1>1, <1>2, <1>3, ColumnsAfter DEF CreatePlaylist, Columns, listVars, channelVars
  <2>2. QED
    BY <1>1, <1>3, <2>1, Creation DEF CreatePlaylist, listVars, channelVars
<1>4. ASSUME NEW p \in Lists, NEW q \in Lists, DuplicatePlaylist(p, q) PROVE Kept
  <2>1. items' \in [Lists -> ItemSeqs] /\ \A y \in Lists : y # q => items'[y] = items[y]
    BY <1>1, <1>4 DEF DuplicatePlaylist, Columns
  <2>2. Columns'
    BY <1>1, <1>2, <1>4, <2>1, ColumnsAfter DEF DuplicatePlaylist, Columns, channelVars
  <2>3. QED
    BY <1>1, <1>4, <2>1, <2>2, Creation DEF DuplicatePlaylist, channelVars
<1>5. ASSUME NEW c \in Channels, CreateChannel(c) PROVE Kept
  <2>1. Columns'
    BY <1>1, <1>2, <1>5, ColumnsAfter DEF CreateChannel, Columns, listVars, channelVars
  <2>2. QED
    BY <1>1, <1>5, <2>1, Creation DEF CreateChannel, listVars, channelVars
<1>6. ASSUME NEW c \in Channels, NEW d \in Channels, DuplicateChannel(c, d) PROVE Kept
  <2>1. /\ relations' \in [Channels -> SUBSET Lists]
        /\ \A y \in Channels : y # d => relations'[y] = relations[y]
    BY <1>1, <1>6 DEF DuplicateChannel, Columns
  <2>2. Columns'
    BY <1>1, <1>2, <1>6, <2>1, ColumnsAfter DEF DuplicateChannel, Columns, listVars
  <2>3. QED
    BY <1>1, <1>6, <2>1, <2>2, Creation DEF DuplicateChannel, listVars
<1>7. QED
  BY <1>3, <1>4, <1>5, <1>6

LEMMA MixTyped ==
    ASSUME Columns, NEW c \in Channels PROVE LatestMix(c) \in Mixes
<1>1. \A p \in Lists : Len(versions[p]) \in Nat
  BY LenProperties DEF Columns
<1>2. QED
  BY <1>1 DEF LatestMix, Mixes

LEMMA ChannelPublication ==
    ASSUME PlaylistsIInv, NEW c \in Channels,
           FinishPublishChannel(c) \/ \E e \in Editors : PublishSameMix(e, c) \/ BeginPublishChannel(e, c)
    PROVE  Kept
<1>1. Shapes /\ Columns /\ Held /\ c \in Rows
  BY TypeParts DEF PlaylistsIInv, Rows
<1>2. ASSUME NEW e \in Editors, PublishSameMix(e, c) PROVE Kept
  <2>1. desk[e].row = c /\ ~Locked(c) /\ Close(e) /\ UNCHANGED <<listVars, channelVars>>
    BY <1>2 DEF PublishSameMix
  <2>2. CASE Fresh(e, c) /\ SetStatus(c, "PUBLISHED") /\ Bump(c)
    <3>1. Counts(c)
      BY <1>1, <1>2, <2>1 DEF PublishSameMix, Publishable, Held, DeskHonest, Shapes, StatusValues, Counts
    <3>2. Columns'
      BY <1>1, <2>1, <2>2, ColumnsAfter DEF Columns, listVars, channelVars
    <3>3. QED
      BY <1>1, <2>1, <2>2, <3>1, <3>2, Edit DEF Serves, StatusValues, listVars, channelVars
  <2>3. CASE UNCHANGED <<status, revision>>
    BY <1>1, <2>1, <2>3, FreeEditor, Answers
  <2>4. QED
    BY <1>2, <2>2, <2>3 DEF PublishSameMix
<1>3. ASSUME NEW e \in Editors, BeginPublishChannel(e, c) PROVE Kept
  <2> DEFINE work == [editor |-> e, checksum |-> LatestMix(c)]
  <2>1. /\ Serves(e, c) /\ Publishable(c) /\ ~Publishes(e) /\ revision[c] < MaxRevision
        /\ publishing' = [publishing EXCEPT ![c] = work]
        /\ UNCHANGED <<status, revision, listVars, relations, issues, desk>>
    BY <1>3 DEF BeginPublishChannel
  <2>2. work \in [editor : Editors \cup {NoRow}, checksum : Mixes] /\ work.editor = e
    BY <1>1, MixTyped
  <2>3. /\ publishing'[c] = work /\ \A d \in Channels : d # c => publishing'[d] = publishing[d]
        /\ publishing' \in [Channels -> [editor : Editors \cup {NoRow}, checksum : Mixes]]
    BY <1>1, <2>1, <2>2 DEF Shapes
  <2>4. Counts(c) /\ desk[e].row = c /\ Fresh(e, c)
    BY <1>1, <2>1 DEF Serves, Publishable, Held, DeskHonest, Shapes, StatusValues, Counts
  <2> HIDE DEF work
  <2>5. \A y \in Rows : Draft(y)' = Draft(y)
    BY <2>1, SameDraft DEF listVars
  <2>6. DeskHonest' /\ AdmittedLive'
    BY <1>1, <2>1, <2>5 DEF Held, DeskHonest, AdmittedLive, Fresh, Counts
  <2>7. LockHeld' /\ LockOwned'
    BY <1>1, <2>1, <2>2, <2>3, <2>4 DEF Held, LockHeld, LockOwned, Locked, Fresh, Counts
  <2>8. Shapes' /\ Columns' /\ ListLimitHolds'
    BY <1>1, <2>1, <2>3, SameStatusSameLimit DEF Shapes, Columns, listVars, PlaylistsIInv
  <2>9. QED
    BY <2>5, <2>6, <2>7, <2>8, TypeParts DEF Kept, PlaylistsIInv, Held, ShownFirst
<1>4. ASSUME FinishPublishChannel(c) PROVE Kept
  <2> DEFINE e == publishing[c].editor
             issue == [checksum |-> publishing[c].checksum, rows |-> LatestMix(c),
                       revision |-> revision[c] + 1]
  <2>1. /\ Locked(c) /\ SetStatus(c, "PUBLISHED") /\ Close(e) /\ UNCHANGED <<items, versions, relations>>
        /\ issues' = [issues EXCEPT ![c] = Append(@, issue)]
        /\ publishing' = [publishing EXCEPT ![c] = NoPublication]
        /\ revision' = [revision EXCEPT ![c] = @ + 1]
    BY <1>4 DEF FinishPublishChannel, listVars
  <2>2. e \in Editors /\ desk[e].row = c /\ Fresh(e, c) /\ Counts(c) /\ Bump(c)
    BY <1>1, <2>1 DEF Held, LockOwned, LockHeld, Bump
  <2>3. NoPublication \in [editor : Editors \cup {NoRow}, checksum : Mixes]
    BY DEF NoPublication, Mixes
  <2>4. /\ publishing' \in [Channels -> [editor : Editors \cup {NoRow}, checksum : Mixes]]
        /\ \A d \in Channels : publishing'[d] = IF d = c THEN NoPublication ELSE publishing[d]
    BY <1>1, <2>1, <2>3 DEF Shapes
  <2>5. \A y \in Rows : y # c => Draft(y)' = Draft(y)
    BY <2>1, SameDraft DEF SetStatus
  <2>6. issue \in Issues
    <3>1. revision[c] + 1 \in 0..MaxRevision
      BY <1>1, <2>2, PlaylistsAssumption DEF Shapes, Bump
    <3>2. QED
      BY <1>1, <3>1, MixTyped DEF Shapes, Issues
  <2> HIDE DEF e, issue
  <2>7. Append(issues[c], issue) \in Seq(Issues)
    BY <1>1, <2>6, AppendProperties DEF Columns
  <2>8. issues' \in [Channels -> Seq(Issues)]
    BY <1>1, <2>1, <2>7 DEF Columns
  <2>9. Columns'
    BY <1>1, <2>1, <2>8, ColumnsAfter DEF Columns
  <2>10. Held' /\ Shapes' /\ ShownFirst
    BY <1>1, <2>1, <2>2, <2>4, <2>5, EditStep DEF StatusValues
  <2>11. ListLimitHolds'
    BY <1>1, <2>1, <2>2, LimitKept DEF PlaylistsIInv, StatusValues
  <2>12. QED
    BY <2>9, <2>10, <2>11, TypeParts DEF Kept, PlaylistsIInv
<1>5. QED
  BY <1>2, <1>3, <1>4

LEMMA Withdrawal ==
    ASSUME PlaylistsIInv, NEW e \in Editors, Withdraw(e) \/ \E p \in Lists : AnswerPublished(e, p)
    PROVE  Kept
<1>1. Shapes /\ Held
  BY TypeParts DEF PlaylistsIInv
<1>2. ASSUME NEW p \in Lists, AnswerPublished(e, p) PROVE ~Locked(desk[e].row)
  BY <1>2, PlaylistsAssumption DEF AnswerPublished, Locked
<1>3. ~Publishes(e) /\ Close(e) /\ UNCHANGED <<status, revision, listVars, channelVars>>
  BY <1>1, <1>2, FreeEditor DEF Withdraw, AnswerPublished
<1>4. QED
  BY <1>3, Answers

----------------------------------------------------------------------------
(* The invariant *)

LEMMA PlaylistsInitInvariant == PlaylistsInit => PlaylistsIInv
<1> SUFFICES ASSUME PlaylistsInit PROVE PlaylistsIInv
  OBVIOUS
<1>1. <<>> \in ItemSeqs /\ \A S : <<>> \in Seq(S)
  BY EmptyDeskTyped, EmptySeq
<1>2. NoPublication \in [editor : Editors \cup {NoRow}, checksum : Mixes]
  BY DEF NoPublication, Mixes
<1>3. Shapes
  BY <1>2, EmptyDeskTyped, PlaylistsAssumption DEF PlaylistsInit, Shapes, StatusValues
<1>4. Columns
  BY <1>1, PlaylistsAssumption DEF PlaylistsInit, Columns, Rows
<1>5. Held
  BY EmptyDeskTyped, PlaylistsAssumption
  DEF PlaylistsInit, Held, DeskHonest, AdmittedLive, LockHeld, LockOwned, Locked, NoPublication
<1>6. ListLimitHolds
  <2>1. Billable(Lists) = {} /\ Billable(Channels) = {}
    BY DEF PlaylistsInit, Billable, Rows
  <2>2. QED
    BY <2>1, FS_EmptySet, PlaylistsAssumption DEF ListLimitHolds
<1>7. QED
  BY <1>3, <1>4, <1>5, <1>6, TypeParts DEF PlaylistsIInv

LEMMA StepKeeps == PlaylistsIInv /\ PlaylistsNext => Kept
<1> SUFFICES ASSUME PlaylistsIInv, PlaylistsNext PROVE Kept
  OBVIOUS
<1>1. Lists \subseteq Rows /\ Channels \subseteq Rows
  BY DEF Rows
<1>2. ASSUME NEW p \in Lists, ListNext(p) PROVE Kept
  <2>1. ASSUME NEW e \in Editors,
               \/ \E song \in Songs : AddItem(e, p, song)
               \/ \E new \in ItemSeqs : ReplaceItems(e, p, new)
               \/ \E i \in 1..MaxItems : RemoveItem(e, p, i)
               \/ \E order \in UNION {[1..n -> 1..n] : n \in 0..MaxItems} : ReorderItems(e, p, order)
        PROVE  Kept
    BY <2>1, ItemEdits
  <2>2. ASSUME NEW e \in Editors,
               \/ AnswerPublished(e, p) \/ PublishPlaylist(e, p)
               \/ ArchivePlaylist(e, p) \/ ReactivatePlaylist(e, p)
        PROVE  Kept
    BY <1>1, <2>2, Withdrawal, Publication, InAndOutOfTheArchive DEF ArchivePlaylist, ReactivatePlaylist
  <2>3. CASE CreatePlaylist(p) \/ \E q \in Lists : DuplicatePlaylist(p, q)
    BY <2>3, Creations
  <2>4. QED
    BY <1>2, <2>1, <2>2, <2>3 DEF ListNext
<1>3. ASSUME NEW c \in Channels, ChannelNext(c) PROVE Kept
  <2>1. ASSUME NEW e \in Editors,
               \/ \E S \in SUBSET Lists : ReplaceChannelPlaylists(e, c, S)
               \/ ArchiveChannel(e, c) \/ ReactivateChannel(e, c)
        PROVE  Kept
    BY <1>1, <2>1, ContentsStep, InAndOutOfTheArchive DEF ArchiveChannel, ReactivateChannel
  <2>2. CASE FinishPublishChannel(c) \/ \E e \in Editors : PublishSameMix(e, c) \/ BeginPublishChannel(e, c)
    BY <2>2, ChannelPublication
  <2>3. CASE CreateChannel(c) \/ \E d \in Channels : DuplicateChannel(c, d)
    BY <2>3, Creations
  <2>4. QED
    BY <1>3, <2>1, <2>2, <2>3 DEF ChannelNext
<1>4. ASSUME NEW e \in Editors,
             \/ Withdraw(e)
             \/ \E p \in Lists : LookPlaylist(e, p) \/ AdmitPlaylist(e, p) \/ UpdatePlaylistMetadata(e, p)
             \/ \E c \in Channels : LookChannel(e, c) \/ AdmitChannel(e, c) \/ UpdateChannel(e, c)
      PROVE  Kept
  BY <1>1, <1>4, Withdrawal, Panels, ContentsStep
  DEF LookPlaylist, AdmitPlaylist, UpdatePlaylistMetadata, LookChannel, AdmitChannel, UpdateChannel
<1>5. QED
  BY <1>2, <1>3, <1>4 DEF PlaylistsNext

LEMMA PlaylistsNextInvariant == PlaylistsIInv /\ [PlaylistsNext]_playlistsVars => PlaylistsIInv' /\ [ShownFirst]_playlistsVars
<1> SUFFICES ASSUME PlaylistsIInv, [PlaylistsNext]_playlistsVars PROVE PlaylistsIInv' /\ [ShownFirst]_playlistsVars
  OBVIOUS
<1>1. CASE PlaylistsNext
  BY <1>1, StepKeeps DEF Kept
<1>2. CASE UNCHANGED playlistsVars
  <2>1. \A y \in Rows : Draft(y)' = Draft(y)
    BY <1>2, SameDraft DEF playlistsVars, listVars, channelVars
  <2>2. PlaylistsTypeOK' /\ ListLimitHolds'
    BY <1>2, SameStatusSameLimit DEF playlistsVars, listVars, channelVars, PlaylistsTypeOK, PlaylistsIInv
  <2>3. Held'
    BY <1>2, <2>1 DEF playlistsVars, channelVars, PlaylistsIInv, Held, DeskHonest, AdmittedLive, LockHeld,
                      LockOwned, Locked, Fresh, Counts
  <2>4. QED
    BY <1>2, <2>2, <2>3 DEF PlaylistsIInv
<1>3. QED
  BY <1>1, <1>2

----------------------------------------------------------------------------
(* The theorems *)

\* Panels are honest, admitted requests of the revision of the row are for live rows, and
\* locked channels wait.
THEOREM PlaylistsInvariant == PlaylistsSpec => []PlaylistsIInv
BY PlaylistsInitInvariant, PlaylistsNextInvariant, PTL DEF PlaylistsSpec

\* Every column keeps its type, and what is PUBLISHED has a version (apps/playlists/models.py).
THEOREM PlaylistsTypeCorrect == PlaylistsSpec => []PlaylistsTypeOK
<1>1. PlaylistsIInv => PlaylistsTypeOK
  BY DEF PlaylistsIInv
<1>2. QED
  BY <1>1, PlaylistsInvariant, PTL

\* Neither creations, nor copies, nor reactivations, nor publications of what was archived
\* in the meantime exceed the limits of the subscription (count_billable_playlists).
THEOREM LimitsHold == PlaylistsSpec => []ListLimitHolds
<1>1. PlaylistsIInv => ListLimitHolds
  BY DEF PlaylistsIInv
<1>2. QED
  BY <1>1, PlaylistsInvariant, PTL

\* However requests interleave, what changes a playlist or channel was shown it as it is
\* (assert_expected_revision).
THEOREM NothingIsLost == PlaylistsSpec => NoLostUpdate
<1>1. NoLostUpdate <=> [][ShownFirst]_playlistsVars
  BY PTL DEF NoLostUpdate, ShownFirst
<1>2. QED
  BY <1>1, PlaylistsInvariant, PlaylistsNextInvariant, PTL DEF PlaylistsSpec

----------------------------------------------------------------------------
(***************************************************************************)
(* For any schedules, dates and priorities, no entries and no active       *)
(* assignments of a schedule ever collide.  What makes it inductive is     *)
(* what the lock of the schedule keeps true while an assignment is being   *)
(* written: it is the only one, of that schedule, and collides with none   *)
(* that the schedule has (WritingFits).                                    *)
(***************************************************************************)

\* The parts of NoConflictWithin.
BlocksApart == \A s \in Timetables : \A a, b \in blocks[s] : a # b => ~Collide(a, b)
ExceptionsApart == \A s \in Timetables : \A a, b \in exceptions[s] : a # b => ~Collide(a, b)
AssignmentsApart ==
    \A s \in Timetables : \A a, b \in Of(s) : a # b /\ a.is_active /\ b.is_active => ~Rivals(a, b)

\* An assignment that is written and not committed is still clear of the others.
WritingFits ==
    \A s \in Timetables : \A new \in writing[s] :
        /\ writing[s] = {new}
        /\ new.schedule = s
        /\ \A b \in Of(s) : b.is_active /\ new.is_active /\ b.born # new.born => ~Rivals(new, b)

SchedulesIInv == SchedulesTypeOK /\ BlocksApart /\ ExceptionsApart /\ AssignmentsApart /\ WritingFits

----------------------------------------------------------------------------
(* Lemmas *)

\* Collisions are mutual.
LEMMA CollideBothWays ==
    ASSUME NEW a, NEW b PROVE /\ Collide(a, b) <=> Collide(b, a)
                              /\ Rivals(a, b) <=> Rivals(b, a)
  BY DEF Collide, Rivals, Overlap

\* A set of entries that are apart stays so when one that fits is added, ...
LEMMA AddedEntryApart ==
    ASSUME NEW S, NEW new, \A a, b \in S : a # b => ~Collide(a, b), Fits(new, S)
    PROVE  \A a, b \in S \cup {new} : a # b => ~Collide(a, b)
  BY CollideBothWays DEF Fits

\* ... or put in the place of another.
LEMMA ReplacedEntryApart ==
    ASSUME NEW S, NEW old, NEW new, \A a, b \in S : a # b => ~Collide(a, b), Fits(new, S \ {old})
    PROVE  \A a, b \in (S \ {old}) \cup {new} : a # b => ~Collide(a, b)
<1>1. \A a, b \in S \ {old} : a # b => ~Collide(a, b)
  OBVIOUS
<1>2. QED
  BY <1>1, AddedEntryApart, CollideBothWays DEF Fits

----------------------------------------------------------------------------
(* Types *)

\* What is written is a row of the table it is written to.
LEMMA RowsTyped ==
    ASSUME SchedulesTypeOK
    PROVE  /\ entriesBorn < MaxEntries =>
                /\ Clean(BlockRows(Numbers \ Ids, {entriesBorn + 1})) \subseteq BlockRows(Numbers, Numbers)
                /\ Clean(ExceptionRows(Numbers \ Ids, {entriesBorn + 1}))
                        \subseteq ExceptionRows(Numbers, Numbers)
           /\ \A row \in BlockRows(Numbers, Numbers) :
                Clean(BlockRows({row.id}, {row.born})) \subseteq BlockRows(Numbers, Numbers)
           /\ \A row \in ExceptionRows(Numbers, Numbers) :
                Clean(ExceptionRows({row.id}, {row.born})) \subseteq ExceptionRows(Numbers, Numbers)
           /\ \A s \in Timetables : assignmentsBorn < MaxAssignments =>
                Clean(AssignmentRows({assignmentsBorn + 1}, {s}, Scopes)) \subseteq Assignments
           /\ \A a \in Assignments :
                Clean(AssignmentRows({a.born}, {a.schedule}, {a.scope})) \subseteq Assignments
  BY SchedulesAssumption
  DEF SchedulesTypeOK, Clean, BlockRows, ExceptionRows, Entries, Numbers, Assignments, AssignmentRows

LEMMA EntryTypes ==
    ASSUME SchedulesTypeOK, NEW s \in Timetables, EntryNext(s) PROVE SchedulesTypeOK'
<1> USE SchedulesAssumption DEF SchedulesTypeOK, Locks, Bumped, assignmentVars
<1>1. ASSUME NEW block \in Clean(BlockRows(Numbers \ Ids, {entriesBorn + 1})), CreateBlock(s, block)
      PROVE  SchedulesTypeOK'
  <2>1. block \in BlockRows(Numbers, Numbers)
    BY <1>1, RowsTyped DEF CreateBlock
  <2>2. QED
    BY <1>1, <2>1 DEF CreateBlock
<1>2. ASSUME NEW block \in blocks[s], NEW new \in Clean(BlockRows({block.id}, {block.born})),
             UpdateBlock(s, block, new)
      PROVE  SchedulesTypeOK'
  <2>1. new \in BlockRows(Numbers, Numbers)
    BY <1>2, RowsTyped
  <2>2. QED
    BY <1>2, <2>1 DEF UpdateBlock
<1>3. ASSUME NEW block \in blocks[s], DeleteBlock(s, block) PROVE SchedulesTypeOK'
  BY <1>3 DEF DeleteBlock
<1>4. ASSUME NEW exception \in Clean(ExceptionRows(Numbers \ Ids, {entriesBorn + 1})),
             CreateException(s, exception)
      PROVE  SchedulesTypeOK'
  <2>1. exception \in ExceptionRows(Numbers, Numbers)
    BY <1>4, RowsTyped DEF CreateException
  <2>2. QED
    BY <1>4, <2>1 DEF CreateException
<1>5. ASSUME NEW exception \in exceptions[s],
             NEW new \in Clean(ExceptionRows({exception.id}, {exception.born})),
             UpdateException(s, exception, new)
      PROVE  SchedulesTypeOK'
  <2>1. new \in ExceptionRows(Numbers, Numbers)
    BY <1>5, RowsTyped
  <2>2. QED
    BY <1>5, <2>1 DEF UpdateException
<1>6. ASSUME NEW exception \in exceptions[s], DeleteException(s, exception) PROVE SchedulesTypeOK'
  BY <1>6 DEF DeleteException
<1>7. QED
  BY <1>1, <1>2, <1>3, <1>4, <1>5, <1>6 DEF EntryNext

\* A row keeps its shape when it is made inactive.
LEMMA DeactivatedTyped ==
    ASSUME SchedulesTypeOK, NEW S PROVE Deactivated(S) \subseteq Assignments
  BY DEF SchedulesTypeOK, Deactivated, Assignments, AssignmentRows

LEMMA AssignmentTypes ==
    ASSUME SchedulesTypeOK, NEW s \in Timetables, AssignmentNext(s) PROVE SchedulesTypeOK'
<1> USE SchedulesAssumption DEF SchedulesTypeOK, Locks, Bumped, entryVars
<1>1. ASSUME NEW a \in Clean(AssignmentRows({assignmentsBorn + 1}, {s}, Scopes)),
             CreateAssignment(s, a)
      PROVE  SchedulesTypeOK'
  <2>1. a \in Assignments
    BY <1>1, RowsTyped DEF CreateAssignment
  <2>2. QED
    BY <1>1, <2>1 DEF CreateAssignment
<1>2. ASSUME NEW a \in Of(s), NEW new \in Clean(AssignmentRows({a.born}, {s}, {a.scope})),
             UpdateAssignment(a, new)
      PROVE  SchedulesTypeOK'
  <2>1. a \in Assignments /\ a.schedule = s
    BY DEF Of
  <2>2. new \in Assignments
    BY <1>2, <2>1, RowsTyped
  <2>3. QED
    BY <1>2, <2>1, <2>2 DEF UpdateAssignment
<1>3. ASSUME NEW a \in Of(s), DeactivateAssignment(a) PROVE SchedulesTypeOK'
  <2>1. a.schedule = s
    BY DEF Of
  <2>2. QED
    BY <1>3, <2>1, DeactivatedTyped DEF DeactivateAssignment
<1>4. ASSUME CommitAssignment(s) PROVE SchedulesTypeOK'
  BY <1>4 DEF CommitAssignment, NoWriting
<1>5. QED
  BY <1>1, <1>2, <1>3, <1>4 DEF AssignmentNext

LEMMA ScheduleTypes ==
    ASSUME SchedulesTypeOK, NEW s \in Timetables,
           \/ CreateSchedule(s) \/ \E dates \in SUBSET Dates : UpdateScheduleMetadata(s, dates)
           \/ PublishSchedule(s) \/ ArchiveSchedule(s) \/ DisableSchedule(s) \/ ReactivateSchedule(s)
    PROVE  SchedulesTypeOK'
<1> USE SchedulesAssumption DEF SchedulesTypeOK, Locks, Bumped, entryVars, assignmentVars, PhaseValues
<1>1. CASE CreateSchedule(s)
  BY <1>1 DEF CreateSchedule
<1>2. ASSUME NEW dates \in SUBSET Dates, UpdateScheduleMetadata(s, dates) PROVE SchedulesTypeOK'
  BY <1>2 DEF UpdateScheduleMetadata
<1>3. CASE PublishSchedule(s)
  <2>1. Contents(s) \in Snapshots
    BY DEF Contents, Snapshots
  <2>2. QED
    BY <1>3, <2>1 DEF PublishSchedule
<1>4. CASE ArchiveSchedule(s)
  BY <1>4, DeactivatedTyped DEF ArchiveSchedule, Retire
<1>5. CASE DisableSchedule(s)
  BY <1>5, DeactivatedTyped DEF DisableSchedule, Retire
<1>6. CASE ReactivateSchedule(s)
  BY <1>6 DEF ReactivateSchedule
<1>7. QED
  BY <1>1, <1>2, <1>3, <1>4, <1>5, <1>6

----------------------------------------------------------------------------
(* Initially *)

LEMMA SchedulesInitInvariant == SchedulesInit => SchedulesIInv
<1> SUFFICES ASSUME SchedulesInit PROVE SchedulesIInv
  OBVIOUS
<1>1. SchedulesTypeOK
  BY SchedulesAssumption DEF SchedulesInit, SchedulesTypeOK, PhaseValues, NoSnapshot, Snapshots, NoWriting
<1>2. QED
  BY <1>1 DEF SchedulesInit, SchedulesIInv, BlocksApart, ExceptionsApart, AssignmentsApart, WritingFits,
              Of, NoWriting

----------------------------------------------------------------------------
(* Blocks and exceptions *)

\* What changes a set of entries of one schedule leaves those of the others alone.
LEMMA BlockStep ==
    ASSUME SchedulesIInv, NEW s \in Timetables, EntryNext(s)
    PROVE  BlocksApart' /\ ExceptionsApart'
<1>0. blocks \in [Timetables -> SUBSET BlockRows(Numbers, Numbers)]
      /\ exceptions \in [Timetables -> SUBSET ExceptionRows(Numbers, Numbers)]
  BY DEF SchedulesIInv, SchedulesTypeOK
<1> USE <1>0 DEF SchedulesIInv, BlocksApart, ExceptionsApart
<1>1. ASSUME NEW block, CreateBlock(s, block)
      PROVE  BlocksApart' /\ ExceptionsApart'
  <2>1. blocks' = [blocks EXCEPT ![s] = @ \cup {block}] /\ UNCHANGED exceptions
    BY <1>1 DEF CreateBlock
  <2>2. \A a, b \in blocks[s] \cup {block} : a # b => ~Collide(a, b)
    BY <1>1, AddedEntryApart DEF CreateBlock
  <2>3. QED
    BY <2>1, <2>2 DEF Collide, Overlap
<1>2. ASSUME NEW block \in blocks[s], NEW new, UpdateBlock(s, block, new)
      PROVE  BlocksApart' /\ ExceptionsApart'
  <2>1. blocks' = [blocks EXCEPT ![s] = (@ \ {block}) \cup {new}] /\ UNCHANGED exceptions
    BY <1>2 DEF UpdateBlock
  <2>2. \A a, b \in (blocks[s] \ {block}) \cup {new} : a # b => ~Collide(a, b)
    <3>1. Fits(new, blocks[s] \ {block})
      BY <1>2 DEF UpdateBlock
    <3>2. \A a, b \in blocks[s] : a # b => ~Collide(a, b)
      OBVIOUS
    <3>3. QED
      BY ONLY <3>1, <3>2, ReplacedEntryApart
  <2>3. QED
    BY <2>1, <2>2 DEF Collide, Overlap
<1>3. ASSUME NEW block \in blocks[s], DeleteBlock(s, block)
      PROVE  BlocksApart' /\ ExceptionsApart'
  BY <1>3 DEF DeleteBlock, Collide, Overlap
<1>4. ASSUME NEW exception, CreateException(s, exception)
      PROVE  BlocksApart' /\ ExceptionsApart'
  <2>1. exceptions' = [exceptions EXCEPT ![s] = @ \cup {exception}] /\ UNCHANGED blocks
    BY <1>4 DEF CreateException
  <2>2. \A a, b \in exceptions[s] \cup {exception} : a # b => ~Collide(a, b)
    BY <1>4, AddedEntryApart DEF CreateException
  <2>3. QED
    BY <2>1, <2>2 DEF Collide, Overlap
<1>5. ASSUME NEW exception \in exceptions[s], NEW new, UpdateException(s, exception, new)
      PROVE  BlocksApart' /\ ExceptionsApart'
  <2>1. /\ exceptions' = [exceptions EXCEPT ![s] = (@ \ {exception}) \cup {new}]
        /\ UNCHANGED blocks
    BY <1>5 DEF UpdateException
  <2>2. \A a, b \in (exceptions[s] \ {exception}) \cup {new} : a # b => ~Collide(a, b)
    <3>1. Fits(new, exceptions[s] \ {exception})
      BY <1>5 DEF UpdateException
    <3>2. \A a, b \in exceptions[s] : a # b => ~Collide(a, b)
      OBVIOUS
    <3>3. QED
      BY ONLY <3>1, <3>2, ReplacedEntryApart
  <2>3. QED
    BY <2>1, <2>2 DEF Collide, Overlap
<1>6. ASSUME NEW exception \in exceptions[s], DeleteException(s, exception)
      PROVE  BlocksApart' /\ ExceptionsApart'
  BY <1>6 DEF DeleteException, Collide, Overlap
<1>7. QED
  BY <1>1, <1>2, <1>3, <1>4, <1>5, <1>6 DEF EntryNext

\* Entries have nothing to do with assignments.
LEMMA EntriesKeepAssignments ==
    ASSUME NEW s \in Timetables, EntryNext(s) PROVE UNCHANGED assignmentVars
  BY DEF EntryNext, CreateBlock, UpdateBlock, DeleteBlock, CreateException, UpdateException,
         DeleteException

----------------------------------------------------------------------------
(* Assignments *)

\* A row that is made inactive is otherwise the same.
LEMMA DeactivatedRows ==
    ASSUME SchedulesTypeOK, NEW S, NEW new \in Deactivated(S)
    PROVE  \/ new \in assignments
           \/ /\ ~new.is_active
              /\ \E a \in S \cap assignments : new = [a EXCEPT !.is_active = FALSE]
                                             /\ new.schedule = a.schedule
<1>1. PICK a \in assignments : new = IF a \in S THEN [a EXCEPT !.is_active = FALSE] ELSE a
  BY DEF Deactivated
<1>2. a \in Assignments
  BY DEF SchedulesTypeOK
<1>3. a \in S => ~new.is_active /\ new.schedule = a.schedule
  BY <1>1, <1>2 DEF Assignments, AssignmentRows
<1>4. QED
  BY <1>1, <1>3

\* Assignments that are made inactive collide with fewer.
LEMMA DeactivationStep ==
    ASSUME SchedulesIInv, NEW S, assignments' = Deactivated(S), UNCHANGED writing
    PROVE  AssignmentsApart' /\ WritingFits'
<1>1. \A t \in Timetables : \A b \in Of(t)' : b.is_active => b \in Of(t)
  BY DeactivatedRows DEF SchedulesIInv, Of
<1>2. AssignmentsApart'
  BY <1>1 DEF SchedulesIInv, AssignmentsApart, Rivals, Overlap
<1>3. WritingFits'
  BY <1>1 DEF SchedulesIInv, WritingFits, Rivals, Overlap
<1>4. QED
  BY <1>2, <1>3

\* An assignment that is begun is alone and clear of the others.
LEMMA BeginStep ==
    ASSUME SchedulesIInv, NEW s \in Timetables, NEW new, writing' = [writing EXCEPT ![s] = {new}],
           new.schedule = s, new.is_active => Clear(new), UNCHANGED assignments
    PROVE  AssignmentsApart' /\ WritingFits'
<1>1. UNCHANGED Of(s) /\ \A t \in Timetables : UNCHANGED Of(t)
  BY DEF Of
<1>2. AssignmentsApart'
  BY <1>1 DEF SchedulesIInv, AssignmentsApart, Rivals, Overlap
<1>3. \A b \in Of(s) : b.is_active /\ new.is_active /\ b.born # new.born => ~Rivals(new, b)
  BY DEF Clear, Of
<1>4. writing'[s] = {new} /\ \A t \in Timetables : t # s => writing'[t] = writing[t]
  BY DEF SchedulesIInv, SchedulesTypeOK
<1>5. WritingFits'
  BY <1>1, <1>3, <1>4 DEF SchedulesIInv, WritingFits, Rivals, Overlap
<1>6. QED
  BY <1>2, <1>5

LEMMA CommitStep ==
    ASSUME SchedulesIInv, NEW s \in Timetables, CommitAssignment(s)
    PROVE  AssignmentsApart' /\ WritingFits'
<1>1. PICK new \in writing[s] : TRUE
  BY DEF CommitAssignment, NoWriting
<1>2. /\ writing[s] = {new} /\ new.schedule = s
      /\ \A b \in Of(s) : b.is_active /\ new.is_active /\ b.born # new.born => ~Rivals(new, b)
  BY <1>1 DEF SchedulesIInv, WritingFits
<1>3. assignments' = {a \in assignments : a.born # new.born} \cup {new}
  BY <1>2 DEF CommitAssignment
<1>4. /\ writing'[s] = {} /\ \A t \in Timetables : t # s => writing'[t] = writing[t]
  BY DEF CommitAssignment, SchedulesIInv, SchedulesTypeOK, NoWriting
<1>5. \A t \in Timetables : \A b \in Of(t)' :
            \/ b \in Of(t) /\ b.born # new.born
            \/ b = new /\ t = s
  BY <1>2, <1>3 DEF Of
<1>6. AssignmentsApart'
  <2> SUFFICES ASSUME NEW t \in Timetables, NEW a \in Of(t)', NEW b \in Of(t)', a # b,
                      a.is_active, b.is_active
               PROVE  ~Rivals(a, b)
    BY DEF AssignmentsApart, Rivals, Overlap
  <2>1. CASE a \in Of(t) /\ b \in Of(t)
    BY <2>1 DEF SchedulesIInv, AssignmentsApart
  <2>2. CASE a = new
    BY <1>2, <1>5, <2>2
  <2>3. CASE b = new
    BY <1>2, <1>5, <2>3, CollideBothWays
  <2>4. QED
    BY <1>5, <2>1, <2>2, <2>3
<1>7. WritingFits'
  <2> SUFFICES ASSUME NEW t \in Timetables, NEW w \in writing'[t]
               PROVE  /\ writing'[t] = {w} /\ w.schedule = t
                      /\ \A b \in Of(t)' : b.is_active /\ w.is_active /\ b.born # w.born
                                            => ~Rivals(w, b)
    BY DEF WritingFits, Rivals, Overlap
  <2>1. t # s /\ w \in writing[t] /\ writing'[t] = writing[t]
    BY <1>4
  <2>2. \A b \in Of(t)' : b \in Of(t)
    BY <1>5, <2>1
  <2>3. QED
    BY <2>1, <2>2 DEF SchedulesIInv, WritingFits
<1>8. QED
  BY <1>6, <1>7

LEMMA AssignmentStep ==
    ASSUME SchedulesIInv, NEW s \in Timetables, AssignmentNext(s)
    PROVE  AssignmentsApart' /\ WritingFits' /\ UNCHANGED <<blocks, exceptions>>
<1>1. ASSUME NEW a \in Clean(AssignmentRows({assignmentsBorn + 1}, {s}, Scopes)),
             CreateAssignment(s, a)
      PROVE  AssignmentsApart' /\ WritingFits' /\ UNCHANGED <<blocks, exceptions>>
  <2>1. a.schedule = s
    BY DEF Clean, AssignmentRows
  <2>2. QED
    BY <1>1, <2>1, BeginStep DEF CreateAssignment, entryVars
<1>2. ASSUME NEW a \in Of(s), NEW new \in Clean(AssignmentRows({a.born}, {s}, {a.scope})),
             UpdateAssignment(a, new)
      PROVE  AssignmentsApart' /\ WritingFits' /\ UNCHANGED <<blocks, exceptions>>
  <2>1. a.schedule = s /\ new.schedule = s
    BY DEF Of, Clean, AssignmentRows
  <2>2. QED
    BY <1>2, <2>1, BeginStep DEF UpdateAssignment, entryVars
<1>3. ASSUME NEW a \in Of(s), DeactivateAssignment(a)
      PROVE  AssignmentsApart' /\ WritingFits' /\ UNCHANGED <<blocks, exceptions>>
  BY <1>3, DeactivationStep DEF DeactivateAssignment, entryVars
<1>4. ASSUME CommitAssignment(s)
      PROVE  AssignmentsApart' /\ WritingFits' /\ UNCHANGED <<blocks, exceptions>>
  BY <1>4, CommitStep DEF CommitAssignment, entryVars
<1>5. QED
  BY <1>1, <1>2, <1>3, <1>4 DEF AssignmentNext

----------------------------------------------------------------------------
(* Every step *)

\* What leaves the rows alone leaves them apart.
LEMMA QuietStep ==
    /\ SchedulesIInv /\ UNCHANGED <<blocks, exceptions>> => BlocksApart' /\ ExceptionsApart'
    /\ SchedulesIInv /\ UNCHANGED <<assignments, writing>> => AssignmentsApart' /\ WritingFits'
<1>1. SchedulesIInv /\ UNCHANGED <<blocks, exceptions>> => BlocksApart' /\ ExceptionsApart'
  BY DEF SchedulesIInv, BlocksApart, ExceptionsApart, Collide, Overlap
<1>2. SchedulesIInv /\ UNCHANGED <<assignments, writing>> => AssignmentsApart' /\ WritingFits'
  BY DEF SchedulesIInv, AssignmentsApart, WritingFits, Of, Rivals, Overlap
<1>3. QED
  BY <1>1, <1>2

LEMMA SchedulesNextInvariant == SchedulesIInv /\ [SchedulesNext]_schedulesVars => SchedulesIInv'
<1> SUFFICES ASSUME SchedulesIInv, [SchedulesNext]_schedulesVars PROVE SchedulesIInv'
  OBVIOUS
<1>0. SchedulesTypeOK
  BY DEF SchedulesIInv
<1>1. ASSUME NEW s \in Timetables, EntryNext(s) PROVE SchedulesIInv'
  BY <1>0, <1>1, EntryTypes, BlockStep, EntriesKeepAssignments, QuietStep DEF SchedulesIInv, assignmentVars
<1>2. ASSUME NEW s \in Timetables, AssignmentNext(s) PROVE SchedulesIInv'
  BY <1>0, <1>2, AssignmentTypes, AssignmentStep, QuietStep DEF SchedulesIInv
<1>3. ASSUME NEW s \in Timetables,
             \/ CreateSchedule(s) \/ \E dates \in SUBSET Dates : UpdateScheduleMetadata(s, dates)
             \/ PublishSchedule(s) \/ ReactivateSchedule(s)
      PROVE  SchedulesIInv'
  <2>1. UNCHANGED <<blocks, exceptions, assignments, writing>>
    BY <1>3 DEF CreateSchedule, UpdateScheduleMetadata, PublishSchedule, ReactivateSchedule,
                entryVars, assignmentVars
  <2>2. SchedulesTypeOK'
    BY <1>0, <1>3, ScheduleTypes
  <2>3. QED
    BY <2>1, <2>2, QuietStep DEF SchedulesIInv
<1>4. ASSUME NEW s \in Timetables, ArchiveSchedule(s) \/ DisableSchedule(s) PROVE SchedulesIInv'
  <2>1. assignments' = Deactivated(Of(s)) /\ UNCHANGED <<blocks, exceptions, writing>>
    BY <1>4 DEF ArchiveSchedule, DisableSchedule, Retire, entryVars
  <2>2. SchedulesTypeOK'
    BY <1>0, <1>4, ScheduleTypes
  <2>3. QED
    BY <2>1, <2>2, QuietStep, DeactivationStep DEF SchedulesIInv
<1>5. CASE UNCHANGED schedulesVars
  <2>1. SchedulesTypeOK'
    BY <1>0, <1>5 DEF SchedulesTypeOK, schedulesVars, entryVars, assignmentVars
  <2>2. QED
    BY <1>5, <2>1, QuietStep DEF SchedulesIInv, schedulesVars, entryVars, assignmentVars
<1>6. QED
  BY <1>1, <1>2, <1>3, <1>4, <1>5 DEF SchedulesNext

\* The inductive invariant: in every reachable state, for any schedules and dates.
THEOREM SchedulesInvariant == SchedulesSpec => []SchedulesIInv
  BY SchedulesInitInvariant, SchedulesNextInvariant, PTL DEF SchedulesSpec

\* Every variable keeps its type.
THEOREM SchedulesTypeCorrect == SchedulesSpec => []SchedulesTypeOK
<1>1. SchedulesIInv => SchedulesTypeOK
  BY DEF SchedulesIInv
<1>2. QED
  BY <1>1, SchedulesInvariant, PTL

\* No entries and no active assignments of a schedule collide, whatever is done to it in
\* whatever order (validate_block_conflicts, validate_exception_conflicts,
\* validate_assignment_conflicts).
THEOREM SchedulesConsistent == SchedulesSpec => []NoConflictWithin
<1>1. SchedulesIInv => NoConflictWithin
  BY DEF SchedulesIInv, BlocksApart, ExceptionsApart, AssignmentsApart, NoConflictWithin
<1>2. QED
  BY <1>1, SchedulesInvariant, PTL

----------------------------------------------------------------------------
(* What plays *)

LEMMA LeastNatural ==
    ASSUME NEW T, T \subseteq Nat, T # {}
    PROVE  \E x \in T : \A y \in T : x <= y
<1>1. IsWellFoundedOn({ss \in Nat \X Nat : ss[1] < ss[2]}, Nat)
  BY NatLessThanWellFounded DEF OpToRel
<1>2. PICK x \in T : \A y \in T : ~(<<y, x>> \in {ss \in Nat \X Nat : ss[1] < ss[2]})
  BY <1>1, WFMin
<1>3. \A y \in T : ~(y < x)
  BY <1>2
<1>4. QED
  BY <1>3

LEMMA PriorityRange == \A p \in Priorities : p \in Int /\ p <= MaxPriority
  BY SchedulesAssumption

\* Some entry has the highest priority: priorities are bounded.
LEMMA HighestPriority ==
    ASSUME NEW S, S # {}, \A e \in S : e.priority \in Priorities
    PROVE  \E e \in S : \A other \in S : other.priority <= e.priority
<1> DEFINE T == {MaxPriority - e.priority : e \in S}
<1>0. MaxPriority \in Int
  BY SchedulesAssumption
<1>1. \A e \in S : e.priority \in Int /\ e.priority <= MaxPriority
  BY PriorityRange
<1>2. T \subseteq Nat /\ T # {}
  BY <1>0, <1>1
<1>3. PICK x \in T : \A y \in T : x <= y
  BY <1>2, LeastNatural
<1>4. PICK e \in S : x = MaxPriority - e.priority
  BY <1>3
<1>5. \A other \in S : MaxPriority - e.priority <= MaxPriority - other.priority
  BY <1>3, <1>4
<1>6. \A other \in S : other.priority <= e.priority
  BY <1>0, <1>1, <1>5
<1>7. QED
  BY <1>6

\* Where no two entries have the same priority, the highest comes first, whichever of
\* them was created first and whatever their ids are.
LEMMA HighestComesFirst ==
    ASSUME NEW S, NEW top \in S, \A other \in S : other.priority <= top.priority,
           \A e \in S : e.priority \in Int /\ e.born \in Nat /\ e.id \in Nat,
           \A a, b \in S : a # b => a.priority # b.priority
    PROVE  First(S) = top /\ FirstSorted(S) = top
<1>1. First(S) = top
  <2> DEFINE Before(e) == \A other \in S :
                            \/ e.priority > other.priority
                            \/ e.priority = other.priority /\ e.born >= other.born
  <2>1. Before(top)
    OBVIOUS
  <2>2. \A e \in S : Before(e) => e = top
    OBVIOUS
  <2>3. First(S) = CHOOSE e \in S : Before(e)
    BY DEF First
  <2> HIDE DEF Before
  <2>4. QED
    BY <2>1, <2>2, <2>3
<1>2. FirstSorted(S) = top
  <2> DEFINE Before(e) == \A other \in S :
                            \/ e.priority > other.priority
                            \/ e.priority = other.priority /\ e.id <= other.id
  <2>1. Before(top)
    OBVIOUS
  <2>2. \A e \in S : Before(e) => e = top
    OBVIOUS
  <2>3. FirstSorted(S) = CHOOSE e \in S : Before(e)
    BY DEF FirstSorted
  <2> HIDE DEF Before
  <2>4. QED
    BY <2>1, <2>2, <2>3
<1>3. QED
  BY <1>1, <1>2

\* Entries of one moment, of a set where none collide, differ in priority.
LEMMA AtOneMoment ==
    ASSUME NEW E, \A a, b \in E : a # b => ~Collide(a, b), NEW day, NEW t \in Times,
           \A e \in E : e.from \in Times /\ e.to \in Times
    PROVE  \A a, b \in At(E, day, t) : a # b => a.priority # b.priority
BY SchedulesAssumption DEF At, Collide, Overlap, Times

\* PreviewAgreesWithPlayer: what the panel announces is what the player plays, whatever
\* the ids and the order of creation of the entries, because no two that apply at one
\* time have the same priority (scheduling/selectors.py 225-251, service.go
\* resolveAssets).
THEOREM PreviewIsRight == SchedulesSpec => []PreviewAgreesWithPlayer
<1>1. SchedulesIInv => PreviewAgreesWithPlayer
  <2> SUFFICES ASSUME SchedulesIInv, NEW d \in Dates, NEW t \in Times, NEW a \in Effective(d, t),
                      frozen[a.schedule] = Contents(a.schedule)
               PROVE  LET s == a.schedule
                          announced == PreviewOf(s, d, t)
                      IN  \/ announced \in exceptions[s] /\ announced.action = "VOLUME_OVERRIDE"
                          \/ Plays(frozen[s], d, t) = announced
    BY DEF PreviewAgreesWithPlayer
  <2> DEFINE s == a.schedule
             here == At(exceptions[s], d, t)
             loud == {e \in here : e.action # "VOLUME_OVERRIDE"}
             usual == At(blocks[s], d % 7, t)
  <2>1. a \in Candidates(d)
    BY DEF Effective
  <2>2. s \in Timetables /\ d \in valid[s]
    BY <2>1 DEF Candidates, SchedulesIInv, SchedulesTypeOK, Assignments, AssignmentRows
  <2>3. /\ blocks[s] \subseteq BlockRows(Numbers, Numbers)
        /\ exceptions[s] \subseteq ExceptionRows(Numbers, Numbers)
    BY <2>2 DEF SchedulesIInv, SchedulesTypeOK
  <2>4. \A e \in blocks[s] \cup exceptions[s] :
            /\ e.priority \in Priorities /\ e.priority \in Int
            /\ e.born \in Nat /\ e.id \in Nat /\ e.from \in Times /\ e.to \in Times
    <3>1. \A e \in blocks[s] \cup exceptions[s] :
            /\ e.priority \in Priorities /\ e.born \in Numbers /\ e.id \in Numbers
            /\ e.from \in Times /\ e.to \in Times
      BY <2>3 DEF BlockRows, ExceptionRows, Entries
    <3>2. Numbers \subseteq Nat
      BY DEF Numbers
    <3>3. QED
      BY <3>1, <3>2, PriorityRange
  <2>5. here \subseteq exceptions[s] /\ usual \subseteq blocks[s] /\ loud \subseteq here
    BY DEF At
  <2>6. /\ \A e, f \in here : e # f => e.priority # f.priority
        /\ \A e, f \in usual : e # f => e.priority # f.priority
    <3>1. /\ \A e, f \in exceptions[s] : e # f => ~Collide(e, f)
          /\ \A e, f \in blocks[s] : e # f => ~Collide(e, f)
      BY <2>2 DEF SchedulesIInv, BlocksApart, ExceptionsApart
    <3>2. QED
      BY <2>4, <3>1, AtOneMoment
  <2>7. /\ PreviewOf(s, d, t) = First(IF here # {} THEN here ELSE usual)
        /\ Plays(frozen[s], d, t) = FirstSorted(IF loud # {} THEN loud ELSE usual)
    BY <2>2 DEF PreviewOf, Plays, Contents
  <2> HIDE DEF here, loud, usual
  <2>8. CASE here = {}
    <3>1. loud = {}
      BY <2>5, <2>8
    <3>2. First(usual) = FirstSorted(usual)
      <4>1. CASE usual = {}
        BY <4>1 DEF First, FirstSorted
      <4>2. CASE usual # {}
        BY <2>4, <2>5, <2>6, <4>2, HighestPriority, HighestComesFirst
      <4>3. QED
        BY <4>1, <4>2
    <3>3. QED
      BY <2>7, <2>8, <3>1, <3>2
  <2>9. CASE here # {}
    <3>1. PICK top \in here : \A other \in here : other.priority <= top.priority
      BY <2>4, <2>5, <2>9, HighestPriority
    <3>2. PreviewOf(s, d, t) = top
      <4>1. First(here) = top
        BY <2>4, <2>5, <2>6, <3>1, HighestComesFirst
      <4>2. QED
        BY <2>7, <2>9, <4>1
    <3>3. CASE top.action = "VOLUME_OVERRIDE"
      BY <2>5, <3>1, <3>2, <3>3
    <3>4. CASE top.action # "VOLUME_OVERRIDE"
      <4>1. top \in loud
        BY <3>1, <3>4 DEF loud
      <4>2. FirstSorted(loud) = top
        BY <2>4, <2>5, <2>6, <3>1, <4>1, HighestComesFirst
      <4>3. QED
        BY <2>7, <3>2, <4>1, <4>2
    <3>5. QED
      BY <3>3, <3>4
  <2>10. QED
    BY <2>8, <2>9
<1>2. QED
  BY <1>1, SchedulesInvariant, PTL

----------------------------------------------------------------------------
(* Together *)

\* ProgrammingTypesOK: playlists and schedules side by side keep their types, whatever
\* the one does between the steps of the other.
THEOREM ProgrammingTypeCorrect == PlaylistsSpec /\ SchedulesSpec => []ProgrammingTypesOK
BY PlaylistsTypeCorrect, SchedulesTypeCorrect, PTL DEF ProgrammingTypesOK
===============================================================================
