----------------------------- MODULE Schedules -----------------------------
(***************************************************************************)
(* The schedules of a company: their blocks, exceptions and assignments,   *)
(* their publication (apps/scheduling), what the panel says will play in a *)
(* zone (resolve_effective_schedule_for_zone) and what the player's        *)
(* gateway plays from the published copy (service.go, resolveAssets).      *)
(*                                                                         *)
(* Every service locks the row of its schedule, refuses a request made     *)
(* from another revision than the row's and makes the revision higher: a   *)
(* request made before another change of the same schedule changes nothing *)
(* and is left out.  A service is one action, except the writing of an     *)
(* assignment, which must not collide with the assignments of other        *)
(* schedules, whose rows it does not lock.                                 *)
(*                                                                         *)
(* One zone is looked at: the scopes are those of its company, its site    *)
(* and the zone itself.  What an entry plays is the entry: silence, which  *)
(* is picked as a playlist is, counts as one.  Whether a playlist may be scheduled is left  *)
(* open; a request it stops is refused and changes nothing.  What a        *)
(* publication does to zones is in ZoneConfiguration.                      *)
(***************************************************************************)
EXTENDS Integers, FiniteSets

CONSTANTS
    Timetables,      \* schedules that exist or may be created
    Dates,           \* a number; the weekday is its remainder by 7
    LastTime,        \* times of a day are 0..LastTime
    Forever,         \* later than every date
    Priorities,      \* integers of 32 bits, some perhaps negative,
    MaxPriority,     \* this being the greatest of those
    Scopes,          \* some of COMPANY, SITE, ZONE
    MaxEntries,      \* bounds of the exploration: entries ever written
    MaxAssignments,  \* assignments
    MaxEdits,        \* and revisions of a schedule
    NoContent

VARIABLES
    phase,        \* the status of a schedule, ABSENT before it exists
    edition,      \* its revision, 0 before it exists
    valid,        \* the dates from valid_from to valid_until
    blocks, exceptions,
    frozen,       \* the latest ScheduleSnapshot
    assignments,  \* every ScheduleAssignment
    writing,      \* by schedule, the transaction that writes an assignment
    entriesBorn, assignmentsBorn   \* rows written so far

entryVars == <<blocks, exceptions, entriesBorn>>
assignmentVars == <<assignments, writing, assignmentsBorn>>
schedulesVars == <<phase, edition, valid, frozen, entryVars, assignmentVars>>

PhaseValues == {"ABSENT", "DRAFT", "PUBLISHED", "DISABLED", "ARCHIVED"}
Actions == {"REPLACE", "VOLUME_OVERRIDE"}
Specificity == [COMPANY |-> 1, SITE |-> 4, ZONE |-> 5]
Times == 0..LastTime
Weekdays == {d % 7 : d \in Dates}

\* ids are UUIDs: their order has nothing to do with that of creation (born).
Entries(ids, births, days, actions) ==
    [id : ids, born : births, day : days, action : actions,
     from : Times, to : Times, priority : Priorities]
BlockRows(ids, births) == Entries(ids, births, Weekdays, {"BLOCK"})
ExceptionRows(ids, births) == Entries(ids, births, Dates, Actions)
Numbers == 1..MaxEntries

\* Without starts_at an assignment starts with time, without ends_at it never ends.
AssignmentRows(births, schedules, scopes) ==
    [born : births, schedule : schedules, scope : scopes, priority : Priorities,
     is_locked : BOOLEAN, from : {0} \cup Dates, to : Dates \cup {Forever}, is_active : BOOLEAN]
Assignments == AssignmentRows(1..MaxAssignments, Timetables, Scopes)
NoWriting == {}
Snapshots == [valid : SUBSET Dates, 
              blocks : SUBSET BlockRows(Numbers, Numbers),
              exceptions : SUBSET ExceptionRows(Numbers, Numbers)]
NoSnapshot == [valid |-> {}, blocks |-> {}, exceptions |-> {}]

ASSUME SchedulesAssumption ==
    /\ Dates \subseteq Nat /\ Forever \in Nat /\ \A d \in Dates : d < Forever
    /\ LastTime \in Nat /\ MaxPriority \in Nat
    /\ Priorities \subseteq (-MaxPriority - 1)..MaxPriority
    /\ Scopes \subseteq DOMAIN Specificity
    /\ MaxEntries \in Nat /\ MaxAssignments \in Nat /\ MaxEdits \in Nat

SchedulesTypeOK ==
    /\ phase \in [Timetables -> PhaseValues]
    /\ edition \in [Timetables -> 0..MaxEdits]
    /\ valid \in [Timetables -> SUBSET Dates]
    /\ blocks \in [Timetables -> SUBSET BlockRows(Numbers, Numbers)]
    /\ exceptions \in [Timetables -> SUBSET ExceptionRows(Numbers, Numbers)]
    /\ frozen \in [Timetables -> Snapshots]
    /\ assignments \subseteq Assignments
    /\ writing \in [Timetables -> SUBSET Assignments]
    /\ entriesBorn \in 0..MaxEntries /\ assignmentsBorn \in 0..MaxAssignments

SchedulesInit ==
    /\ phase = [s \in Timetables |-> "ABSENT"]
    /\ edition = [s \in Timetables |-> 0]
    /\ valid = [s \in Timetables |-> Dates]
    /\ blocks = [s \in Timetables |-> {}] /\ exceptions = [s \in Timetables |-> {}]
    /\ frozen = [s \in Timetables |-> NoSnapshot]
    /\ assignments = {} /\ writing = [s \in Timetables |-> NoWriting]
    /\ entriesBorn = 0 /\ assignmentsBorn = 0

----------------------------------------------------------------------------
(* Schedules *)

\* bump_revision
Bumped(s) ==
    /\ edition[s] < MaxEdits
    /\ edition' = [edition EXCEPT ![s] = @ + 1]

\* The service has locked the row and will make its revision higher.
Locks(s) == phase[s] # "ABSENT" /\ writing[s] = NoWriting /\ Bumped(s)

CreateSchedule(s) ==
    /\ phase[s] = "ABSENT" /\ Bumped(s)
    /\ phase' = [phase EXCEPT ![s] = "DRAFT"]
    /\ UNCHANGED <<valid, frozen, entryVars, assignmentVars>>

\* The view alone refuses an archived schedule, and only here.
UpdateScheduleMetadata(s, dates) ==
    /\ Locks(s) /\ phase[s] # "ARCHIVED"
    /\ valid' = [valid EXCEPT ![s] = dates]
    /\ UNCHANGED <<phase, frozen, entryVars, assignmentVars>>

Contents(s) == [valid |-> valid[s], blocks |-> blocks[s], exceptions |-> exceptions[s]]

----------------------------------------------------------------------------
(* Blocks and exceptions *)

\* time_ranges_overlap, and the comparison of assignments' dates.
Overlap(a, b) == a.from < b.to /\ b.from < a.to

\* list_block_conflicts, list_exception_conflicts
Collide(a, b) == a.day = b.day /\ a.priority = b.priority /\ Overlap(a, b)
Fits(entry, others) == \A other \in others : ~Collide(entry, other)


Ids == {entry.id : entry \in UNION {blocks[s] \cup exceptions[s] : s \in Timetables}}
\* clean(): an entry ends after it starts, and on the same day.
Clean(rows) == {row \in rows : row.from < row.to}

CreateBlock(s, block) ==
    /\ Locks(s) /\ entriesBorn < MaxEntries /\ Fits(block, blocks[s])
    /\ blocks' = [blocks EXCEPT ![s] = @ \cup {block}]
    /\ entriesBorn' = entriesBorn + 1
    /\ UNCHANGED <<phase, valid, exceptions, frozen, assignmentVars>>

UpdateBlock(s, block, new) ==
    /\ Locks(s) /\ Fits(new, blocks[s] \ {block})
    /\ blocks' = [blocks EXCEPT ![s] = (@ \ {block}) \cup {new}]
    /\ UNCHANGED <<phase, valid, exceptions, frozen, entriesBorn, assignmentVars>>

DeleteBlock(s, block) ==
    /\ Locks(s)
    /\ blocks' = [blocks EXCEPT ![s] = @ \ {block}]
    /\ UNCHANGED <<phase, valid, exceptions, frozen, entriesBorn, assignmentVars>>

CreateException(s, exception) ==
    /\ Locks(s) /\ entriesBorn < MaxEntries /\ Fits(exception, exceptions[s])
    /\ exceptions' = [exceptions EXCEPT ![s] = @ \cup {exception}]
    /\ entriesBorn' = entriesBorn + 1
    /\ UNCHANGED <<phase, valid, blocks, frozen, assignmentVars>>

\* The mistake of testing the creation alone.
UpdateException_Unchecked(s, exception, new) ==
    /\ Locks(s)
    /\ exceptions' = [exceptions EXCEPT ![s] = (@ \ {exception}) \cup {new}]
    /\ UNCHANGED <<phase, valid, blocks, frozen, entriesBorn, assignmentVars>>

UpdateException(s, exception, new) ==
    /\ Locks(s) /\ Fits(new, exceptions[s] \ {exception})
    /\ exceptions' = [exceptions EXCEPT ![s] = (@ \ {exception}) \cup {new}]
    /\ UNCHANGED <<phase, valid, blocks, frozen, entriesBorn, assignmentVars>>

DeleteException(s, exception) ==
    /\ Locks(s)
    /\ exceptions' = [exceptions EXCEPT ![s] = @ \ {exception}]
    /\ UNCHANGED <<phase, valid, blocks, frozen, entriesBorn, assignmentVars>>

----------------------------------------------------------------------------
(* Assignments *)

\* list_assignment_conflicts
Rivals(a, b) == a.scope = b.scope /\ a.priority = b.priority /\ Overlap(a, b)
Clear(a) == \A b \in assignments : b.is_active /\ b.born # a.born => ~Rivals(a, b)

\* A new assignment is compared with the active ones even if it is not to be active.
CreateAssignment(s, a) ==
    /\ Locks(s)
    /\ assignmentsBorn < MaxAssignments
    /\ Clear(a)
    /\ writing' = [writing EXCEPT ![s] = {a}]
    /\ assignmentsBorn' = assignmentsBorn + 1
    /\ UNCHANGED <<phase, valid, frozen, entryVars, assignments>>

\* Everything but the schedule and the scope can be changed.
UpdateAssignment(a, new) ==
    /\ Locks(a.schedule)
    /\ new.is_active => Clear(new)
    /\ writing' = [writing EXCEPT ![a.schedule] = {new}]
    /\ UNCHANGED <<phase, valid, frozen, entryVars, assignments, assignmentsBorn>>

\* Until then no other transaction sees the row.
CommitAssignment(s) ==
    /\ writing[s] # NoWriting
    /\ assignments' =
        {a \in assignments : \A new \in writing[s] : a.born # new.born} \cup writing[s]
    /\ writing' = [writing EXCEPT ![s] = NoWriting]
    /\ UNCHANGED <<phase, edition, valid, frozen, entryVars, assignmentsBorn>>

Deactivated(S) ==
    {IF a \in S THEN [a EXCEPT !.is_active = FALSE] ELSE a : a \in assignments}

DeactivateAssignment(a) ==
    /\ Locks(a.schedule)
    /\ assignments' = Deactivated({a})
    /\ UNCHANGED <<phase, valid, frozen, entryVars, writing, assignmentsBorn>>

Of(s) == {a \in assignments : a.schedule = s}

----------------------------------------------------------------------------
(* Publication; none of these looks at the status *)

PublishSchedule(s) ==
    /\ Locks(s)
    /\ blocks[s] # {}
    /\ \A block \in blocks[s] : Fits(block, blocks[s] \ {block})
    /\ \A a \in Of(s) : a.is_active => Clear(a)
    /\ phase' = [phase EXCEPT ![s] = "PUBLISHED"]
    /\ frozen' = [frozen EXCEPT ![s] = Contents(s)]
    /\ UNCHANGED <<valid, entryVars, assignmentVars>>

\* archive_schedule, disable_schedule
Retire(s, to) ==
    /\ Locks(s)
    /\ phase' = [phase EXCEPT ![s] = to]
    /\ assignments' = Deactivated(Of(s))
    /\ UNCHANGED <<valid, frozen, entryVars, writing, assignmentsBorn>>

ArchiveSchedule(s) == Retire(s, "ARCHIVED")
DisableSchedule(s) == Retire(s, "DISABLED")

ReactivateSchedule(s) ==
    /\ Locks(s)
    /\ phase' = [phase EXCEPT ![s] = "DRAFT"]
    /\ UNCHANGED <<valid, frozen, entryVars, assignmentVars>>

----------------------------------------------------------------------------
(* What plays *)

At(entries, day, t) == {e \in entries : e.day = day /\ e.from <= t /\ t < e.to}

\* ORDER BY -priority, -created_at; its first row.
First(entries) ==
    IF entries = {} THEN NoContent
    ELSE CHOOSE e \in entries : \A other \in entries :
            \/ e.priority > other.priority
            \/ e.priority = other.priority /\ e.born >= other.born

PreviewOf(s, d, t) ==
    LET here == At(exceptions[s], d, t)
    IN  First(IF here # {} THEN here ELSE At(blocks[s], d % 7, t))

\* ordered_assignments_for_zone_at: the assignments that apply, ...
Candidates(d) ==
    {a \in assignments : /\ a.is_active /\ a.from <= d /\ d < a.to
                         /\ phase[a.schedule] = "PUBLISHED" /\ d \in valid[a.schedule]}

\* ... and which comes first.
Ahead(a, b) ==
    LET Rank(x) == <<IF x.is_locked THEN 1 ELSE 0, x.priority, Specificity[x.scope], x.born>>
    IN  \E n \in 1..4 : /\ Rank(a)[n] > Rank(b)[n]
                        /\ \A m \in 1..n - 1 : Rank(a)[m] = Rank(b)[m]

\* resolve_effective_schedule_for_zone: the first assignment whose schedule has something
\* for that time, or the first of all.
Effective(d, t) ==
    LET all == Candidates(d)
        able == {a \in all : PreviewOf(a.schedule, d, t) # NoContent}
        S == IF able # {} THEN able ELSE all
    IN  {a \in S : \A b \in S \ {a} : Ahead(a, b)}

\* The mistake of sorting the lowest priority first.
FirstSorted_Ascending(entries) ==
    IF entries = {} THEN NoContent
    ELSE CHOOSE e \in entries : \A other \in entries :
            \/ e.priority < other.priority
            \/ e.priority = other.priority /\ e.id <= other.id

\* sortedExceptions, sortedBlocks: by priority, then by id.
FirstSorted(entries) ==
    IF entries = {} THEN NoContent
    ELSE CHOOSE e \in entries : \A other \in entries :
            \/ e.priority > other.priority
            \/ e.priority = other.priority /\ e.id <= other.id

\* resolveAssets: exceptions that change the volume are passed over.
Plays(snapshot, d, t) ==
    LET here == {e \in At(snapshot.exceptions, d, t) : e.action # "VOLUME_OVERRIDE"}
    IN  IF d \notin snapshot.valid THEN NoContent
        ELSE FirstSorted(IF here # {} THEN here ELSE At(snapshot.blocks, d % 7, t))

----------------------------------------------------------------------------

EntryNext(s) ==
    \/ \E block \in Clean(BlockRows(Numbers \ Ids, {entriesBorn + 1})) : CreateBlock(s, block)
    \/ \E block \in blocks[s] :
        \/ \E new \in Clean(BlockRows({block.id}, {block.born})) : UpdateBlock(s, block, new)
        \/ DeleteBlock(s, block)
    \/ \E exception \in Clean(ExceptionRows(Numbers \ Ids, {entriesBorn + 1})) :
            CreateException(s, exception)
    \/ \E exception \in exceptions[s] :
        \/ \E new \in Clean(ExceptionRows({exception.id}, {exception.born})) :
                UpdateException(s, exception, new)
        \/ DeleteException(s, exception)

AssignmentNext(s) ==
    \/ \E a \in Clean(AssignmentRows({assignmentsBorn + 1}, {s}, Scopes)) : CreateAssignment(s, a)
    \/ \E a \in Of(s) :
        \/ \E new \in Clean(AssignmentRows({a.born}, {s}, {a.scope})) : UpdateAssignment(a, new)
        \/ DeactivateAssignment(a)
    \/ CommitAssignment(s)

SchedulesNext ==
    \E s \in Timetables :
        \/ CreateSchedule(s) \/ \E dates \in SUBSET Dates : UpdateScheduleMetadata(s, dates)
        \/ EntryNext(s) \/ AssignmentNext(s)
        \/ PublishSchedule(s) \/ ArchiveSchedule(s) \/ DisableSchedule(s) \/ ReactivateSchedule(s)

SchedulesSpec == SchedulesInit /\ [][SchedulesNext]_schedulesVars

----------------------------------------------------------------------------
(* Properties *)

\* In no schedule do two blocks of a weekday, or two exceptions of a date, overlap at the
\* same priority, and no two active assignments of one schedule to the same scope do,
\* whatever is created, changed, deleted, deactivated and published in whatever order
\* (validate_block_conflicts, validate_exception_conflicts, validate_assignment_conflicts
\* see the rows as they are when the schedule is locked).
NoConflictWithin ==
    \A s \in Timetables :
        /\ \A a, b \in blocks[s] : a # b => ~Collide(a, b)
        /\ \A a, b \in exceptions[s] : a # b => ~Collide(a, b)
        /\ \A a, b \in Of(s) : a # b /\ a.is_active /\ b.is_active => ~Rivals(a, b)

\* What the panel announces for a zone is what the player will be given, though the one
\* sorts equal priorities by creation and the other by id, as long as the schedule has
\* not been changed since its publication; except under an exception that only changes
\* the volume, for which the panel shows no content
\* (scheduling/selectors.py resolve_effective_schedule_for_zone, service.go resolveAssets).
PreviewAgreesWithPlayer ==
    \A d \in Dates, t \in Times : \A a \in Effective(d, t) :
        LET s == a.schedule
            announced == PreviewOf(s, d, t)
        IN  frozen[s] = Contents(s) =>
                \/ announced \in exceptions[s] /\ announced.action = "VOLUME_OVERRIDE"
                \/ Plays(frozen[s], d, t) = announced
=============================================================================
