--------------------------- MODULE MCProgramming ---------------------------
(* Playlists, channels, and schedules, explored one or the other: what a schedule reads of
   a playlist is left open.  Playlists are explored alone, and one, of one song, with the
   channels made of it; schedules one with its entries, and several with an entry each and
   their assignments. *)
EXTENDS Programming, TLC

CONSTANTS
    EntryEdits,    \* the revisions of the one schedule of the part "entries"
    RivalEdits     \* those of two schedules of the part "assignments" together

VARIABLE part

ProgrammingVars == <<part, playlistsVars, schedulesVars>>

ProgrammingInit ==
    /\ part \in {"playlists", "channels", "entries", "assignments"}
    /\ PlaylistsInit /\ SchedulesInit

NoChannels == \A c \in Channels : status'[c] = "ABSENT"

OnePlaylist ==
    /\ Cardinality({p \in Lists : status'[p] # "ABSENT"}) <= 1
    /\ \A p \in Lists : Len(items'[p]) <= 1

OneSchedule ==
    /\ Cardinality({s \in Timetables : phase'[s] # "ABSENT"}) <= 1
    /\ \A s \in Timetables : edition'[s] <= EntryEdits
    /\ \A s \in Timetables : \A a \in writing'[s] :
        ~a.is_locked /\ a.priority = 0 /\ a.scope = "COMPANY" /\ a.is_active
    /\ assignmentsBorn' <= 1

WholeDay(block) == block.id = block.born /\ block.from = 0 /\ block.to = LastTime /\ block.priority = 0

OneEntryEach ==
    /\ exceptions' = exceptions /\ valid' = valid
    /\ \A s \in Timetables :
        /\ Cardinality(blocks'[s]) <= 1 /\ blocks[s] \subseteq blocks'[s]
        /\ \A block \in blocks'[s] : WholeDay(block)
        /\ edition'[s] >= 2 => blocks'[s] # {}
        /\ \A a \in writing'[s] : a.is_locked => a.priority = 0 /\ a.scope = "COMPANY"
        /\ phase'[s] # "DISABLED"
    /\ \A s, u \in Timetables : s # u => edition'[s] + edition'[u] <= RivalEdits

ProgrammingNext ==
    /\ UNCHANGED part
    /\ \/ part = "playlists" /\ PlaylistsNext /\ NoChannels /\ UNCHANGED schedulesVars
       \/ part = "channels" /\ PlaylistsNext /\ OnePlaylist /\ UNCHANGED schedulesVars
       \/ part = "entries" /\ SchedulesNext /\ OneSchedule /\ UNCHANGED playlistsVars
       \/ part = "assignments" /\ SchedulesNext /\ OneEntryEach /\ UNCHANGED playlistsVars

ProgrammingSpec == ProgrammingInit /\ [][ProgrammingNext]_ProgrammingVars

Symmetry == Permutations(Lists) \cup Permutations(Songs) \cup Permutations(Editors)
              \cup Permutations(Timetables)
=============================================================================
