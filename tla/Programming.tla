----------------------------- MODULE Programming -----------------------------
(***************************************************************************)
(* What a company programs: its playlists and channels, and the schedules  *)
(* that use them.  The two share no row: what a schedule reads of a        *)
(* playlist is left open in Schedules, and ZoneConfiguration has what is   *)
(* made of both.  So their composition is the conjunction of their         *)
(* specifications.                                                         *)
(***************************************************************************)
EXTENDS Playlists, Schedules

\* The rows of both modules hold what their columns can hold.
ProgrammingTypesOK == PlaylistsTypeOK /\ SchedulesTypeOK
=============================================================================
