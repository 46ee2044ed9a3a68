----------------------- MODULE MCDeviceTransactions ------------------------
(* Instance of DeviceTransactions for TLC. *)
EXTENDS DeviceTransactions, TLC

Symmetry == Permutations(Codes) \cup Permutations(Creds) \cup Permutations(Sessions)
=============================================================================
