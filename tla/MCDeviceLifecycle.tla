------------------------- MODULE MCDeviceLifecycle -------------------------
(* Instance of DeviceLifecycle for TLC. *)
EXTENDS DeviceLifecycle, TLC

Symmetry == Permutations(Codes) \cup Permutations(Devices) \cup Permutations(Creds)
=============================================================================
