------------------------- MODULE MCDeviceCommands --------------------------
(* Instance of DeviceCommands for TLC. *)
EXTENDS DeviceCommands
=============================================================================
