--------------------------- MODULE MCDeviceRegistry ---------------------------
(***************************************************************************)
(* DeviceRegistry for TLC: the .cfg file gives the sets.                   *)
(***************************************************************************)
EXTENDS DeviceRegistry

=============================================================================
