-------------------------- MODULE MCDeviceRegistry --------------------------
(* Two accounts, one device, two requests at a time.                       *)
EXTENDS DeviceRegistry
=============================================================================
