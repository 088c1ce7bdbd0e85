-------------------------- MODULE MCFirmwareUpdate --------------------------
(* FirmwareUpdate for TLC: the constants come from the configurations.     *)
EXTENDS FirmwareUpdate
=============================================================================
