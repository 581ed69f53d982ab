-------------------------- MODULE MCFirmwareFiles ---------------------------
(* Images of two banks, two firmware versions, two runs of the scripts. *)
EXTENDS FirmwareFiles

MCVersions == {"v1", "v2"}
=============================================================================
