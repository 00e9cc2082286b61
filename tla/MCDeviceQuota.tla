--------------------------- MODULE MCDeviceQuota ---------------------------
(* Instances of DeviceQuota for TLC.                                       *)
EXTENDS DeviceQuota
=============================================================================
