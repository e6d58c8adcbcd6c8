---------------------------- MODULE MCDeviceLink ----------------------------
(***************************************************************************)
(* One connection with the two callers of its client, the sync thread and  *)
(* the MCP event loop, and a device that writes lines which recv cuts or   *)
(* glues together anywhere: answers that come late, twice or out of order, *)
(* and lines that answer nothing (0 is no call's id).                      *)
(***************************************************************************)
EXTENDS DeviceLink

MCStrayIds == {0}

=============================================================================
