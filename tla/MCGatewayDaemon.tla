-------------------------- MODULE MCGatewayDaemon --------------------------
(***************************************************************************)
(* Two gateway processes, started by the commands of one shell or in the   *)
(* foreground; either may crash.                                           *)
(***************************************************************************)
EXTENDS GatewayDaemon

CONSTANTS p1, p2, shell

MCProcs == {p1, p2}
MCCommands == {shell}
NoCommands == {}

=============================================================================
