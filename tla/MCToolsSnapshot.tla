-------------------------- MODULE MCToolsSnapshot --------------------------
(***************************************************************************)
(* A sync thread and a reader that change tools twice beside the export   *)
(* of the gateway's own tools; two exports may fail.                      *)
(***************************************************************************)
EXTENDS ToolsSnapshot

MCMarkers == {"sync", "reader"}

=============================================================================
