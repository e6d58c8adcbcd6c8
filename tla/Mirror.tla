------------------------------- MODULE Mirror -------------------------------
(***************************************************************************)
(* What the snapshot exporter promises (gateway/tools_snapshot.py): a copy *)
(* of the tools that is brought up to date after changes, in batches, is   *)
(* never ahead and never goes back, and catches up with every change.      *)
(***************************************************************************)
EXTENDS Naturals

VARIABLES
    source,     \* the number of changes made to the tools
    copy        \* the number of changes the copy shows

Init == source = 0 /\ copy = 0

Change ==
    /\ source' = source + 1
    /\ UNCHANGED copy

CatchUp ==
    /\ copy' = source
    /\ UNCHANGED source

Next == Change \/ CatchUp

Spec == Init /\ [][Next]_<<source, copy>>
FairSpec == Spec /\ WF_<<source, copy>>(CatchUp)

=============================================================================
