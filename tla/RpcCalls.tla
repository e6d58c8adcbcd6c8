------------------------------ MODULE RpcCalls ------------------------------
(***************************************************************************)
(* What the JSON-RPC client of a device connection promises to the threads *)
(* that call it, whatever the device, the wire and the other threads do:   *)
(* the calls are numbered in the order they are made, and each of them     *)
(* ends exactly once, with an answer that carries its own number or with   *)
(* an exception, after which neither its end nor its answer ever changes.  *)
(* JsonRpcClient is shown to implement this specification.                 *)
(***************************************************************************)
EXTENDS Integers

CONSTANTS
    Ids,     \* the numbers of the calls
    Bodies,  \* what an answer can carry
    NoLine   \* the answer of a call that has none

VARIABLES
    status,  \* status[i]: how far call i has got
    answer   \* answer[i]: the line call i returned

vars == <<status, answer>>

Ends == {"result", "timeout", "raised"}

Init ==
    /\ status = [i \in Ids |-> "unused"]
    /\ answer = [i \in Ids |-> NoLine]

\* A thread makes the next call.
Open(i) ==
    /\ status[i] = "unused"
    /\ \A j \in Ids : j < i => status[j] # "unused"
    /\ status' = [status EXCEPT ![i] = "open"]
    /\ UNCHANGED answer

\* The call returns a line that bears its own number.
Answer(i) ==
    /\ status[i] = "open"
    /\ status' = [status EXCEPT ![i] = "result"]
    /\ \E b \in Bodies : answer' = [answer EXCEPT ![i] = [id |-> i, body |-> b]]

\* The call raises: nothing came in time, or its request could not be sent.
Fail(i) ==
    /\ status[i] = "open"
    /\ \E end \in {"timeout", "raised"} : status' = [status EXCEPT ![i] = end]
    /\ UNCHANGED answer

Next == \E i \in Ids : Open(i) \/ Answer(i) \/ Fail(i)

SafeSpec == Init /\ [][Next]_vars

\* Every call that was made ends: no caller is left hanging.
Spec == SafeSpec /\ \A i \in Ids : WF_vars(Answer(i) \/ Fail(i))

=============================================================================
