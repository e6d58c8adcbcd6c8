--------------------------- MODULE JsonRpcClient ---------------------------
(***************************************************************************)
(* The JSON-RPC client of one device connection                            *)
(* (protocol/jsonrpc_mcp_client.py).  The threads in Callers (the sync     *)
(* thread of the connection and the MCP event loop) run _call; the reader  *)
(* thread of the connection runs handle_text.  They share the table of     *)
(* pending calls, guarded by _lock, and the PendingCall objects, which no  *)
(* lock guards: each step below is one critical section or one unguarded   *)
(* read or write of a PendingCall.                                         *)
(*                                                                         *)
(* The device answers a request it has received any number of times, in    *)
(* any order, as late as it likes or never, and may also send lines that   *)
(* answer nothing.  Lines that handle_text drops before it takes the lock  *)
(* (no id, an id that is no number) or on which it raises (no JSON) change *)
(* nothing here and are left out.                                          *)
(***************************************************************************)
EXTENDS Integers

CONSTANTS
    Callers,   \* the threads that make calls
    MaxCalls,  \* bound on the calls made: their ids are 1..MaxCalls
    StrayIds,  \* ids a line may bear although no request bore them
    Bodies,    \* what a line carries: a result or an error
    NoLine     \* PendingCall.response before an answer arrives (None)

Ids == 1 .. MaxCalls

Line == [id : Ids \cup StrayIds, body : Bodies]

ASSUME ClientAssumption ==
    /\ MaxCalls \in Nat
    /\ StrayIds \subseteq Int
    /\ NoLine \notin Line

VARIABLES
    next_id,   \* _next_id
    pending,   \* the ids in _pending
    response,  \* response[i]: PendingCall.response of call i
    event,     \* event[i]: PendingCall.event of call i is set
    sent,      \* ids of the requests that reached the device
    pc,        \* pc[t]: where thread t stands in _call
    call,      \* call[t]: the id of the call thread t is in, or was in last
    reader,    \* where the reader thread stands in handle_text
    outcome    \* outcome[i]: how call i ended, a history of what _call did

vars == <<next_id, pending, response, event, sent, pc, call, reader, outcome>>

callerVars == <<next_id, sent, pc, call, outcome>>

\* The reader outside handle_text, and inside it with the call it popped.
ReaderIdle == [at |-> "idle", call |-> 0, line |-> NoLine]
Popped(i, line) == [at |-> "store", call |-> i, line |-> line]

Outcomes == {"none", "result", "timeout", "raised"}

TypeOK ==
    /\ next_id \in 1 .. MaxCalls + 1
    /\ pending \subseteq Ids
    /\ response \in [Ids -> Line \cup {NoLine}]
    /\ event \in [Ids -> BOOLEAN]
    /\ sent \subseteq Ids
    /\ pc \in [Callers -> {"idle", "send", "wait", "expired"}]
    /\ call \in [Callers -> Ids \cup {0}]
    /\ reader \in {ReaderIdle} \cup [at : {"store", "set"}, call : Ids, line : Line]
    /\ outcome \in [Ids -> Outcomes]

Init ==
    /\ next_id = 1
    /\ pending = {}
    /\ response = [i \in Ids |-> NoLine]
    /\ event = [i \in Ids |-> FALSE]
    /\ sent = {}
    /\ pc = [t \in Callers |-> "idle"]
    /\ call = [t \in Callers |-> 0]
    /\ reader = ReaderIdle
    /\ outcome = [i \in Ids |-> "none"]

-----------------------------------------------------------------------------
(* _call *)

Goto(t, label) == pc' = [pc EXCEPT ![t] = label]

End(t, how) ==
    /\ Goto(t, "idle")
    /\ outcome' = [outcome EXCEPT ![call[t]] = how]

\* The id after the one that is taken.
IdAfter == next_id + 1

\* Under the lock: take an id and file a fresh PendingCall under it.
CallRegister(t) ==
    /\ pc[t] = "idle"
    /\ next_id <= MaxCalls
    /\ call' = [call EXCEPT ![t] = next_id]
    /\ pending' = pending \cup {next_id}
    /\ next_id' = IdAfter
    /\ Goto(t, "send")
    /\ UNCHANGED <<response, event, sent, reader, outcome>>

\* _send_text: the request goes out, or the transport swallows the failure of
\* the socket (send_bytes hands it to the error callback and returns).
CallSend(t) ==
    /\ pc[t] = "send"
    /\ sent' \in {sent, sent \cup {call[t]}}
    /\ Goto(t, "wait")
    /\ UNCHANGED <<next_id, pending, response, event, call, reader, outcome>>

\* _send_text raises (the error callback did): the exception leaves _call
\* before the try, and the entry stays in _pending.
CallSendRaises(t) ==
    /\ pc[t] = "send"
    /\ End(t, "raised")
    /\ UNCHANGED <<next_id, pending, response, event, sent, call, reader>>

\* The event is set: wait returns the response.
CallReturn(t) ==
    /\ pc[t] = "wait"
    /\ event[call[t]]
    /\ End(t, "result")
    /\ UNCHANGED <<next_id, pending, response, event, sent, call, reader>>

\* A wait without a timeout, the faulty variant of the next definition.
NeverTimesOut(t) == FALSE
TimesOut(t) == ~event[call[t]]

\* The timeout passes first: wait raises TimeoutError.
CallExpire(t) ==
    /\ pc[t] = "wait"
    /\ TimesOut(t)
    /\ Goto(t, "expired")
    /\ UNCHANGED <<next_id, pending, response, event, sent, call, reader, outcome>>

\* What the except branch leaves in _pending; the faulty variant forgets to pop.
NotPopped(t) == pending
WithoutCall(t) == pending \ {call[t]}

\* The except branch: under the lock, drop the entry if it is still there.
CallCleanup(t) ==
    /\ pc[t] = "expired"
    /\ pending' = WithoutCall(t)
    /\ End(t, "timeout")
    /\ UNCHANGED <<next_id, response, event, sent, call, reader>>

-----------------------------------------------------------------------------
(* handle_text *)

\* What the critical section does with the table.  Faulty variants: the entry
\* is looked up and stays, the oldest call is taken whatever the line answers,
\* the reader goes on without an entry.
LookUpOnly(line) ==
    /\ pending' = pending
    /\ reader' = IF line.id \in pending THEN Popped(line.id, line) ELSE reader
PopOldest(line) ==
    LET oldest == CHOOSE i \in pending : \A j \in pending : i <= j
    IN IF pending = {}
       THEN UNCHANGED <<pending, reader>>
       ELSE pending' = pending \ {oldest} /\ reader' = Popped(oldest, line)
PopUnchecked(line) ==
    /\ pending' = pending \ {line.id}
    /\ reader' = Popped(line.id, line)
PopPending(line) ==
    /\ pending' = pending \ {line.id}
    /\ reader' = IF line.id \in pending THEN Popped(line.id, line) ELSE reader

\* Under the lock: pop the PendingCall the line answers; a line that answers no
\* pending call (stray, repeated, or too late) is dropped.
HandleText(line) ==
    /\ reader.at = "idle"
    /\ line.id \in sent \cup StrayIds
    /\ PopPending(line)
    /\ UNCHANGED <<response, event, callerVars>>

\* The faulty variant of the next step wakes the caller before it has stored
\* the response.
WakesFirst ==
    /\ reader.at = "store"
    /\ event' = [event EXCEPT ![reader.call] = TRUE]
    /\ reader' = [reader EXCEPT !.at = "set"]
    /\ UNCHANGED <<pending, response, callerVars>>

\* pending.response = obj ...
HandleTextStore ==
    /\ reader.at = "store"
    /\ response' = [response EXCEPT ![reader.call] = reader.line]
    /\ reader' = [reader EXCEPT !.at = "set"]
    /\ UNCHANGED <<pending, event, callerVars>>

\* ... and then pending.event.set().
HandleTextSet ==
    /\ reader.at = "set"
    /\ event' = [event EXCEPT ![reader.call] = TRUE]
    /\ reader' = ReaderIdle
    /\ UNCHANGED <<pending, response, callerVars>>

-----------------------------------------------------------------------------

CallerStep(t) ==
    \/ CallSend(t)
    \/ CallSendRaises(t)
    \/ CallReturn(t)
    \/ CallExpire(t)
    \/ CallCleanup(t)

ReaderStep == HandleTextStore \/ HandleTextSet

Next ==
    \/ \E t \in Callers : CallRegister(t) \/ CallerStep(t)
    \/ \E line \in Line : HandleText(line)
    \/ ReaderStep

Spec == Init /\ [][Next]_vars

\* A thread inside _call keeps running: the operating system schedules it and
\* its wait has a timeout.  Nothing is assumed of the device.
FairSpec == Spec /\ (\A t \in Callers : WF_vars(CallerStep(t))) /\ WF_vars(ReaderStep)

-----------------------------------------------------------------------------
(* What the client guarantees. *)

\* The assert of PendingCall.wait (the line after event.wait) never fails: a
\* caller that is woken finds a response, because the reader stores it first.
EventAfterResponse == \A i \in Ids : event[i] => response[i] # NoLine

\* A call never returns the answer to another call, however late, repeated or
\* reordered the answers are and whichever thread called: what it returns bears
\* its own id, and that id was sent unless the device guessed it.
OwnResponse ==
    \A i \in Ids : outcome[i] = "result" =>
        /\ response[i] # NoLine
        /\ response[i].id = i
        /\ i \in sent \cup StrayIds

\* The table holds no entry of a call that has returned or timed out, so a late
\* answer finds nothing to fill (_pending is emptied by handle_text or by the
\* except branch, whichever comes first).
NoLeak == \A i \in Ids : outcome[i] \in {"result", "timeout"} => i \notin pending

\* A PendingCall is filled once: a repeated answer never replaces the response
\* a caller may already be reading outside the lock.
AnsweredOnce ==
    [][\A i \in Ids : response[i] # NoLine => response'[i] = response[i]]_vars

\* The abstract view: a call is open from the step that takes its id to the step
\* in which _call returns or raises.
Status(i) ==
    IF i >= next_id THEN "unused"
    ELSE IF outcome[i] = "none" THEN "open" ELSE outcome[i]

Returned(i) == IF outcome[i] = "result" THEN response[i] ELSE NoLine

Calls == INSTANCE RpcCalls WITH
    status <- [i \in Ids |-> Status(i)],
    answer <- [i \in Ids |-> Returned(i)]

\* Every call that is made ends exactly once, in its own answer or in an
\* exception, and ends although the device may never answer.
ImplementsRpcCalls == Calls!Spec

\* The part of it without fairness.
ImplementsRpcCallsSafely == Calls!SafeSpec

=============================================================================
