------------------------ MODULE JsonRpcClientProofs ------------------------
(***************************************************************************)
(* Proofs about the JSON-RPC client, for any threads, any number of calls  *)
(* and any stray ids: its safety invariants, that a PendingCall is filled  *)
(* once, and that it implements the safety part of RpcCalls.               *)
(***************************************************************************)
EXTENDS JsonRpcClient, TLAPS

(* The parts of the inductive invariant. *)

\* Nobody has touched an id before it is handed out.
FreshUntouched ==
    \A i \in Ids : i >= next_id =>
        /\ i \notin pending
        /\ ~event[i]
        /\ response[i] = NoLine
        /\ outcome[i] = "none"
        /\ reader.call # i

\* Each thread inside _call is in a call of its own that has not ended.
CallsOpen ==
    \A t \in Callers : pc[t] # "idle" =>
        /\ call[t] \in Ids
        /\ call[t] < next_id
        /\ outcome[call[t]] = "none"

CallsApart ==
    \A t, u \in Callers : pc[t] # "idle" /\ pc[u] # "idle" /\ t # u => call[t] # call[u]

\* The reader alone holds the call it popped, and its line answers that call.
ReaderHolds ==
    reader.at # "idle" =>
        /\ reader.call \notin pending
        /\ reader.line.id = reader.call
        /\ reader.call \in sent \cup StrayIds
        /\ ~event[reader.call]
        /\ reader.at = "store" => response[reader.call] = NoLine
        /\ reader.at = "set" => response[reader.call] = reader.line

\* A response is its own call's, and its call has left the table.
ResponsesMatch ==
    \A i \in Ids : response[i] # NoLine =>
        /\ i \notin pending
        /\ response[i].id = i
        /\ i \in sent \cup StrayIds

\* What the end of a call says about its PendingCall.
EndsMatch ==
    \A i \in Ids :
        /\ outcome[i] = "result" => event[i]
        /\ outcome[i] = "timeout" => i \notin pending

IInv ==
    /\ TypeOK
    /\ FreshUntouched
    /\ CallsOpen
    /\ CallsApart
    /\ ReaderHolds
    /\ ResponsesMatch
    /\ EventAfterResponse
    /\ EndsMatch

-----------------------------------------------------------------------------

\* The invariant holds before the first call.
LEMMA InitIInv == Init => IInv
  BY ClientAssumption
  DEF Init, IInv, TypeOK, FreshUntouched, CallsOpen, CallsApart, ReaderHolds,
      ResponsesMatch, EventAfterResponse, EndsMatch, ReaderIdle, Outcomes, Ids

\* Taking an id keeps it: the id is fresh, so no thread, line or entry has it.
LEMMA RegisterKeeps ==
  ASSUME NEW t \in Callers, IInv, CallRegister(t)
  PROVE  IInv'
  <1> USE ClientAssumption
          DEF IInv, TypeOK, CallRegister, Goto, IdAfter, Ids
  <1>1. TypeOK'
    OBVIOUS
  <1>2. next_id \in Ids /\ next_id \notin pending /\ ~event[next_id]
          /\ response[next_id] = NoLine /\ reader.call # next_id
          /\ outcome[next_id] = "none"
    BY DEF FreshUntouched
  <1>3. FreshUntouched'
    BY <1>2 DEF FreshUntouched
  <1>4. CallsOpen'
    BY <1>2 DEF CallsOpen
  <1>5. CallsApart'
    BY <1>2 DEF CallsApart, CallsOpen
  <1>6. ReaderHolds'
    BY <1>2 DEF ReaderHolds, ReaderIdle
  <1>7. ResponsesMatch'
    BY <1>2 DEF ResponsesMatch
  <1>8. EventAfterResponse'
    BY DEF EventAfterResponse
  <1>9. EndsMatch'
    BY <1>2 DEF EndsMatch
  <1> QED
    BY <1>1, <1>3, <1>4, <1>5, <1>6, <1>7, <1>8, <1>9

\* The other steps of _call keep it: they touch the thread's own call only.
LEMMA CallerStepKeeps ==
  ASSUME NEW t \in Callers, IInv, CallerStep(t)
  PROVE  IInv'
  <1> USE ClientAssumption DEF IInv, TypeOK, Goto, End, Ids, Outcomes
  <1>0. pc[t] # "idle" /\ call[t] \in Ids /\ call[t] < next_id
          /\ outcome[call[t]] = "none"
          /\ \A u \in Callers : pc[u] # "idle" /\ u # t => call[u] # call[t]
    BY DEF CallsOpen, CallsApart, CallerStep, CallSend, CallSendRaises,
           CallReturn, CallExpire, CallCleanup
  <1>1. CASE CallSend(t)
    BY <1>0, <1>1
    DEF CallSend, FreshUntouched, CallsOpen, CallsApart, ReaderHolds,
        ResponsesMatch, EventAfterResponse, EndsMatch
  <1>2. CASE CallSendRaises(t)
    BY <1>0, <1>2
    DEF CallSendRaises, FreshUntouched, CallsOpen, CallsApart, ReaderHolds,
        ResponsesMatch, EventAfterResponse, EndsMatch
  <1>3. CASE CallReturn(t)
    BY <1>0, <1>3
    DEF CallReturn, FreshUntouched, CallsOpen, CallsApart, ReaderHolds,
        ResponsesMatch, EventAfterResponse, EndsMatch
  <1>4. CASE CallExpire(t)
    BY <1>0, <1>4
    DEF CallExpire, FreshUntouched, CallsOpen, CallsApart, ReaderHolds,
        ResponsesMatch, EventAfterResponse, EndsMatch
  <1>5. CASE CallCleanup(t)
    <2> USE <1>0, <1>5 DEF CallCleanup, WithoutCall
    <2>1. TypeOK'
      OBVIOUS
    <2>2. FreshUntouched'
      BY DEF FreshUntouched
    <2>3. CallsOpen' /\ CallsApart'
      BY DEF CallsOpen, CallsApart
    <2>4. ReaderHolds' /\ ResponsesMatch' /\ EventAfterResponse' /\ EndsMatch'
      BY DEF ReaderHolds, ResponsesMatch, EventAfterResponse, EndsMatch
    <2> QED
      BY <2>1, <2>2, <2>3, <2>4
  <1> QED
    BY <1>1, <1>2, <1>3, <1>4, <1>5 DEF CallerStep

\* handle_text keeps it: only the thread that popped an entry fills it.
LEMMA ReaderKeeps ==
  ASSUME IInv, (\E line \in Line : HandleText(line)) \/ ReaderStep
  PROVE  IInv'
  <1> USE ClientAssumption DEF IInv, TypeOK, callerVars, ReaderIdle
  <1>1. ASSUME NEW line \in Line, HandleText(line)
        PROVE  IInv'
    <2> USE <1>1 DEF HandleText, PopPending, Popped, Line
    <2>1. TypeOK'
      OBVIOUS
    <2>2. FreshUntouched' /\ ReaderHolds'
      BY DEF FreshUntouched, ReaderHolds, ResponsesMatch, EventAfterResponse, Ids
    <2>3. CallsOpen' /\ CallsApart' /\ ResponsesMatch' /\ EventAfterResponse' /\ EndsMatch'
      BY DEF CallsOpen, CallsApart, ResponsesMatch, EventAfterResponse, EndsMatch
    <2> QED
      BY <2>1, <2>2, <2>3
  <1>2. CASE HandleTextStore
    <2> USE <1>2 DEF HandleTextStore
    <2>1. reader \in [at : {"store", "set"}, call : Ids, line : Line]
            /\ reader.line # NoLine
      OBVIOUS
    <2>2. TypeOK'
      BY <2>1
    <2>3. FreshUntouched' /\ ReaderHolds' /\ ResponsesMatch' /\ EventAfterResponse'
      BY <2>1 DEF FreshUntouched, ReaderHolds, ResponsesMatch, EventAfterResponse
    <2>4. CallsOpen' /\ CallsApart' /\ EndsMatch'
      BY DEF CallsOpen, CallsApart, EndsMatch
    <2> QED
      BY <2>2, <2>3, <2>4
  <1>3. CASE HandleTextSet
    <2> USE <1>3 DEF HandleTextSet
    <2>1. reader \in [at : {"store", "set"}, call : Ids, line : Line]
            /\ reader.line # NoLine
      OBVIOUS
    <2>2. TypeOK'
      BY <2>1
    <2>3. FreshUntouched' /\ ReaderHolds' /\ ResponsesMatch' /\ EventAfterResponse'
      BY <2>1 DEF FreshUntouched, ReaderHolds, ResponsesMatch, EventAfterResponse, Ids
    <2>4. CallsOpen' /\ CallsApart' /\ EndsMatch'
      BY DEF CallsOpen, CallsApart, EndsMatch
    <2> QED
      BY <2>2, <2>3, <2>4
  <1> QED
    BY <1>1, <1>2, <1>3 DEF ReaderStep

\* The inductive step.
LEMMA NextIInv == IInv /\ [Next]_vars => IInv'
  <1> SUFFICES ASSUME IInv, [Next]_vars PROVE IInv'
    OBVIOUS
  <1>1. CASE Next
    BY <1>1, RegisterKeeps, CallerStepKeeps, ReaderKeeps DEF Next
  <1>2. CASE UNCHANGED vars
    BY <1>2
    DEF vars, IInv, TypeOK, FreshUntouched, CallsOpen, CallsApart, ReaderHolds,
        ResponsesMatch, EventAfterResponse, EndsMatch
  <1> QED
    BY <1>1, <1>2

\* The inductive invariant holds throughout every behaviour.
THEOREM Invariant == Spec => []IInv
  BY InitIInv, NextIInv, PTL DEF Spec

-----------------------------------------------------------------------------

\* Type correctness.
THEOREM TypeCorrect == Spec => []TypeOK
  <1>1. IInv => TypeOK
    BY DEF IInv
  <1> QED
    BY <1>1, Invariant, PTL

\* A thread woken by its event finds a response: the assert of PendingCall.wait
\* cannot fail.
THEOREM AssertHolds == Spec => []EventAfterResponse
  <1>1. IInv => EventAfterResponse
    BY DEF IInv
  <1> QED
    BY <1>1, Invariant, PTL

\* No call returns the answer to another one.
THEOREM AnswersMatchCalls == Spec => []OwnResponse
  <1>1. IInv => OwnResponse
    BY DEF IInv, OwnResponse, EndsMatch, EventAfterResponse, ResponsesMatch
  <1> QED
    BY <1>1, Invariant, PTL

\* A call that returned or timed out has left nothing in _pending.
THEOREM NothingLeaks == Spec => []NoLeak
  <1>1. IInv => NoLeak
    BY DEF IInv, NoLeak, EndsMatch, EventAfterResponse, ResponsesMatch
  <1> QED
    BY <1>1, Invariant, PTL

\* A response is stored once.
THEOREM FilledOnce == Spec => AnsweredOnce
  <1>1. IInv /\ [Next]_vars
          => [\A i \in Ids : response[i] # NoLine => response'[i] = response[i]]_vars
    <2> SUFFICES ASSUME IInv, Next, NEW i \in Ids, response[i] # NoLine
                 PROVE  response'[i] = response[i]
      OBVIOUS
    <2>1. CASE HandleTextStore
      BY <2>1 DEF HandleTextStore, IInv, TypeOK, ReaderHolds
    <2>2. CASE UNCHANGED response
      BY <2>2
    <2> QED
      BY <2>1, <2>2
      DEF Next, CallRegister, CallerStep, CallSend, CallSendRaises, CallReturn,
          CallExpire, CallCleanup, HandleText, ReaderStep, HandleTextSet
  <1> QED
    BY <1>1, Invariant, PTL DEF Spec, AnsweredOnce

-----------------------------------------------------------------------------
(* The client implements the safety part of RpcCalls. *)

\* The abstract state, written out.
LEMMA AbstractState ==
  ASSUME NEW i \in Ids
  PROVE  /\ [j \in Ids |-> Status(j)][i] = Status(i)
         /\ [j \in Ids |-> Returned(j)][i] = Returned(i)
  OBVIOUS

\* A step that neither takes an id nor ends a call is invisible.
LEMMA Invisible ==
  ASSUME IInv, next_id' = next_id, outcome' = outcome,
         \A i \in Ids : outcome[i] = "result" => response'[i] = response[i]
  PROVE  UNCHANGED Calls!vars
  BY DEF Calls!vars, Status, Returned

\* Taking an id opens that call.
LEMMA RegisterOpens ==
  ASSUME IInv, NEW t \in Callers, CallRegister(t)
  PROVE  Calls!Next
  <1> USE ClientAssumption DEF IInv, TypeOK, CallRegister, IdAfter, Ids
  <1>1. next_id \in Ids /\ outcome[next_id] = "none"
    BY DEF FreshUntouched
  <1>2. \A i \in Ids : i < next_id => Status(i) # "unused"
    BY DEF Status, Outcomes
  <1>3. [i \in Ids |-> Status(i)]'
          = [[i \in Ids |-> Status(i)] EXCEPT ![next_id] = "open"]
    <2>1. \A i \in Ids : Status(i)' = IF i = next_id THEN "open" ELSE Status(i)
      BY <1>1 DEF Status
    <2> QED
      BY <2>1
  <1>4. [i \in Ids |-> Returned(i)]' = [i \in Ids |-> Returned(i)]
    BY DEF Returned
  <1>5. Calls!Open(next_id)
    BY <1>1, <1>2, <1>3, <1>4 DEF Calls!Open, Status
  <1> QED
    BY <1>1, <1>5 DEF Calls!Next

\* Returning the response answers the call.
LEMMA ReturnAnswers ==
  ASSUME IInv, NEW t \in Callers, CallReturn(t)
  PROVE  Calls!Next
  <1> USE DEF IInv, TypeOK, CallReturn, End
  <1> DEFINE i == call[t]
  <1>1. i \in Ids /\ i < next_id /\ outcome[i] = "none"
    BY DEF CallsOpen
  <1>2. response[i] \in Line /\ response[i].id = i
    BY <1>1 DEF EventAfterResponse, ResponsesMatch
  <1>3. response[i].body \in Bodies
          /\ response[i] = [id |-> i, body |-> response[i].body]
    BY <1>2 DEF Line
  <1>4. [j \in Ids |-> Status(j)]' = [[j \in Ids |-> Status(j)] EXCEPT ![i] = "result"]
    <2>1. \A j \in Ids : Status(j)' = IF j = i THEN "result" ELSE Status(j)
      BY <1>1, ClientAssumption DEF Status, Ids
    <2> QED
      BY <2>1
  <1>5. [j \in Ids |-> Returned(j)]'
          = [[j \in Ids |-> Returned(j)] EXCEPT ![i] = response[i]]
    BY <1>1 DEF Returned
  <1>6. Status(i) = "open"
    BY <1>1, ClientAssumption DEF Status, Ids
  <1>7. Calls!Answer(i)
    BY <1>1, <1>3, <1>4, <1>5, <1>6 DEF Calls!Answer
  <1> QED
    BY <1>1, <1>7 DEF Calls!Next

\* Raising fails the call, in the except branch or before the try.
LEMMA RaiseFails ==
  ASSUME IInv, NEW t \in Callers, CallSendRaises(t) \/ CallCleanup(t)
  PROVE  Calls!Next
  <1> USE DEF IInv, TypeOK, End
  <1> DEFINE i == call[t]
  <1>1. i \in Ids /\ i < next_id /\ outcome[i] = "none"
    BY DEF CallsOpen, CallSendRaises, CallCleanup
  <1>2. PICK how \in {"timeout", "raised"} : outcome' = [outcome EXCEPT ![i] = how]
    BY DEF CallSendRaises, CallCleanup
  <1>3. next_id' = next_id /\ response' = response
    BY DEF CallSendRaises, CallCleanup
  <1>4. [j \in Ids |-> Status(j)]' = [[j \in Ids |-> Status(j)] EXCEPT ![i] = how]
    <2>1. \A j \in Ids : Status(j)' = IF j = i THEN how ELSE Status(j)
      BY <1>1, <1>2, <1>3, ClientAssumption DEF Status, Ids
    <2> QED
      BY <2>1
  <1>5. [j \in Ids |-> Returned(j)]' = [j \in Ids |-> Returned(j)]
    BY <1>1, <1>2, <1>3 DEF Returned
  <1>6. Status(i) = "open"
    BY <1>1, ClientAssumption DEF Status, Ids
  <1>7. Calls!Fail(i)
    BY <1>1, <1>2, <1>4, <1>5, <1>6 DEF Calls!Fail
  <1> QED
    BY <1>1, <1>7 DEF Calls!Next

\* Every step of the client is a step of RpcCalls or invisible to it.
LEMMA StepRefines == IInv /\ [Next]_vars => [Calls!Next]_(Calls!vars)
  <1> SUFFICES ASSUME IInv, [Next]_vars PROVE [Calls!Next]_(Calls!vars)
    OBVIOUS
  <1>1. ASSUME NEW t \in Callers, CallRegister(t) PROVE Calls!Next
    BY <1>1, RegisterOpens
  <1>2. ASSUME NEW t \in Callers, CallerStep(t) PROVE [Calls!Next]_(Calls!vars)
    <2>1. CASE CallReturn(t)
      BY <2>1, ReturnAnswers
    <2>2. CASE CallSendRaises(t) \/ CallCleanup(t)
      BY <2>2, RaiseFails
    <2>3. CASE CallSend(t) \/ CallExpire(t)
      BY <2>3, Invisible DEF CallSend, CallExpire
    <2> QED
      BY <1>2, <2>1, <2>2, <2>3 DEF CallerStep
  <1>3. CASE \E line \in Line : HandleText(line)
    BY <1>3, Invisible DEF HandleText, callerVars
  <1>4. CASE HandleTextStore
    <2>1. reader.at # "idle" /\ reader.call \in Ids
      BY <1>4 DEF HandleTextStore, IInv, TypeOK, ReaderIdle
    <2>2. outcome[reader.call] # "result"
      BY <2>1 DEF IInv, ReaderHolds, EndsMatch
    <2> QED
      BY <1>4, <2>1, <2>2, Invisible DEF HandleTextStore, callerVars, IInv, TypeOK
  <1>5. CASE HandleTextSet
    BY <1>5, Invisible DEF HandleTextSet, callerVars
  <1>6. CASE UNCHANGED vars
    BY <1>6, Invisible DEF vars
  <1> QED
    BY <1>1, <1>2, <1>3, <1>4, <1>5, <1>6 DEF Next, ReaderStep

\* The client implements RpcCalls without its fairness: calls are numbered in
\* order, each ends once, in its own answer or in an exception, for good.
THEOREM Refinement == Spec => ImplementsRpcCallsSafely
  <1>1. Init => Calls!Init
    BY ClientAssumption DEF Init, Calls!Init, Status, Returned, Ids
  <1> QED
    BY <1>1, Invariant, StepRefines, PTL DEF Spec, ImplementsRpcCallsSafely, Calls!SafeSpec

=============================================================================
