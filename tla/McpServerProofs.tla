-------------------------- MODULE McpServerProofs --------------------------
(***************************************************************************)
(* Proofs about McpServer, for any threads, tools, devices, schemas,       *)
(* sessions and requests.                                                  *)
(***************************************************************************)
EXTENDS McpServer, TLAPS

-----------------------------------------------------------------------------
(* The inductive invariant. *)

ListedSoon(k) ==
    \/ listed[k] # NoTool
    \/ \E t \in Threads : /\ thread[t].at = "add" /\ thread[t].tool = k
                          /\ ~Refused(thread[t].schema)

Good(schema) == schema # NoTool /\ ~Refused(schema)

\* What is in the registry, or in a dictionary that a removal will assign to it,
\* is listed or about to be.
RegistryListed == \A k \in Tools : Good(services[k]) => ListedSoon(k)
CopiesListed ==
    \A t \in Threads, k \in Tools :
        thread[t].at = "remove" /\ Good(thread[t].read[k]) => ListedSoon(k)

\* A call is for a tool that was listed, which it stays with the schema it has,
\* and what is inside the wrappers of its arguments stays what FastMCP let through.
CallFaithful ==
    call # NoCall =>
        LET schema == listed[call.tool]
            args == Validated(schema, call.given)
        IN /\ schema # NoTool
           /\ args \in Objects
           /\ call.at = "lookup" => call.args = args
           /\ call.at = "unwrap" => call.args \in Objects /\ Innermost[call.args] = Innermost[args]
           /\ call.at = "sent" => call.args = DropNulls(Innermost[args])

IInv ==
    /\ TypeOK
    /\ NobodyMissesAChange
    /\ RegistryListed
    /\ CopiesListed
    /\ CallFaithful

-----------------------------------------------------------------------------
(* Threads and tasks have the fields their state tells. *)

LEMMA ThreadFields ==
    ASSUME TypeOK, NEW t \in Threads
    PROVE  /\ thread[t].at = "add" => thread[t].tool \in Tools /\ thread[t].schema \in Schemas
           /\ thread[t].at = "refused" => thread[t].device \in Devices
           /\ thread[t].at = "remove" => thread[t].device \in Devices /\ thread[t].read \in Registry
  BY DEF TypeOK, ThreadState, Idle, Notifying

LEMMA TaskFields ==
    ASSUME TypeOK, NEW n \in Tasks, task[n].at = "sending"
    PROVE  task[n].to \in Sessions /\ task[n].left \subseteq Sessions
  BY DEF TypeOK, TaskState, Unscheduled, Queued, Over

LEMMA StatesTyped ==
    /\ Idle \in ThreadState
    /\ Notifying \in ThreadState
    /\ \A k \in Tools, schema \in Schemas : Adding(k, schema) \in ThreadState
    /\ \A d \in Devices : Refusing(d) \in ThreadState
    /\ \A d \in Devices, read \in Registry : Removing(d, read) \in ThreadState
    /\ Queued \in TaskState
    /\ Over \in TaskState
    /\ \A s \in Sessions, left \in SUBSET Sessions : Sending(s, left) \in TaskState
  BY DEF ThreadState, TaskState, Idle, Notifying, Adding, Refusing, Removing, Queued, Over, Sending

\* What a registration or a removal does to the threads that go through the
\* dictionary: nothing but telling them what became of it.
LEMMA OthersSeen ==
    ASSUME TypeOK, NEW t \in Threads, NEW fate \in {"current", "grown", "old"},
           NEW state \in ThreadState, OthersSee(t, fate, state)
    PROVE  /\ thread' \in [Threads -> ThreadState]
           /\ thread'[t] = state
           /\ \A u \in Threads : u # t /\ thread[u].at # "remove" => thread'[u] = thread[u]
           /\ \A u \in Threads : u # t /\ thread[u].at = "remove" =>
                thread'[u].at = "remove" /\ thread'[u].read = thread[u].read
  <1>1. \A u \in Threads : Sees(u, fate) \in ThreadState
    BY DEF Sees, TypeOK, ThreadState, Idle, Notifying
  <1>2. \A u \in Threads : thread'[u] = IF u = t THEN state ELSE Sees(u, fate)
    BY DEF OthersSee
  <1>3. \A u \in Threads : thread[u].at = "remove" =>
            Sees(u, fate).at = "remove" /\ Sees(u, fate).read = thread[u].read
    BY DEF Sees, TypeOK, ThreadState, Idle, Notifying
  <1>4. \A u \in Threads : thread[u].at # "remove" => Sees(u, fate) = thread[u]
    BY DEF Sees
  <1> QED
    BY <1>1, <1>2, <1>3, <1>4 DEF OthersSee

LEMMA SendNextTyped ==
    ASSUME TypeOK, NEW n \in Tasks, NEW left, left \subseteq Sessions, SendNext(n, left)
    PROVE  task' \in [Tasks -> TaskState]
  <1>1. CASE left = {} /\ task' = [task EXCEPT ![n] = Over]
    BY <1>1, StatesTyped DEF TypeOK
  <1>2. ASSUME NEW s \in left, task' = [task EXCEPT ![n] = Sending(s, left \ {s})]
        PROVE  task' \in [Tasks -> TaskState]
    <2>1. Sending(s, left \ {s}) \in TaskState
      BY StatesTyped
    <2> QED
      BY <1>2, <2>1 DEF TypeOK
  <1> QED
    BY <1>1, <1>2 DEF SendNext

\* Two groups of actions.
ClientStep == \E s \in Sessions :
    SessionOpens(s) \/ StreamOpens(s) \/ ClientLeaves(s) \/ SessionEnds(s)
Request == \E request \in Requests : CallBegins(request[1], request[2])

LEMMA InitIInv == Init => IInv
  <1> SUFFICES ASSUME Init PROVE IInv
    OBVIOUS
  <1>1. TypeOK
    BY McpServerAssumption, StatesTyped
       DEF Init, TypeOK, Registry, SchemasOrNone, Tasks, TaskState, SessionState
  <1>2. NobodyMissesAChange /\ CallFaithful
    BY DEF Init, NobodyMissesAChange, CallFaithful
  <1>3. RegistryListed /\ CopiesListed
    BY DEF Init, RegistryListed, CopiesListed, Good, Idle
  <1> QED
    BY <1>1, <1>2, <1>3 DEF IInv

-----------------------------------------------------------------------------
(* Type correctness. *)

LEMMA TypeStep ==
    ASSUME TypeOK, [Next]_vars
    PROVE  TypeOK'
  <1> USE McpServerAssumption DEF SchemasOrNone
  <1>1. ASSUME NEW t \in Threads, NEW offer \in Offers, RegisterService(t, offer[1], offer[2])
        PROVE  TypeOK'
    <2>1. offer[1] \in Tools /\ offer[2] \in Schemas
      OBVIOUS
    <2>2. thread' \in [Threads -> ThreadState]
      BY <1>1, <2>1, StatesTyped, OthersSeen DEF RegisterService
    <2> QED
      BY <1>1, <2>1, <2>2 DEF TypeOK, RegisterService, Begins, clients, Registry
  <1>2. ASSUME NEW t \in Threads, NEW d \in Devices, UnregisterRead(t, d)
        PROVE  TypeOK'
    <2>1. thread' \in [Threads -> ThreadState]
      BY <1>2, StatesTyped DEF TypeOK, UnregisterRead, Goto
    <2> QED
      BY <1>2, <2>1 DEF TypeOK, UnregisterRead, Begins, clients
  <1>3. ASSUME NEW t \in Threads, ThreadStep(t)
        PROVE  TypeOK'
    <2>1. CASE AddTool(t)
      <3>1. thread' \in [Threads -> ThreadState]
        BY <2>1, StatesTyped DEF TypeOK, AddTool, Goto
      <3>2. listed' \in [Tools -> SchemasOrNone \cup {BuiltinSchema}]
        BY <2>1, ThreadFields DEF TypeOK, AddTool, FirstOf
      <3> QED
        BY <2>1, <3>1, <3>2 DEF TypeOK, AddTool, clients
    <2>2. CASE AddToolRaises(t)
      <3>1. thread' \in [Threads -> ThreadState]
        BY <2>2, StatesTyped, ThreadFields DEF TypeOK, AddToolRaises, Goto
      <3> QED
        BY <2>2, <3>1 DEF TypeOK, AddToolRaises, clients
    <2>3. CASE UnregisterRefused(t)
      <3>1. thread' \in [Threads -> ThreadState]
        BY <2>3, StatesTyped, ThreadFields DEF TypeOK, UnregisterRefused, Goto
      <3> QED
        BY <2>3, <3>1 DEF TypeOK, UnregisterRefused, clients
    <2>4. CASE UnregisterWrite(t)
      <3>1. thread' \in [Threads -> ThreadState]
        BY <2>4, StatesTyped, OthersSeen DEF UnregisterWrite
      <3>2. services' \in Registry
        BY <2>4, ThreadFields DEF UnregisterWrite, Without, Registry
      <3> QED
        BY <2>4, <3>1, <3>2 DEF TypeOK, UnregisterWrite, clients
    <2>5. CASE UnregisterRaises(t)
      <3>1. thread' \in [Threads -> ThreadState]
        BY <2>5, StatesTyped DEF TypeOK, UnregisterRaises, Goto
      <3> QED
        BY <2>5, <3>1 DEF TypeOK, UnregisterRaises, clients
    <2>6. CASE ScheduleNotification(t)
      <3>1. thread' \in [Threads -> ThreadState] /\ task' \in [Tasks -> TaskState]
        BY <2>6, StatesTyped DEF TypeOK, ScheduleNotification, Goto
      <3> QED
        BY <2>6, <3>1 DEF TypeOK, ScheduleNotification, clients
    <2> QED
      BY <1>3, <2>1, <2>2, <2>3, <2>4, <2>5, <2>6 DEF ThreadStep
  <1>4. ASSUME NEW n \in Tasks, NotifyStep(n)
        PROVE  TypeOK'
    <2>1. CASE NotifyStart(n)
      <3>1. task' \in [Tasks -> TaskState]
        BY <2>1, SendNextTyped DEF TypeOK, NotifyStart
      <3> QED
        BY <2>1, <3>1 DEF TypeOK, NotifyStart, clients
    <2>2. CASE NotifySent(n)
      <3>1. task' \in [Tasks -> TaskState]
        BY <2>2, SendNextTyped, TaskFields DEF NotifySent
      <3> QED
        BY <2>2, <3>1 DEF TypeOK, NotifySent
    <2>3. CASE NotifyInVain(n)
      <3>1. task' \in [Tasks -> TaskState]
        BY <2>3, SendNextTyped, TaskFields DEF NotifyInVain, GoesOn
      <3> QED
        BY <2>3, <3>1 DEF TypeOK, NotifyInVain, clients
    <2> QED
      BY <1>4, <2>1, <2>2, <2>3 DEF NotifyStep
  <1>5. ASSUME ClientStep
        PROVE  TypeOK'
    <2> PICK s \in Sessions : SessionOpens(s) \/ StreamOpens(s) \/ ClientLeaves(s) \/ SessionEnds(s)
      BY <1>5 DEF ClientStep
    <2>1. CASE SessionOpens(s)
      BY <2>1 DEF TypeOK, SessionOpens, Moves, Tracked, SessionState
    <2>2. CASE StreamOpens(s)
      BY <2>2 DEF TypeOK, StreamOpens, Moves, SessionState
    <2>3. CASE ClientLeaves(s)
      BY <2>3 DEF TypeOK, ClientLeaves, Moves, SessionState
    <2>4. CASE SessionEnds(s)
      BY <2>4 DEF TypeOK, SessionEnds, Moves, Discarded, SessionState
    <2> QED
      BY <2>1, <2>2, <2>3, <2>4
  <1>6. ASSUME Request
        PROVE  TypeOK'
    BY <1>6 DEF Request, TypeOK, CallBegins, Call, clients
  <1>7. ASSUME CallStep
        PROVE  TypeOK'
    <2>1. CASE CallLooksUp
      BY <2>1 DEF CallLooksUp, TypeOK, GoesOnWith, Call, clients
    <2>2. CASE CallUnwraps
      BY <2>2 DEF CallUnwraps, TypeOK, GoesOnWith, Call, clients
    <2>3. CASE CallSends
      BY <2>3 DEF CallSends, TypeOK, GoesOnWith, Call, clients
    <2>4. CASE CallUnknown \/ CallEnds
      BY <2>4 DEF CallUnknown, CallEnds, TypeOK, clients
    <2> QED
      BY <1>7, <2>1, <2>2, <2>3, <2>4 DEF CallStep
  <1>8. CASE UNCHANGED vars
    BY <1>8 DEF TypeOK, vars, clients
  <1> QED
    BY <1>1, <1>2, <1>3, <1>4, <1>5, <1>6, <1>7, <1>8 DEF Next, ClientStep, Request
-----------------------------------------------------------------------------
(* NobodyMissesAChange. *)

\* A task that goes on to the next session loses none of those that are left.
LEMMA NobodyForgotten ==
    ASSUME TypeOK, NEW n \in Tasks, NEW left, left \subseteq Sessions, SendNext(n, left),
           NEW s \in left
    PROVE  task'[n].at = "sending" /\ s \in {task'[n].to} \cup task'[n].left
  <1>1. PICK r \in left : task' = [task EXCEPT ![n] = Sending(r, left \ {r})]
    BY DEF SendNext
  <1>2. task'[n] = Sending(r, left \ {r})
    BY <1>1 DEF TypeOK
  <1> QED
    BY <1>2 DEF Sending

LEMMA OthersUntouched ==
    ASSUME TypeOK, NEW n \in Tasks, NEW left, SendNext(n, left), NEW m \in Tasks, m # n
    PROVE  task'[m] = task[m]
  BY DEF SendNext, TypeOK

\* The step of a task that does not yet have s behind it keeps its promise.
LEMMA PromiseKept ==
    ASSUME TypeOK, NEW n \in Tasks, NEW left, left \subseteq Sessions, SendNext(n, left),
           UNCHANGED thread, NEW s \in Sessions, ToldSoon(s),
           s \in left \/ (task[n] # Queued
                          /\ ~(task[n].at = "sending" /\ s \in {task[n].to} \cup task[n].left))
    PROVE  ToldSoon(s)'
  <1>1. CASE s \in left
    BY <1>1, NobodyForgotten DEF ToldSoon
  <1>2. CASE s \notin left
    <2>1. CASE \E t \in Threads : thread[t] = Notifying
      BY <2>1 DEF ToldSoon
    <2>2. CASE \E m \in Tasks : \/ task[m] = Queued
                                \/ task[m].at = "sending" /\ s \in {task[m].to} \cup task[m].left
      BY <1>2, <2>2, OthersUntouched DEF ToldSoon
    <2> QED
      BY <2>1, <2>2 DEF ToldSoon
  <1> QED
    BY <1>1, <1>2

LEMMA NobodyMissesStep ==
    ASSUME TypeOK, NobodyMissesAChange, [Next]_vars
    PROVE  NobodyMissesAChange'
  <1> SUFFICES ASSUME NEW s \in Sessions, session'[s] = "listening", heard'[s] # version'
               PROVE  ToldSoon(s)'
    BY DEF NobodyMissesAChange
  <1> DEFINE Kept == /\ UNCHANGED <<task, clients, version>>
                     /\ \A t \in Threads : thread[t] = Notifying => thread'[t] = Notifying
  <1>0. ASSUME Kept PROVE ToldSoon(s)'
    BY <1>0 DEF NobodyMissesAChange, ToldSoon, clients
  <1>1. ASSUME NEW t \in Threads, NEW offer \in Offers, RegisterService(t, offer[1], offer[2])
        PROVE  ToldSoon(s)'
    <2>1. \A u \in Threads : thread[u] = Notifying => thread'[u] = Notifying
      BY <1>1, StatesTyped, OthersSeen, McpServerAssumption
         DEF RegisterService, Begins, Idle, Notifying
    <2> QED
      BY <1>0, <1>1, <2>1 DEF RegisterService
  <1>2. ASSUME NEW t \in Threads, NEW d \in Devices, UnregisterRead(t, d)
        PROVE  ToldSoon(s)'
    BY <1>0, <1>2 DEF UnregisterRead, Begins, Goto, TypeOK, Idle, Notifying
  <1>3. ASSUME NEW t \in Threads, ThreadStep(t)
        PROVE  ToldSoon(s)'
    <2>1. CASE AddTool(t) \/ UnregisterWrite(t)
      <3>1. thread'[t] = Notifying
        BY <2>1, StatesTyped, OthersSeen DEF AddTool, UnregisterWrite, Goto, TypeOK
      <3> QED
        BY <3>1 DEF ToldSoon
    <2>2. CASE AddToolRaises(t)
      BY <1>0, <2>2 DEF AddToolRaises, Goto, TypeOK, Notifying
    <2>3. CASE UnregisterRefused(t)
      BY <1>0, <2>3 DEF UnregisterRefused, Goto, TypeOK, Notifying
    <2>4. CASE UnregisterRaises(t)
      BY <1>0, <2>4 DEF UnregisterRaises, Goto, TypeOK, Notifying
    <2>5. CASE ScheduleNotification(t)
      <3>1. PICK n \in Tasks : task' = [task EXCEPT ![n] = Queued]
        BY <2>5 DEF ScheduleNotification
      <3>2. task'[n] = Queued
        BY <3>1 DEF TypeOK
      <3> QED
        BY <3>2 DEF ToldSoon
    <2> QED
      BY <1>3, <2>1, <2>2, <2>3, <2>4, <2>5 DEF ThreadStep
  <1>4. ASSUME NEW n \in Tasks, NotifyStart(n)
        PROVE  ToldSoon(s)'
    <2>1. UNCHANGED <<session, heard, version, thread>> /\ SendNext(n, live) /\ live \subseteq Sessions
      BY <1>4 DEF NotifyStart, clients, TypeOK
    <2>2. s \in live
      BY <2>1 DEF TypeOK
    <2>3. ToldSoon(s)
      BY <2>1 DEF NobodyMissesAChange
    <2> QED
      BY <2>1, <2>2, <2>3, PromiseKept
  <1>5. ASSUME NEW n \in Tasks, NotifySent(n) \/ NotifyInVain(n)
        PROVE  ToldSoon(s)'
    <2>1. /\ UNCHANGED <<session, version, thread>>
          /\ task[n].at = "sending" /\ task[n] # Queued
          /\ SendNext(n, task[n].left) /\ task[n].left \subseteq Sessions
      BY <1>5, TaskFields DEF NotifySent, NotifyInVain, GoesOn, clients, Queued
    <2>2. s # task[n].to /\ heard'[s] = heard[s]
      BY <1>5 DEF NotifySent, NotifyInVain, clients, TypeOK
    <2>3. ToldSoon(s)
      BY <2>1, <2>2 DEF NobodyMissesAChange
    <2> QED
      BY <2>1, <2>2, <2>3, PromiseKept
  <1>6. ASSUME NEW r \in Sessions,
               SessionOpens(r) \/ StreamOpens(r) \/ ClientLeaves(r) \/ SessionEnds(r)
        PROVE  ToldSoon(s)'
    <2>1. session[s] = "listening" /\ heard[s] # version
      BY <1>6 DEF SessionOpens, StreamOpens, ClientLeaves, SessionEnds, Moves, TypeOK
    <2> QED
      BY <1>6, <2>1 DEF NobodyMissesAChange, ToldSoon, SessionOpens, StreamOpens, ClientLeaves, SessionEnds
  <1>7. ASSUME Request \/ CallStep
        PROVE  ToldSoon(s)'
    <2>1. Kept
      BY <1>7 DEF Request, CallBegins, CallStep, CallLooksUp, CallUnknown, CallUnwraps, CallSends, CallEnds
    <2> QED
      BY <1>0, <2>1
  <1>8. CASE UNCHANGED vars
    BY <1>0, <1>8 DEF vars, clients
  <1> QED
    BY <1>1, <1>2, <1>3, <1>4, <1>5, <1>6, <1>7, <1>8 DEF Next, NotifyStep, Request
-----------------------------------------------------------------------------
(* RoutableIsListed. *)

\* What is listed, or on the way, stays so: only AddTool takes a thread out of
\* "add" with a schema that is not refused, and it lists the tool.
LEMMA ListedSoonStays ==
    ASSUME TypeOK, [Next]_vars, NEW added \in Tools, ListedSoon(added)
    PROVE  ListedSoon(added)'
  <1>1. ASSUME NEW t \in Threads, AddTool(t)
        PROVE  ListedSoon(added)'
    <2>1. listed' = [listed EXCEPT ![thread[t].tool] = FirstOf(thread[t].tool, thread[t].schema)]
          /\ thread' = [thread EXCEPT ![t] = Notifying]
          /\ thread[t].tool \in Tools /\ thread[t].schema \in Schemas
      BY <1>1, ThreadFields DEF AddTool, Goto
    <2>2. CASE thread[t].tool = added
      BY <2>1, <2>2, McpServerAssumption DEF ListedSoon, FirstOf, TypeOK
    <2>3. CASE thread[t].tool # added
      <3>1. listed'[added] = listed[added]
        BY <2>1, <2>3 DEF TypeOK
      <3>2. \A u \in Threads : u # t => thread'[u] = thread[u]
        BY <2>1 DEF TypeOK
      <3> QED
        BY <2>3, <3>1, <3>2 DEF ListedSoon
    <2> QED
      BY <2>2, <2>3
  <1>2. ASSUME UNCHANGED listed,
               \A t \in Threads : thread[t].at = "add" /\ ~Refused(thread[t].schema)
                                  => thread'[t] = thread[t]
        PROVE  ListedSoon(added)'
    BY <1>2 DEF ListedSoon
  <1>3. ASSUME NEW t \in Threads, NEW offer \in Offers, RegisterService(t, offer[1], offer[2])
        PROVE  ListedSoon(added)'
    <2>1. \A u \in Threads : thread[u].at = "add" => thread'[u] = thread[u]
      BY <1>3, StatesTyped, OthersSeen, McpServerAssumption DEF RegisterService, Begins, Idle
    <2> QED
      BY <1>2, <1>3, <2>1 DEF RegisterService
  <1>4. ASSUME NEW t \in Threads, NEW d \in Devices, UnregisterRead(t, d)
        PROVE  ListedSoon(added)'
    BY <1>2, <1>4 DEF UnregisterRead, Begins, Goto, TypeOK, Idle
  <1>5. ASSUME NEW t \in Threads, ThreadStep(t)
        PROVE  ListedSoon(added)'
    <2>1. CASE AddToolRaises(t)
      BY <1>2, <2>1 DEF AddToolRaises, Goto, TypeOK
    <2>2. CASE UnregisterRefused(t)
      BY <1>2, <2>2 DEF UnregisterRefused, Goto, TypeOK
    <2>3. CASE UnregisterWrite(t)
      <3>1. \A u \in Threads : thread[u].at = "add" => thread'[u] = thread[u]
        BY <2>3, StatesTyped, OthersSeen DEF UnregisterWrite
      <3> QED
        BY <1>2, <2>3, <3>1 DEF UnregisterWrite
    <2>4. CASE UnregisterRaises(t)
      BY <1>2, <2>4 DEF UnregisterRaises, Goto, TypeOK
    <2>5. CASE ScheduleNotification(t)
      BY <1>2, <2>5 DEF ScheduleNotification, Goto, TypeOK, Notifying
    <2> QED
      BY <1>1, <1>5, <2>1, <2>2, <2>3, <2>4, <2>5 DEF ThreadStep
  <1>6. ASSUME NEW n \in Tasks, NotifyStep(n)
        PROVE  ListedSoon(added)'
    BY <1>2, <1>6 DEF NotifyStep, NotifyStart, NotifySent, NotifyInVain
  <1>7. ASSUME ClientStep \/ Request \/ CallStep
        PROVE  ListedSoon(added)'
    BY <1>2, <1>7 DEF ClientStep, SessionOpens, StreamOpens, ClientLeaves, SessionEnds, Request,
         CallBegins, CallStep, CallLooksUp, CallUnknown, CallUnwraps, CallSends, CallEnds
  <1>8. CASE UNCHANGED vars
    BY <1>2, <1>8 DEF vars
  <1> QED
    BY <1>3, <1>4, <1>5, <1>6, <1>7, <1>8 DEF Next, ClientStep, Request

\* A step that neither writes the registry nor reads it for a removal.
LEMMA RegistryStays ==
    ASSUME TypeOK, RegistryListed, CopiesListed, [Next]_vars,
           UNCHANGED services,
           \A t \in Threads : thread'[t].at = "remove" =>
                thread[t].at = "remove" /\ thread'[t].read = thread[t].read
    PROVE  RegistryListed' /\ CopiesListed'
  BY ListedSoonStays DEF RegistryListed, CopiesListed

LEMMA RegistryStep ==
    ASSUME TypeOK, RegistryListed, CopiesListed, [Next]_vars
    PROVE  RegistryListed' /\ CopiesListed'
  <1>1. ASSUME NEW t \in Threads, NEW offer \in Offers, RegisterService(t, offer[1], offer[2])
        PROVE  RegistryListed' /\ CopiesListed'
    <2> DEFINE added == offer[1]  schema == offer[2]
    <2>1. /\ added \in Tools /\ services' = [services EXCEPT ![added] = schema]
          /\ schema \in Schemas
      BY <1>1, McpServerAssumption DEF RegisterService
    <2>2. /\ thread'[t] = Adding(added, schema)
          /\ \A u \in Threads : u # t /\ thread'[u].at = "remove" =>
               thread[u].at = "remove" /\ thread'[u].read = thread[u].read
      BY <1>1, <2>1, StatesTyped, OthersSeen DEF RegisterService
    <2>3. Good(schema) => ListedSoon(added)'
      BY <2>2 DEF Good, ListedSoon, Adding
    <2>4. \A j \in Tools : services'[j] = IF j = added THEN schema ELSE services[j]
      BY <2>1 DEF TypeOK, Registry
    <2>5. RegistryListed'
      BY <2>3, <2>4, ListedSoonStays DEF RegistryListed
    <2>6. \A u \in Threads : thread'[u].at = "remove" =>
               thread[u].at = "remove" /\ thread'[u].read = thread[u].read
      BY <2>2 DEF Adding
    <2>7. CopiesListed'
      BY <2>6, ListedSoonStays DEF CopiesListed
    <2> QED
      BY <2>5, <2>7
  <1>2. ASSUME NEW t \in Threads, NEW d \in Devices, thread' = [thread EXCEPT ![t] = Removing(d, services)],
               UNCHANGED services
        PROVE  RegistryListed' /\ CopiesListed'
    <2>1. /\ thread'[t].read = services
          /\ \A u \in Threads : u # t => thread'[u] = thread[u]
      BY <1>2 DEF TypeOK, Removing
    <2>2. CopiesListed'
      BY <2>1, ListedSoonStays DEF CopiesListed, RegistryListed
    <2> QED
      BY <1>2, <2>2, ListedSoonStays DEF RegistryListed
  <1>3. ASSUME NEW t \in Threads, UnregisterWrite(t)
        PROVE  RegistryListed' /\ CopiesListed'
    <2>1. \A added \in Tools : Good(services'[added]) => Good(thread[t].read[added])
      BY <1>3, ThreadFields DEF UnregisterWrite, Without, Good
    <2>2. RegistryListed'
      BY <1>3, <2>1, ListedSoonStays DEF RegistryListed, CopiesListed, UnregisterWrite
    <2>3. \A u \in Threads : thread'[u].at = "remove" =>
               thread[u].at = "remove" /\ thread'[u].read = thread[u].read
      BY <1>3, StatesTyped, OthersSeen DEF UnregisterWrite, Notifying
    <2>4. CopiesListed'
      BY <2>3, ListedSoonStays DEF CopiesListed
    <2> QED
      BY <2>2, <2>4
  <1>4. ASSUME NEW t \in Threads, ThreadStep(t)
        PROVE  RegistryListed' /\ CopiesListed'
    <2>1. CASE AddTool(t)
      BY <2>1, RegistryStays DEF AddTool, Goto, TypeOK, Notifying
    <2>2. CASE AddToolRaises(t)
      BY <2>2, RegistryStays DEF AddToolRaises, Goto, TypeOK, Refusing
    <2>3. CASE UnregisterRefused(t)
      BY <1>2, <2>3, ThreadFields DEF UnregisterRefused, Goto
    <2>4. CASE UnregisterRaises(t)
      BY <2>4, RegistryStays DEF UnregisterRaises, Goto, TypeOK, Idle
    <2>5. CASE ScheduleNotification(t)
      BY <2>5, RegistryStays DEF ScheduleNotification, Goto, TypeOK, Idle
    <2> QED
      BY <1>3, <1>4, <2>1, <2>2, <2>3, <2>4, <2>5 DEF ThreadStep
  <1>5. ASSUME NEW n \in Tasks, NotifyStep(n)
        PROVE  RegistryListed' /\ CopiesListed'
    BY <1>5, RegistryStays DEF NotifyStep, NotifyStart, NotifySent, NotifyInVain
  <1>6. ASSUME ClientStep \/ Request \/ CallStep
        PROVE  RegistryListed' /\ CopiesListed'
    BY <1>6, RegistryStays DEF ClientStep, SessionOpens, StreamOpens, ClientLeaves, SessionEnds,
         Request, CallBegins, CallStep, CallLooksUp, CallUnknown, CallUnwraps, CallSends, CallEnds
  <1>7. CASE UNCHANGED vars
    BY <1>7, RegistryStays DEF vars
  <1>8. ASSUME NEW t \in Threads, NEW d \in Devices, UnregisterRead(t, d)
        PROVE  RegistryListed' /\ CopiesListed'
    BY <1>2, <1>8 DEF UnregisterRead, Goto
  <1> QED
    BY <1>1, <1>4, <1>5, <1>6, <1>7, <1>8 DEF Next, ClientStep, Request

-----------------------------------------------------------------------------
(* ArgumentsArrive. *)

LEMMA CallStays ==
    ASSUME TypeOK, CallFaithful, UNCHANGED call,
           \A added \in Tools : listed[added] # NoTool => listed'[added] = listed[added]
    PROVE  CallFaithful'
  BY DEF CallFaithful, TypeOK

LEMMA CallFaithfulStep ==
    ASSUME TypeOK, CallFaithful, [Next]_vars
    PROVE  CallFaithful'
  <1>1. ASSUME UNCHANGED <<call, listed>> PROVE CallFaithful'
    BY <1>1, CallStays
  <1>2. ASSUME NEW t \in Threads, AddTool(t)
        PROVE  CallFaithful'
    <2>1. \A added \in Tools : listed[added] # NoTool => listed'[added] = listed[added]
      BY <1>2, ThreadFields DEF AddTool, FirstOf, TypeOK
    <2> QED
      BY <1>2, <2>1, CallStays DEF AddTool
  <1>3. ASSUME NEW request \in Requests, CallBegins(request[1], request[2])
        PROVE  CallFaithful'
    <2> DEFINE added == request[1]  given == request[2]  schema == listed[added]
    <2>1. schema \in Schemas \cup {BuiltinSchema} /\ schema # NoTool
      BY <1>3, McpServerAssumption DEF CallBegins, TypeOK, SchemasOrNone
    <2>2. Validated(schema, given) \in Objects
      BY <1>3, <2>1, InnermostAssumption DEF CallBegins
    <2> QED
      BY <1>3, <2>1, <2>2 DEF CallBegins, Call, CallFaithful
  <1>4. CASE CallLooksUp
    BY <1>4 DEF CallLooksUp, GoesOnWith, Call, CallFaithful
  <1>5. CASE CallUnwraps
    <2>1. /\ call.args \in Objects /\ IsWrapper(call.args)
          /\ Innermost[call.args] = Innermost[Validated(listed[call.tool], call.given)]
      BY <1>5 DEF CallUnwraps, CallFaithful
    <2>2. call.args["arguments"] \in Objects /\ Innermost[call.args] = Innermost[call.args["arguments"]]
      BY <2>1, InnermostAssumption
    <2> QED
      BY <1>5, <2>1, <2>2 DEF CallUnwraps, GoesOnWith, Call, CallFaithful
  <1>6. CASE CallSends
    <2>1. Innermost[call.args] = call.args
      BY <1>6, InnermostAssumption DEF CallSends, CallFaithful
    <2> QED
      BY <1>6, <2>1 DEF CallSends, GoesOnWith, Call, CallFaithful
  <1>7. CASE CallUnknown \/ CallEnds
    BY <1>7 DEF CallUnknown, CallEnds, CallFaithful
  <1>8. ASSUME NEW t \in Threads,
               \/ \E offer \in Offers : RegisterService(t, offer[1], offer[2])
               \/ \E d \in Devices : UnregisterRead(t, d)
               \/ ThreadStep(t)
        PROVE  CallFaithful'
    BY <1>1, <1>2, <1>8 DEF RegisterService, UnregisterRead, ThreadStep, AddToolRaises,
         UnregisterRefused, UnregisterWrite, UnregisterRaises, ScheduleNotification
  <1>9. ASSUME NEW n \in Tasks, NotifyStep(n)
        PROVE  CallFaithful'
    BY <1>1, <1>9 DEF NotifyStep, NotifyStart, NotifySent, NotifyInVain
  <1>10. CASE ClientStep
    BY <1>1, <1>10 DEF ClientStep, SessionOpens, StreamOpens, ClientLeaves, SessionEnds
  <1>11. CASE UNCHANGED vars
    BY <1>1, <1>11 DEF vars
  <1> QED
    BY <1>3, <1>4, <1>5, <1>6, <1>7, <1>8, <1>9, <1>10, <1>11 DEF Next, ClientStep, CallStep

\* What FastMCP validated for a tool without a parameter "arguments" is no wrapper.
LEMMA NoWrapper ==
    ASSUME NEW schema, NEW given, "arguments" \notin Params(schema),
           Validated(schema, given) \in Objects
    PROVE  Innermost[Validated(schema, given)] = Validated(schema, given)
  <1>1. DOMAIN Validated(schema, given) # {"arguments"}
    BY DEF Validated
  <1> QED
    BY <1>1, InnermostAssumption DEF IsWrapper

\* Dropping the nulls of what FastMCP validated leaves what the tool declares.
LEMMA ValidatedAsDeclared ==
    ASSUME NEW schema, NEW given
    PROVE  AsDeclared(schema, given, DropNulls(Validated(schema, given)))
  BY DEF AsDeclared, DropNulls, Validated, Restrict

-----------------------------------------------------------------------------

LEMMA Inductive == Spec => []IInv
  <1>1. Init => IInv
    BY InitIInv
  <1>2. IInv /\ [Next]_vars => IInv'
    BY TypeStep, NobodyMissesStep, RegistryStep, CallFaithfulStep DEF IInv
  <1> QED
    BY <1>1, <1>2, PTL DEF Spec

\* The state of the MCP side is well typed, and the set of live sessions that
\* _wrapped_run keeps is that of the sessions that are open.
THEOREM TypeCorrect == Spec => []TypeOK
  <1>1. IInv => TypeOK
    BY DEF IInv
  <1> QED
    BY <1>1, Inductive, PTL

\* No client that listens misses a change of the list of tools, whatever sessions
\* come, go and fail while tasks send notifications (_notify).
THEOREM NotificationsReach == Spec => []NobodyMissesAChange
  <1>1. IInv => NobodyMissesAChange
    BY DEF IInv
  <1> QED
    BY <1>1, Inductive, PTL

\* What can be routed is listed, although remove_by_device writes back registries
\* that are out of date.
THEOREM RoutableListed == Spec => []RoutableIsListed
  <1>1. IInv => RoutableIsListed
    BY DEF IInv, RegistryListed, Good, ListedSoon, RoutableIsListed
  <1> QED
    BY <1>1, Inductive, PTL

\* _normalize_arguments: for any schema and any nesting of wrappers, a device gets what
\* is inside all of them, without the nulls, of what FastMCP lets through under the
\* schema it lists, and that schema is the one under which the call began.
THEOREM ArgumentsReachDevice == Spec => []ArgumentsArrive
  <1>1. IInv => ArgumentsArrive
    BY DEF IInv, CallFaithful, ArgumentsArrive, DropNulls, Restrict
  <1> QED
    BY <1>1, Inductive, PTL

-----------------------------------------------------------------------------
(* What the finding about stale schemas takes. *)

\* No device ever lists a tool with another schema than before.
OneSchema == \A a, b \in Offers : a[1] = b[1] => a[2] = b[2]

\* What the registry, FastMCP and a call know of a tool is what a device offered.
OffersOnly ==
    /\ \A added \in Tools : services[added] # NoTool => <<added, services[added]>> \in Offers
    /\ \A added \in Tools \ Builtins : listed[added] # NoTool => <<added, listed[added]>> \in Offers
    /\ \A t \in Threads :
        /\ thread[t].at = "add" => <<thread[t].tool, thread[t].schema>> \in Offers
        /\ thread[t].at = "remove" =>
            \A added \in Tools : thread[t].read[added] # NoTool => <<added, thread[t].read[added]>> \in Offers
    /\ call # NoCall =>
        /\ call.tool \in Tools \ Builtins
        /\ call.at \in {"unwrap", "sent"} => <<call.tool, call.schema>> \in Offers

LEMMA OffersStay ==
    ASSUME TypeOK, OffersOnly, UNCHANGED <<services, listed, call>>,
           \A t \in Threads : thread'[t].at \in {"add", "remove"} => thread'[t] = thread[t]
    PROVE  OffersOnly'
  BY DEF OffersOnly

LEMMA OffersStep ==
    ASSUME TypeOK, OffersOnly, [Next]_vars
    PROVE  OffersOnly'
  <1>1. ASSUME NEW t \in Threads, NEW offer \in Offers, RegisterService(t, offer[1], offer[2])
        PROVE  OffersOnly'
    <2> DEFINE added == offer[1]  schema == offer[2]
    <2>1. /\ added \in Tools /\ <<added, schema>> \in Offers
          /\ services' = [services EXCEPT ![added] = schema]
          /\ schema \in Schemas
          /\ \E fate \in {"current", "grown"} : OthersSee(t, fate, Adding(added, schema))
          /\ UNCHANGED <<listed, call>>
      BY <1>1, McpServerAssumption DEF RegisterService
    <2> HIDE DEF added, schema
    <2>2. /\ thread'[t] = Adding(added, schema)
          /\ \A u \in Threads : u # t /\ thread[u].at # "remove" => thread'[u] = thread[u]
          /\ \A u \in Threads : u # t /\ thread[u].at = "remove" =>
                thread'[u].at = "remove" /\ thread'[u].read = thread[u].read
      BY <2>1, StatesTyped, OthersSeen
    <2>3. /\ \A j \in Tools : services'[j] = IF j = added THEN schema ELSE services[j]
      BY <2>1 DEF TypeOK, Registry
    <2>4. \A j \in Tools : services'[j] # NoTool => <<j, services'[j]>> \in Offers
      BY <2>1, <2>3 DEF OffersOnly
    <2>5. \A u \in Threads :
            /\ thread'[u].at = "add" => <<thread'[u].tool, thread'[u].schema>> \in Offers
            /\ thread'[u].at = "remove" =>
                \A j \in Tools : thread'[u].read[j] # NoTool => <<j, thread'[u].read[j]>> \in Offers
      <3>1. /\ thread'[t].at = "add"
            /\ thread'[t].tool = added
            /\ thread'[t].schema = schema
        BY <2>2 DEF Adding
      <3>2. ASSUME NEW u \in Threads, u # t, thread[u].at # "remove"
            PROVE  thread'[u] = thread[u]
        BY <2>2, <3>2
      <3>3. ASSUME NEW u \in Threads, u # t, thread[u].at = "remove"
            PROVE  thread'[u].at = "remove" /\ thread'[u].read = thread[u].read
        BY <2>2, <3>3
      <3> QED
        BY <2>1, <3>1, <3>2, <3>3 DEF OffersOnly
    <2> QED
      BY <2>1, <2>4, <2>5 DEF OffersOnly
  <1>2. ASSUME NEW t \in Threads, NEW d \in Devices,
               thread' = [thread EXCEPT ![t] = Removing(d, services)],
               UNCHANGED <<services, listed, call>>
        PROVE  OffersOnly'
    <2>1. /\ thread'[t] = Removing(d, services)
          /\ \A u \in Threads : u # t => thread'[u] = thread[u]
      BY <1>2 DEF TypeOK
    <2> QED
      BY <1>2, <2>1 DEF OffersOnly, Removing
  <1>3. ASSUME NEW t \in Threads, UnregisterWrite(t)
        PROVE  OffersOnly'
    <2>1. \A k \in Tools : services'[k] # NoTool => services'[k] = thread[t].read[k]
      BY <1>3 DEF UnregisterWrite, Without
    <2>2. /\ \A u \in Threads : thread'[u].at = "add" => thread'[u] = thread[u]
          /\ \A u \in Threads : thread'[u].at = "remove" =>
                thread[u].at = "remove" /\ thread'[u].read = thread[u].read
      BY <1>3, StatesTyped, OthersSeen DEF UnregisterWrite, Notifying
    <2> QED
      BY <1>3, <2>1, <2>2 DEF UnregisterWrite, OffersOnly
  <1>4. ASSUME NEW t \in Threads, AddTool(t)
        PROVE  OffersOnly'
    <2>1. \A k \in Tools : \/ listed'[k] = listed[k]
                           \/ thread[t].tool = k /\ listed'[k] = thread[t].schema
      BY <1>4, ThreadFields DEF AddTool, FirstOf, TypeOK
    <2>2. \A u \in Threads : thread'[u].at \in {"add", "remove"} => thread'[u] = thread[u]
      BY <1>4 DEF AddTool, Goto, TypeOK, Notifying
    <2> QED
      BY <1>4, <2>1, <2>2 DEF AddTool, OffersOnly
  <1>5. ASSUME NEW t \in Threads, ThreadStep(t)
        PROVE  OffersOnly'
    <2>1. CASE AddToolRaises(t)
      BY <2>1, OffersStay DEF AddToolRaises, Goto, TypeOK, Refusing
    <2>2. CASE UnregisterRefused(t)
      BY <1>2, <2>2, ThreadFields DEF UnregisterRefused, Goto
    <2>3. CASE UnregisterRaises(t)
      BY <2>3, OffersStay DEF UnregisterRaises, Goto, TypeOK, Idle
    <2>4. CASE ScheduleNotification(t)
      BY <2>4, OffersStay DEF ScheduleNotification, Goto, TypeOK, Idle
    <2> QED
      BY <1>3, <1>4, <1>5, <2>1, <2>2, <2>3, <2>4 DEF ThreadStep
  <1>6. ASSUME NEW t \in Threads, NEW d \in Devices, UnregisterRead(t, d)
        PROVE  OffersOnly'
    BY <1>2, <1>6 DEF UnregisterRead, Goto
  <1>7. ASSUME NEW n \in Tasks, NotifyStep(n)
        PROVE  OffersOnly'
    BY <1>7, OffersStay DEF NotifyStep, NotifyStart, NotifySent, NotifyInVain
  <1>8. CASE ClientStep
    BY <1>8, OffersStay DEF ClientStep, SessionOpens, StreamOpens, ClientLeaves, SessionEnds
  <1>9. CASE Request
    BY <1>9, McpServerAssumption DEF Request, CallBegins, Call, OffersOnly
  <1>10. CASE CallStep
    <2>1. CASE CallLooksUp
      BY <2>1 DEF CallLooksUp, GoesOnWith, Call, OffersOnly
    <2>2. CASE CallUnwraps \/ CallSends
      BY <2>2 DEF CallUnwraps, CallSends, GoesOnWith, Call, OffersOnly
    <2>3. CASE CallUnknown \/ CallEnds
      BY <2>3 DEF CallUnknown, CallEnds, OffersOnly
    <2> QED
      BY <1>10, <2>1, <2>2, <2>3 DEF CallStep
  <1>11. CASE UNCHANGED vars
    BY <1>11, OffersStay DEF vars
  <1> QED
    BY <1>1, <1>5, <1>6, <1>7, <1>8, <1>9, <1>10, <1>11 DEF Next, ClientStep, Request

\* register_service: a call is checked against another schema than that of its device
\* only if the device listed its tool with two.
THEOREM OneSchemaMatches ==
    ASSUME OneSchema
    PROVE  Spec => []CallsMatchDevice
  <1>1. Init => OffersOnly
    <2> SUFFICES ASSUME Init PROVE OffersOnly
      OBVIOUS
    <2> QED
      BY DEF Init, OffersOnly, Idle
  <1>2. TypeOK /\ OffersOnly /\ [Next]_vars => OffersOnly'
    BY OffersStep
  <1>3. IInv /\ OffersOnly => CallsMatchDevice
    <2> SUFFICES ASSUME IInv, OffersOnly, call # NoCall, call.at = "sent",
                        "arguments" \notin Params(call.schema)
                 PROVE  AsDeclared(call.schema, call.given, call.args)
      BY DEF CallsMatchDevice
    <2>1. <<call.tool, call.schema>> \in Offers /\ call.tool \in Tools \ Builtins
      BY DEF OffersOnly
    <2>2. listed[call.tool] # NoTool
      BY DEF IInv, CallFaithful
    <2>3. <<call.tool, listed[call.tool]>> \in Offers
      BY <2>1, <2>2 DEF OffersOnly
    <2>4. call.schema = listed[call.tool]
      BY <2>1, <2>3, OneSchema DEF OneSchema
    <2>5. call.args = DropNulls(Validated(call.schema, call.given))
      BY <2>4, NoWrapper DEF IInv, CallFaithful
    <2> QED
      BY <2>5, ValidatedAsDeclared
  <1> QED
    BY <1>1, <1>2, <1>3, Inductive, TypeCorrect, PTL DEF Spec

=============================================================================
