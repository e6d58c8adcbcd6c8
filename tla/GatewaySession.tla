--------------------------- MODULE GatewaySession ---------------------------
(***************************************************************************)
(* How the gateway takes on devices, loses them and routes tool calls to   *)
(* them: the session handler (protocol/mlink_session.py), the device and   *)
(* tool registries and the router (gateway/), and the reader thread of a   *)
(* connection (transport/tcp_server.py, unix_server.py, base.py).          *)
(*                                                                         *)
(* Every accepted connection has a sync thread and a reader thread; the    *)
(* MCP event loop runs call_tool.  All of them share the two registries,   *)
(* which have no lock: a step below is one dictionary operation, one       *)
(* assignment or one wait.  A request is answered as RpcCalls says, with   *)
(* the answer to that request or with a timeout, and an answer needs a     *)
(* reader that is still reading.  The steps of on_error, which any of      *)
(* these threads may run, are those of the section "Teardown".             *)
(***************************************************************************)
EXTENDS Integers

CONSTANTS
    Conns,      \* the connections the servers accept
    Names,      \* logical device ids: serverInfo.name, or next_device_id()
    Tools,      \* the names devices give their tools
    Offers,     \* Offers[d]: the tools the device that calls itself d may list
    FullName,   \* f"{device_id}.{tool_name}", not always one to one
    Called,     \* the full names MCP clients call
    MaxFaults,  \* bound on the hang-ups and bad lines of all the devices
    NoConn, NoName, NoService

FullNames == {FullName[p] : p \in Names \X Tools}

\* A ServiceDescriptor, as far as the registries and the router read it.
Service == [device : Names, tool : Tools]

Table == [FullNames -> Service \cup {NoService}]

Loop == <<"loop", NoConn>>
Sync(c) == <<"sync", c>>
Reader(c) == <<"reader", c>>
Threads == {Loop} \cup ({"sync", "reader"} \X Conns)

ASSUME SessionAssumption ==
    /\ FullName \in [Names \X Tools -> FullNames]
    /\ Offers \in [Names -> SUBSET Tools]
    /\ Called \subseteq FullNames
    /\ MaxFaults \in Nat
    /\ NoConn \notin Conns
    /\ NoName \notin Names
    /\ NoService \notin Service

VARIABLES
    devices,    \* DeviceRegistry._devices; a session is named by its connection
    services,   \* ToolRegistry._services
    device_id,  \* device_id[c]: the variable on_error and the sync thread share
    tools,      \* tools[c]: all_tools and session.tools
    todo,       \* todo[c]: what the registration loop has still to register
    closed,     \* closed[c]: the gateway has closed the connection
    gone,       \* gone[c]: the device has hung up
    faults,     \* hang-ups and bad lines so far, counted for the bound only
    pc,         \* where each thread stands
    tear,       \* how far each thread is in on_error or the except branch
    loop        \* the call the event loop is in

vars == <<devices, services, device_id, tools, todo, closed, gone, faults, pc, tear, loop>>

\* A thread that runs no teardown, and an event loop that runs no call.
NoTear == [at |-> "no", dev |-> NoName, victim |-> NoConn,
           kept |-> [k \in FullNames |-> NoService], current |-> FALSE, grew |-> FALSE]
NoCall == [name |-> NoService, service |-> NoService, conn |-> NoConn]

SyncLabels == {"unborn", "initWait", "identify", "replace", "close", "store", "list",
               "listWait", "listLost", "register", "except", "failed", "done"}
ReaderLabels == {"unborn", "recv", "recvError", "failing", "ended", "failed"}
LoopLabels == {"idle", "route", "send", "wait", "lost"}

\* A thread inside on_error or the except branch: where, for which device id,
\* which session it popped and has still to close, the table it has read, whether
\* that table is still the registry's, and whether a key was added to it.
Teardown ==
    [at : {"no", "pop", "close", "read", "write"}, dev : Names \cup {NoName},
     victim : Conns \cup {NoConn}, kept : Table, current : BOOLEAN, grew : BOOLEAN]

TypeOK ==
    /\ devices \in [Names -> Conns \cup {NoConn}]
    /\ services \in Table
    /\ device_id \in [Conns -> Names \cup {NoName}]
    /\ tools \in [Conns -> SUBSET Tools]
    /\ todo \in [Conns -> SUBSET Tools]
    /\ closed \in [Conns -> BOOLEAN]
    /\ gone \in [Conns -> BOOLEAN]
    /\ faults \in 0 .. MaxFaults
    /\ pc \in [Threads -> SyncLabels \cup ReaderLabels \cup LoopLabels]
    /\ pc[Loop] \in LoopLabels
    /\ \A c \in Conns : pc[Sync(c)] \in SyncLabels /\ pc[Reader(c)] \in ReaderLabels
    /\ tear \in [Threads -> Teardown]
    /\ loop \in [name : FullNames \cup {NoService}, service : Service \cup {NoService},
                 conn : Conns \cup {NoConn}]

Init ==
    /\ devices = [d \in Names |-> NoConn]
    /\ services = [k \in FullNames |-> NoService]
    /\ device_id = [c \in Conns |-> NoName]
    /\ tools = [c \in Conns |-> {}]
    /\ todo = [c \in Conns |-> {}]
    /\ closed = [c \in Conns |-> FALSE]
    /\ gone = [c \in Conns |-> FALSE]
    /\ faults = 0
    /\ pc = [t \in Threads |-> IF t = Loop THEN "idle" ELSE "unborn"]
    /\ tear = [t \in Threads |-> NoTear]
    /\ loop = NoCall

\* Thread t stands at label, outside on_error.
At(t, label) == pc[t] = label /\ tear[t].at = "no"
Goto(t, label) == pc' = [pc EXCEPT ![t] = label]

registries == <<devices, services>>
perConn == <<device_id, tools, todo>>
sockets == <<closed, gone, faults>>

-----------------------------------------------------------------------------
(* Teardown: remove_device, then unregister_device, of the device id that  *)
(* the connection has by then; nothing if it has none yet.                 *)

\* The faulty variant shares the variable device_id between the connections.
OnErrorShared(t, c) ==
    tear' = IF \A b \in Conns : device_id[b] = NoName THEN tear
            ELSE LET named == CHOOSE b \in Conns : device_id[b] # NoName
                 IN [tear EXCEPT ![t].at = "pop", ![t].dev = device_id[named]]
OnError(t, c) ==
    tear' = IF device_id[c] = NoName THEN tear
            ELSE [tear EXCEPT ![t].at = "pop", ![t].dev = device_id[c]]

\* remove_device, first half.  The faulty variant closes the session before it
\* takes it out of the table.
RemovePopLate(t) ==
    LET victim == devices[tear[t].dev]
    IN /\ tear[t].at = "pop"
       /\ tear' = [tear EXCEPT ![t].at = IF victim = NoConn THEN "read" ELSE "close",
                               ![t].victim = victim]
       /\ UNCHANGED <<registries, perConn, sockets, pc, loop>>
RemovePop(t) ==
    LET victim == devices[tear[t].dev]
    IN /\ tear[t].at = "pop"
       /\ devices' = [devices EXCEPT ![tear[t].dev] = NoConn]
       /\ tear' = [tear EXCEPT ![t].at = IF victim = NoConn THEN "read" ELSE "close",
                               ![t].victim = victim]
       /\ UNCHANGED <<services, perConn, sockets, pc, loop>>

\* remove_device, second half: close the session that was popped, whichever
\* connection it belongs to.
RemoveClose(t) ==
    /\ tear[t].at = "close"
    /\ closed' = [closed EXCEPT ![tear[t].victim] = TRUE]
    /\ tear' = [tear EXCEPT ![t].at = "read", ![t].victim = NoConn]
    /\ UNCHANGED <<registries, perConn, gone, faults, pc, loop>>

\* remove_by_device iterates over the table to build a new one ...
UnregisterRead(t) ==
    /\ tear[t].at = "read"
    /\ tear' = [tear EXCEPT
         ![t].at = "write",
         ![t].kept = [k \in FullNames |->
            IF services[k] # NoService /\ services[k].device = tear[t].dev
            THEN NoService ELSE services[k]],
         ![t].current = TRUE]
    /\ UNCHANGED <<registries, perConn, sockets, pc, loop>>

\* ... and assigns it.  Threads that iterate over the old table go on with it.
UnregisterWrite(t) ==
    /\ tear[t].at = "write"
    /\ services' = tear[t].kept
    /\ tear' = [u \in Threads |-> IF u = t THEN NoTear ELSE [tear[u] EXCEPT !.current = FALSE]]
    /\ UNCHANGED <<devices, perConn, sockets, pc, loop>>

\* A key that was added during the iteration makes it raise RuntimeError: out
\* of send_bytes into _sync_device_tools' except or out of call_tool, out of
\* _handle_bytes into _reader_loop's except, or out of the thread.  The faulty
\* variant sends every thread where only the sync thread can go.
AfterRaiseExcept(label) == "except"
AfterRaise(label) ==
    CASE label = "listLost" -> "except"
      [] label = "recv" -> "recvError"
      [] label = "lost" -> "idle"
      [] OTHER -> label

UnregisterRaises(t) ==
    /\ tear[t].at = "write"
    /\ tear[t].grew
    /\ tear' = [tear EXCEPT ![t] = NoTear]
    /\ Goto(t, AfterRaise(pc[t]))
    /\ loop' = IF t = Loop THEN NoCall ELSE loop
    /\ UNCHANGED <<registries, perConn, sockets>>

TeardownStep(t) ==
    \/ RemovePop(t)
    \/ RemoveClose(t)
    \/ UnregisterRead(t)
    \/ UnregisterWrite(t)
    \/ UnregisterRaises(t)

-----------------------------------------------------------------------------
(* The sync thread: _sync_device_tools. *)

\* rpc_client._call: send_bytes, then a wait at label "wait" if the device gets
\* the request and at "lost" if it does not.  Sending fails once the gateway has
\* closed the socket, and may fail or go unnoticed when the device has hung up;
\* a failure runs on_error in the calling thread, which then waits all the same.
SendRequest(t, c, wait, lost) ==
    \/ /\ ~closed[c]
       /\ Goto(t, IF gone[c] THEN lost ELSE wait)
       /\ UNCHANGED tear
    \/ /\ closed[c] \/ gone[c]
       /\ Goto(t, lost)
       /\ OnError(t, c)

\* An answer is received by the reader of the connection.
Answered(c) == At(Reader(c), "recv") /\ ~closed[c]

\* The server accepts a connection: the callbacks are set, both threads start,
\* and initialize sends its request.  A hang-up before that send shows as a
\* request that is never answered: on_error does nothing without a device id.
HandleNewConnection(c) ==
    /\ pc[Sync(c)] = "unborn"
    /\ pc' = [pc EXCEPT ![Sync(c)] = "initWait", ![Reader(c)] = "recv"]
    /\ UNCHANGED <<registries, perConn, sockets, tear, loop>>

SyncInitialized(c) ==
    /\ At(Sync(c), "initWait")
    /\ Answered(c)
    /\ Goto(Sync(c), "identify")
    /\ UNCHANGED <<registries, perConn, sockets, tear, loop>>

\* The name the device gives, or deviceN when it gives none.
SyncIdentify(c) ==
    /\ At(Sync(c), "identify")
    /\ \E d \in Names : device_id' = [device_id EXCEPT ![c] = d]
    /\ Goto(Sync(c), "replace")
    /\ UNCHANGED <<registries, tools, todo, sockets, tear, loop>>

\* register_or_replace: pop the session filed under the id, close it, file
\* the new one.  The popped session rides in tear[Sync(c)].victim.
ReplacePop(c) ==
    LET victim == devices[device_id[c]]
    IN /\ At(Sync(c), "replace")
       /\ devices' = [devices EXCEPT ![device_id[c]] = NoConn]
       /\ tear' = [tear EXCEPT ![Sync(c)].victim = victim]
       /\ Goto(Sync(c), IF victim = NoConn THEN "store" ELSE "close")
       /\ UNCHANGED <<services, perConn, sockets, loop>>

ReplaceClose(c) ==
    /\ At(Sync(c), "close")
    /\ closed' = [closed EXCEPT ![tear[Sync(c)].victim] = TRUE]
    /\ tear' = [tear EXCEPT ![Sync(c)].victim = NoConn]
    /\ Goto(Sync(c), "store")
    /\ UNCHANGED <<registries, perConn, gone, faults, loop>>

ReplaceStore(c) ==
    /\ At(Sync(c), "store")
    /\ devices' = [devices EXCEPT ![device_id[c]] = c]
    /\ Goto(Sync(c), "list")
    /\ UNCHANGED <<services, perConn, sockets, tear, loop>>

\* tools_list.
SyncList(c) ==
    /\ At(Sync(c), "list")
    /\ SendRequest(Sync(c), c, "listWait", "listLost")
    /\ UNCHANGED <<registries, perConn, sockets, loop>>

\* A page of tools, with or without a nextCursor.
SyncListed(c) ==
    /\ At(Sync(c), "listWait")
    /\ Answered(c)
    /\ \E page \in SUBSET Offers[device_id[c]] : tools' = [tools EXCEPT ![c] = @ \cup page]
    /\ \/ Goto(Sync(c), "list") /\ UNCHANGED todo
       \/ Goto(Sync(c), "register") /\ todo' = [todo EXCEPT ![c] = tools'[c]]
    /\ UNCHANGED <<registries, device_id, sockets, tear, loop>>

\* The key a service is filed under.
KeyOf(d, tool) == FullName[<<d, tool>>]

\* register_service of one tool: into the tool registry first, which may add a
\* key to a table others iterate over; then into FastMCP, which may raise.
SyncRegister(c) ==
    /\ At(Sync(c), "register")
    /\ \E tool \in todo[c] :
         LET key == KeyOf(device_id[c], tool)
             added == services[key] = NoService
         IN /\ services' = [services EXCEPT ![key] = [device |-> device_id[c], tool |-> tool]]
            /\ tear' = [t \in Threads |-> [tear[t] EXCEPT !.grew = @ \/ (tear[t].current /\ added)]]
            /\ todo' = [todo EXCEPT ![c] = @ \ {tool}]
    /\ \E label \in {"register", "except"} : Goto(Sync(c), label)
    /\ UNCHANGED <<devices, device_id, tools, sockets, loop>>

SyncDone(c) ==
    /\ At(Sync(c), "register")
    /\ todo[c] = {}
    /\ Goto(Sync(c), "done")
    /\ UNCHANGED <<registries, perConn, sockets, tear, loop>>

\* A request times out.
SyncTimeout(c) ==
    /\ \E label \in {"initWait", "listWait", "listLost"} : At(Sync(c), label)
    /\ Goto(Sync(c), "except")
    /\ UNCHANGED <<registries, perConn, sockets, tear, loop>>

\* The except branch: remove_device and unregister_device, if the device has
\* told its name.  The faulty variant only unregisters its tools.
SyncExceptKeeps(c) ==
    /\ At(Sync(c), "except")
    /\ tear' = IF device_id[c] = NoName THEN tear
               ELSE [tear EXCEPT ![Sync(c)].at = "read", ![Sync(c)].dev = device_id[c]]
    /\ Goto(Sync(c), "failed")
    /\ UNCHANGED <<registries, perConn, sockets, loop>>
SyncExcept(c) ==
    /\ At(Sync(c), "except")
    /\ OnError(Sync(c), c)
    /\ Goto(Sync(c), "failed")
    /\ UNCHANGED <<registries, perConn, sockets, loop>>

SyncStep(c) ==
    \/ SyncInitialized(c) \/ SyncIdentify(c)
    \/ ReplacePop(c) \/ ReplaceClose(c) \/ ReplaceStore(c)
    \/ SyncList(c) \/ SyncListed(c) \/ SyncRegister(c) \/ SyncDone(c)
    \/ SyncTimeout(c) \/ SyncExcept(c)
    \/ TeardownStep(Sync(c))

-----------------------------------------------------------------------------
(* The reader thread: _reader_loop. *)

CountFault == faults < MaxFaults /\ faults' = faults + 1

\* The device hangs up, in order or by a reset.
HangUp(c) ==
    /\ pc[Reader(c)] = "recv"
    /\ ~gone[c] /\ ~closed[c]
    /\ CountFault
    /\ gone' = [gone EXCEPT ![c] = TRUE]
    /\ UNCHANGED <<registries, perConn, closed, pc, tear, loop>>

\* A line handle_text raises on: _handle_bytes calls on_error and the loop goes
\* on with the next recv, unless on_error has closed the connection.
ReaderBadLine(c) ==
    /\ At(Reader(c), "recv")
    /\ ~closed[c]
    /\ CountFault
    /\ OnError(Reader(c), c)
    /\ UNCHANGED <<registries, perConn, closed, gone, pc, loop>>

\* recv returns b"", or the loop finds _closed set: the finally clause closes.
ReaderEof(c) ==
    /\ At(Reader(c), "recv")
    /\ closed[c] \/ gone[c]
    /\ closed' = [closed EXCEPT ![c] = TRUE]
    /\ Goto(Reader(c), "ended")
    /\ UNCHANGED <<registries, perConn, gone, faults, tear, loop>>

\* recv raises: a reset, or a socket that was closed since the loop looked.  The
\* faulty variant tells nobody.
ReaderRecvErrorSilent(c) ==
    /\ \/ At(Reader(c), "recv") /\ (closed[c] \/ gone[c])
       \/ At(Reader(c), "recvError")
    /\ Goto(Reader(c), "failing")
    /\ UNCHANGED <<registries, perConn, sockets, tear, loop>>
ReaderRecvError(c) ==
    /\ \/ At(Reader(c), "recv") /\ (closed[c] \/ gone[c])
       \/ At(Reader(c), "recvError")
    /\ OnError(Reader(c), c)
    /\ Goto(Reader(c), "failing")
    /\ UNCHANGED <<registries, perConn, sockets, loop>>

\* The finally clause.
ReaderClose(c) ==
    /\ At(Reader(c), "failing")
    /\ closed' = [closed EXCEPT ![c] = TRUE]
    /\ Goto(Reader(c), "failed")
    /\ UNCHANGED <<registries, perConn, gone, faults, tear, loop>>

ReaderStep(c) ==
    ReaderEof(c) \/ ReaderRecvError(c) \/ ReaderClose(c) \/ TeardownStep(Reader(c))

-----------------------------------------------------------------------------
(* The event loop: call_tool. *)

\* The service is looked up; an unknown name raises and changes nothing.
CallLookup(key) ==
    /\ At(Loop, "idle")
    /\ services[key] # NoService
    /\ loop' = [NoCall EXCEPT !.name = key, !.service = services[key]]
    /\ Goto(Loop, "route")
    /\ UNCHANGED <<registries, perConn, sockets, tear>>

\* The device is looked up, perhaps long after the service.  The faulty variant
\* takes whichever device is connected.
AnyDevice == {devices[d] : d \in Names} \ {NoConn}
DeviceOfService == {devices[loop.service.device]} \ {NoConn}

CallRoute ==
    /\ At(Loop, "route")
    /\ \E c \in DeviceOfService : loop' = [loop EXCEPT !.conn = c]
    /\ Goto(Loop, "send")
    /\ UNCHANGED <<registries, perConn, sockets, tear>>

CallNotConnected ==
    /\ At(Loop, "route")
    /\ devices[loop.service.device] = NoConn
    /\ loop' = NoCall
    /\ Goto(Loop, "idle")
    /\ UNCHANGED <<registries, perConn, sockets, tear>>

\* tools_call.
CallSend ==
    /\ At(Loop, "send")
    /\ SendRequest(Loop, loop.conn, "wait", "lost")
    /\ UNCHANGED <<registries, perConn, sockets, loop>>

CallReturn(labels) ==
    /\ \E label \in labels : At(Loop, label)
    /\ loop' = NoCall
    /\ Goto(Loop, "idle")
    /\ UNCHANGED <<registries, perConn, sockets, tear>>

CallAnswered == CallReturn({"wait"}) /\ Answered(loop.conn)

\* A wait without a timeout, the faulty variant of the next definition.
CallHangs == CallReturn({})
CallTimeout == CallReturn({"wait", "lost"})

LoopStep ==
    CallRoute \/ CallNotConnected \/ CallSend \/ CallAnswered \/ CallTimeout
    \/ TeardownStep(Loop)

-----------------------------------------------------------------------------

Next ==
    \/ \E c \in Conns : HandleNewConnection(c) \/ HangUp(c) \/ ReaderBadLine(c)
    \/ \E c \in Conns : SyncStep(c) \/ ReaderStep(c)
    \/ \E key \in Called : CallLookup(key)
    \/ LoopStep

Spec == Init /\ [][Next]_vars

\* A running thread is scheduled and every wait has a timeout; nothing is
\* assumed of the devices, of new connections or of the MCP clients.
FairSpec ==
    /\ Spec
    /\ WF_vars(LoopStep)
    /\ \A c \in Conns : WF_vars(SyncStep(c)) /\ WF_vars(ReaderStep(c))

-----------------------------------------------------------------------------
(* What holds. *)

\* A tools/call goes to a connection that called itself by the device id of the
\* tool's full name, though the registries change between the two lookups, the
\* send and the wait (call_tool).
RouteFidelity ==
    pc[Loop] \in {"send", "wait", "lost"} =>
        /\ device_id[loop.conn] = loop.service.device
        /\ FullName[<<loop.service.device, loop.service.tool>>] = loop.name

\* A session others can still look up is not closed under them: remove_device
\* and register_or_replace pop it first, so only its own reader may have ended.
ClosedByOwnReader ==
    \A d \in Names, c \in Conns : devices[d] = c /\ closed[c] =>
        pc[Reader(c)] \in {"ended", "failed"}

\* A connection does not stay in the registry once its synchronisation failed,
\* or once its reader failed after a synchronisation that went through, whatever
\* the event loop and the other connections did meanwhile and although on_error
\* may have run before the session was registered.
Dead(c) ==
    \/ pc[Sync(c)] = "failed" /\ tear[Sync(c)].at # "pop"
    \/ pc[Reader(c)] = "failed" /\ pc[Sync(c)] = "done"

DeadConnectionLeaves ==
    \A c \in Conns : Dead(c) => \A d \in Names : devices[d] # c

\* The connection whose failure thread t deals with.
Owner(t) == IF t = Loop THEN loop.conn ELSE t[2]

\* The connections that are or have been in the device registry, and those of which
\* a failure is about to take the session that is filed under their name out of it.
Entered == {c \in Conns :
    device_id[c] # NoName /\ pc[Sync(c)] \notin {"replace", "close", "store"}}
Failing == {c \in Conns : \E t \in Threads : Owner(t) = c /\ tear[t].at = "pop"}
Ended == {c \in Conns : pc[Reader(c)] \in {"ended", "failed"}}

D == INSTANCE Directory WITH
    name <- device_id, offered <- tools, failing <- Failing, ended <- Ended,
    entered <- Entered, entry <- devices, known <- services, call <- loop

\* The registries are a directory although they have no lock: a device never costs
\* another one its session, a connection is registered once and never comes back,
\* what is registered is closed by nobody else, and calls go by the directory.
ImplementsDirectory == D!Spec

\* call_tool comes back: neither a silent device nor a failing socket, a
\* replaced session or a teardown run on the way can hold the event loop.
LoopReleased == pc[Loop] # "idle" ~> pc[Loop] = "idle"

\* A connection whose reader failed leaves the registry for good, even when it
\* failed before its sync thread registered it.
FailedReaderLeaves ==
    \A c \in Conns : pc[Reader(c)] = "failed" ~> [](\A d \in Names : devices[d] # c)

-----------------------------------------------------------------------------
(* What the documentation says and the code does not do. *)

\* A session is taken out of the registry because its own connection failed, or
\* because a new connection of the device replaces it.
OnlyOwnFailureRemoves ==
    [][\A d \in Names, c \in Conns : devices[d] = c /\ devices'[d] # c =>
         \/ \E t \in Threads : Owner(t) = c /\ tear[t].at = "pop" /\ tear'[t].at # "pop"
         \/ \E b \in Conns : b # c /\ device_id[b] = d /\ pc[Sync(b)] \in {"replace", "store"}
                             /\ pc'[Sync(b)] # pc[Sync(b)]]_vars

\* All is at rest: every connection is over, or is registered, open and has been
\* synchronised, and nobody tears down or calls.
AtRest ==
    /\ pc[Loop] = "idle"
    /\ \A t \in Threads : tear[t].at = "no"
    /\ \A c \in Conns :
        \/ pc[Sync(c)] = "unborn"
        \/ pc[Reader(c)] \in {"ended", "failed"} /\ pc[Sync(c)] \in {"failed", "done"}
        \/ /\ pc[Reader(c)] = "recv" /\ ~closed[c] /\ ~gone[c]
           /\ pc[Sync(c)] = "done"
           /\ \E d \in Names : devices[d] = c

\* The old tools of a device are cleared when it connects again: at rest, the
\* tools filed for a device are tools of the connection that is in the registry
\* for it, not of one it has replaced.
OldToolsCleared ==
    AtRest => \A d \in Names, key \in FullNames :
        devices[d] # NoConn /\ services[key] # NoService /\ services[key].device = d =>
            services[key].tool \in tools[devices[d]]

\* list_devices shows the devices that are connected: one that hung up leaves.
HungUpLeaves ==
    \A c \in Conns : pc[Reader(c)] = "ended" ~> \A d \in Names : devices[d] # c

=============================================================================
