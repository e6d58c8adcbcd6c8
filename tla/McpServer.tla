----------------------------- MODULE McpServer -----------------------------
(***************************************************************************)
(* The side of the gateway that MCP clients see (mcp/mcp_server.py, and    *)
(* the part of gateway/tool_router.py that deals with arguments): the      *)
(* tools FastMCP lists beside the tool registry, notifications that the    *)
(* list has changed, the sessions of the clients, and the arguments of a   *)
(* call.                                                                   *)
(*                                                                         *)
(* The threads in Threads (sync threads and readers of the connections)    *)
(* register and unregister tools; all the rest runs on the event loop,     *)
(* which a tool call blocks.  Looking up, closing and waiting for devices  *)
(* is GatewaySession's; the snapshot is ToolsSnapshot's.                   *)
(***************************************************************************)
EXTENDS Arguments, Naturals

CONSTANTS
    Threads,     \* the threads that register and unregister
    Tools,       \* full names of tools
    Builtins,    \* the names of the gateway's own tools among them
    Devices,     \* the device ids
    DeviceOf,    \* the device id of each full name
    Schemas,     \* schemas of tools
    Offers,      \* which tools devices may list with which schema
    NoTool,      \* the schema of a tool that is not there
    Sessions,    \* the sessions of MCP clients
    Requests,    \* the tools clients may call and the arguments they give
    Objects,     \* the objects the arguments of calls may be
    Innermost,   \* Innermost[o]: the object inside all wrappers of o
    NoCall,      \* the event loop is not in a tool call
    MaxChanges   \* bound on the registrations and removals

\* The schema of the gateway's own tools: they take no arguments.
BuiltinSchema == [required |-> {}, default |-> [p \in {} |-> Null]]

ASSUME McpServerAssumption ==
    /\ Builtins \subseteq Tools
    /\ DeviceOf \in [Tools -> Devices]
    /\ Offers \subseteq Tools \X Schemas
    /\ \A request \in Requests : request[1] \in Tools
    /\ NoTool \notin Schemas \cup {BuiltinSchema}
    /\ MaxChanges \in Nat

\* What the argument of a call may be before the router has it, and what is inside:
\* an object with the one key "arguments" and an object under it stands for that.
ASSUME InnermostAssumption ==
    /\ \A request \in Requests, schema \in Schemas \cup {BuiltinSchema} :
        Accepts(schema, request[2]) => Validated(schema, request[2]) \in Objects
    /\ \A o \in Objects : IsWrapper(o) =>
        o["arguments"] \in Objects /\ Innermost[o] = Innermost[o["arguments"]]
    /\ \A o \in Objects : ~IsWrapper(o) => Innermost[o] = o

VARIABLES
    services,  \* services[k]: the schema of tool k in the tool registry
    listed,    \* listed[k]: the schema of tool k in FastMCP's tool manager
    thread,    \* where each thread stands in register_service or unregister_device
    task,      \* the notification tasks, in the order they were scheduled
    live,      \* _live_sessions
    session,   \* the state of each client's session
    heard,     \* heard[s]: the version of the list s was last told of
    version,   \* the number of changes of the list
    call,      \* the tool call the event loop is in
    changes    \* the number of registrations and removals begun

clients == <<live, session, heard>>
vars == <<services, listed, thread, task, clients, version, call, changes>>

SchemasOrNone == Schemas \cup {NoTool}
Registry == [Tools -> SchemasOrNone]

\* A thread outside, about to call add_tool, inside remove_by_device with what it
\* has read of the dictionary it goes through, about to unregister after add_tool
\* raised, and about to schedule the notification.  The dictionary is the registry's,
\* has had a key added since, or has been replaced by another removal.
Idle == [at |-> "idle"]
Adding(k, schema) == [at |-> "add", tool |-> k, schema |-> schema]
Refusing(d) == [at |-> "refused", device |-> d]
Removing(d, read) == [at |-> "remove", device |-> d, read |-> read, dict |-> "current"]
Notifying == [at |-> "notify"]
ThreadState ==
    {Idle, Notifying}
    \cup [at : {"add"}, tool : Tools, schema : Schemas]
    \cup [at : {"refused"}, device : Devices]
    \cup [at : {"remove"}, device : Devices, read : Registry, dict : {"current", "grown", "old"}]

\* At most one notification per registration or removal; one that add_tool
\* refused is followed by a removal, which has one of its own.
Tasks == 1 .. MaxChanges

\* A task that is not scheduled, that waits for the loop, that sends to one
\* session and has others left, and that is over.
Unscheduled == [at |-> "none"]
Queued == [at |-> "queued"]
Over == [at |-> "over"]
Sending(s, left) == [at |-> "sending", to |-> s, left |-> left]
TaskState == {Unscheduled, Queued, Over} \cup [at : {"sending"}, to : Sessions, left : SUBSET Sessions]

\* A session before it is opened, open but without a stream for notifications
\* yet, with one, closed by its client, and gone.
SessionState == {"new", "open", "listening", "closing", "ended"}

TypeOK ==
    /\ services \in Registry
    /\ listed \in [Tools -> SchemasOrNone \cup {BuiltinSchema}]
    /\ thread \in [Threads -> ThreadState]
    /\ task \in [Tasks -> TaskState]
    /\ session \in [Sessions -> SessionState]
    /\ live = {s \in Sessions : session[s] \notin {"new", "ended"}}
    /\ heard \in [Sessions -> Nat]
    /\ version \in Nat
    /\ call # NoCall => call.tool \in Tools /\ call.at \in {"lookup", "unwrap", "sent"}
    /\ changes \in 0 .. MaxChanges

\* FastMCP has the builtin tools from the start.
Init ==
    /\ services = [k \in Tools |-> NoTool]
    /\ listed = [k \in Tools |-> IF k \in Builtins THEN BuiltinSchema ELSE NoTool]
    /\ thread = [t \in Threads |-> Idle]
    /\ task = [n \in Tasks |-> Unscheduled]
    /\ live = {}
    /\ session = [s \in Sessions |-> "new"]
    /\ heard = [s \in Sessions |-> 0]
    /\ version = 0
    /\ call = NoCall
    /\ changes = 0

-----------------------------------------------------------------------------
(* register_service and unregister_device, in any thread. *)

Goto(t, state) == thread' = [thread EXCEPT ![t] = state]

\* A thread begins one of the two; they are counted to bound them.
Begins(t) ==
    /\ thread[t] = Idle
    /\ changes < MaxChanges
    /\ changes' = changes + 1

\* The threads that go through the registry's dictionary see what becomes of it.
Sees(u, fate) ==
    IF thread[u].at = "remove" /\ thread[u].dict = "current"
    THEN [thread[u] EXCEPT !.dict = fate] ELSE thread[u]
OthersSee(t, fate, state) == thread' = [u \in Threads |-> IF u = t THEN state ELSE Sees(u, fate)]

\* First the tool registry ...
RegisterService(t, k, schema) ==
    /\ Begins(t)
    /\ services' = [services EXCEPT ![k] = schema]
    /\ OthersSee(t, IF services[k] = NoTool THEN "grown" ELSE "current", Adding(k, schema))
    /\ UNCHANGED <<listed, task, clients, version, call>>

\* ... then FastMCP: add_tool lists a new name, and keeps the tool it has when
\* the name is not new.
FirstOf(k, schema) == IF listed[k] = NoTool THEN schema ELSE listed[k]

AddTool(t) ==
    /\ thread[t].at = "add"
    /\ LET k == thread[t].tool  schema == thread[t].schema
       IN /\ ~Refused(schema)
          /\ listed' = [listed EXCEPT ![k] = FirstOf(k, schema)]
    /\ version' = IF listed' = listed THEN version ELSE version + 1
    /\ Goto(t, Notifying)
    /\ UNCHANGED <<services, task, clients, call, changes>>

\* A parameter name is refused: register_service raises without a notification,
\* and the sync thread goes on to unregister its device.
AddToolRaises(t) ==
    /\ thread[t].at = "add"
    /\ Refused(thread[t].schema)
    /\ Goto(t, Refusing(DeviceOf[thread[t].tool]))
    /\ UNCHANGED <<services, listed, task, clients, version, call, changes>>

\* remove_by_device goes through the dictionary, building a new one ...  The
\* faulty variant takes the tools off FastMCP's list first.
UnlistFirst(t, d) ==
    /\ Begins(t)
    /\ listed' = [k \in Tools |-> IF DeviceOf[k] = d THEN NoTool ELSE listed[k]]
    /\ Goto(t, Removing(d, services))
    /\ UNCHANGED <<services, task, clients, version, call>>
UnregisterRead(t, d) ==
    /\ Begins(t)
    /\ Goto(t, Removing(d, services))
    /\ UNCHANGED <<services, listed, task, clients, version, call>>

UnregisterRefused(t) ==
    /\ thread[t].at = "refused"
    /\ Goto(t, Removing(thread[t].device, services))
    /\ UNCHANGED <<services, listed, task, clients, version, call, changes>>

\* ... and assigns it, whatever was registered or removed meanwhile.  FastMCP
\* keeps listing the tools.
Without(registry, d) == [k \in Tools |-> IF DeviceOf[k] = d THEN NoTool ELSE registry[k]]

UnregisterWrite(t) ==
    /\ thread[t].at = "remove"
    /\ services' = Without(thread[t].read, thread[t].device)
    /\ OthersSee(t, "old", Notifying)
    /\ UNCHANGED <<listed, task, clients, version, call, changes>>

\* A key was added to the dictionary on the way: RuntimeError, and no notification.
UnregisterRaises(t) ==
    /\ thread[t].at = "remove"
    /\ thread[t].dict = "grown"
    /\ Goto(t, Idle)
    /\ UNCHANGED <<services, listed, task, clients, version, call, changes>>

\* call_soon_threadsafe: the task is queued behind those scheduled before.
ScheduleNotification(t) ==
    /\ thread[t] = Notifying
    /\ \E n \in Tasks :
        /\ task[n] = Unscheduled
        /\ \A m \in Tasks : m < n => task[m] # Unscheduled
        /\ task' = [task EXCEPT ![n] = Queued]
    /\ Goto(t, Idle)
    /\ UNCHANGED <<services, listed, clients, version, call, changes>>

ThreadStep(t) ==
    AddTool(t) \/ AddToolRaises(t) \/ UnregisterRefused(t) \/ UnregisterWrite(t)
    \/ UnregisterRaises(t) \/ ScheduleNotification(t)

-----------------------------------------------------------------------------
(* The event loop: notifications. *)

LoopFree == call = NoCall

\* The task sends to one of the sessions that are left, or is over.
SendNext(n, left) ==
    \/ left = {} /\ task' = [task EXCEPT ![n] = Over]
    \/ \E s \in left : task' = [task EXCEPT ![n] = Sending(s, left \ {s})]

\* _notify copies the set of live sessions and sends to the first of them.
NotifyStart(n) ==
    /\ LoopFree
    /\ task[n] = Queued
    /\ \A m \in Tasks : m < n => task[m] # Queued
    /\ SendNext(n, live)
    /\ UNCHANGED <<services, listed, thread, clients, version, call, changes>>

\* send_tool_list_changed returns: the client has it and will list the tools.
NotifySent(n) ==
    /\ LoopFree
    /\ task[n].at = "sending"
    /\ session[task[n].to] = "listening"
    /\ heard' = [heard EXCEPT ![task[n].to] = version]
    /\ SendNext(n, task[n].left)
    /\ UNCHANGED <<services, listed, thread, live, session, version, call, changes>>

\* It returns although there was no stream to put it on, or raises because the
\* session's streams are closed; either way the loop over the sessions goes on.
\* The faulty variant lets the exception end the task.
Aborts(n) == IF session[task[n].to] = "open" THEN task[n].left ELSE {}
GoesOn(n) == task[n].left

NotifyInVain(n) ==
    /\ LoopFree
    /\ task[n].at = "sending"
    /\ session[task[n].to] # "listening"
    /\ SendNext(n, GoesOn(n))
    /\ UNCHANGED <<services, listed, thread, clients, version, call, changes>>

NotifyStep(n) == NotifyStart(n) \/ NotifySent(n) \/ NotifyInVain(n)

-----------------------------------------------------------------------------
(* The event loop: the sessions of MCP clients. *)

Moves(s, from, to) ==
    /\ session[s] = from
    /\ session' = [session EXCEPT ![s] = to]

\* _wrapped_run adds the session.  The faulty variant forgets to.
Untracked(s) == live
Tracked(s) == live \cup {s}

SessionOpens(s) ==
    /\ LoopFree
    /\ Moves(s, "new", "open")
    /\ live' = Tracked(s)
    /\ UNCHANGED <<services, listed, thread, task, heard, version, call, changes>>

\* The client opens the stream for notifications and then lists the tools.
StreamOpens(s) ==
    /\ LoopFree
    /\ Moves(s, "open", "listening")
    /\ heard' = [heard EXCEPT ![s] = version]
    /\ UNCHANGED <<services, listed, thread, task, live, version, call, changes>>

\* The client closes its session, or the connection is lost.
ClientLeaves(s) ==
    /\ Moves(s, session[s], "closing")
    /\ session[s] \in {"open", "listening"}
    /\ UNCHANGED <<services, listed, thread, task, live, heard, version, call, changes>>

\* _wrapped_run unwinds and discards it, whoever is sending to it.  The faulty
\* variant does so only when there is nobody.
KeptIfInUse(s) ==
    IF \E n \in Tasks : task[n].at = "sending" /\ task[n].to = s THEN live ELSE live \ {s}
Discarded(s) == live \ {s}

SessionEnds(s) ==
    /\ LoopFree
    /\ Moves(s, "closing", "ended")
    /\ live' = Discarded(s)
    /\ UNCHANGED <<services, listed, thread, task, heard, version, call, changes>>

-----------------------------------------------------------------------------
(* The event loop: a tool call. *)

\* How far the call is, what the client asked for, the schema under which the
\* tool was found in the registry, and the arguments as they are by now.
Call(at, k, given, schema, args) ==
    [at |-> at, tool |-> k, given |-> given, schema |-> schema, args |-> args]
GoesOnWith(at, schema, args) == call' = Call(at, call.tool, call.given, schema, args)

\* FastMCP finds the tool in its list and takes the arguments; it answers an
\* error itself when there is no such tool or an argument is missing, and the
\* gateway's own tools itself.
CallBegins(k, given) ==
    /\ LoopFree
    /\ listed[k] # NoTool /\ k \notin Builtins
    /\ Accepts(listed[k], given)
    /\ call' = Call("lookup", k, given, NoTool, Validated(listed[k], given))
    /\ UNCHANGED <<services, listed, thread, task, clients, version, changes>>

\* ToolRouter.call_tool: the tool is in the registry ...
CallLooksUp ==
    /\ call # NoCall /\ call.at = "lookup"
    /\ services[call.tool] # NoTool
    /\ GoesOnWith("unwrap", services[call.tool], call.args)
    /\ UNCHANGED <<services, listed, thread, task, clients, version, changes>>

\* ... or "Unknown tool" is raised.
CallUnknown ==
    /\ call # NoCall /\ call.at = "lookup"
    /\ services[call.tool] = NoTool
    /\ call' = NoCall
    /\ UNCHANGED <<services, listed, thread, task, clients, version, changes>>

\* One turn of the loop of _normalize_arguments.
CallUnwraps ==
    /\ call # NoCall /\ call.at = "unwrap"
    /\ IsWrapper(call.args)
    /\ GoesOnWith("unwrap", call.schema, call.args["arguments"])
    /\ UNCHANGED <<services, listed, thread, task, clients, version, changes>>

\* The nulls are dropped and the call is sent to the device; the faulty variant does
\* not wait for the loop to end.
CallSendsEarly ==
    /\ call # NoCall /\ call.at = "unwrap"
    /\ GoesOnWith("sent", call.schema, DropNulls(call.args))
    /\ UNCHANGED <<services, listed, thread, task, clients, version, changes>>
CallSends ==
    /\ call # NoCall /\ call.at = "unwrap"
    /\ ~IsWrapper(call.args)
    /\ GoesOnWith("sent", call.schema, DropNulls(call.args))
    /\ UNCHANGED <<services, listed, thread, task, clients, version, changes>>

\* The device answers, is not there, or is waited for long enough.
CallEnds ==
    /\ call # NoCall /\ call.at = "sent"
    /\ call' = NoCall
    /\ UNCHANGED <<services, listed, thread, task, clients, version, changes>>

CallStep == CallLooksUp \/ CallUnknown \/ CallUnwraps \/ CallSends \/ CallEnds

-----------------------------------------------------------------------------

Next ==
    \/ \E t \in Threads :
        \/ \E offer \in Offers : RegisterService(t, offer[1], offer[2])
        \/ \E d \in Devices : UnregisterRead(t, d)
        \/ ThreadStep(t)
    \/ \E n \in Tasks : NotifyStep(n)
    \/ \E s \in Sessions :
        SessionOpens(s) \/ StreamOpens(s) \/ ClientLeaves(s) \/ SessionEnds(s)
    \/ \E request \in Requests : CallBegins(request[1], request[2])
    \/ CallStep

Spec == Init /\ [][Next]_vars

\* Threads run on.  The loop takes what is ready in turn, so a task that is ready
\* between calls again and again is taken; calls come back.  A client that listens
\* reads what it is sent.  Clients need not come, go or call.
FairSpec ==
    /\ Spec
    /\ \A t \in Threads : WF_vars(ThreadStep(t))
    /\ \A n \in Tasks : SF_vars(NotifyStep(n))
    /\ WF_vars(CallStep)

-----------------------------------------------------------------------------
(* What holds. *)

\* A notification that will reach session s is still to come.
ToldSoon(s) ==
    \/ \E t \in Threads : thread[t] = Notifying
    \/ \E n \in Tasks :
        \/ task[n] = Queued
        \/ task[n].at = "sending" /\ s \in {task[n].to} \cup task[n].left

\* No client that listens misses a change of the list, however registrations,
\* notifications and sessions interleave and whichever sessions fail on the way
\* (_schedule_tools_changed_notification, _live_sessions).
NobodyMissesAChange ==
    \A s \in Sessions :
        session[s] = "listening" /\ heard[s] # version => ToldSoon(s)

\* A tool that calls can be routed to is also listed, unless it is just being
\* registered or FastMCP refuses it, although removals write back registries
\* that are out of date (register_service, remove_by_device).
RoutableIsListed ==
    \A k \in Tools : services[k] # NoTool /\ ~Refused(services[k]) =>
        \/ listed[k] # NoTool
        \/ \E t \in Threads : thread[t].at = "add" /\ thread[t].tool = k

\* Every client that goes on listening hears of the latest list in the end.
ClientsFollow ==
    \A s \in Sessions : session[s] = "listening" ~>
        session[s] # "listening" \/ heard[s] = version

\* A device gets what is inside all wrappers of the arguments FastMCP has let through,
\* without the nulls, for any schema and however deep the wrappers are, whatever is
\* registered and removed while the call is on its way.  FastMCP lets through what it
\* lists, so that a wrapper of the client's gets that far only for a tool that has
\* "arguments" for its one parameter.
ArgumentsArrive ==
    call # NoCall /\ call.at = "sent" =>
        LET inner == Innermost[Validated(listed[call.tool], call.given)]
        IN /\ DOMAIN call.args = {n \in DOMAIN inner : inner[n] # Null}
           /\ \A n \in DOMAIN call.args : call.args[n] = inner[n]

-----------------------------------------------------------------------------
(* What the documentation says and the code does not do. *)

\* The declared arguments that are not null, as the client gave them or by default.
AsDeclared(schema, given, args) ==
    /\ DOMAIN args =
        {p \in Params(schema) : IF p \in DOMAIN given THEN given[p] # Null
                                ELSE schema.default[p] # Null}
    /\ \A p \in DOMAIN args :
        args[p] = IF p \in DOMAIN given THEN given[p] ELSE schema.default[p]

\* Calls are checked against the schema the device reports: once its tool is
\* registered, what reaches the device is what the tool declares.
CallsMatchDevice ==
    call # NoCall /\ call.at = "sent" /\ "arguments" \notin Params(call.schema)
        /\ services[call.tool] = call.schema /\ ~Refused(call.schema)
        /\ (\A t \in Threads : thread[t] = Idle)
        => AsDeclared(call.schema, call.given, call.args)

=============================================================================
