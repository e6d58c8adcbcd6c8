# mlink gateway: TLA+ models, model checking and proofs

The mlink gateway collects the MCP tools of devices, which connect to it over
TCP or a Unix socket, into one MCP server for agents.  This directory holds TLA+
models of its concurrent core, the TLC runs that check them on small instances,
and theorems about them that TLAPS proves for every value of the constants.

All line numbers refer to the Python sources of the repository.  `PROJECT.json`
maps every definition to the lines it models.

## 1. Inventory

| Part | Source | State it keeps | Operations |
|---|---|---|---|
| JSON-RPC client, one per connection | `protocol/jsonrpc_mcp_client.py` | `_next_id`, `_pending` (under `_lock`), the `PendingCall` objects (event, response; no lock) | `initialize`, `tools_list`, `tools_call` (all `_call`), `handle_text` |
| Session handler | `protocol/mlink_session.py` | the closure variable `device_id` of each connection | `handle_new_connection`: `on_bytes`, `on_error`, the sync thread `_sync_device_tools` |
| Device registry | `gateway/device_registry.py` | `_devices` (id to session), `_counter`; no lock | `register_or_replace`, `remove_device`, `get`, `list_devices`, `next_device_id` |
| Tool registry | `gateway/tool_registry.py` | `_services` (full name to descriptor); no lock | `register_service`, `get`, `all_services`, `remove_by_device` |
| Tool router | `gateway/tool_router.py` | none | `call_tool`, `_normalize_arguments` |
| Connections | `transport/base.py`, `tcp_server.py`, `unix_server.py` | `_closed`, the socket, the callbacks | reader loop, `send_bytes`, `close` |
| Servers and their manager | `transport/*_server.py`, `manager.py` | listening sockets | `start`, accept loop, `close` |
| MCP server | `mcp/mcp_server.py` | FastMCP's tool manager, `_live_sessions` | `register_service`, `unregister_device`, notifications, session tracking |
| Builtin tools | `mcp/builtin_tools.py` | none | `ping`, `status`, `list_devices` (read-only) |
| Snapshot exporter | `gateway/tools_snapshot.py` | `_dirty` (under `_lock`), `_debounce_handle`, the file and its `.tmp` | `mark_dirty`, `_schedule_debounced_export`, `_export_if_dirty`, `_write_file` |
| Daemon | `cli.py`, `runtime.py`, `main.py` | pid file, `runtime.json`, socket file, ports | `run`, `start`, `stop`, `restart`, `status` |
| CLI queries, configuration, logging, JSON helpers | `cli.py`, `config/`, `utils/` | none | sequential I/O |

**Threads.**  A gateway process runs one asyncio event loop (MCP clients, tool
calls, notifications, snapshot scheduling), one accept thread per server, and two
threads per connection: the *reader*, which runs `handle_text` and `on_error`, and
the *sync thread*, which introduces the device and registers its tools.  A tool
call is synchronous: it runs `call_tool` on the event loop and blocks it.  A
failed `send_bytes` runs `on_error` in the thread that sent.  So all of the reader,
the sync thread and the event loop may tear a device down, at any time, and the
two registries they change have no lock; only the table of pending calls and the
dirty flag of the exporter do.

**What is hard here.**  The teardown of a connection by device id while another
connection of the same device takes its place; registrations and removals that
interleave in dictionaries replaced wholesale; answers that race timeouts; a
wake-up for the exporter that must not be lost; the pid file and the ports shared
by commands that run at the same time.  `PROJECT.json` lists each hazard at its
line, with the properties that watch it.

**What correctness means, per part.**

- *Client*: an answer reaches the call it answers and no other, at most once; a call
  ends exactly once, even when the device is silent; nothing is left behind.
- *Session handler and registries*: a registered session is open as far as the gateway
  is concerned; a connection that failed does not stay registered; the tools filed for a
  device are those of its connection, and one connection's end does not harm another's
  session (they may not be, and it may: see the findings).
- *Router*: a call reaches the device its full name was looked up for, and the event
  loop comes back.
- *Exporter*: after the last change the file eventually shows it (unless writing outlasts
  the debounce window, when threads share the temporary file, or fails).
- *Connections*: what the device writes reaches the client line by line (it does not: see
  the findings), and no answer is lost on the way.
- *MCP server*: every client that listens hears of the latest list of tools; what is
  routable is listed; a device gets the arguments of its calls out of their wrappers.
- *Daemon*: one gateway serves, and the state files name it.

## 2. Plan

| # | Module | Contents | State |
|---|---|---|---|
| 1 | `RpcCalls` | abstract specification: numbered calls that each end once | done |
| 2 | `JsonRpcClient` | the client, its callers and the reader; refines `RpcCalls`; run over the link (13) | done |
| 3 | `JsonRpcClientProofs` | invariants and safety refinement | done |
| 4 | `GatewaySession`, `MCGatewaySession` | session handler, registries, router, connections | done |
| 5 | `GatewaySessionProofs` | type correctness and the safety invariants of the session runs | done |
| 6 | `Mirror`, `ToolsSnapshot`, `MCToolsSnapshot` | the debounced export; abstract view: a copy that follows the registry | done |
| 7 | `ToolsSnapshotProofs` | no lost change, debouncing, the file, safety refinement of `Mirror` | done |
| 8 | `GatewayDaemon`, `MCGatewayDaemon` | commands and gateway processes over pid file, socket file and ports | done |
| 9 | `GatewayDaemonProofs` | type correctness, `ServerOwnsPorts` | done |
| 10 | `OneThingAtATimeProofs` | the state files, leftovers, summaries and reports of the daemon while nothing overlaps | done |
| 11 | `Arguments`, `McpServer`, `MCMcpServer` | FastMCP's listing beside the tool registry, notifications, live sessions, the arguments of a call | done |
| 12 | `McpServerProofs` | type correctness, no missed notification, what is routable is listed, arguments, schemas | done |
| 13 | `DeviceLink`, `MCDeviceLink` | the stream from accept to the client, cut anywhere; composed with `JsonRpcClient` | done |
| 14 | `DeviceLinkProofs` | the link implements the client; whole lines are handled | done |
| 15 | `Directory` | abstract specification: what the session handler, the registries and the router promise together | done |
| 16 | `DirectoryProofs` | `GatewaySession` implements `Directory`, and what follows | done |

`GatewaySession` uses the contract `RpcCalls` states instead of repeating the
client: a request is answered with its own answer or times out.  `ToolsSnapshot` sees of
the registries only that they change, and says so by counting.  `DeviceLink` extends
`JsonRpcClient`: it is the composition of the stream and the client.  `McpServer` has the
tool registry in common with `GatewaySession`, and leaves to it who registers when and how
a device is looked up, waited for and closed.  `Directory` states what the parts that
`GatewaySession` composes promise together.  It does not say that a connection's failure costs
no other connection of the same device its entry, because it may (finding `stale_teardown`).

## 3. Modules

### `RpcCalls`

`status[i]` and `answer[i]` of call `i`: unused, open, then one of `result`,
`timeout`, `raised` for good.  `Open` takes ids in order, `Answer` needs a line that
bears the call's own id.  Fairness: an open call ends.

### `JsonRpcClient`

One step is one critical section of `_lock` or one unguarded access to a
`PendingCall`.  Callers go `idle -> send -> wait -> (expired ->) idle`; the reader
pops an entry under the lock (`HandleText`), stores the response
(`HandleTextStore`), sets the event (`HandleTextSet`).  A line is an id and a body.
A device answers a request that reached it any number of times and in any order, and
may send `StrayIds` unasked.  Lines without a numeric id change nothing and are left
out; lines that are no JSON raise before the lock and belong to `GatewaySession`.
`outcome` is a history variable.

### `GatewaySession`

`pc[t]` says where a thread stands; `tear[t]` says how far it is inside `on_error` or the
except branch, which is the same code whoever runs it: `RemovePop` and `RemoveClose`
(`remove_device`), `UnregisterRead` and `UnregisterWrite` (`remove_by_device` builds a
new dictionary and assigns it), or `UnregisterRaises`, the RuntimeError of a key that
was added while the dictionary was iterated over.  `tear[t].current` says that the
dictionary the thread iterates over is still the registry's, `tear[t].grew` that a key
was added to it.  `AfterRaise` is where the exception ends up in each thread.

| Actions | Code |
|---|---|
| `HandleNewConnection`, `SyncInitialized`, `SyncIdentify` | callbacks, `initialize`, `device_id = logical_id` |
| `ReplacePop`, `ReplaceClose`, `ReplaceStore` | `register_or_replace` |
| `SyncList`, `SyncListed` | the paging loop |
| `SyncRegister`, `SyncDone` | the registration loop; it may raise in FastMCP's `add_tool` after the tool registry was changed |
| `SyncTimeout`, `SyncExcept` | a timeout, the except branch |
| `ReaderBadLine`, `ReaderEof`, `ReaderRecvError`, `ReaderClose` | `_handle_bytes`, `_reader_loop` |
| `CallLookup`, `CallRoute`, `CallNotConnected`, `CallSend`, `CallReturn` | `call_tool` on the event loop |
| `HangUp` | the device (external) |

Abstractions.  A session is named by its connection (a connection is registered at
most once).  `FullName` is an arbitrary function of device id and tool name, so that
collisions are in.  A device id given by `next_device_id` is one of `Names` like any
other.  An answer needs a reader at `recv` on an open socket, and a request sent after
the device hung up is never answered.  Closing a socket is one step.  `recv` on a
socket closed by the gateway may return no data or raise, because the reader may be
inside `recv` or on its way to it.  The FastMCP listing and notifications are in
`McpServer`, the snapshot in `ToolsSnapshot`.

Spots where two steps of the code are one step here, and why nothing is lost:
accepting, setting the callbacks and sending `initialize` (before there is a device id,
`on_error` does nothing, and a failed send shows as a request without an answer);
receiving an answer and waking its caller (`RpcCalls`); reading no data and closing.

### `Mirror` and `ToolsSnapshot`

`Mirror` has a source that changes and a copy that catches up with it.  In
`ToolsSnapshot` the source is the tool registry, represented by the number of changes
made to it, and the copy is the last snapshot (`built`).

| Actions | Code |
|---|---|
| `ChangeTools`, `MarkDirty`, `Schedule` | `register_service` or `unregister_device`, then the two halves of `mark_dirty`, in any thread |
| `ScheduleDebouncedExport`, `TimerFires` | the callback on the loop, the `call_later` |
| `ExportIfDirty`, `BuildSnapshot` | `_export_if_dirty` and `_build_snapshot`; other threads run in between |
| `OpenTmp`, `WriteTmp`, `ReplacePath`, `ExportFails` | `_write_file` in a thread of its own |

Files are what open and rename deal with: `tmp` and `path` are names, `content` belongs to
the file a name stands for, and a thread writes to the file it has opened even when that has
been renamed.  Every export has its own thread, because the default executor of asyncio has
at least five.  While nothing else writes, an export comes out whole; over what another
thread has written or is writing, it may come out `Broken`.  `overlapped` is a history
variable: an export began before the one before it had ended, which takes a write longer
than the debounce window (500 ms as configured).  The constructor of the MCP server marks
the gateway's own tools before any device connects, so that the first export is under way in
`Init`.  A registration that raises after its change is marked by the removal that follows;
that the removal raises too is left out, and so is a loop that has ended (`mark_dirty` then
ignores the change).

### `Directory`

A device has one entry.  A connection enters it under the name it gave, once; it is out when
a connection of the same name makes room for itself or deals with a failure.  Nobody closes
what is in the directory but its own reader.  Tools that are known were listed by a
connection of their device, and a call goes to what the entry of its tool's device is when
it is routed.  `GatewaySession` implements it under this mapping:

| Directory | GatewaySession |
|---|---|
| `name`, `offered`, `closed`, `entry`, `known`, `call` | `device_id`, `tools`, `closed`, `devices`, `services`, `loop` |
| `failing` | `Failing`: some thread is about to pop the session of its id, on the connection's behalf |
| `entered` | `Entered`: identified, and its sync thread is past `register_or_replace` |
| `ended` | `Ended`: its reader has left its loop |

The directory knows no threads, no order of registrations and no dictionaries that are out of
date: `Unregister` may replace all that is known by any other offered tools, because that is
all that `remove_by_device` without a lock can promise.

### `Arguments` and `McpServer`

An object is a function from names to values, a schema the required names and the defaults
of the others.  `Arguments` says what FastMCP makes of a call under a schema (external) and
what one turn of `_normalize_arguments` does.  `Innermost[o]` is what is inside all wrappers
of `o`, a constant with an assumption (`InnermostAssumption`), because the theorems need it
without recursion; the run gives it as a recursive function.  What FastMCP drops, the router
never sees: a client that wraps its arguments (`tool_router.py:40-46`) reaches the loop that
peels wrappers only for a tool with a parameter named `arguments`.  For any other tool
FastMCP drops the wrapper with all that is in it, or refuses the call when a parameter is
required; with a second parameter beside `arguments`, the wrapper is sent as it is.  In
`McpServer`, `services[k]` and `listed[k]` are the schemas under which the tool registry and
FastMCP know a tool, `version` counts the changes of the list and `heard[s]` is the version
a client was told of last.  A removal keeps in `dict` what has become of the dictionary it
goes through: it is the registry's, it had a key added (then it may raise), or another
removal has assigned a new one (what is registered from then on goes there).

| Actions | Code |
|---|---|
| `RegisterService`, `AddTool`, `AddToolRaises`, `ScheduleNotification` | `register_service` in a sync thread; a refused parameter name sends the thread to its except branch, `UnregisterRefused` |
| `UnregisterRead`, `UnregisterWrite`, `UnregisterRaises`, `ScheduleNotification` | `unregister_device` in any thread |
| `NotifyStart`, `NotifySent`, `NotifyInVain` | the task `_notify`, one await after the other |
| `SessionOpens`, `SessionEnds` | `_wrapped_run` around the set of live sessions |
| `StreamOpens`, `ClientLeaves` | the client (external) |
| `CallBegins`, `CallLooksUp`, `CallUnknown`, `CallUnwraps`, `CallSends`, `CallEnds` | `impl` and `call_tool`, which block the loop: while a call is on, nothing else of the loop moves, and the threads do |

Abstractions.  `add_tool` is one step.  The gateway's own tools are in the list from the
start and keep their names, because `add_tool` never replaces.  A client lists the tools
once its stream for notifications is open; what it lists before may be out of date, and
nobody tells it.  Calls of the gateway's own tools change nothing.  A loop that has been
closed, for which `_schedule_tools_changed_notification` drops the notification, is left
out, as are stateless sessions, which are not tracked and which the gateway does not
configure.

### `DeviceLink`

The stream of one connection in thirds of lines (first part, rest, newline), which is the
least that can be cut inside a line, before its newline and between lines.  `Recv(last)` is
one `recv` that returns everything up to unit `last`; `on_bytes` strips the newlines off
the chunk and hands on the rest as if it were one line.  `HandleNewConnection` sets the
callbacks one by one while the reader, which the constructor of the connection started,
reads already; the sync thread comes last.  All other steps are those of `JsonRpcClient`,
whose reader is the one of the link.  A chunk that is no line makes `json.loads` raise;
whether `on_error` then closes the connection depends on the registry, which is
`GatewaySession`'s, so both may happen.  Part of a line that happens to be JSON by itself
is taken for no line.

### `GatewayDaemon`

`proc[p]` is how far a gateway process is; `cmd[c]` is the command a shell runs.  Each
access to a file, each look for a process, each signal and each bind is a step.

| Actions | Code |
|---|---|
| `RunInForeground`, `WritePid`, `WriteRuntime` | `cmd_gateway_run` up to `asyncio.run` |
| `BindTcp`, `UnlinkOldSocket`, `BindUnix`, `BindHttp`, `BindFails` | `run_gateway`: `TransportManager.start`, then uvicorn |
| `Interrupt`, `CloseHttp`, `ShutDown`, `Leave`, `UnlinkPid`, `UnlinkRuntime` | Ctrl-C or SIGTERM, and the `finally` with `clear_runtime_state(only_if_pid)` |
| `Begin`, `CleanRead`, `CleanCheck`, `ClearPid`, `ClearRuntime`, `SummaryRead`, `SummaryCheck` | `_runtime_summary`, which every command begins with, and `cleanup_stale_state` |
| `UnlinkSocket`, `Popen`, `Poll`, `Probe`, `StartTimesOut` | `cmd_gateway_start` |
| `Terminate`, `AwaitExit`, `Kill`, `KillCheck` | `terminate_process` in `cmd_gateway_stop` |
| `Dies`, `Crash` | the kernel (external) |

uvicorn is modelled by what its versions do with SIGTERM: they return, so that the
`finally` runs, or raise the signal again, so that it does not.  A gateway that serves
waits for its clients when it is told to stop, perhaps for ever.  The HTTP port may
belong to another program (`Other`) all along.  The pid file is written in one step: an
empty file reads as no file.  Pids are used once; what happens when the pid in a stale
file belongs to another program is listed as a hazard and not modelled.  The query
commands (`tools`, `test`, `call`) take the same summary as `status`.

`overlap` is a history variable: something was started, or interrupted, while a command
ran or a gateway was starting or leaving, or a foreground gateway was run beside one that
served.  Nothing in the code prevents that, so the properties about the state files say
what holds without it.  Crashes do not count as overlap.  A shutdown that hangs, or a command
that times out, does not by itself either; the next command does, if it begins while a
gateway is still starting or leaving.

## 4. Runs

| Run | Instance | Shows |
|---|---|---|
| `session` | 2 connections, of 2 devices whose only tools share one full name or of 1 that reconnects, no hang-ups | types, routing, who closes a registered session, failed connections leave, refinement of `Directory` |
| `session_live` | 1 connection, 2 hang-ups or bad lines | the event loop comes back, failed connections leave |
| `snapshot` | 2 threads, 2 changes, 3 exports of which two may fail | no change is lost, exports are debounced, the file is whole, advances and follows, refinement of `Mirror` with fairness |
| `daemon` | 2 processes, 1 shell, 2 crashes | ports, state files, leftovers of crashes, what commands find out about the gateway, what start and stop report, no second gateway, and that commands end |
| `mcp` | 2 threads, 2 registrations or removals, 1 device whose schema changes and 1 with the name of a builtin tool, 2 clients, arguments with a null, in two wrappers or in none, tools whose only parameter is `arguments` or which have it beside another | notifications reach everybody, what is routable is listed, arguments arrive |
| `link` | 2 callers, 3 calls, 2 lines cut anywhere, stray id 0 | client invariants, single filling, nothing is lost before the callbacks are set, refinement of `RpcCalls` with fairness over the stream |
| `stale_teardown`, `stale_tools`, `hung_up` | as the session runs | violations, see section 6 |
| `stale_schema`, `cut_lines` | as `mcp` and `link` | violations, see section 6 |
| `unknown_gateway` | 2 processes in the foreground, no crash | violation, see section 6 |

*Bounds.*  `MaxCalls` = 3 gives two threads a call each and a third that meets late answers
to both.  `MaxLines` = 2 lets one call be answered twice, two be answered in the wrong
order, and a line be cut or glued to the one before it; no line is needed for a timeout.  An
id the device was not given yet is not in the run; the theorems hold for any stray ids.  Two
connections are enough for every race of an old and a new connection, and every connection
has three threads that may tear down.  `MaxFaults` bounds hang-ups and bad lines; timeouts,
closes by other threads and failing registrations are not bounded, so that even `MaxFaults =
0` has every kind of teardown.  With two connections, hang-ups on top of that make the state
space too large, so they are in the run with one, and the theorems about the safety
properties hold with any number of them. `MaxChanges` = 2 of `mcp` lets two threads register
one name with two schemas, or one register what the other removes.  Its schemas have the
parameters a wrapper needs to get through, alone and in company, and those that drop it. An
export takes the mark of a change or of the constructor, so `MaxExports` = `MaxChanges` + 1;
three are enough for an export that overlaps one and fails before another, and `MaxErrors` =
2 leaves a temporary file to the next export, which may fail over it.  Two gateway processes
are enough for a gateway that follows a crash and for one beside another; one shell is
enough because what two commands do to each other is excluded by `overlap`, and
`ServerOwnsPorts`, which is not, is proved for any number. `CHECK_DEADLOCK FALSE`: the
session model stops when its connections are used up and no tool is left to call, the
exporter when no change is left, and a gateway that serves may serve for ever when there is
no shell.

*Symmetry* over the connections is used in the safety runs only.

*Fairness.*  `FairSpec` of the client: a thread inside `_call`, and the reader inside
`handle_text`, keep running, and waits have timeouts.  `FairSpec` of the session: the
same for each thread.  Nothing is assumed of devices, of new connections or of MCP
clients; a device may page for ever, which is why no property says that every
synchronisation ends.  `FairSpec` of the exporter: threads that changed a tool go on to
mark it, the loop runs what is ready, timers fire, threads of the executor run; tools need
not change and exports need not fail.  `FairSpec` of the MCP server: threads run on, a call
comes back (`LoopReleased`), and a notification task that is ready between calls again and
again is run (strong fairness: asyncio runs its ready callbacks in turn, and a call blocks
the loop for a time only); a client that listens reads what it is sent.  `LinkFairSpec` is
that of the client.  `FairSpec` of the daemon: commands run on, and the
8 seconds of `start` pass (strong fairness, because the deadline is looked at in one of the
two steps of the loop only); gateways may stand still anywhere, which is why `CommandsEnd`
needs the timeouts and SIGKILL.

## 5. Proofs

`JsonRpcClientProofs` proves, for any set of callers, any number of calls, any stray
ids and bodies, that `IInv` is inductive and hence `TypeOK`, `EventAfterResponse`,
`OwnResponse`, `NoLeak` and `AnsweredOnce`, and that every step is a step of
`RpcCalls` or invisible to it (`Refinement`).  `OwnResponse` alone is not inductive:
it needs that fresh ids are untouched (`FreshUntouched`), that threads are in
different calls (`CallsApart`), and that the reader alone holds the call it popped
(`ReaderHolds`).  The only assumption is `ClientAssumption`: the bound is a number,
stray ids are integers and `None` is no line.

`GatewaySessionProofs` proves, for any connections, device ids, tools, offers and full
names, `TypeOK`, `RouteFidelity`, `ClosedByOwnReader` and `DeadConnectionLeaves`.  Their
inductive invariant has these parts beside them. `Identified`: a connection gets its device
id once.  `Keyed`: a session is filed under its own id by its own sync thread, hence not
before its thread got there.  `LoopHolds`: what the event loop keeps between its lookups.
`Faithful` and `CopiesFaithful`: the registry and every dictionary a removal is going to
assign are faithful, so a stale one can bring back or lose tools but never invent or misname
them (which `Directory` asks of what is known).  `TearingHas` and `TearingAt`: where a
teardown runs and with which id.  `VictimsGone`: a session somebody is about to close is
registered no more, for good, which with `ClosedPastStore` gives `ClosedByOwnReader`.
`FailedLeaves`: `DeadConnectionLeaves`, strengthened to the moment `remove_device` has run.

`DirectoryProofs` proves that every step of `GatewaySession` is a step of `Directory` or
invisible to it (`DirectoryImplemented`), one lemma per step.  The invariant above is not
enough.  The event loop tears down by the id of the service it looked up, and which
connection failed is in another variable: `LoopKnows` says that the two go together, and that
a call that has no connection yet is at its second lookup.  `VictimsNamed`: a session that is
about to be closed has an id, so that it counts as entered and out.  From the steps of the
directory follow two laws of the registry, whatever the threads interleave: a device's entry
changes only on behalf of a connection that gave its id (`DevicesIsolated`), and a connection
that is out does not come back (`RegisteredOnce`).

`ToolsSnapshotProofs` proves, for any threads and bounds, `TypeOK`, `OneExportWaits`,
`NoLostChange`, `WholeFile`, `FileAdvances` and the safety part of `Mirror`.  `HandleTells`
(the handle is set exactly while a timer or a task is under way) is what makes
`NoLostChange` inductive: a call that finds the handle set may arm no timer.
`FilesNumbered` and `AloneAtWork` (without overlap the last export alone is at work, on
the temporary file) carry the two properties of the file.

`GatewayDaemonProofs` proves, for any processes and shells, `TypeOK` and
`ServerOwnsPorts`, from `PortsHeld`: a gateway keeps each port from its bind on.

`OneThingAtATimeProofs` proves, for any processes, shells and crashes, what the daemon
promises while nothing overlaps: `ServerKnown`, `NothingInTheWay`, `StopStops`,
`StartTells`, `SummaryTells`, `NoSecondGateway`, and that `status` is right at rest.  Hardly
any is inductive: whether a command may clear a file, unlink the socket or report success
depends on what it read some steps ago.  The invariant says so. `OneCommand` and
`OneGateway`: one of each is under way.  `FilesTell`: the files name the gateway from the
step on that writes them.  `Fits`: at each place of a command, which gateways are there and
in what phase.  `PortsTell`, which needs no such condition: who has a port is alive and has
bound it.

`McpServerProofs` proves, for any threads, tools, schemas, clients and requests, `TypeOK`
(with which the live sessions are exactly the open ones), `NobodyMissesAChange`,
`ArgumentsArrive` and `RoutableIsListed`.  What
makes them inductive: every dictionary a removal holds has only tools that are listed or
about to be, and what is inside the wrappers of a call's arguments is what is inside those
FastMCP let through, from one turn of the router's loop to the next.

`DeviceLinkProofs` proves that the link implements the client (`LinkImplementsClient`), so
that what is proved of the client holds over a stream that is cut anywhere, and
`NoAnswerDropped`, because nothing has been sent while the dummy callback is set.

Five theorems say what a finding of section 6 takes, by proving the violated property from
the hypothesis that it is absent.  Each hypothesis is met by behaviours of the program.

| Theorem | If | then |
|---|---|---|
| `DistinctIdsSafe` | no two connections ever give the same id (`DistinctIds`) | `OnlyOwnFailureRemoves` |
| `StaleToolsTakeLess` | a connection that is registered and synchronised lists all that earlier ones of its id did (`KeepsItsTools`) | `OldToolsCleared` |
| `OneSchemaMatches` | no tool is listed with two schemas (`OneSchema`) | `CallsMatchDevice` |
| `WholeLinesHandled` | every `recv` returns exactly one line (`WholeLines`) | `EveryLineHandled` |
| `StatusTrueAlone` | nothing has overlapped (`~overlap`) | `StatusTells` |

The assumptions are the named ones of the modules: bounds are numbers, sentinels are
outside the sets they are added to, stray ids are integers, full names are total, and
`Innermost` is what its comment says.

Only model-checked: liveness (`ImplementsRpcCalls` and `ImplementsMirror` with fairness,
`LoopReleased`, `FailedReaderLeaves`, `FileFollows`, `ClientsFollow`, `CommandsEnd`), which
is out of the prover's reach, as is ENABLED.  `HungUpLeaves` of finding `hung_up` is a
liveness property, so no theorem says what it takes.

## 6. Findings

1. `stale_teardown`: a replaced connection that fails late tears down the session
   that replaced it, because teardown goes by device id.  It takes two connections with one
   id (`DistinctIdsSafe`), and it never reaches another device (`DevicesIsolated`).
2. `stale_tools`: `tool_registry.py:40-41` has the tools of a device cleared when it connects
   again; nothing does so, and tools the new connection does not list stay in the registry and
   are routed to it (`StaleToolsTakeLess`: only those).
3. `hung_up`: an orderly hang-up removes nothing; the device stays listed.
4. `stale_schema`: FastMCP keeps the first tool of a name, so that a device which comes
   back with another schema gets arguments that were checked against the old one
   (`OneSchemaMatches`: only then).
5. `cut_lines`: a chunk is taken for a line, so that lines which `recv` cuts or glues
   together are lost and may cost the device its registration (`WholeLinesHandled`: only then).
6. `unknown_gateway`: a gateway that is run beside one that serves overwrites its state
   files, fails to bind and clears them: `status` and `stop` then say that nothing runs.  It takes
   something that overlaps (`StatusTrueAlone`).

Behaviour of the models that contradicts no property, and that the hazards name: tools
registered after `on_error` stay without a device; a registration that falls between the two
steps of a removal is lost; a wrapper around the arguments of a call is dropped by FastMCP,
with what is in it, unless the tool has a parameter of its name; of two registrations of one
id at the same time, the session that is overwritten stays open with nobody knowing it.

## 7. Not modelled

The MCP protocol library beyond what the gateway asks of it; the text of messages and
logging; the parsing of the configuration, and configurations other than one TCP port and one
Unix socket; the closing of listening sockets, which nothing calls; the CLI's queries and
output, which keep no state; the handlers of the builtin tools, which only read; pids that
are used twice; the stdio transport, which writes no state files.
