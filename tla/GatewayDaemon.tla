--------------------------- MODULE GatewayDaemon ---------------------------
(***************************************************************************)
(* The gateway as a daemon (cli.py, runtime.py, the start-up of main.py):  *)
(* commands that start, stop and look for a gateway, the gateway processes *)
(* they start, and what both share: the pid file, runtime.json, the file   *)
(* of the Unix socket, the devices' TCP port and the HTTP port.            *)
(*                                                                         *)
(* Nothing of this is locked, and every step on a file is a step here.     *)
(***************************************************************************)
EXTENDS Naturals

CONSTANTS
    Procs,      \* the gateway processes, by pid; no pid is used twice
    Commands,   \* the shells that run one command after the other
    None,       \* no process, no file, no port
    Other,      \* a program of somebody else that may have the HTTP port
    MaxCrashes  \* bound on the processes that die of themselves

ASSUME DaemonAssumption ==
    None \notin Procs /\ Other \notin Procs /\ None # Other /\ MaxCrashes \in Nat

VARIABLES
    proc,       \* how far each gateway process is
    tcp, http,  \* which process listens on the devices' port, on the HTTP port
    pidfile,    \* the pid in gateway.pid
    runfile,    \* the pid in runtime.json
    sockfile,   \* which process bound the file of the Unix socket
    cmd,        \* the command each shell runs
    overlap,    \* history: something was started before all the rest was at rest
    failures,   \* history: the gateways that could not bind
    crashes     \* the number of processes that died of themselves

files == <<pidfile, runfile, sockfile>>
history == <<overlap, failures, crashes>>
vars == <<proc, tcp, http, files, cmd, history>>

\* A gateway: it writes its state, binds one after the other, serves, and shuts
\* down, in uvicorn and then in the finally of cmd_gateway_run.
Starting == {"new", "named", "described", "listening", "unlinked", "bound"}
Leaving == {"leaving", "unnaming", "undescribing"}
ProcState == {"unused"} \cup Starting \cup {"serving", "stopping"} \cup Leaving \cup {"dying", "dead"}

\* A command: what it does, how far it is, the pid it read, the process it started,
\* and whether stop has found out what it will report.
CmdState == {"idle", "cleanRead", "cleanCheck", "clearPid", "clearRun", "sumRead", "sumCheck",
             "unlink", "popen", "poll", "probe", "term", "wait", "killed"}
Command == [op : {"status", "start", "stop", "restart"}, at : CmdState,
            pid : Procs \cup {None}, child : Procs \cup {None}, summed : BOOLEAN,
            outcome : {"none", "notRunning", "stopped", "notStopped"}]
IdleCommand == [op |-> "status", at |-> "idle", pid |-> None, child |-> None, summed |-> FALSE,
                outcome |-> "none"]

TypeOK ==
    /\ proc \in [Procs -> ProcState]
    /\ tcp \in Procs \cup {None}
    /\ http \in Procs \cup {None, Other}
    /\ pidfile \in Procs \cup {None}
    /\ runfile \in Procs \cup {None}
    /\ sockfile \in Procs \cup {None}
    /\ cmd \in [Commands -> Command]
    /\ \A c \in Commands : cmd[c].at \in {"term", "wait", "killed"} => cmd[c].pid \in Procs
    /\ overlap \in BOOLEAN
    /\ failures \subseteq Procs
    /\ crashes \in 0 .. MaxCrashes

Init ==
    /\ proc = [p \in Procs |-> "unused"]
    /\ tcp = None
    /\ http \in {None, Other}
    /\ pidfile = None
    /\ runfile = None
    /\ sockfile = None
    /\ cmd = [c \in Commands |-> IdleCommand]
    /\ overlap = FALSE
    /\ failures = {}
    /\ crashes = 0

\* is_process_running.
Running(pid) == pid # None /\ proc[pid] \notin {"unused", "dead"}
Gateways == {p \in Procs : Running(p)}

\* No command runs, and no gateway is starting or on its way out.
AtRest ==
    /\ \A c \in Commands : cmd[c].at = "idle"
    /\ \A p \in Gateways : proc[p] = "serving"

-----------------------------------------------------------------------------
(* A gateway process: cmd_gateway_run and run_gateway. *)

\* A process is gone, and with it what it listened on; its socket file stays.
Ends(p) ==
    /\ proc' = [proc EXCEPT ![p] = "dead"]
    /\ tcp' = IF tcp = p THEN None ELSE tcp
    /\ http' = IF http = p THEN None ELSE http

Goes(p, from, to) ==
    /\ proc[p] = from
    /\ proc' = [proc EXCEPT ![p] = to]

\* mlink gateway run in a terminal.
RunInForeground(p) ==
    /\ Goes(p, "unused", "new")
    /\ overlap' = (overlap \/ ~AtRest \/ Gateways # {})
    /\ UNCHANGED <<tcp, http, files, cmd, failures, crashes>>

\* write_runtime_state.
WritePid(p) ==
    /\ Goes(p, "new", "named")
    /\ pidfile' = p
    /\ UNCHANGED <<tcp, http, runfile, sockfile, cmd, history>>

WriteRuntime(p) ==
    /\ Goes(p, "named", "described")
    /\ runfile' = p
    /\ UNCHANGED <<tcp, http, pidfile, sockfile, cmd, history>>

\* TransportManager.start binds the TCP port, then the Unix socket.
BindTcp(p) ==
    /\ Goes(p, "described", "listening")
    /\ tcp = None
    /\ tcp' = p
    /\ UNCHANGED <<http, files, cmd, history>>

\* UnixServer.start deletes a socket file that is there.  The faulty variant does
\* not.
KeepOldSocket(p) ==
    /\ Goes(p, "listening", "unlinked")
    /\ UNCHANGED <<tcp, http, files, cmd, history>>
UnlinkOldSocket(p) ==
    /\ Goes(p, "listening", "unlinked")
    /\ sockfile' = None
    /\ UNCHANGED <<tcp, http, pidfile, runfile, cmd, history>>

BindUnix(p) ==
    /\ Goes(p, "unlinked", "bound")
    /\ sockfile = None
    /\ sockfile' = p
    /\ UNCHANGED <<tcp, http, pidfile, runfile, cmd, history>>

\* uvicorn binds the HTTP port last.
BindHttp(p) ==
    /\ Goes(p, "bound", "serving")
    /\ http = None
    /\ http' = p
    /\ UNCHANGED <<tcp, files, cmd, history>>

\* A bind that fails raises through run_gateway.  The faulty variant goes on
\* without the port.
BindFailsOn(p) ==
    /\ \/ Goes(p, "described", "listening") /\ tcp # None
       \/ Goes(p, "unlinked", "bound") /\ sockfile # None
       \/ Goes(p, "bound", "serving") /\ http # None
    /\ failures' = failures \cup {p}
    /\ UNCHANGED <<tcp, http, files, cmd, overlap, crashes>>
BindFails(p) ==
    /\ \/ Goes(p, "described", "leaving") /\ tcp # None
       \/ Goes(p, "unlinked", "leaving") /\ sockfile # None
       \/ Goes(p, "bound", "leaving") /\ http # None
    /\ failures' = failures \cup {p}
    /\ UNCHANGED <<tcp, http, files, cmd, overlap, crashes>>

\* Ctrl-C.  While it serves, uvicorn takes it for a request to stop.
Interrupt(p) ==
    /\ \/ \E from \in {"described", "listening", "unlinked", "bound"} : Goes(p, from, "leaving")
       \/ Goes(p, "serving", "stopping")
    /\ overlap' = (overlap \/ \E c \in Commands : cmd[c].at # "idle")
    /\ UNCHANGED <<tcp, http, files, cmd, failures, crashes>>

\* uvicorn closes its port and waits for its clients, perhaps for ever; then it
\* returns, or kills the process with the signal it had caught.
CloseHttp(p) ==
    /\ proc[p] = "stopping"
    /\ http = p
    /\ http' = None
    /\ UNCHANGED <<proc, tcp, files, cmd, history>>

ShutDown(p) ==
    /\ http # p
    /\ Goes(p, "stopping", "leaving") \/ Goes(p, "stopping", "dying")
    /\ UNCHANGED <<tcp, http, files, cmd, history>>

\* The finally: clear_runtime_state(only_if_pid).
Leave(p) ==
    /\ proc[p] = "leaving"
    /\ \/ pidfile = p /\ Goes(p, "leaving", "unnaming") /\ UNCHANGED <<tcp, http>>
       \/ pidfile # p /\ Ends(p)
    /\ UNCHANGED <<files, cmd, history>>

UnlinkPid(p) ==
    /\ Goes(p, "unnaming", "undescribing")
    /\ pidfile' = None
    /\ UNCHANGED <<tcp, http, runfile, sockfile, cmd, history>>

UnlinkRuntime(p) ==
    /\ proc[p] = "undescribing"
    /\ runfile' = None
    /\ Ends(p)
    /\ UNCHANGED <<pidfile, sockfile, cmd, history>>

\* A signal has killed the process, which is still there until the kernel has
\* cleaned up after it.
Dies(p) ==
    /\ proc[p] = "dying"
    /\ Ends(p)
    /\ UNCHANGED <<files, cmd, history>>

Crash(p) ==
    /\ p \in Gateways
    /\ crashes < MaxCrashes
    /\ crashes' = crashes + 1
    /\ Ends(p)
    /\ UNCHANGED <<files, cmd, overlap, failures>>

GatewayStep(p) ==
    \/ WritePid(p) \/ WriteRuntime(p)
    \/ BindTcp(p) \/ UnlinkOldSocket(p) \/ BindUnix(p) \/ BindHttp(p) \/ BindFails(p)
    \/ CloseHttp(p) \/ ShutDown(p)
    \/ Leave(p) \/ UnlinkPid(p) \/ UnlinkRuntime(p) \/ Dies(p)

-----------------------------------------------------------------------------
(* A command: cmd_gateway_start, _stop, _restart and _status. *)

At(c, state) == cmd[c].at = state

\* Every command begins with _runtime_summary.
Begin(c, op) ==
    /\ At(c, "idle")
    /\ cmd' = [cmd EXCEPT ![c] = [IdleCommand EXCEPT !.op = op, !.at = "cleanRead"]]
    /\ overlap' = (overlap \/ ~AtRest)
    /\ UNCHANGED <<proc, tcp, http, files, failures, crashes>>

\* cleanup_stale_state, which start calls a second time: where it goes on.
Cleaned(c) == IF cmd[c].summed THEN "unlink" ELSE "sumRead"

CleanRead(c) ==
    /\ At(c, "cleanRead")
    /\ cmd' = [cmd EXCEPT ![c].pid = pidfile,
                          ![c].at = IF pidfile = None THEN Cleaned(c) ELSE "cleanCheck"]
    /\ UNCHANGED <<proc, tcp, http, files, history>>

\* The faulty variant does not look whether the process is there.
CleanAnyway(c) ==
    /\ At(c, "cleanCheck")
    /\ cmd' = [cmd EXCEPT ![c].at = "clearPid"]
    /\ UNCHANGED <<proc, tcp, http, files, history>>
CleanCheck(c) ==
    /\ At(c, "cleanCheck")
    /\ cmd' = [cmd EXCEPT ![c].at = IF Running(cmd[c].pid) THEN Cleaned(c) ELSE "clearPid"]
    /\ UNCHANGED <<proc, tcp, http, files, history>>

\* clear_runtime_state, for cleanup_stale_state and at the end of stop.
ClearPid(c) ==
    /\ At(c, "clearPid")
    /\ pidfile' = None
    /\ cmd' = [cmd EXCEPT ![c].at = "clearRun"]
    /\ UNCHANGED <<proc, tcp, http, runfile, sockfile, history>>

\* A restart whose stop went well goes on as a start.
AfterStop(c) ==
    IF cmd[c].op = "restart" THEN [IdleCommand EXCEPT !.op = "start", !.at = "cleanRead"]
    ELSE IdleCommand

ClearRuntime(c) ==
    /\ At(c, "clearRun")
    /\ runfile' = None
    /\ cmd' = [cmd EXCEPT ![c] = IF cmd[c].outcome = "none" THEN [@ EXCEPT !.at = Cleaned(c)]
                                 ELSE AfterStop(c)]
    /\ UNCHANGED <<proc, tcp, http, pidfile, sockfile, history>>

SummaryRead(c) ==
    /\ At(c, "sumRead")
    /\ cmd' = [cmd EXCEPT ![c].pid = pidfile, ![c].at = "sumCheck"]
    /\ UNCHANGED <<proc, tcp, http, files, history>>

\* What each command makes of the summary.  The faulty variants of stop and start
\* do not ask whether there is a process.
StopRegardless(c) ==
    IF cmd[c].op \in {"stop", "restart"} THEN [cmd[c] EXCEPT !.at = "term"] ELSE IdleCommand
StartRegardless(c) ==
    IF cmd[c].op = "start" THEN [cmd[c] EXCEPT !.at = "cleanRead", !.summed = TRUE] ELSE IdleCommand
AfterSummary(c) ==
    LET running == Running(cmd[c].pid)
        command == cmd[c]
    IN CASE command.op = "status" -> IdleCommand
         [] command.op = "start" /\ running -> IdleCommand
         [] command.op = "start" /\ ~running ->
                [command EXCEPT !.at = "cleanRead", !.summed = TRUE]
         [] command.op \in {"stop", "restart"} /\ running -> [command EXCEPT !.at = "term"]
         [] command.op \in {"stop", "restart"} /\ ~running ->
                [command EXCEPT !.at = "unlink", !.outcome = "notRunning"]

SummaryCheck(c) ==
    /\ At(c, "sumCheck")
    /\ cmd' = [cmd EXCEPT ![c] = AfterSummary(c)]
    /\ UNCHANGED <<proc, tcp, http, files, history>>

\* cleanup_stale_socket, then what is left of the command.
AfterUnlink(c) ==
    CASE cmd[c].outcome = "none" -> [cmd[c] EXCEPT !.at = "popen"]
      [] cmd[c].outcome = "notStopped" -> IdleCommand
      [] OTHER -> [cmd[c] EXCEPT !.at = "clearPid"]

UnlinkSocket(c) ==
    /\ At(c, "unlink")
    /\ sockfile' = None
    /\ cmd' = [cmd EXCEPT ![c] = AfterUnlink(c)]
    /\ UNCHANGED <<proc, tcp, http, pidfile, runfile, history>>

\* start: Popen, then it polls the process and the HTTP port for 8 seconds.  When
\* the bound on the processes is reached, Popen raises.
Popen(c) ==
    /\ At(c, "popen")
    /\ \/ \E p \in Procs : /\ Goes(p, "unused", "new")
                          /\ cmd' = [cmd EXCEPT ![c].child = p, ![c].at = "poll"]
       \/ /\ \A p \in Procs : proc[p] # "unused"
          /\ cmd' = [cmd EXCEPT ![c] = IdleCommand]
          /\ UNCHANGED proc
    /\ UNCHANGED <<tcp, http, files, history>>

Poll(c) ==
    /\ At(c, "poll")
    /\ cmd' = [cmd EXCEPT ![c] = IF Running(cmd[c].child) THEN [@ EXCEPT !.at = "probe"]
                                 ELSE IdleCommand]
    /\ UNCHANGED <<proc, tcp, http, files, history>>

Probe(c) ==
    /\ At(c, "probe")
    /\ cmd' = [cmd EXCEPT ![c] = IF http = None THEN [@ EXCEPT !.at = "poll"] ELSE IdleCommand]
    /\ UNCHANGED <<proc, tcp, http, files, history>>

StartTimesOut(c) ==
    /\ At(c, "poll")
    /\ cmd' = [cmd EXCEPT ![c] = IdleCommand]
    /\ UNCHANGED <<proc, tcp, http, files, history>>

\* stop: terminate_process.  uvicorn catches SIGTERM; without it the process dies.
Sigterm(p) == CASE proc[p] = "serving" -> "stopping"
                [] proc[p] \in {"stopping", "dying", "dead"} -> proc[p]
                [] OTHER -> "dying"

Terminate(c) ==
    /\ At(c, "term")
    /\ LET p == cmd[c].pid
       IN /\ proc' = [proc EXCEPT ![p] = Sigterm(p)]
          /\ cmd' = [cmd EXCEPT ![c] = IF Running(p) THEN [@ EXCEPT !.at = "wait"]
                                       ELSE [@ EXCEPT !.at = "unlink", !.outcome = "stopped"]]
    /\ UNCHANGED <<tcp, http, files, history>>

AwaitExit(c) ==
    /\ At(c, "wait")
    /\ ~Running(cmd[c].pid)
    /\ cmd' = [cmd EXCEPT ![c].at = "unlink", ![c].outcome = "stopped"]
    /\ UNCHANGED <<proc, tcp, http, files, history>>

\* SIGKILL, after the timeout.  The faulty variant waits on.
NeverKills(c) == FALSE
Kill(c) ==
    /\ At(c, "wait")
    /\ LET p == cmd[c].pid
       IN /\ proc' = [proc EXCEPT ![p] = IF Running(p) THEN "dying" ELSE @]
          /\ cmd' = [cmd EXCEPT ![c] = IF Running(p) THEN [@ EXCEPT !.at = "killed"]
                                       ELSE [@ EXCEPT !.at = "unlink", !.outcome = "stopped"]]
    /\ UNCHANGED <<tcp, http, files, history>>

\* The faulty variant takes the kill for granted.
KillTrusted(c) ==
    /\ At(c, "killed")
    /\ cmd' = [cmd EXCEPT ![c].at = "unlink", ![c].outcome = "stopped"]
    /\ UNCHANGED <<proc, tcp, http, files, history>>
KillCheck(c) ==
    /\ At(c, "killed")
    /\ cmd' = [cmd EXCEPT ![c].at = "unlink",
                          ![c].outcome = IF Running(cmd[c].pid) THEN "notStopped" ELSE "stopped"]
    /\ UNCHANGED <<proc, tcp, http, files, history>>

CommandStep(c) ==
    \/ CleanRead(c) \/ CleanCheck(c) \/ ClearPid(c) \/ ClearRuntime(c)
    \/ SummaryRead(c) \/ SummaryCheck(c) \/ UnlinkSocket(c)
    \/ Popen(c) \/ Poll(c) \/ Probe(c)
    \/ Terminate(c) \/ AwaitExit(c) \/ Kill(c) \/ KillCheck(c)

-----------------------------------------------------------------------------

Next ==
    \/ \E c \in Commands, op \in {"status", "start", "stop", "restart"} : Begin(c, op)
    \/ \E c \in Commands : CommandStep(c) \/ StartTimesOut(c)
    \/ \E p \in Procs : RunInForeground(p) \/ GatewayStep(p) \/ Interrupt(p) \/ Crash(p)

Spec == Init /\ [][Next]_vars

\* Commands run, and time passes.  Gateways may take as long as they like.
FairSpec ==
    /\ Spec
    /\ \A c \in Commands : WF_vars(CommandStep(c)) /\ SF_vars(StartTimesOut(c))

-----------------------------------------------------------------------------
(* What holds. *)

\* A gateway that serves has both ports, whatever runs beside it: a second one
\* fails to bind before it serves (run_gateway).
ServerOwnsPorts == \A p \in Procs : proc[p] = "serving" => tcp = p /\ http = p

\* While one thing is done at a time, the state files and the socket file are those
\* of the gateway that serves, so that stop and devices find it, although gateways
\* may crash at any step and leave theirs behind (cleanup_stale_state,
\* clear_runtime_state).
ServerKnown ==
    ~overlap =>
        \A p \in Procs : proc[p] = "serving" => pidfile = p /\ runfile = p /\ sockfile = p

\* And nothing a crash left behind keeps the next gateway from binding
\* (UnixServer.start).
NothingInTheWay == failures # {} => overlap \/ http = Other

\* A stop that reports success has left no gateway, be it that SIGTERM did it or
\* that uvicorn hung and SIGKILL had to (terminate_process).
StopEnds(c) == At(c, "clearRun") /\ cmd[c].outcome # "none" /\ ~At(c, "clearRun")'

StopStops == [][\A c \in Commands : StopEnds(c) /\ ~overlap => Gateways' = {}]_vars

\* A start that reports success has started the gateway that answers on the HTTP
\* port, and not found another one there, unless somebody else's program has the
\* port: the probe asks only whether anybody listens (cmd_gateway_start).
StartSucceeds(c) == At(c, "probe") /\ At(c, "idle")'

StartTells ==
    [][\A c \in Commands : StartSucceeds(c) /\ ~overlap /\ http # Other =>
         http = cmd[c].child /\ tcp = cmd[c].child]_vars

\* What a command finds out about the gateway it then acts on: the pid it read is
\* that of a gateway exactly when there is one, though the gateway may crash between
\* the two and the stale files are cleaned up in between (_runtime_summary).
SummaryTells ==
    \A c \in Commands : At(c, "sumCheck") /\ ~overlap =>
        (Running(cmd[c].pid) <=> Gateways # {})

\* And start starts no second gateway, be it that the first one crashed, hung or
\* failed to bind meanwhile.
NoSecondGateway == ~overlap => \A p, q \in Gateways : p = q

\* Every command comes to an end, although gateways may hang at any step.
CommandsEnd == \A c \in Commands : ~At(c, "idle") ~> At(c, "idle")

-----------------------------------------------------------------------------
(* What the command line says and the code does not do. *)

\* status shows whether a gateway runs (cmd_gateway_status).
StatusTells == AtRest => (Running(pidfile) <=> Gateways # {})

=============================================================================
