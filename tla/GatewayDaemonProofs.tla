------------------------ MODULE GatewayDaemonProofs ------------------------
(***************************************************************************)
(* Proofs about GatewayDaemon, for any processes and commands that run at  *)
(* once in any number: a gateway that serves has both ports.               *)
(***************************************************************************)
EXTENDS GatewayDaemon, TLAPS

\* From its first bind until it is asked to stop a gateway has the devices' port,
\* and the HTTP port while it serves.
PortsHeld ==
    \A p \in Procs :
        /\ proc[p] \in {"listening", "unlinked", "bound", "serving"} => tcp = p
        /\ proc[p] = "serving" => http = p

\* The part of TypeOK about commands.
NeedsPid(command) == command.at \in {"term", "wait", "killed"} => command.pid \in Procs
CmdOK == cmd \in [Commands -> Command] /\ \A c \in Commands : NeedsPid(cmd[c])

IInv == TypeOK /\ PortsHeld

-----------------------------------------------------------------------------

LEMMA InitIInv == Init => IInv
  <1> SUFFICES ASSUME Init PROVE IInv
    OBVIOUS
  <1>1. proc \in [Procs -> ProcState] /\ PortsHeld
    BY DEF Init, ProcState, PortsHeld
  <1>2. IdleCommand \in Command
    BY DEF IdleCommand, Command, CmdState
  <1>3. cmd \in [Commands -> Command]
    BY <1>2 DEF Init
  <1>4. \A c \in Commands : cmd[c].at \in {"term", "wait", "killed"} => cmd[c].pid \in Procs
    BY DEF Init, IdleCommand
  <1>5. crashes \in 0 .. MaxCrashes
    BY DaemonAssumption DEF Init
  <1>6. /\ tcp \in Procs \cup {None} /\ http \in Procs \cup {None, Other}
        /\ pidfile \in Procs \cup {None} /\ runfile \in Procs \cup {None}
        /\ sockfile \in Procs \cup {None}
        /\ overlap \in BOOLEAN /\ failures \subseteq Procs
    BY DEF Init
  <1> QED
    BY <1>1, <1>3, <1>4, <1>5, <1>6 DEF IInv, TypeOK

\* Processes that end give up their ports and no one else's.
LEMMA EndsPreserves ==
  ASSUME IInv, NEW p \in Procs, Ends(p)
  PROVE  proc' \in [Procs -> ProcState] /\ tcp' \in Procs \cup {None}
         /\ http' \in Procs \cup {None, Other} /\ PortsHeld'
  BY DEF IInv, TypeOK, Ends, PortsHeld, ProcState

\* So does every step of a gateway, and no such step touches a command.
LEMMA GatewayPreserves ==
  ASSUME IInv, NEW p \in Procs,
         RunInForeground(p) \/ GatewayStep(p) \/ Interrupt(p) \/ Crash(p)
  PROVE  IInv'
  <1>1. /\ proc' \in [Procs -> ProcState]
        /\ tcp' \in Procs \cup {None}
        /\ http' \in Procs \cup {None, Other}
        /\ PortsHeld'
    <2>1. CASE RunInForeground(p) \/ WritePid(p) \/ WriteRuntime(p) \/ Interrupt(p)
      BY <2>1 DEF RunInForeground, WritePid, WriteRuntime, Interrupt, Goes, IInv, TypeOK,
                  PortsHeld, ProcState, Starting, Leaving
    <2>2. CASE BindTcp(p)
      BY <2>2, DaemonAssumption DEF BindTcp, Goes, IInv, TypeOK, PortsHeld, ProcState, Starting
    <2>3. CASE UnlinkOldSocket(p) \/ BindUnix(p)
      BY <2>3 DEF UnlinkOldSocket, BindUnix, Goes, IInv, TypeOK, PortsHeld, ProcState, Starting
    <2>4. CASE BindHttp(p)
      BY <2>4, DaemonAssumption DEF BindHttp, Goes, IInv, TypeOK, PortsHeld, ProcState
    <2>5. CASE BindFails(p)
      BY <2>5 DEF BindFails, Goes, IInv, TypeOK, PortsHeld, ProcState, Leaving
    <2>6. CASE CloseHttp(p) \/ ShutDown(p)
      BY <2>6 DEF CloseHttp, ShutDown, Goes, IInv, TypeOK, PortsHeld, ProcState, Leaving
    <2>7. CASE Leave(p)
      BY <2>7, EndsPreserves DEF Leave, Goes, IInv, TypeOK, PortsHeld, ProcState, Leaving
    <2>8. CASE UnlinkPid(p)
      BY <2>8 DEF UnlinkPid, Goes, IInv, TypeOK, PortsHeld, ProcState, Leaving
    <2>9. CASE UnlinkRuntime(p) \/ Dies(p) \/ Crash(p)
      BY <2>9, EndsPreserves DEF UnlinkRuntime, Dies, Crash
    <2> QED
      BY <2>1, <2>2, <2>3, <2>4, <2>5, <2>6, <2>7, <2>8, <2>9 DEF GatewayStep
  <1>2. cmd' = cmd
    BY DEF RunInForeground, GatewayStep, Interrupt, Crash, WritePid, WriteRuntime, BindTcp,
           UnlinkOldSocket, BindUnix, BindHttp, BindFails, CloseHttp, ShutDown, Leave, UnlinkPid,
           UnlinkRuntime, Dies
  <1>3. /\ pidfile' \in Procs \cup {None}
        /\ runfile' \in Procs \cup {None}
        /\ sockfile' \in Procs \cup {None}
    BY DEF IInv, TypeOK, files, RunInForeground, GatewayStep, Interrupt, Crash, WritePid,
           WriteRuntime, BindTcp, UnlinkOldSocket, BindUnix, BindHttp, BindFails, CloseHttp,
           ShutDown, Leave, UnlinkPid, UnlinkRuntime, Dies
  <1>4. overlap' \in BOOLEAN /\ failures' \subseteq Procs /\ crashes' \in 0 .. MaxCrashes
    <2>1. crashes' \in 0 .. MaxCrashes
      BY DaemonAssumption
      DEF IInv, TypeOK, history, RunInForeground, GatewayStep, Interrupt, Crash, WritePid,
          WriteRuntime, BindTcp, UnlinkOldSocket, BindUnix, BindHttp, BindFails, CloseHttp,
          ShutDown, Leave, UnlinkPid, UnlinkRuntime, Dies
    <2>2. overlap' \in BOOLEAN
      BY DEF IInv, TypeOK, history, RunInForeground, GatewayStep, Interrupt, Crash, WritePid,
             WriteRuntime, BindTcp, UnlinkOldSocket, BindUnix, BindHttp, BindFails, CloseHttp,
             ShutDown, Leave, UnlinkPid, UnlinkRuntime, Dies
    <2>3. failures' \subseteq Procs
      BY DEF IInv, TypeOK, history, RunInForeground, GatewayStep, Interrupt, Crash, WritePid,
             WriteRuntime, BindTcp, UnlinkOldSocket, BindUnix, BindHttp, BindFails, CloseHttp,
             ShutDown, Leave, UnlinkPid, UnlinkRuntime, Dies
    <2> QED
      BY <2>1, <2>2, <2>3
  <1> QED
    BY <1>1, <1>2, <1>3, <1>4 DEF IInv, TypeOK

\* A command starts and signals processes; it gives no gateway a port and takes
\* none from one that serves on.
LEMMA CommandPreserves ==
  ASSUME IInv, NEW c \in Commands, NEW op \in {"status", "start", "stop", "restart"},
         Begin(c, op) \/ CommandStep(c) \/ StartTimesOut(c)
  PROVE  IInv'
  <1>1. IdleCommand \in Command /\ IdleCommand.at = "idle"
    BY DEF IdleCommand, Command, CmdState
  <1>2. cmd[c] \in Command
    BY DEF IInv, TypeOK
  <1>3. \/ proc' = proc
        \/ \E p \in Procs : Goes(p, "unused", "new")
        \/ \E p \in Procs : proc' = [proc EXCEPT ![p] = Sigterm(p)]
        \/ \E p \in Procs : proc' = [proc EXCEPT ![p] = "dying"]
    <2>1. CASE Terminate(c)
      BY <2>1 DEF Terminate, At, IInv, TypeOK
    <2>2. CASE Kill(c)
      <3>1. cmd[c].pid \in Procs
        BY <2>2 DEF Kill, At, IInv, TypeOK
      <3>2. proc \in [Procs -> ProcState]
        BY DEF IInv, TypeOK
      <3> QED
        BY <2>2, <3>1, <3>2 DEF Kill
    <2>3. CASE Popen(c)
      BY <2>3 DEF Popen
    <2> QED
      BY <2>1, <2>2, <2>3
      DEF Begin, CommandStep, StartTimesOut, CleanRead, CleanCheck, ClearPid, ClearRuntime,
          SummaryRead, SummaryCheck, UnlinkSocket, Poll, Probe, AwaitExit, KillCheck
  <1>4. tcp' = tcp /\ http' = http /\ failures' = failures /\ crashes' = crashes
    BY DEF Begin, CommandStep, StartTimesOut, CleanRead, CleanCheck, ClearPid, ClearRuntime,
           SummaryRead, SummaryCheck, UnlinkSocket, Popen, Poll, Probe, Terminate, AwaitExit,
           Kill, KillCheck, history
  <1>5. proc' \in [Procs -> ProcState] /\ PortsHeld'
    BY <1>3, <1>4 DEF IInv, TypeOK, PortsHeld, Goes, Sigterm, ProcState, Starting, Leaving
  <1>6. /\ pidfile' \in Procs \cup {None}
        /\ runfile' \in Procs \cup {None}
        /\ sockfile' \in Procs \cup {None}
        /\ overlap' \in BOOLEAN
    BY DEF IInv, TypeOK, files, Begin, CommandStep, StartTimesOut, CleanRead, CleanCheck,
           ClearPid, ClearRuntime, SummaryRead, SummaryCheck, UnlinkSocket, Popen, Poll, Probe,
           Terminate, AwaitExit, Kill, KillCheck, history
  <1>7. CmdOK'
    <2> USE <1>1, <1>2
    <2>1. ASSUME NEW new \in Command, NeedsPid(new), cmd' = [cmd EXCEPT ![c] = new]
          PROVE  CmdOK'
      BY <2>1 DEF IInv, TypeOK, CmdOK, NeedsPid
    <2>2. \A at \in CmdState \ {"term", "wait", "killed"} :
            LET new == [cmd[c] EXCEPT !.at = at] IN new \in Command /\ NeedsPid(new)
      BY DEF Command, NeedsPid
    <2>3. NeedsPid(IdleCommand) /\ Cleaned(c) \in CmdState \ {"term", "wait", "killed"}
      BY DEF NeedsPid, Cleaned, CmdState
    <2>4. CASE Begin(c, op)
      <3> DEFINE new == [IdleCommand EXCEPT !.op = op, !.at = "cleanRead"]
      <3>1. new \in Command /\ NeedsPid(new)
        BY DEF Command, CmdState, NeedsPid
      <3> QED
        BY <2>1, <2>4, <3>1 DEF Begin
    <2>5. CASE CleanRead(c)
      <3> DEFINE at == IF pidfile = None THEN Cleaned(c) ELSE "cleanCheck"
                 new == [cmd[c] EXCEPT !.pid = pidfile, !.at = at]
      <3>1. at \in CmdState \ {"term", "wait", "killed"} /\ pidfile \in Procs \cup {None}
        BY <2>3 DEF CmdState, IInv, TypeOK
      <3>2. new \in Command /\ NeedsPid(new)
        BY <3>1 DEF Command, NeedsPid
      <3>3. cmd' = [cmd EXCEPT ![c] = new]
        BY <2>5 DEF CleanRead, IInv, TypeOK
      <3> QED
        BY <2>1, <3>2, <3>3
    <2>6. CASE CleanCheck(c)
      <3> DEFINE new == [cmd[c] EXCEPT !.at = IF Running(cmd[c].pid) THEN Cleaned(c) ELSE "clearPid"]
      <3>1. new \in Command /\ NeedsPid(new)
        BY <2>2, <2>3 DEF CmdState
      <3>2. cmd' = [cmd EXCEPT ![c] = new]
        BY <2>6 DEF CleanCheck, IInv, TypeOK
      <3> QED
        BY <2>1, <3>1, <3>2
    <2>7. CASE ClearPid(c)
      <3> DEFINE new == [cmd[c] EXCEPT !.at = "clearRun"]
      <3>1. new \in Command /\ NeedsPid(new)
        BY <2>2 DEF CmdState
      <3>2. cmd' = [cmd EXCEPT ![c] = new]
        BY <2>7 DEF ClearPid, IInv, TypeOK
      <3> QED
        BY <2>1, <3>1, <3>2
    <2>8. CASE ClearRuntime(c)
      <3> DEFINE new == IF cmd[c].outcome = "none" THEN [cmd[c] EXCEPT !.at = Cleaned(c)] ELSE AfterStop(c)
      <3>0. AfterStop(c) \in Command /\ NeedsPid(AfterStop(c))
        BY <2>3 DEF AfterStop, Command, CmdState, NeedsPid
      <3>1. new \in Command /\ NeedsPid(new)
        BY <2>2, <2>3, <3>0 DEF CmdState
      <3>2. cmd' = [cmd EXCEPT ![c] = new]
        BY <2>8 DEF ClearRuntime, IInv, TypeOK
      <3> QED
        BY <2>1, <3>1, <3>2
    <2>9. CASE SummaryRead(c)
      <3> DEFINE new == [cmd[c] EXCEPT !.pid = pidfile, !.at = "sumCheck"]
      <3>1. new \in Command /\ NeedsPid(new)
        BY DEF Command, CmdState, NeedsPid, IInv, TypeOK
      <3>2. cmd' = [cmd EXCEPT ![c] = new]
        BY <2>9 DEF SummaryRead, IInv, TypeOK
      <3> QED
        BY <2>1, <3>1, <3>2
    <2>10. CASE SummaryCheck(c)
      <3> DEFINE new == AfterSummary(c)
      <3>1. cmd[c].op \in {"status", "start", "stop", "restart"}
        BY DEF Command
      <3>2. LET k == [cmd[c] EXCEPT !.at = "cleanRead", !.summed = TRUE]
            IN k \in Command /\ NeedsPid(k)
        BY DEF Command, CmdState, NeedsPid
      <3>3. LET k == [cmd[c] EXCEPT !.at = "unlink", !.outcome = "notRunning"]
            IN k \in Command /\ NeedsPid(k)
        BY DEF Command, CmdState, NeedsPid
      <3>4. Running(cmd[c].pid) => LET k == [cmd[c] EXCEPT !.at = "term"]
                                   IN k \in Command /\ NeedsPid(k)
        BY DEF Command, CmdState, NeedsPid, Running
      <3>5. new \in Command /\ NeedsPid(new)
        BY <2>3, <3>1, <3>2, <3>3, <3>4 DEF AfterSummary
      <3>6. cmd' = [cmd EXCEPT ![c] = new]
        BY <2>10 DEF SummaryCheck, IInv, TypeOK
      <3> QED
        BY <2>1, <3>5, <3>6
    <2>11. CASE UnlinkSocket(c)
      <3> DEFINE new == AfterUnlink(c)
      <3>1. new \in Command /\ NeedsPid(new)
        BY <2>2, <2>3 DEF AfterUnlink, CmdState
      <3>2. cmd' = [cmd EXCEPT ![c] = new]
        BY <2>11 DEF UnlinkSocket, IInv, TypeOK
      <3> QED
        BY <2>1, <3>1, <3>2
    <2>12. CASE Popen(c)
      <3>1. ASSUME NEW p \in Procs, cmd' = [cmd EXCEPT ![c].child = p, ![c].at = "poll"]
            PROVE  CmdOK'
        <4> DEFINE new == [cmd[c] EXCEPT !.child = p, !.at = "poll"]
        <4>1. new \in Command /\ NeedsPid(new)
          BY DEF Command, CmdState, NeedsPid
        <4>2. cmd' = [cmd EXCEPT ![c] = new]
          BY <3>1 DEF IInv, TypeOK
        <4> QED
          BY <2>1, <4>1, <4>2
      <3> QED
        BY <2>1, <2>3, <2>12, <3>1 DEF Popen
    <2>13. CASE Poll(c)
      <3> DEFINE new == IF Running(cmd[c].child) THEN [cmd[c] EXCEPT !.at = "probe"] ELSE IdleCommand
      <3>1. new \in Command /\ NeedsPid(new)
        BY <2>2, <2>3 DEF CmdState
      <3>2. cmd' = [cmd EXCEPT ![c] = new]
        BY <2>13 DEF Poll, IInv, TypeOK
      <3> QED
        BY <2>1, <3>1, <3>2
    <2>14. CASE Probe(c)
      <3> DEFINE new == IF http = None THEN [cmd[c] EXCEPT !.at = "poll"] ELSE IdleCommand
      <3>1. new \in Command /\ NeedsPid(new)
        BY <2>2, <2>3 DEF CmdState
      <3>2. cmd' = [cmd EXCEPT ![c] = new]
        BY <2>14 DEF Probe, IInv, TypeOK
      <3> QED
        BY <2>1, <3>1, <3>2
    <2>15. CASE StartTimesOut(c)
      <3> DEFINE new == IdleCommand
      <3>1. new \in Command /\ NeedsPid(new)
        BY <2>3 DEF CmdState
      <3>2. cmd' = [cmd EXCEPT ![c] = new]
        BY <2>15 DEF StartTimesOut, IInv, TypeOK
      <3> QED
        BY <2>1, <3>1, <3>2
    <2>16. CASE Terminate(c)
      <3> DEFINE new == IF Running(cmd[c].pid) THEN [cmd[c] EXCEPT !.at = "wait"]
                       ELSE [cmd[c] EXCEPT !.at = "unlink", !.outcome = "stopped"]
      <3>0. cmd[c].pid \in Procs
        BY <2>16 DEF Terminate, At, IInv, TypeOK
      <3>1. new \in Command /\ NeedsPid(new)
        BY <3>0 DEF Command, CmdState, NeedsPid
      <3>2. cmd' = [cmd EXCEPT ![c] = new]
        BY <2>16 DEF Terminate, IInv, TypeOK
      <3> QED
        BY <2>1, <3>1, <3>2
    <2>17. CASE AwaitExit(c)
      <3> DEFINE new == [cmd[c] EXCEPT !.at = "unlink", !.outcome = "stopped"]
      <3>1. new \in Command /\ NeedsPid(new)
        BY DEF Command, CmdState, NeedsPid
      <3>2. cmd' = [cmd EXCEPT ![c] = new]
        BY <2>17 DEF AwaitExit, IInv, TypeOK
      <3> QED
        BY <2>1, <3>1, <3>2
    <2>18. CASE Kill(c)
      <3> DEFINE new == IF Running(cmd[c].pid) THEN [cmd[c] EXCEPT !.at = "killed"]
                       ELSE [cmd[c] EXCEPT !.at = "unlink", !.outcome = "stopped"]
      <3>0. cmd[c].pid \in Procs
        BY <2>18 DEF Kill, At, IInv, TypeOK
      <3>1. new \in Command /\ NeedsPid(new)
        BY <3>0 DEF Command, CmdState, NeedsPid
      <3>2. cmd' = [cmd EXCEPT ![c] = new]
        BY <2>18 DEF Kill, IInv, TypeOK
      <3> QED
        BY <2>1, <3>1, <3>2
    <2>19. CASE KillCheck(c)
      <3> DEFINE new == [cmd[c] EXCEPT !.at = "unlink",
                        !.outcome = IF Running(cmd[c].pid) THEN "notStopped" ELSE "stopped"]
      <3>1. new \in Command /\ NeedsPid(new)
        BY DEF Command, CmdState, NeedsPid
      <3>2. cmd' = [cmd EXCEPT ![c] = new]
        BY <2>19 DEF KillCheck, IInv, TypeOK
      <3> QED
        BY <2>1, <3>1, <3>2
    <2> QED
      BY <2>4, <2>5, <2>6, <2>7, <2>8, <2>9, <2>10, <2>11, <2>12, <2>13, <2>14, <2>15, <2>16, <2>17,
         <2>18, <2>19 DEF CommandStep
  <1> QED
    BY <1>4, <1>5, <1>6, <1>7 DEF IInv, TypeOK, CmdOK, NeedsPid

\* No step of Next breaks the invariant.
LEMMA NextIInv == IInv /\ [Next]_vars => IInv'
  <1> SUFFICES ASSUME IInv, [Next]_vars PROVE IInv'
    OBVIOUS
  <1>1. CASE UNCHANGED vars
    BY <1>1 DEF vars, files, history, IInv, TypeOK, PortsHeld
  <1>2. CASE Next
    BY <1>2, GatewayPreserves, CommandPreserves DEF Next
  <1> QED
    BY <1>1, <1>2

THEOREM Invariant == Spec => []IInv
  BY InitIInv, NextIInv, PTL DEF Spec

\* Every variable keeps its type, and stop signals only a pid it has read.
THEOREM TypeCorrect == Spec => []TypeOK
  <1>1. IInv => TypeOK
    BY DEF IInv
  <1> QED
    BY <1>1, Invariant, PTL

\* run_gateway: a gateway that serves has the devices' port and the HTTP port,
\* whatever gateways and commands run beside it; so no two serve at once.
THEOREM OneServerAtMost == Spec => []ServerOwnsPorts
  <1>1. IInv => ServerOwnsPorts
    BY DEF IInv, PortsHeld, ServerOwnsPorts
  <1> QED
    BY <1>1, Invariant, PTL

=============================================================================
