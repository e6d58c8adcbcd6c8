----------------------- MODULE OneThingAtATimeProofs -----------------------
(***************************************************************************)
(* Proofs about GatewayDaemon while one thing is done at a time: the state *)
(* files name the gateway that serves, what a crash leaves behind is in    *)
(* nobody's way, and start and stop report what is the case, for any       *)
(* processes, shells and crashes.                                          *)
(***************************************************************************)
EXTENDS GatewayDaemonProofs

\* Who has a port is still there, and has bound it.
PortsTell ==
    \A p \in Procs :
        /\ tcp = p => proc[p] \in {"listening", "unlinked", "bound", "serving", "stopping", "dying"}
                                  \cup Leaving
        /\ http = p => proc[p] \in {"serving", "stopping", "dying"}

OneCommand == \A c, d \in Commands : ~At(c, "idle") /\ ~At(d, "idle") => c = d

OneGateway == \A p, q \in Gateways : p = q

\* The files name a gateway from the step on that writes them until it serves.
FilesTell ==
    \A p \in Procs :
        /\ proc[p] \in {"named", "described", "listening", "unlinked", "bound", "serving"} =>
            pidfile = p
        /\ proc[p] \in {"described", "listening", "unlinked", "bound", "serving"} => runfile = p
        /\ proc[p] = "unlinked" => sockfile = None
        /\ proc[p] \in {"bound", "serving"} => sockfile = p

\* What a command k knows of the gateways that are there.
Fits(k) ==
    /\ k.at \in {"cleanRead", "cleanCheck", "sumRead", "sumCheck"} =>
        \A p \in Gateways : proc[p] = "serving"
    /\ k.at \in {"cleanRead", "cleanCheck"} /\ k.summed => Gateways = {}
    /\ k.at \in {"cleanCheck", "sumCheck"} => Gateways \subseteq {k.pid}
    /\ k.at \in {"clearPid", "clearRun", "popen"} => Gateways = {}
    /\ k.at = "unlink" => \A p \in Gateways : k.outcome = "notStopped" /\ proc[p] = "dying"
    /\ k.at \in {"poll", "probe"} =>
        \A p \in Gateways : p = k.child /\ proc[p] \in Starting \cup {"serving"} \cup Leaving
    /\ k.at = "term" => /\ proc[k.pid] # "unused"
                        /\ \A p \in Gateways : p = k.pid /\ proc[p] = "serving"
    /\ k.at = "wait" => \A p \in Gateways : p = k.pid /\ proc[p] \in {"stopping", "dying"} \cup Leaving
    /\ k.at = "killed" => \A p \in Gateways : p = k.pid /\ proc[p] = "dying"

Alone ==
    ~overlap => OneCommand /\ OneGateway /\ FilesTell /\ \A c \in Commands : Fits(cmd[c])

AloneInv == PortsTell /\ Alone /\ NothingInTheWay

-----------------------------------------------------------------------------

LEMMA GatewaysAre ==
  /\ Gateways = {p \in Procs : proc[p] \notin {"unused", "dead"}}
  /\ Gateways' = {p \in Procs : proc'[p] \notin {"unused", "dead"}}
  BY DaemonAssumption DEF Gateways, Running

LEMMA InitAlone == Init => AloneInv
  <1> SUFFICES ASSUME Init PROVE AloneInv
    OBVIOUS
  <1>1. PortsTell /\ NothingInTheWay
    BY DaemonAssumption DEF Init, PortsTell, NothingInTheWay
  <1>2. OneGateway /\ FilesTell
    BY GatewaysAre DEF Init, OneGateway, FilesTell
  <1>3. OneCommand /\ \A c \in Commands : Fits(cmd[c])
    BY DEF Init, OneCommand, Fits, At, IdleCommand
  <1> QED
    BY <1>1, <1>2, <1>3 DEF AloneInv, Alone

-----------------------------------------------------------------------------
(* The steps of a gateway. *)

\* The moves a gateway makes of itself, other than to its end.
Moves(from, to) ==
    \/ from \in Starting /\ to \in Starting \cup {"serving"} \cup Leaving
    \/ from = "stopping" /\ to \in {"stopping", "dying"} \cup Leaving
    \/ from \in Leaving /\ to \in Leaving

\* Where a gateway goes; what it does not touch.
LEMMA GatewayMoves ==
  ASSUME IInv, NEW p \in Procs, GatewayStep(p) \/ Crash(p)
  PROVE  /\ p \in Gateways /\ cmd' = cmd /\ overlap' = overlap
         /\ \E to \in ProcState \ {"unused"} :
              proc' = [proc EXCEPT ![p] = to] /\ (to # "dead" => Moves(proc[p], to))
  <1>1. proc \in [Procs -> ProcState]
    BY DEF IInv, TypeOK
  <1>2. CASE WritePid(p) \/ WriteRuntime(p) \/ BindTcp(p) \/ UnlinkOldSocket(p) \/ BindUnix(p)
             \/ BindHttp(p) \/ BindFails(p)
    BY <1>1, <1>2, GatewaysAre
    DEF WritePid, WriteRuntime, BindTcp, UnlinkOldSocket, BindUnix, BindHttp, BindFails, Goes,
        history, ProcState, Moves, Starting, Leaving
  <1>3. CASE CloseHttp(p) \/ ShutDown(p) \/ Leave(p) \/ UnlinkPid(p)
    BY <1>1, <1>3, GatewaysAre
    DEF CloseHttp, ShutDown, Leave, UnlinkPid, Goes, Ends, history, ProcState, Moves, Starting, Leaving
  <1>4. CASE UnlinkRuntime(p) \/ Dies(p) \/ Crash(p)
    BY <1>1, <1>4, GatewaysAre
    DEF UnlinkRuntime, Dies, Crash, Ends, history, ProcState, Moves, Starting, Leaving
  <1> QED
    BY <1>2, <1>3, <1>4 DEF GatewayStep

\* The command that runs goes on fitting.
LEMMA GatewayFits ==
  ASSUME IInv, Alone, ~overlap, NEW p \in Procs, GatewayStep(p) \/ Crash(p)
  PROVE  /\ OneCommand' /\ OneGateway'
         /\ \A c \in Commands : Fits(cmd[c])'
  <1>1. PICK to \in ProcState \ {"unused"} :
            proc' = [proc EXCEPT ![p] = to] /\ (to # "dead" => Moves(proc[p], to))
    BY GatewayMoves
  <1>2. p \in Gateways /\ cmd' = cmd /\ Gateways \subseteq {p}
    BY GatewayMoves DEF Alone, OneGateway
  <1>3. proc \in [Procs -> ProcState]
    BY DEF IInv, TypeOK
  <1>4. Gateways' = IF to = "dead" THEN {} ELSE {p}
    BY <1>1, <1>2, <1>3, GatewaysAre
  <1>5. OneCommand' /\ OneGateway'
    BY <1>2, <1>4 DEF Alone, OneCommand, OneGateway, At
  <1>6. ASSUME NEW c \in Commands PROVE Fits(cmd[c])'
    <2>1. Fits(cmd[c]) /\ proc[p] # "unused"
      BY <1>2, GatewaysAre DEF Alone
    <2>2. CASE to = "dead"
      BY <1>1, <1>2, <1>3, <1>4, <2>1, <2>2 DEF Fits
    <2>3. CASE to # "dead"
      <3> DEFINE k == cmd[c]
      <3>1. k' = k /\ Gateways' = {p} /\ proc'[p] = to /\ p \in Gateways
        BY <1>1, <1>2, <1>3, <1>4, <2>3
      <3>2. proc[p] # "serving" /\ proc[p] # "dying"
        BY <1>1, <2>3 DEF Moves, Starting, Leaving
      <3>3. k.at \in {"poll", "probe"} =>
              p = k.child /\ to \in Starting \cup {"serving"} \cup Leaving
        BY <1>1, <1>2, <2>1, <2>3, <3>2 DEF Fits, Moves, Starting, Leaving
      <3>4. k.at = "wait" => p = k.pid /\ to \in {"stopping", "dying"} \cup Leaving
        BY <1>1, <1>2, <2>1, <2>3, <3>2 DEF Fits, Moves, Starting, Leaving
      <3>5. k.at \notin {"cleanRead", "cleanCheck", "sumRead", "sumCheck", "clearPid", "clearRun",
                        "popen", "unlink", "term", "killed"}
        BY <1>2, <2>1, <3>2 DEF Fits
      <3> QED
        BY <3>1, <3>3, <3>4, <3>5 DEF Fits
    <2> QED
      BY <2>2, <2>3
  <1> QED
    BY <1>5, <1>6

\* Its steps keep the files true, as there is no other that could write them.
LEMMA GatewayFiles ==
  ASSUME IInv, Alone, ~overlap, NEW p \in Procs, GatewayStep(p) \/ Crash(p)
  PROVE  FilesTell'
  <1>1. proc \in [Procs -> ProcState] /\ FilesTell
    BY DEF IInv, TypeOK, Alone
  <1>2. \A q \in Procs : q # p => proc[q] \in {"unused", "dead"}
    BY GatewayMoves, GatewaysAre DEF Alone, OneGateway
  <1>3. CASE WritePid(p) \/ WriteRuntime(p)
    BY <1>1, <1>2, <1>3 DEF WritePid, WriteRuntime, Goes, FilesTell
  <1>4. CASE BindTcp(p) \/ UnlinkOldSocket(p)
    BY <1>1, <1>2, <1>4 DEF BindTcp, UnlinkOldSocket, files, Goes, FilesTell
  <1>5. CASE BindUnix(p) \/ BindHttp(p)
    BY <1>1, <1>2, <1>5 DEF BindUnix, BindHttp, files, Goes, FilesTell
  <1>6. CASE BindFails(p) \/ CloseHttp(p) \/ ShutDown(p)
    BY <1>1, <1>2, <1>6 DEF BindFails, CloseHttp, ShutDown, files, Goes, FilesTell
  <1>7. CASE Leave(p) \/ UnlinkPid(p)
    BY <1>1, <1>2, <1>7 DEF Leave, UnlinkPid, files, Goes, Ends, FilesTell
  <1>8. CASE UnlinkRuntime(p) \/ Dies(p) \/ Crash(p)
    BY <1>1, <1>2, <1>8 DEF UnlinkRuntime, Dies, Crash, files, Ends, FilesTell
  <1> QED
    BY <1>3, <1>4, <1>5, <1>6, <1>7, <1>8 DEF GatewayStep

LEMMA ByHandAlone ==
  ASSUME IInv, Alone, NEW p \in Procs, RunInForeground(p) \/ Interrupt(p)
  PROVE  Alone'
  <1> SUFFICES ASSUME ~overlap' PROVE OneCommand' /\ OneGateway' /\ FilesTell'
                                     /\ \A c \in Commands : Fits(cmd[c])'
    BY DEF Alone
  <1>1. cmd' = cmd /\ ~overlap /\ \A c \in Commands : cmd[c].at = "idle"
    BY DEF RunInForeground, Interrupt, AtRest
  <1>2. OneCommand' /\ \A c \in Commands : Fits(cmd[c])'
    BY <1>1 DEF OneCommand, At, Fits
  <1>3. proc \in [Procs -> ProcState] /\ FilesTell /\ OneGateway
    BY <1>1 DEF IInv, TypeOK, Alone
  <1>4. CASE RunInForeground(p)
    <2>1. Gateways = {} /\ files' = files /\ proc' = [proc EXCEPT ![p] = "new"]
      BY <1>4 DEF RunInForeground, Goes
    <2>2. Gateways' = {p} /\ OneGateway'
      BY <1>3, <2>1, GatewaysAre DEF OneGateway
    <2> QED
      BY <1>2, <1>3, <2>1, <2>2, GatewaysAre DEF files, FilesTell
  <1>5. CASE Interrupt(p)
    <2>1. /\ files' = files
          /\ \E to \in {"leaving", "stopping"} : proc' = [proc EXCEPT ![p] = to]
          /\ proc[p] \notin {"unused", "dead"}
      BY <1>5 DEF Interrupt, Goes
    <2>2. Gateways' = Gateways
      BY <1>3, <2>1, GatewaysAre
    <2>3. OneGateway'
      BY <1>3, <2>2 DEF OneGateway
    <2> QED
      BY <1>2, <1>3, <2>1, <2>3 DEF files, FilesTell
  <1> QED
    BY <1>2, <1>4, <1>5 DEF Alone

-----------------------------------------------------------------------------
(* The ports. *)

LEMMA GatewayPorts ==
  ASSUME IInv, PortsTell, NEW p \in Procs,
         RunInForeground(p) \/ GatewayStep(p) \/ Interrupt(p) \/ Crash(p)
  PROVE  PortsTell'
  <1>1. proc \in [Procs -> ProcState]
    BY DEF IInv, TypeOK
  <1>2. CASE RunInForeground(p) \/ WritePid(p) \/ WriteRuntime(p) \/ Interrupt(p)
    BY <1>1, <1>2 DEF RunInForeground, WritePid, WriteRuntime, Interrupt, Goes, PortsTell, Leaving
  <1>3. CASE BindTcp(p) \/ UnlinkOldSocket(p) \/ BindUnix(p) \/ BindHttp(p)
    BY <1>1, <1>3 DEF BindTcp, UnlinkOldSocket, BindUnix, BindHttp, Goes, PortsTell, Leaving
  <1>4. CASE BindFails(p)
    BY <1>1, <1>4 DEF BindFails, Goes, PortsTell, Leaving
  <1>5. CASE CloseHttp(p) \/ ShutDown(p)
    BY <1>1, <1>5, DaemonAssumption DEF CloseHttp, ShutDown, Goes, PortsTell, Leaving
  <1>6. CASE Leave(p) \/ UnlinkPid(p)
    BY <1>1, <1>6, DaemonAssumption DEF Leave, UnlinkPid, Goes, Ends, PortsTell, Leaving
  <1>7. CASE UnlinkRuntime(p) \/ Dies(p) \/ Crash(p)
    BY <1>1, <1>7, DaemonAssumption DEF UnlinkRuntime, Dies, Crash, Ends, PortsTell
  <1> QED
    BY <1>2, <1>3, <1>4, <1>5, <1>6, <1>7 DEF GatewayStep

\* A bind fails only when something overlaps or another program has the HTTP port.
LEMMA GatewayUnhindered ==
  ASSUME IInv, AloneInv, NEW p \in Procs,
         RunInForeground(p) \/ GatewayStep(p) \/ Interrupt(p) \/ Crash(p)
  PROVE  NothingInTheWay'
  <1>1. proc \in [Procs -> ProcState] /\ NothingInTheWay
    BY DEF IInv, TypeOK, AloneInv
  <1>2. CASE BindFails(p)
    <2>1. SUFFICES ASSUME ~overlap PROVE http = Other
      BY <1>2, <2>1 DEF BindFails, NothingInTheWay
    <2>2. \A q \in Procs : q # p => proc[q] \in {"unused", "dead"}
      BY <1>2, <2>1, GatewaysAre DEF AloneInv, Alone, OneGateway, BindFails, Goes
    <2>3. ~(proc[p] = "described" /\ tcp # None)
      BY <2>2 DEF IInv, TypeOK, AloneInv, PortsTell, Leaving
    <2>4. ~(proc[p] = "unlinked" /\ sockfile # None)
      BY <2>1 DEF AloneInv, Alone, FilesTell
    <2>5. proc[p] = "bound" /\ http # None
      BY <1>2, <2>3, <2>4 DEF BindFails, Goes
    <2> QED
      BY <2>2, <2>5 DEF IInv, TypeOK, AloneInv, PortsTell
  <1>3. CASE ~BindFails(p)
    <2>1. failures' = failures
      BY <1>3 DEF history, RunInForeground, GatewayStep, Interrupt, Crash, WritePid, WriteRuntime,
                  BindTcp, UnlinkOldSocket, BindUnix, BindHttp, CloseHttp, ShutDown, Leave,
                  UnlinkPid, UnlinkRuntime, Dies
    <2>2. overlap => overlap'
      BY <1>3 DEF history, RunInForeground, GatewayStep, Interrupt, Crash, WritePid, WriteRuntime,
                  BindTcp, UnlinkOldSocket, BindUnix, BindHttp, CloseHttp, ShutDown, Leave,
                  UnlinkPid, UnlinkRuntime, Dies
    <2>3. http = Other => http' = Other
      <3>1. CASE Leave(p) \/ UnlinkRuntime(p) \/ Dies(p) \/ Crash(p)
        BY <3>1, DaemonAssumption DEF Leave, UnlinkRuntime, Dies, Crash, Ends
      <3>2. CASE BindHttp(p) \/ CloseHttp(p)
        BY <3>2, DaemonAssumption DEF BindHttp, CloseHttp
      <3> QED
        BY <1>3, <3>1, <3>2
        DEF RunInForeground, GatewayStep, Interrupt, WritePid, WriteRuntime, BindTcp,
            UnlinkOldSocket, BindUnix, ShutDown, UnlinkPid
    <2> QED
      BY <1>1, <2>1, <2>2, <2>3 DEF NothingInTheWay
  <1> QED
    BY <1>2, <1>3

-----------------------------------------------------------------------------
(* The steps of a command. *)

\* A command that begins finds all at rest.
LEMMA BeginAlone ==
  ASSUME IInv, Alone, NEW c \in Commands, NEW op \in {"status", "start", "stop", "restart"},
         Begin(c, op)
  PROVE  Alone'
  <1> SUFFICES ASSUME ~overlap' PROVE OneCommand' /\ OneGateway' /\ FilesTell'
                                     /\ \A d \in Commands : Fits(cmd[d])'
    BY DEF Alone
  <1>1. ~overlap /\ AtRest
    BY DEF Begin
  <1>2. Gateways' = Gateways /\ OneGateway' /\ FilesTell'
    BY <1>1 DEF Begin, files, Alone, OneGateway, FilesTell, Gateways, Running
  <1> DEFINE new == [IdleCommand EXCEPT !.op = op, !.at = "cleanRead"]
  <1>3. new.at = "cleanRead" /\ new.summed = FALSE
    BY DEF IdleCommand
  <1>4. \A d \in Commands : cmd'[d] = IF d = c THEN new ELSE cmd[d]
    BY DEF Begin, IInv, TypeOK
  <1> HIDE DEF new
  <1>5. OneCommand'
    BY <1>1, <1>4 DEF OneCommand, At, AtRest
  <1>6. \A d \in Commands : Fits(cmd[d])'
    BY <1>1, <1>2, <1>3, <1>4 DEF Begin, AtRest, Fits
  <1> QED
    BY <1>2, <1>5, <1>6

\* When a command becomes new, it is enough that new fits.
LEMMA NewFits ==
  ASSUME IInv, OneCommand, NEW c \in Commands, ~At(c, "idle"),
         NEW new, cmd' = [cmd EXCEPT ![c] = new], Fits(new)'
  PROVE  OneCommand' /\ \A d \in Commands : Fits(cmd[d])'
  <1>1. \A d \in Commands : cmd'[d] = IF d = c THEN new ELSE cmd[d]
    BY DEF IInv, TypeOK
  <1>2. \A d \in Commands : d # c => cmd[d].at = "idle"
    BY DEF OneCommand, At
  <1>3. OneCommand'
    BY <1>1, <1>2 DEF OneCommand, At
  <1>4. \A d \in Commands : d # c => Fits(cmd[d])'
    BY <1>1, <1>2 DEF Fits
  <1>5. Fits(cmd[c])'
    BY <1>1
  <1> QED
    BY <1>3, <1>4, <1>5

\* A step that leaves the gateways alone.
LEMMA QuietStep ==
  ASSUME IInv, Alone, ~overlap, NEW c \in Commands, ~At(c, "idle"),
         NEW new, cmd' = [cmd EXCEPT ![c] = new], proc' = proc, Fits(new), FilesTell'
  PROVE  Alone'
  <1>1. Gateways' = Gateways
    BY DEF Gateways, Running
  <1>2. Fits(new)'
    BY <1>1 DEF Fits
  <1>3. OneGateway'
    BY <1>1 DEF Alone, OneGateway
  <1>4. OneCommand' /\ \A d \in Commands : Fits(cmd[d])'
    BY <1>2, NewFits DEF Alone
  <1> QED
    BY <1>3, <1>4 DEF Alone

\* The files of gateways that are not there, or are dying, may go.
LEMMA NobodysFiles ==
  ASSUME proc' = proc, \A p \in Gateways : proc[p] = "dying"
  PROVE  FilesTell'
  BY GatewaysAre DEF FilesTell

LEMMA CommandAlone ==
  ASSUME IInv, Alone, ~overlap, NEW c \in Commands, CommandStep(c) \/ StartTimesOut(c)
  PROVE  Alone'
  <1> DEFINE k == cmd[c]
  <1>1. k \in Command /\ Fits(k) /\ OneGateway /\ FilesTell
    BY DEF IInv, TypeOK, Alone
  <1>2. files' = files /\ proc' = proc => FilesTell'
    BY <1>1 DEF files, FilesTell
  <1>3. \A pid : Running(pid) <=> pid # None /\ proc[pid] \notin {"unused", "dead"}
    BY DEF Running
  <1>4. \A p \in Gateways : proc[p] = "serving" => pidfile = p
    BY <1>1, GatewaysAre DEF FilesTell
  <1>5. Cleaned(c) = IF k.summed THEN "unlink" ELSE "sumRead"
    BY DEF Cleaned
  <1>6. CASE CleanRead(c)
    <2>1. PICK new : new = [k EXCEPT !.pid = pidfile,
                                     !.at = IF pidfile = None THEN Cleaned(c) ELSE "cleanCheck"]
      OBVIOUS
    <2>2. /\ new.at = (IF pidfile = None THEN Cleaned(c) ELSE "cleanCheck")
          /\ new.pid = pidfile /\ new.summed = k.summed
      BY <1>1, <2>1 DEF Command
    <2>3. Fits(new)
      BY <1>1, <1>4, <1>5, <1>6, <2>2 DEF CleanRead, At, Fits
    <2>4. ~At(c, "idle") /\ cmd' = [cmd EXCEPT ![c] = new] /\ proc' = proc /\ FilesTell'
      BY <1>2, <1>6, <2>1 DEF CleanRead, At, IInv, TypeOK
    <2> QED
      BY <2>3, <2>4, QuietStep
  <1>7. CASE CleanCheck(c)
    <2>1. PICK new : new = [k EXCEPT !.at = IF Running(k.pid) THEN Cleaned(c) ELSE "clearPid"]
      OBVIOUS
    <2>2. /\ new.at = (IF Running(k.pid) THEN Cleaned(c) ELSE "clearPid")
          /\ new.pid = k.pid /\ new.summed = k.summed
      BY <1>1, <2>1 DEF Command
    <2>3. ~Running(k.pid) => Gateways = {}
      BY <1>1, <1>7 DEF CleanCheck, At, Fits, Gateways
    <2>4. Fits(new)
      BY <1>1, <1>5, <1>7, <2>2, <2>3 DEF CleanCheck, At, Fits
    <2>5. ~At(c, "idle") /\ cmd' = [cmd EXCEPT ![c] = new] /\ proc' = proc /\ FilesTell'
      BY <1>2, <1>7, <2>1 DEF CleanCheck, At, IInv, TypeOK
    <2> QED
      BY <2>4, <2>5, QuietStep
  <1>8. CASE ClearPid(c)
    <2>1. PICK new : new = [k EXCEPT !.at = "clearRun"]
      OBVIOUS
    <2>2. new.at = "clearRun" /\ Gateways = {}
      BY <1>1, <1>8, <2>1 DEF Command, ClearPid, At, Fits
    <2>3. Fits(new)
      BY <2>2 DEF Fits
    <2>4. ~At(c, "idle") /\ cmd' = [cmd EXCEPT ![c] = new] /\ proc' = proc /\ FilesTell'
      BY <1>8, <2>1, <2>2, NobodysFiles DEF ClearPid, At, IInv, TypeOK
    <2> QED
      BY <2>3, <2>4, QuietStep
  <1>9. CASE ClearRuntime(c)
    <2>1. PICK new : new = IF k.outcome = "none" THEN [k EXCEPT !.at = Cleaned(c)] ELSE AfterStop(c)
      OBVIOUS
    <2>2. new.at \in {"unlink", "sumRead", "cleanRead", "idle"} /\ Gateways = {}
      BY <1>1, <1>5, <1>9, <2>1 DEF Command, ClearRuntime, At, Fits, AfterStop, IdleCommand
    <2>3. Fits(new)
      BY <2>2 DEF Fits
    <2>4. ~At(c, "idle") /\ cmd' = [cmd EXCEPT ![c] = new] /\ proc' = proc /\ FilesTell'
      BY <1>9, <2>1, <2>2, NobodysFiles DEF ClearRuntime, At, IInv, TypeOK
    <2> QED
      BY <2>3, <2>4, QuietStep
  <1>10. CASE SummaryRead(c)
    <2>1. PICK new : new = [k EXCEPT !.pid = pidfile, !.at = "sumCheck"]
      OBVIOUS
    <2>2. new.at = "sumCheck" /\ new.pid = pidfile
      BY <1>1, <2>1 DEF Command
    <2>3. Fits(new)
      BY <1>1, <1>4, <1>10, <2>2 DEF SummaryRead, At, Fits
    <2>4. ~At(c, "idle") /\ cmd' = [cmd EXCEPT ![c] = new] /\ proc' = proc /\ FilesTell'
      BY <1>2, <1>10, <2>1 DEF SummaryRead, At, IInv, TypeOK
    <2> QED
      BY <2>3, <2>4, QuietStep
  <1>11. CASE SummaryCheck(c)
    <2>1. PICK new : new = AfterSummary(c)
      OBVIOUS
    <2>2. /\ ~Running(k.pid) => Gateways = {}
          /\ \A p \in Gateways : p = k.pid /\ proc[p] = "serving"
      BY <1>1, <1>11 DEF SummaryCheck, At, Fits, Gateways
    <2>3. k.op \in {"status", "start", "stop", "restart"}
      BY <1>1 DEF Command
    <2>4. \/ new.at = "idle"
          \/ ~Running(k.pid) /\ new.at \in {"cleanRead", "unlink"}
          \/ Running(k.pid) /\ new.at = "term" /\ new.pid = k.pid
      BY <1>1, <2>1, <2>3 DEF AfterSummary, IdleCommand, Command
    <2>5. Fits(new)
      BY <1>3, <2>2, <2>4 DEF Fits
    <2>6. ~At(c, "idle") /\ cmd' = [cmd EXCEPT ![c] = new] /\ proc' = proc /\ FilesTell'
      BY <1>2, <1>11, <2>1 DEF SummaryCheck, At, IInv, TypeOK
    <2> QED
      BY <2>5, <2>6, QuietStep
  <1>12. CASE UnlinkSocket(c)
    <2>1. PICK new : new = AfterUnlink(c)
      OBVIOUS
    <2>2. \A p \in Gateways : k.outcome = "notStopped" /\ proc[p] = "dying"
      BY <1>1, <1>12 DEF UnlinkSocket, At, Fits
    <2>3. \/ new.at = "idle"
          \/ k.outcome # "notStopped" /\ new.at \in {"popen", "clearPid"}
      BY <1>1, <2>1 DEF AfterUnlink, IdleCommand, Command
    <2>4. Fits(new)
      BY <2>2, <2>3 DEF Fits
    <2>5. ~At(c, "idle") /\ cmd' = [cmd EXCEPT ![c] = new] /\ proc' = proc /\ FilesTell'
      BY <1>12, <2>1, <2>2, NobodysFiles DEF UnlinkSocket, At, IInv, TypeOK
    <2> QED
      BY <2>4, <2>5, QuietStep
  <1>13. CASE Poll(c) \/ Probe(c) \/ StartTimesOut(c)
    <2>1. PICK new : /\ cmd' = [cmd EXCEPT ![c] = new]
                     /\ \/ new = IdleCommand
                        \/ new = [k EXCEPT !.at = "poll"]
                        \/ new = [k EXCEPT !.at = "probe"]
      BY <1>13 DEF Poll, Probe, StartTimesOut, IInv, TypeOK
    <2>2. \/ new.at = "idle"
          \/ new.at \in {"poll", "probe"} /\ new.child = k.child
      BY <1>1, <2>1 DEF Command, IdleCommand
    <2>3. Fits(new)
      BY <1>1, <1>13, <2>2 DEF Poll, Probe, StartTimesOut, At, Fits
    <2>4. ~At(c, "idle") /\ proc' = proc /\ FilesTell'
      BY <1>2, <1>13 DEF Poll, Probe, StartTimesOut, At
    <2> QED
      BY <2>1, <2>3, <2>4, QuietStep
  <1>14. CASE AwaitExit(c) \/ KillCheck(c)
    <2>1. PICK new : /\ cmd' = [cmd EXCEPT ![c] = new]
                     /\ new = [k EXCEPT !.at = "unlink",
                              !.outcome = IF Running(k.pid) THEN "notStopped" ELSE "stopped"]
      BY <1>14 DEF AwaitExit, KillCheck, IInv, TypeOK
    <2>2. new.at = "unlink" /\ new.outcome = (IF Running(k.pid) THEN "notStopped" ELSE "stopped")
      BY <1>1, <2>1 DEF Command
    <2>3. ~Running(k.pid) => Gateways = {}
      BY <1>1, <1>14 DEF AwaitExit, KillCheck, At, Fits, Gateways
    <2>4. Running(k.pid) => \A p \in Gateways : proc[p] = "dying"
      BY <1>1, <1>14 DEF AwaitExit, KillCheck, At, Fits
    <2>5. Fits(new)
      BY <2>2, <2>3, <2>4 DEF Fits
    <2>6. ~At(c, "idle") /\ proc' = proc /\ FilesTell'
      BY <1>2, <1>14 DEF AwaitExit, KillCheck, At
    <2> QED
      BY <2>1, <2>5, <2>6, QuietStep
  <1>15. CASE Popen(c)
    <2>1. Gateways = {} /\ ~At(c, "idle")
      BY <1>1, <1>15 DEF Popen, At, Fits
    <2>2. CASE proc' = proc
      <3>1. PICK new : new = IdleCommand
        OBVIOUS
      <3>2. Fits(new)
        BY <3>1 DEF Fits, IdleCommand
      <3>3. cmd' = [cmd EXCEPT ![c] = new] /\ FilesTell'
        BY <1>2, <1>15, <2>2, <3>1, GatewaysAre DEF Popen, Goes, IInv, TypeOK
      <3> QED
        BY <2>1, <2>2, <3>2, <3>3, QuietStep
    <2>3. CASE proc' # proc
      <3>1. PICK p \in Procs : Goes(p, "unused", "new")
                               /\ cmd' = [cmd EXCEPT ![c].child = p, ![c].at = "poll"]
        BY <1>15, <2>3 DEF Popen
      <3>2. PICK new : new = [k EXCEPT !.child = p, !.at = "poll"]
        OBVIOUS
      <3>3. cmd' = [cmd EXCEPT ![c] = new]
        BY <3>1, <3>2 DEF IInv, TypeOK
      <3>4. Gateways' = {p} /\ proc'[p] = "new"
        BY <2>1, <3>1, GatewaysAre DEF Goes, IInv, TypeOK
      <3>5. new.at = "poll" /\ new.child = p
        BY <1>1, <3>2 DEF Command
      <3>6. Fits(new)'
        BY <3>4, <3>5 DEF Fits, Starting
      <3>7. OneGateway' /\ FilesTell'
        BY <3>4, GatewaysAre DEF OneGateway, FilesTell
      <3> QED
        BY <2>1, <3>3, <3>6, <3>7, NewFits DEF Alone
    <2> QED
      BY <2>2, <2>3
  <1>16. CASE Terminate(c)
    <2>1. /\ k.pid \in Procs /\ proc[k.pid] # "unused" /\ ~At(c, "idle")
          /\ \A p \in Gateways : p = k.pid /\ proc[p] = "serving"
          /\ proc \in [Procs -> ProcState]
      BY <1>1, <1>16 DEF Terminate, At, Fits, IInv, TypeOK
    <2>2. CASE Running(k.pid)
      <3>1. PICK new : new = [k EXCEPT !.at = "wait"]
        OBVIOUS
      <3>2. cmd' = [cmd EXCEPT ![c] = new]
        BY <1>16, <2>2, <3>1 DEF Terminate, IInv, TypeOK
      <3>3. Gateways = {k.pid} /\ proc[k.pid] = "serving"
        BY <2>1, <2>2 DEF Gateways
      <3>4. proc' = [proc EXCEPT ![k.pid] = "stopping"]
        BY <1>16, <3>3 DEF Terminate, Sigterm
      <3>5. Gateways' = {k.pid} /\ proc'[k.pid] = "stopping"
        BY <2>1, <3>3, <3>4, GatewaysAre
      <3>6. new.at = "wait" /\ new.pid = k.pid
        BY <1>1, <3>1 DEF Command
      <3>7. \A p \in Gateways' : p = new.pid /\ proc'[p] \in {"stopping", "dying"} \cup Leaving
        BY <3>5, <3>6
      <3>8. Fits(new)'
        BY <3>6, <3>7 DEF Fits
      <3>9. OneGateway' /\ FilesTell'
        BY <3>5, GatewaysAre DEF OneGateway, FilesTell
      <3> QED
        BY <2>1, <3>2, <3>8, <3>9, NewFits DEF Alone
    <2>3. CASE ~Running(k.pid)
      <3>1. PICK new : new = [k EXCEPT !.at = "unlink", !.outcome = "stopped"]
        OBVIOUS
      <3>2. cmd' = [cmd EXCEPT ![c] = new]
        BY <1>16, <2>3, <3>1 DEF Terminate, IInv, TypeOK
      <3>3. Gateways = {} /\ proc[k.pid] = "dead"
        BY <2>1, <2>3, DaemonAssumption DEF Gateways, Running
      <3>4. proc' = proc
        BY <1>16, <2>1, <3>3 DEF Terminate, Sigterm
      <3>5. new.at = "unlink"
        BY <1>1, <3>1 DEF Command
      <3>6. Fits(new) /\ FilesTell'
        BY <3>3, <3>4, <3>5, NobodysFiles DEF Fits
      <3> QED
        BY <2>1, <3>2, <3>4, <3>6, QuietStep
    <2> QED
      BY <2>2, <2>3
  <1>17. CASE Kill(c)
    <2>1. /\ k.pid \in Procs /\ ~At(c, "idle") /\ Gateways \subseteq {k.pid}
          /\ proc \in [Procs -> ProcState]
      BY <1>1, <1>17 DEF Kill, At, Fits, IInv, TypeOK
    <2>2. CASE Running(k.pid)
      <3>1. PICK new : new = [k EXCEPT !.at = "killed"]
        OBVIOUS
      <3>2. cmd' = [cmd EXCEPT ![c] = new]
        BY <1>17, <2>2, <3>1 DEF Kill, IInv, TypeOK
      <3>3. proc' = [proc EXCEPT ![k.pid] = "dying"]
        BY <1>17, <2>1, <2>2 DEF Kill
      <3>4. Gateways' = {k.pid} /\ proc'[k.pid] = "dying"
        BY <2>1, <3>3, GatewaysAre
      <3>5. new.at = "killed" /\ new.pid = k.pid
        BY <1>1, <3>1 DEF Command
      <3>6. Fits(new)'
        BY <3>4, <3>5 DEF Fits
      <3>7. OneGateway' /\ FilesTell'
        BY <3>4, GatewaysAre DEF OneGateway, FilesTell
      <3> QED
        BY <2>1, <3>2, <3>6, <3>7, NewFits DEF Alone
    <2>3. CASE ~Running(k.pid)
      <3>1. PICK new : new = [k EXCEPT !.at = "unlink", !.outcome = "stopped"]
        OBVIOUS
      <3>2. cmd' = [cmd EXCEPT ![c] = new] /\ proc' = proc
        BY <1>17, <2>1, <2>3, <3>1 DEF Kill, IInv, TypeOK
      <3>3. Gateways = {}
        BY <2>1, <2>3 DEF Gateways
      <3>4. new.at = "unlink"
        BY <1>1, <3>1 DEF Command
      <3>5. Fits(new) /\ FilesTell'
        BY <3>2, <3>3, <3>4, NobodysFiles DEF Fits
      <3> QED
        BY <2>1, <3>2, <3>5, QuietStep
    <2> QED
      BY <2>2, <2>3
  <1> QED
    BY <1>6, <1>7, <1>8, <1>9, <1>10, <1>11, <1>12, <1>13, <1>14, <1>15, <1>16, <1>17
    DEF CommandStep

\* A command takes no port from anybody and does not make a bind fail.
LEMMA CommandPorts ==
  ASSUME IInv, PortsTell, NothingInTheWay, NEW c \in Commands,
         NEW op \in {"status", "start", "stop", "restart"},
         Begin(c, op) \/ CommandStep(c) \/ StartTimesOut(c)
  PROVE  PortsTell' /\ NothingInTheWay'
  <1>1. /\ tcp' = tcp /\ http' = http /\ failures' = failures
    BY DEF Begin, CommandStep, StartTimesOut, CleanRead, CleanCheck, ClearPid, ClearRuntime,
           SummaryRead, SummaryCheck, UnlinkSocket, Popen, Poll, Probe, Terminate, AwaitExit,
           Kill, KillCheck, history
  <1>2. overlap => overlap'
    BY DEF Begin, CommandStep, StartTimesOut, CleanRead, CleanCheck, ClearPid, ClearRuntime,
           SummaryRead, SummaryCheck, UnlinkSocket, Popen, Poll, Probe, Terminate, AwaitExit,
           Kill, KillCheck, history
  <1>3. PortsTell'
    <2>1. CASE proc' = proc
      BY <1>1, <2>1 DEF PortsTell
    <2>2. CASE Popen(c)
      BY <1>1, <2>2 DEF Popen, Goes, PortsTell, IInv, TypeOK, Leaving
    <2>3. CASE Terminate(c)
      BY <1>1, <2>3 DEF Terminate, At, Sigterm, PortsTell, IInv, TypeOK, Leaving
    <2>4. CASE Kill(c)
      BY <1>1, <2>4 DEF Kill, At, PortsTell, IInv, TypeOK, Leaving
    <2> QED
      BY <2>1, <2>2, <2>3, <2>4
      DEF Begin, CommandStep, StartTimesOut, CleanRead, CleanCheck, ClearPid, ClearRuntime,
          SummaryRead, SummaryCheck, UnlinkSocket, Poll, Probe, AwaitExit, KillCheck
  <1> QED
    BY <1>1, <1>2, <1>3 DEF NothingInTheWay

-----------------------------------------------------------------------------

LEMMA NextAlone == IInv /\ AloneInv /\ [Next]_vars => AloneInv'
  <1> SUFFICES ASSUME IInv, AloneInv, [Next]_vars PROVE AloneInv'
    OBVIOUS
  <1>1. CASE UNCHANGED vars
    <2>1. Gateways' = Gateways
      BY <1>1 DEF vars, Gateways, Running
    <2> QED
      BY <1>1, <2>1 DEF vars, files, history, AloneInv, PortsTell, NothingInTheWay, Alone,
                        OneCommand, At, OneGateway, FilesTell, Fits
  <1>2. ASSUME NEW c \in Commands, NEW op \in {"status", "start", "stop", "restart"}, Begin(c, op)
        PROVE  AloneInv'
    BY <1>2, BeginAlone, CommandPorts DEF AloneInv
  <1>3. ASSUME NEW c \in Commands, CommandStep(c) \/ StartTimesOut(c) PROVE AloneInv'
    <2>1. PortsTell' /\ NothingInTheWay'
      BY <1>3, CommandPorts DEF AloneInv
    <2>2. overlap' = overlap
      BY <1>3 DEF CommandStep, StartTimesOut, CleanRead, CleanCheck, ClearPid, ClearRuntime,
             SummaryRead, SummaryCheck, UnlinkSocket, Popen, Poll, Probe, Terminate, AwaitExit,
             Kill, KillCheck, history
    <2>3. Alone'
      BY <1>3, <2>2, CommandAlone DEF AloneInv, Alone
    <2> QED
      BY <2>1, <2>3 DEF AloneInv
  <1>4. ASSUME NEW p \in Procs, RunInForeground(p) \/ Interrupt(p) PROVE AloneInv'
    BY <1>4, ByHandAlone, GatewayPorts, GatewayUnhindered DEF AloneInv
  <1>5. ASSUME NEW p \in Procs, GatewayStep(p) \/ Crash(p) PROVE AloneInv'
    <2>1. PortsTell' /\ NothingInTheWay'
      BY <1>5, GatewayPorts, GatewayUnhindered DEF AloneInv
    <2>2. overlap' = overlap
      BY <1>5, GatewayMoves
    <2>3. Alone'
      BY <1>5, <2>2, GatewayFits, GatewayFiles DEF AloneInv, Alone
    <2> QED
      BY <2>1, <2>3 DEF AloneInv
  <1> QED
    BY <1>1, <1>2, <1>3, <1>4, <1>5 DEF Next

THEOREM AloneInvariant == Spec => [](IInv /\ AloneInv)
  BY InitIInv, NextIInv, InitAlone, NextAlone, PTL DEF Spec

\* cleanup_stale_state, clear_runtime_state: while one thing is done at a time, a
\* gateway that serves is the one the pid file, runtime.json and the socket file are
\* of, whatever crashes left behind.
THEOREM ServerInFiles == Spec => []ServerKnown
  <1>1. IInv /\ AloneInv => ServerKnown
    BY DEF AloneInv, Alone, FilesTell, ServerKnown
  <1> QED
    BY <1>1, AloneInvariant, PTL

\* UnixServer.start: nothing a crash leaves behind makes the next bind fail.
THEOREM LeftoversHarmless == Spec => []NothingInTheWay
  <1>1. IInv /\ AloneInv => NothingInTheWay
    BY DEF AloneInv
  <1> QED
    BY <1>1, AloneInvariant, PTL

\* _runtime_summary: a command that read a pid and finds it running has found the
\* gateway, and one that does not has none to find.
THEOREM SummariesTrue == Spec => []SummaryTells
  <1>1. IInv /\ AloneInv => SummaryTells
    <2> SUFFICES ASSUME IInv, AloneInv, ~overlap, NEW c \in Commands, At(c, "sumCheck")
                 PROVE  Running(cmd[c].pid) <=> Gateways # {}
      BY DEF SummaryTells
    <2>1. Gateways \subseteq {cmd[c].pid}
      BY DEF AloneInv, Alone, Fits, At
    <2>2. cmd[c].pid \in Procs \cup {None}
      BY DEF IInv, TypeOK, Command
    <2> QED
      BY <2>1, <2>2 DEF Gateways, Running
  <1> QED
    BY <1>1, AloneInvariant, PTL

\* cmd_gateway_start: there is never a second gateway beside the one a command
\* started.
THEOREM OneGatewayOnly == Spec => []NoSecondGateway
  <1>1. IInv /\ AloneInv => NoSecondGateway
    BY DEF AloneInv, Alone, OneGateway, NoSecondGateway
  <1> QED
    BY <1>1, AloneInvariant, PTL

\* cmd_gateway_status: what status shows at rest is wrong only if something was
\* started before the rest was at rest.
THEOREM StatusTrueAlone == Spec => [](~overlap => StatusTells)
  <1>1. IInv /\ AloneInv => (~overlap => StatusTells)
    <2> SUFFICES ASSUME IInv, AloneInv, ~overlap, AtRest
                 PROVE  Running(pidfile) <=> Gateways # {}
      BY DEF StatusTells
    <2>1. \A p \in Gateways : pidfile = p
      BY DEF AtRest, AloneInv, Alone, FilesTell, Gateways
    <2>2. pidfile \in Procs \cup {None}
      BY DEF IInv, TypeOK
    <2> QED
      BY <2>1, <2>2 DEF Gateways, Running
  <1> QED
    BY <1>1, AloneInvariant, PTL

\* Which step a command takes from clearRun and from probe.
LEMMA StepsOfCommand ==
  ASSUME IInv, Next, NEW c \in Commands
  PROVE  /\ At(c, "clearRun") /\ ~At(c, "clearRun")' => ClearRuntime(c)
         /\ At(c, "probe") /\ At(c, "idle")' => Probe(c)
  <1> SUFFICES ASSUME At(c, "clearRun") \/ At(c, "probe"), cmd'[c] # cmd[c]
               PROVE  ClearRuntime(c) \/ Probe(c)
    BY DEF At, ClearRuntime, Probe
  <1>1. ASSUME NEW p \in Procs, RunInForeground(p) \/ GatewayStep(p) \/ Interrupt(p) \/ Crash(p)
        PROVE  FALSE
    BY <1>1, GatewayMoves DEF RunInForeground, Interrupt
  <1>2. ASSUME NEW d \in Commands, NEW op \in {"status", "start", "stop", "restart"},
               Begin(d, op) \/ CommandStep(d) \/ StartTimesOut(d)
        PROVE  ClearRuntime(c) \/ Probe(c)
    <2>1. d = c
      BY <1>2 DEF IInv, TypeOK, Begin, CommandStep, StartTimesOut, CleanRead, CleanCheck, ClearPid,
                  ClearRuntime, SummaryRead, SummaryCheck, UnlinkSocket, Popen, Poll, Probe,
                  Terminate, AwaitExit, Kill, KillCheck
    <2> QED
      BY <1>2, <2>1 DEF At, Begin, CommandStep, StartTimesOut, CleanRead, CleanCheck, ClearPid,
                        SummaryRead, SummaryCheck, UnlinkSocket, Popen, Poll, Terminate,
                        AwaitExit, Kill, KillCheck
  <1> QED
    BY <1>1, <1>2 DEF Next

\* terminate_process: a stop that reports success has left no gateway.
THEOREM StopReportsTrue == Spec => StopStops
  <1>1. IInv /\ AloneInv /\ [Next]_vars
          => [\A c \in Commands : StopEnds(c) /\ ~overlap => Gateways' = {}]_vars
    <2> SUFFICES ASSUME IInv, AloneInv, Next, NEW c \in Commands, StopEnds(c), ~overlap
                 PROVE  Gateways' = {}
      OBVIOUS
    <2>1. ClearRuntime(c)
      BY StepsOfCommand DEF StopEnds
    <2>2. Gateways = {}
      BY DEF StopEnds, At, AloneInv, Alone, Fits
    <2> QED
      BY <2>1, <2>2, GatewaysAre DEF ClearRuntime
  <1> QED
    BY <1>1, AloneInvariant, PTL DEF Spec, StopStops

\* cmd_gateway_start: a start that reports success has started the gateway that has
\* both ports.
THEOREM StartReportsTrue == Spec => StartTells
  <1>1. IInv /\ AloneInv /\ [Next]_vars
          => [\A c \in Commands : StartSucceeds(c) /\ ~overlap /\ http # Other =>
                http = cmd[c].child /\ tcp = cmd[c].child]_vars
    <2> SUFFICES ASSUME IInv, AloneInv, Next, NEW c \in Commands, StartSucceeds(c), ~overlap,
                        http # Other
                 PROVE  http = cmd[c].child /\ tcp = cmd[c].child
      OBVIOUS
    <2>1. Probe(c)
      BY StepsOfCommand DEF StartSucceeds
    <2>2. http \in Procs
      <3>1. CASE http = None
        <4>1. cmd'[c].at = "poll"
          BY <2>1, <3>1 DEF Probe, IInv, TypeOK, Command
        <4> QED
          BY <4>1 DEF StartSucceeds, At
      <3> QED
        BY <3>1 DEF IInv, TypeOK
    <2>3. proc[http] \in {"serving", "stopping", "dying"} /\ http \in Gateways
      BY <2>2, GatewaysAre DEF AloneInv, PortsTell
    <2>4. http = cmd[c].child /\ proc[http] = "serving"
      BY <2>1, <2>3 DEF Probe, At, AloneInv, Alone, Fits, Starting, Leaving
    <2> QED
      BY <2>2, <2>4 DEF IInv, PortsHeld
  <1> QED
    BY <1>1, AloneInvariant, PTL DEF Spec, StartTells

=============================================================================
