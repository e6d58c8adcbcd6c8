-------------------------- MODULE DirectoryProofs --------------------------
(***************************************************************************)
(* The session handler, the registries and the router are a Directory, for *)
(* any connections, device ids, tools, offers and full names: every step   *)
(* of GatewaySession is a step of Directory or invisible to it.  What      *)
(* follows from it: a device never costs another one its session, and only *)
(* a reconnection can cost a healthy connection its own.                   *)
(***************************************************************************)
EXTENDS GatewaySessionProofs

\* What the event loop holds beside what LoopHolds says.
LoopKnows ==
    /\ pc[Loop] = "idle" => loop = NoCall
    /\ pc[Loop] = "route" => loop.conn = NoConn
    /\ tear[Loop].at # "no" => tear[Loop].dev = loop.service.device

\* A session somebody is about to close is one that was registered.
VictimsNamed ==
    \A t \in Threads, v \in Conns : tear[t].victim = v => device_id[v] \in Names

DInv == IInv /\ LoopKnows /\ VictimsNamed

\* What is to be shown of every step.
IsDirectoryStep == [D!Next]_(D!vars) /\ LoopKnows' /\ VictimsNamed'

-----------------------------------------------------------------------------
(* Facts the steps share. *)

\* Whose failure a teardown deals with has the device id it goes by.
LEMMA OwnerNamed ==
  ASSUME DInv, NEW t \in Threads, tear[t].at # "no"
  PROVE  Owner(t) \in Conns /\ device_id[Owner(t)] = tear[t].dev /\ tear[t].dev \in Names
  <1>1. tear[t].dev \in Names
    BY DEF DInv, IInv, TearingHas
  <1>2. CASE t = Loop
    BY <1>1, <1>2 DEF DInv, IInv, TearingAt, LoopHolds, LoopKnows, Owner
  <1>3. ASSUME NEW c \in Conns, t = Sync(c) \/ t = Reader(c) PROVE Owner(t) = c
    BY <1>3, ThreadFacts DEF Owner, Sync, Reader
  <1> QED
    BY <1>1, <1>2, <1>3, ThreadFacts DEF DInv, IInv, TearingAt

LEMMA OwnThreads ==
    \A c \in Conns : Owner(Sync(c)) = c /\ Owner(Reader(c)) = c
  BY ThreadFacts DEF Owner, Sync, Reader

\* Who is entered and who ended depends on ids and on where the threads are.
LEMMA EnteredKept ==
  ASSUME device_id' = device_id,
         \A c \in Conns : pc'[Sync(c)] \in {"replace", "close", "store"}
                            <=> pc[Sync(c)] \in {"replace", "close", "store"}
  PROVE  Entered' = Entered
  BY DEF Entered

LEMMA EndedKept ==
  ASSUME \A c \in Conns : pc'[Reader(c)] \in {"ended", "failed"}
                            <=> pc[Reader(c)] \in {"ended", "failed"}
  PROVE  Ended' = Ended
  BY DEF Ended

\* Who is failing depends on the teardowns that are about to pop.
LEMMA FailingKept ==
  ASSUME \A u \in Threads : tear'[u].at = "pop" <=> tear[u].at = "pop",
         loop'.conn = loop.conn \/ tear[Loop].at # "pop"
  PROVE  Failing' = Failing
  <1>1. \A u \in Threads : tear[u].at = "pop" => Owner(u)' = Owner(u)
    BY DEF Owner
  <1> QED
    BY <1>1 DEF Failing

LEMMA FailingOfOthers ==
  ASSUME NEW t \in Threads, loop' = loop,
         \A u \in Threads : u # t => tear'[u] = tear[u]
  PROVE  /\ \A b \in Conns \ {Owner(t)} : b \in Failing' <=> b \in Failing
         /\ tear'[t].at = "pop" /\ Owner(t) \in Conns => Owner(t) \in Failing'
         /\ tear[t].at = "pop" /\ Owner(t) \in Conns => Owner(t) \in Failing
         /\ (tear'[t].at = "pop" <=> tear[t].at = "pop") => Failing' = Failing
         /\ Failing \subseteq Conns /\ Failing' \subseteq Conns
  <1>1. \A u \in Threads : Owner(u)' = Owner(u)
    BY DEF Owner
  <1> QED
    BY <1>1 DEF Failing

\* A step that is invisible.
LEMMA Stutters ==
  ASSUME UNCHANGED <<device_id, tools, closed, devices, services, loop>>,
         Entered' = Entered, Failing' = Failing, Ended' = Ended
  PROVE  UNCHANGED D!vars
  BY DEF D!vars, D!connections, D!directory

\* Victims are sessions that were registered when they were popped.
LEMMA VictimsKept ==
  ASSUME DInv,
         \A u \in Threads, v \in Conns :
            tear'[u].victim = v => tear[u].victim = v \/ \E d \in Names : devices[d] = v,
         \A c \in Conns : device_id[c] \in Names => device_id'[c] = device_id[c]
  PROVE  VictimsNamed'
  <1>1. \A d \in Names, v \in Conns : devices[d] = v => device_id[v] \in Names
    BY DEF DInv, IInv, Keyed
  <1> QED
    BY <1>1 DEF DInv, VictimsNamed

\* The loop is where it was, when others step.
LEMMA LoopKept ==
  ASSUME DInv, loop' = loop, pc'[Loop] = pc[Loop],
         tear'[Loop].at = tear[Loop].at, tear'[Loop].dev = tear[Loop].dev
  PROVE  LoopKnows'
  BY DEF DInv, LoopKnows

-----------------------------------------------------------------------------
(* Connections. *)

\* on_error: the failure of a connection that has a name.
LEMMA ErrorFails ==
  ASSUME DInv, NEW t \in Threads, Owner(t) \in Conns, tear[t].at = "no",
         OnError(t, Owner(t)), t = Loop => pc[Loop] = "send" /\ pc'[Loop] = "lost",
         \A u \in Threads : u # t => pc'[u] = pc[u],
         Entered' = Entered, Ended' = Ended,
         UNCHANGED <<device_id, tools, closed, devices, services, loop>>
  PROVE  IsDirectoryStep
  <1> DEFINE c == Owner(t)
  <1>1. /\ tear' \in [Threads -> Teardown]
        /\ \A u \in Threads : u # t => tear'[u] = tear[u]
        /\ \A u \in Threads : tear'[u].victim = tear[u].victim
        /\ device_id[c] = NoName => tear' = tear
        /\ device_id[c] # NoName =>
             device_id[c] \in Names /\ tear'[t].at = "pop" /\ tear'[t].dev = device_id[c]
    BY OnErrorEffect DEF DInv, IInv
  <1>2. VictimsNamed'
    BY <1>1, VictimsKept
  <1>3. LoopKnows'
    <2>1. CASE t = Loop
      <3>1. tear'[Loop].at # "no" => tear'[Loop].dev = loop.service.device
        BY <1>1, <2>1 DEF DInv, IInv, LoopHolds, Owner
      <3> QED
        BY <2>1, <3>1 DEF LoopKnows
    <2>2. CASE t # Loop
      BY <1>1, <2>2, LoopKept, ThreadFacts
    <2> QED
      BY <2>1, <2>2
  <1>4. CASE device_id[c] = NoName
    <2>1. Failing' = Failing
      BY <1>1, <1>4, FailingOfOthers
    <2> QED
      BY <1>2, <1>3, <2>1, Stutters DEF IsDirectoryStep
  <1>5. CASE device_id[c] # NoName
    <2>1. Failing' = Failing \cup {c}
      BY <1>1, <1>5, FailingOfOthers
    <2>2. D!Fail(c)
      BY <1>5, <2>1 DEF D!Fail, D!directory
    <2> QED
      BY <1>2, <1>3, <2>2 DEF IsDirectoryStep, D!Next
  <1> QED
    BY <1>4, <1>5

\* Accepting, hanging up, and waiting for the device.
LEMMA QuietSteps ==
  ASSUME DInv, NEW c \in Conns,
         HandleNewConnection(c) \/ HangUp(c) \/ SyncInitialized(c) \/ SyncDone(c) \/ SyncTimeout(c)
  PROVE  IsDirectoryStep
  <1> USE DEF At, Goto, registries, perConn, sockets
  <1>1. UNCHANGED <<device_id, tools, closed, devices, services, loop, tear>>
    BY DEF HandleNewConnection, HangUp, SyncInitialized, SyncDone, SyncTimeout
  <1>2. pc \in [Threads -> SyncLabels \cup ReaderLabels \cup LoopLabels]
    BY DEF DInv, IInv, TypeOK
  <1>3. Entered' = Entered /\ Ended' = Ended /\ pc'[Loop] = pc[Loop]
    <2>1. CASE HandleNewConnection(c)
      <3>1. pc[Reader(c)] = "unborn"
        BY <2>1 DEF DInv, IInv, Identified, HandleNewConnection
      <3> QED
        BY <1>1, <1>2, <2>1, <3>1, ThreadFacts, EnteredKept, EndedKept DEF HandleNewConnection
    <2>2. CASE HangUp(c)
      BY <1>1, <2>2, EnteredKept, EndedKept DEF HangUp
    <2>3. CASE SyncInitialized(c) \/ SyncDone(c)
      BY <1>1, <1>2, <2>3, ThreadFacts, EnteredKept, EndedKept DEF SyncInitialized, SyncDone
    <2>4. CASE SyncTimeout(c)
      BY <1>1, <1>2, <2>4, ThreadFacts, EnteredKept, EndedKept DEF SyncTimeout
    <2> QED
      BY <2>1, <2>2, <2>3, <2>4
  <1>4. Failing' = Failing
    BY <1>1, FailingKept
  <1> QED
    BY <1>1, <1>3, <1>4, Stutters, VictimsKept, LoopKept DEF IsDirectoryStep

LEMMA IdentifyIntroduces ==
  ASSUME DInv, NEW c \in Conns, SyncIdentify(c)
  PROVE  IsDirectoryStep
  <1> USE DEF SyncIdentify, At, Goto, registries, sockets
  <1>1. /\ device_id[c] = NoName /\ device_id \in [Conns -> Names \cup {NoName}]
        /\ pc \in [Threads -> SyncLabels \cup ReaderLabels \cup LoopLabels]
        /\ NoName \notin Names
    BY SessionAssumption DEF DInv, IInv, TypeOK, Identified
  <1>2. PICK d \in Names : device_id' = [device_id EXCEPT ![c] = d]
    OBVIOUS
  <1>3. Entered' = Entered
    <2>1. \A b \in Conns : b # c => device_id'[b] = device_id[b] /\ pc'[Sync(b)] = pc[Sync(b)]
      BY <1>1, <1>2, ThreadFacts
    <2>2. pc'[Sync(c)] = "replace"
      BY <1>1, ThreadFacts
    <2> QED
      BY <1>1, <2>1, <2>2 DEF Entered
  <1>4. Ended' = Ended /\ Failing' = Failing
    BY <1>1, ThreadFacts, EndedKept, FailingKept
  <1>5. D!Introduce(c)
    BY <1>1, <1>2, <1>3, <1>4 DEF D!Introduce, D!directory
  <1>6. VictimsNamed' /\ LoopKnows'
    BY <1>1, <1>2, ThreadFacts, VictimsKept, LoopKept
  <1> QED
    BY <1>5, <1>6 DEF IsDirectoryStep, D!Next

LEMMA SyncListInDirectory ==
  ASSUME DInv, NEW c \in Conns, SyncList(c)
  PROVE  IsDirectoryStep
  <1> USE DEF SyncList, SendRequest, At, Goto, registries, perConn, sockets
  <1>1. pc \in [Threads -> SyncLabels \cup ReaderLabels \cup LoopLabels]
    BY DEF DInv, IInv, TypeOK
  <1>2. /\ \A u \in Threads : u # Sync(c) => pc'[u] = pc[u]
        /\ pc[Sync(c)] = "list" /\ pc'[Sync(c)] \in {"listWait", "listLost"}
    BY <1>1, ThreadFacts
  <1>3. Entered' = Entered /\ Ended' = Ended /\ pc'[Loop] = pc[Loop]
    BY <1>2, ThreadFacts, EnteredKept, EndedKept
  <1>4. CASE OnError(Sync(c), c)
    BY <1>2, <1>3, <1>4, ErrorFails, OwnThreads, ThreadFacts
  <1>5. CASE UNCHANGED tear
    BY <1>3, <1>5, FailingKept, Stutters, VictimsKept, LoopKept DEF IsDirectoryStep
  <1> QED
    BY <1>4, <1>5

LEMMA ListedLists ==
  ASSUME DInv, NEW c \in Conns, SyncListed(c)
  PROVE  IsDirectoryStep
  <1> USE DEF SyncListed, At, Goto, registries, perConn, sockets
  <1>1. /\ device_id[c] # NoName /\ device_id[c] \in Names
        /\ pc \in [Threads -> SyncLabels \cup ReaderLabels \cup LoopLabels]
    BY SessionAssumption DEF DInv, IInv, TypeOK, Identified
  <1>2. PICK page \in SUBSET Offers[device_id[c]] : tools' = [tools EXCEPT ![c] = @ \cup page]
    OBVIOUS
  <1>3. page \in SUBSET Tools
    BY <1>1, SessionAssumption
  <1>4. Entered' = Entered /\ Ended' = Ended /\ pc'[Loop] = pc[Loop]
    BY <1>1, ThreadFacts, EnteredKept, EndedKept
  <1>5. Failing' = Failing
    BY FailingKept
  <1>6. D!List(c)
    BY <1>1, <1>2, <1>3, <1>4, <1>5 DEF D!List, D!directory
  <1> QED
    BY <1>4, <1>6, VictimsKept, LoopKept DEF IsDirectoryStep, D!Next

LEMMA ErrorSteps ==
  ASSUME DInv, NEW c \in Conns, ReaderBadLine(c) \/ ReaderRecvError(c) \/ SyncExcept(c)
  PROVE  IsDirectoryStep
  <1> USE DEF At, Goto, registries, perConn, sockets
  <1>1. pc \in [Threads -> SyncLabels \cup ReaderLabels \cup LoopLabels]
    BY DEF DInv, IInv, TypeOK
  <1>2. CASE ReaderBadLine(c)
    BY <1>2, ErrorFails, OwnThreads, ThreadFacts, EnteredKept, EndedKept DEF ReaderBadLine
  <1>3. CASE ReaderRecvError(c)
    <2>1. /\ \A u \in Threads : u # Reader(c) => pc'[u] = pc[u]
          /\ pc[Reader(c)] \in {"recv", "recvError"} /\ pc'[Reader(c)] = "failing"
      BY <1>1, <1>3, ThreadFacts DEF ReaderRecvError
    <2>2. Entered' = Entered /\ Ended' = Ended
      BY <1>3, <2>1, ThreadFacts, EnteredKept, EndedKept DEF ReaderRecvError
    <2> QED
      BY <1>3, <2>1, <2>2, ErrorFails, OwnThreads, ThreadFacts DEF ReaderRecvError
  <1>4. CASE SyncExcept(c)
    <2>1. /\ \A u \in Threads : u # Sync(c) => pc'[u] = pc[u]
          /\ pc[Sync(c)] = "except" /\ pc'[Sync(c)] = "failed"
      BY <1>1, <1>4, ThreadFacts DEF SyncExcept
    <2>2. Entered' = Entered /\ Ended' = Ended
      BY <1>4, <2>1, ThreadFacts, EnteredKept, EndedKept DEF SyncExcept
    <2> QED
      BY <1>4, <2>1, <2>2, ErrorFails, OwnThreads, ThreadFacts DEF SyncExcept
  <1> QED
    BY <1>2, <1>3, <1>4

\* The finally clause of the reader.
LEMMA ReaderEnds ==
  ASSUME DInv, NEW c \in Conns, ReaderEof(c) \/ ReaderClose(c)
  PROVE  IsDirectoryStep
  <1>1. PICK label \in {"ended", "failed"} : pc' = [pc EXCEPT ![Reader(c)] = label]
    BY DEF ReaderEof, ReaderClose, Goto
  <1>2. /\ closed' = [closed EXCEPT ![c] = TRUE]
        /\ UNCHANGED <<device_id, tools, devices, services, loop, tear>>
    BY DEF ReaderEof, ReaderClose, registries, perConn
  <1>3. pc \in [Threads -> SyncLabels \cup ReaderLabels \cup LoopLabels]
    BY DEF DInv, IInv, TypeOK
  <1>4. Ended' = Ended \cup {c} /\ Entered' = Entered /\ pc'[Loop] = pc[Loop]
    <2>1. /\ pc'[Reader(c)] \in {"ended", "failed"}
          /\ \A u \in Threads : u # Reader(c) => pc'[u] = pc[u]
      BY <1>1, <1>3, ThreadFacts
    <2>2. \A b \in Conns : b # c => pc'[Reader(b)] = pc[Reader(b)]
      BY <2>1, ThreadFacts
    <2> QED
      BY <1>2, <2>1, <2>2, ThreadFacts, EnteredKept DEF Ended
  <1>5. Failing' = Failing
    BY <1>2, FailingKept
  <1>6. D!End(c)
    BY <1>2, <1>4, <1>5 DEF D!End, D!directory
  <1> QED
    BY <1>2, <1>4, <1>6, VictimsKept, LoopKept DEF IsDirectoryStep, D!Next

-----------------------------------------------------------------------------
(* The device registry. *)

\* register_or_replace, first step: only a connection that is not registered yet
\* makes room for itself.
LEMMA ReplacePopMakesRoom ==
  ASSUME DInv, NEW c \in Conns, ReplacePop(c)
  PROVE  IsDirectoryStep
  <1> DEFINE victim == devices[device_id[c]]
  <1>1. /\ pc[Sync(c)] = "replace"
        /\ devices' = [devices EXCEPT ![device_id[c]] = NoConn]
        /\ tear' = [tear EXCEPT ![Sync(c)] = [tear[Sync(c)] EXCEPT !.victim = victim]]
        /\ \E label \in {"store", "close"} : pc' = [pc EXCEPT ![Sync(c)] = label]
        /\ UNCHANGED <<device_id, tools, closed, services, loop>>
    BY DEF ReplacePop, At, Goto, perConn, sockets
  <1>2. /\ device_id[c] \in Names /\ device_id[c] # NoName
        /\ victim \in Conns \cup {NoConn}
        /\ tear \in [Threads -> Teardown]
        /\ pc \in [Threads -> SyncLabels \cup ReaderLabels \cup LoopLabels]
    BY <1>1, SessionAssumption DEF DInv, IInv, TypeOK, Identified
  <1>3. /\ \A u \in Threads : tear'[u].at = tear[u].at /\ tear'[u].dev = tear[u].dev
        /\ \A u \in Threads : tear'[u].victim \in {tear[u].victim, victim}
    <2> HIDE DEF victim
    <2>1. tear[Sync(c)] \in Teardown
      BY <1>2, ThreadFacts
    <2>2. /\ tear'[Sync(c)] = [tear[Sync(c)] EXCEPT !.victim = victim]
          /\ \A u \in Threads : u # Sync(c) => tear'[u] = tear[u]
      BY <1>1, <1>2, ThreadFacts
    <2> QED
      BY <2>1, <2>2 DEF Teardown
  <1>4. Entered' = Entered /\ Ended' = Ended /\ pc'[Loop] = pc[Loop]
    BY <1>1, <1>2, ThreadFacts, EnteredKept, EndedKept
  <1>5. Failing' = Failing
    BY <1>1, <1>3, FailingKept
  <1>6. D!MakeRoom(c)
    BY <1>1, <1>2, <1>4, <1>5 DEF D!MakeRoom, D!Clear, D!connections, Entered
  <1>7. VictimsNamed'
    BY <1>1, <1>2, <1>3, VictimsKept
  <1>8. LoopKnows'
    BY <1>1, <1>3, <1>4, LoopKept, ThreadFacts
  <1> QED
    BY <1>6, <1>7, <1>8 DEF IsDirectoryStep, D!Next

\* A session that is closed by others is one that was registered and is no more.
LEMMA VictimOut ==
  ASSUME DInv, NEW t \in Threads, NEW v \in Conns, tear[t].victim = v
  PROVE  v \in Entered /\ \A d \in Names : devices[d] # v
  <1>1. pc[Sync(v)] \in PastStore /\ \A d \in Names : devices[d] # v
    BY DEF DInv, IInv, VictimsGone
  <1>2. device_id[v] # NoName
    BY SessionAssumption DEF DInv, VictimsNamed
  <1> QED
    BY <1>1, <1>2 DEF Entered, PastStore

LEMMA ReplaceCloseCloses ==
  ASSUME DInv, NEW c \in Conns, ReplaceClose(c)
  PROVE  IsDirectoryStep
  <1> DEFINE v == tear[Sync(c)].victim
  <1>1. /\ pc[Sync(c)] = "close"
        /\ pc' = [pc EXCEPT ![Sync(c)] = "store"]
        /\ closed' = [closed EXCEPT ![v] = TRUE]
        /\ tear' = [tear EXCEPT ![Sync(c)] = [tear[Sync(c)] EXCEPT !.victim = NoConn]]
        /\ UNCHANGED <<device_id, tools, devices, services, loop>>
    BY DEF ReplaceClose, At, Goto, registries, perConn
  <1>2. /\ v \in Conns
        /\ tear \in [Threads -> Teardown]
        /\ pc \in [Threads -> SyncLabels \cup ReaderLabels \cup LoopLabels]
    BY <1>1 DEF DInv, IInv, TypeOK, TearingHas
  <1>3. /\ \A u \in Threads : tear'[u].at = tear[u].at /\ tear'[u].dev = tear[u].dev
        /\ \A u \in Threads : tear'[u].victim \in {tear[u].victim, NoConn}
    <2>1. tear[Sync(c)] \in Teardown
      BY <1>2, ThreadFacts
    <2>2. /\ tear'[Sync(c)] = [tear[Sync(c)] EXCEPT !.victim = NoConn]
          /\ \A u \in Threads : u # Sync(c) => tear'[u] = tear[u]
      BY <1>1, <1>2, ThreadFacts
    <2> QED
      BY <2>1, <2>2 DEF Teardown
  <1>4. Entered' = Entered /\ Ended' = Ended /\ pc'[Loop] = pc[Loop]
    BY <1>1, <1>2, ThreadFacts, EnteredKept, EndedKept
  <1>5. Failing' = Failing
    BY <1>1, <1>3, FailingKept
  <1>6. D!Close(v)
    BY <1>1, <1>2, <1>4, <1>5, VictimOut, ThreadFacts DEF D!Close, D!directory
  <1>7. VictimsNamed'
    BY <1>1, <1>3, SessionAssumption, VictimsKept
  <1>8. LoopKnows'
    BY <1>1, <1>3, <1>4, LoopKept, ThreadFacts
  <1> QED
    BY <1>2, <1>6, <1>7, <1>8 DEF IsDirectoryStep, D!Next

LEMMA ReplaceStoreEnters ==
  ASSUME DInv, NEW c \in Conns, ReplaceStore(c)
  PROVE  IsDirectoryStep
  <1>1. /\ pc[Sync(c)] = "store"
        /\ pc' = [pc EXCEPT ![Sync(c)] = "list"]
        /\ devices' = [devices EXCEPT ![device_id[c]] = c]
        /\ UNCHANGED <<device_id, tools, closed, services, loop, tear>>
    BY DEF ReplaceStore, At, Goto, perConn, sockets
  <1>2. /\ device_id[c] \in Names /\ device_id[c] # NoName
        /\ pc \in [Threads -> SyncLabels \cup ReaderLabels \cup LoopLabels]
    BY <1>1, SessionAssumption DEF DInv, IInv, TypeOK, Identified
  <1>3. /\ pc'[Sync(c)] = "list"
        /\ \A u \in Threads : u # Sync(c) => pc'[u] = pc[u]
    BY <1>1, <1>2, ThreadFacts
  <1>4. Ended' = Ended /\ Failing' = Failing /\ pc'[Loop] = pc[Loop]
    BY <1>1, <1>3, ThreadFacts, EndedKept, FailingKept
  <1>5. Entered' = Entered \cup {c}
    <2>1. \A b \in Conns : b # c => pc'[Sync(b)] = pc[Sync(b)]
      BY <1>3, ThreadFacts
    <2> QED
      BY <1>1, <1>2, <1>3, <2>1 DEF Entered
  <1>6. D!Enter(c)
    BY <1>1, <1>2, <1>4, <1>5 DEF D!Enter, D!connections, Entered
  <1>7. VictimsNamed' /\ LoopKnows'
    BY <1>1, <1>4, VictimsKept, LoopKept
  <1> QED
    BY <1>6, <1>7 DEF IsDirectoryStep, D!Next

\* remove_device, first half: the entry that goes is that of the name of the
\* connection whose failure thread t deals with.
LEMMA RemovePopRemoves ==
  ASSUME DInv, NEW t \in Threads, RemovePop(t)
  PROVE  IsDirectoryStep
  <1> DEFINE victim == devices[tear[t].dev]
             at == IF victim = NoConn THEN "read" ELSE "close"
             c == Owner(t)
  <1>1. /\ tear[t].at = "pop"
        /\ devices' = [devices EXCEPT ![tear[t].dev] = NoConn]
        /\ tear' = [tear EXCEPT ![t] = [tear[t] EXCEPT !.at = at, !.victim = victim]]
        /\ UNCHANGED <<device_id, tools, closed, services, pc, loop>>
    BY DEF RemovePop, perConn, sockets
  <1>2. c \in Conns /\ device_id[c] = tear[t].dev /\ tear[t].dev \in Names
    BY <1>1, OwnerNamed
  <1>3. tear \in [Threads -> Teardown] /\ victim \in Conns \cup {NoConn}
    BY <1>2 DEF DInv, IInv, TypeOK
  <1>4. /\ at \in {"read", "close"}
        /\ tear'[t].at = at /\ tear'[t].dev = tear[t].dev /\ tear'[t].victim = victim
        /\ \A u \in Threads : u # t => tear'[u] = tear[u]
    <2>1. at \in {"read", "close"}
      OBVIOUS
    <2> HIDE DEF at, victim
    <2>2. /\ tear'[t] = [tear[t] EXCEPT !.at = at, !.victim = victim]
          /\ \A u \in Threads : u # t => tear'[u] = tear[u]
      BY <1>1, <1>3
    <2> QED
      BY <1>3, <2>1, <2>2 DEF Teardown
  <1>5. Failing' \in {Failing, Failing \ {c}} /\ c \in Failing
    BY <1>1, <1>2, <1>4, FailingOfOthers
  <1>6. Entered' = Entered /\ Ended' = Ended
    BY <1>1, EnteredKept, EndedKept
  <1>7. D!Remove(c)
    BY <1>1, <1>2, <1>5, <1>6 DEF D!Remove, D!Clear
  <1>8. VictimsNamed'
    BY <1>1, <1>2, <1>4, VictimsKept
  <1>9. LoopKnows'
    BY <1>1, <1>4, ThreadFacts DEF DInv, LoopKnows
  <1> QED
    BY <1>2, <1>7, <1>8, <1>9 DEF IsDirectoryStep, D!Next

\* remove_device, second half.
LEMMA RemoveCloseCloses ==
  ASSUME DInv, NEW t \in Threads, RemoveClose(t)
  PROVE  IsDirectoryStep
  <1> DEFINE v == tear[t].victim
  <1>1. /\ tear[t].at = "close"
        /\ closed' = [closed EXCEPT ![v] = TRUE]
        /\ tear' = [tear EXCEPT ![t] = [tear[t] EXCEPT !.at = "read", !.victim = NoConn]]
        /\ UNCHANGED <<device_id, tools, devices, services, pc, loop>>
    BY DEF RemoveClose, registries, perConn
  <1>2. tear \in [Threads -> Teardown] /\ v \in Conns
    BY <1>1 DEF DInv, IInv, TypeOK, TearingHas
  <1>3. /\ tear'[t].at = "read" /\ tear'[t].dev = tear[t].dev /\ tear'[t].victim = NoConn
        /\ \A u \in Threads : u # t => tear'[u] = tear[u]
    <2>1. /\ tear'[t] = [tear[t] EXCEPT !.at = "read", !.victim = NoConn]
          /\ \A u \in Threads : u # t => tear'[u] = tear[u]
      BY <1>1, <1>2
    <2> QED
      BY <1>2, <2>1 DEF Teardown
  <1>4. Failing' = Failing
    BY <1>1, <1>3, FailingKept
  <1>5. Entered' = Entered /\ Ended' = Ended
    BY <1>1, EnteredKept, EndedKept
  <1>6. D!Close(v)
    BY <1>1, <1>2, <1>4, <1>5, VictimOut DEF D!Close, D!directory
  <1>7. VictimsNamed'
    BY <1>1, <1>3, SessionAssumption, VictimsKept
  <1>8. LoopKnows'
    BY <1>1, <1>3, ThreadFacts DEF DInv, LoopKnows
  <1> QED
    BY <1>2, <1>6, <1>7, <1>8 DEF IsDirectoryStep, D!Next

-----------------------------------------------------------------------------
(* The tool registry. *)

\* register_service.
LEMMA RegisterRegisters ==
  ASSUME DInv, NEW c \in Conns, SyncRegister(c)
  PROVE  IsDirectoryStep
  <1>1. PICK tool \in todo[c] :
          /\ services' = [services EXCEPT ![KeyOf(device_id[c], tool)] =
                             [device |-> device_id[c], tool |-> tool]]
          /\ tear' = [t \in Threads |-> [tear[t] EXCEPT !.grew =
                         @ \/ (tear[t].current
                               /\ services[KeyOf(device_id[c], tool)] = NoService)]]
    BY DEF SyncRegister
  <1>2. /\ \E label \in {"register", "except"} : pc' = [pc EXCEPT ![Sync(c)] = label]
        /\ pc[Sync(c)] = "register"
        /\ UNCHANGED <<device_id, tools, closed, devices, loop>>
    BY DEF SyncRegister, At, Goto, sockets
  <1>3. /\ device_id[c] \in Names /\ tool \in tools[c] /\ tool \in Tools
        /\ tear \in [Threads -> Teardown]
        /\ pc \in [Threads -> SyncLabels \cup ReaderLabels \cup LoopLabels]
    BY <1>2 DEF DInv, IInv, TypeOK, Identified
  <1>4. \A u \in Threads : /\ tear'[u].at = tear[u].at /\ tear'[u].dev = tear[u].dev
                            /\ tear'[u].victim = tear[u].victim
    <2> SUFFICES ASSUME NEW u \in Threads
                 PROVE  /\ tear'[u].at = tear[u].at /\ tear'[u].dev = tear[u].dev
                        /\ tear'[u].victim = tear[u].victim
      OBVIOUS
    <2> DEFINE grew == tear[u].grew
                       \/ (tear[u].current /\ services[KeyOf(device_id[c], tool)] = NoService)
    <2>1. tear'[u] = [tear[u] EXCEPT !.grew = grew]
      BY <1>1
    <2> HIDE DEF grew
    <2>2. tear[u] \in Teardown
      BY <1>3
    <2> QED
      BY <2>1, <2>2 DEF Teardown
  <1>5. Entered' = Entered /\ Ended' = Ended /\ pc'[Loop] = pc[Loop]
    BY <1>2, <1>3, ThreadFacts, EnteredKept, EndedKept
  <1>6. Failing' = Failing
    BY <1>2, <1>4, FailingKept
  <1>7. FullName[<<device_id[c], tool>>] \in D!FullNames
    BY <1>3 DEF D!FullNames
  <1>8. D!Register(FullName[<<device_id[c], tool>>])
    BY <1>1, <1>2, <1>3, <1>5, <1>6
    DEF D!Register, D!ToolOf, D!connections, D!directory, KeyOf
  <1>9. VictimsNamed' /\ LoopKnows'
    BY <1>2, <1>4, <1>5, ThreadFacts, VictimsKept, LoopKept
  <1> QED
    BY <1>7, <1>8, <1>9 DEF IsDirectoryStep, D!Next

\* remove_by_device, the iteration.
LEMMA UnregisterReadQuiet ==
  ASSUME DInv, NEW t \in Threads, UnregisterRead(t)
  PROVE  IsDirectoryStep
  <1> DEFINE kept == [k \in FullNames |->
                        IF services[k] # NoService /\ services[k].device = tear[t].dev
                        THEN NoService ELSE services[k]]
  <1>1. /\ tear[t].at = "read"
        /\ tear' = [tear EXCEPT ![t] = [tear[t] EXCEPT !.at = "write", !.kept = kept,
                                                      !.current = TRUE]]
        /\ UNCHANGED <<device_id, tools, closed, devices, services, pc, loop>>
    BY DEF UnregisterRead, registries, perConn, sockets
  <1> HIDE DEF kept
  <1>2. tear \in [Threads -> Teardown]
    BY DEF DInv, IInv, TypeOK
  <1>3. /\ tear'[t].at = "write" /\ tear'[t].dev = tear[t].dev
        /\ tear'[t].victim = tear[t].victim
        /\ \A u \in Threads : u # t => tear'[u] = tear[u]
    <2>1. /\ tear'[t] = [tear[t] EXCEPT !.at = "write", !.kept = kept, !.current = TRUE]
          /\ \A u \in Threads : u # t => tear'[u] = tear[u]
      BY <1>1, <1>2
    <2> QED
      BY <1>2, <2>1 DEF Teardown
  <1>4. Failing' = Failing /\ Entered' = Entered /\ Ended' = Ended
    BY <1>1, <1>3, FailingKept, EnteredKept, EndedKept
  <1>5. VictimsNamed'
    BY <1>1, <1>3, VictimsKept
  <1>6. LoopKnows'
    BY <1>1, <1>3, ThreadFacts DEF DInv, LoopKnows
  <1> QED
    BY <1>1, <1>4, <1>5, <1>6, Stutters DEF IsDirectoryStep

\* remove_by_device, the assignment: a copy may be out of date, but holds nothing
\* that was not listed.
LEMMA UnregisterWriteUnregisters ==
  ASSUME DInv, NEW t \in Threads, UnregisterWrite(t)
  PROVE  IsDirectoryStep
  <1>1. /\ tear[t].at = "write"
        /\ services' = tear[t].kept
        /\ tear' = [u \in Threads |-> IF u = t THEN NoTear ELSE [tear[u] EXCEPT !.current = FALSE]]
        /\ UNCHANGED <<device_id, tools, closed, devices, pc, loop>>
    BY DEF UnregisterWrite, perConn, sockets
  <1>2. tear \in [Threads -> Teardown]
    BY DEF DInv, IInv, TypeOK
  <1>3. /\ tear'[t].at = "no" /\ tear'[t].victim = NoConn
        /\ \A u \in Threads : u # t => /\ tear'[u].at = tear[u].at /\ tear'[u].dev = tear[u].dev
                                        /\ tear'[u].victim = tear[u].victim
    <2>1. ASSUME NEW u \in Threads, u # t
          PROVE  /\ tear'[u].at = tear[u].at /\ tear'[u].dev = tear[u].dev
                 /\ tear'[u].victim = tear[u].victim
      <3>1. tear[u] \in Teardown /\ tear'[u] = [tear[u] EXCEPT !.current = FALSE]
        BY <1>1, <1>2, <2>1
      <3> QED
        BY <3>1 DEF Teardown
    <2>2. tear'[t] = NoTear
      BY <1>1
    <2> QED
      BY <2>1, <2>2 DEF NoTear
  <1>4. Failing' = Failing /\ Entered' = Entered /\ Ended' = Ended
    BY <1>1, <1>3, FailingKept, EnteredKept, EndedKept
  <1>5. services' \in [D!FullNames -> D!Services \cup {NoService}]
    BY <1>1, <1>2 DEF Teardown, Table, FullNames, Service, D!FullNames, D!Services
  <1>6. ASSUME NEW k \in D!FullNames, services'[k] # NoService
        PROVE  D!IsOffered(k, services'[k])
    <2>1. /\ k \in FullNames /\ tear[t].kept[k] # NoService
          /\ tear[t].kept \in Table
      BY <1>1, <1>2, <1>6 DEF Teardown, FullNames, D!FullNames
    <2>2. tear[t].kept[k] \in Service
      BY <2>1 DEF Table
    <2>3. /\ k = FullName[<<tear[t].kept[k].device, tear[t].kept[k].tool>>]
          /\ Listed(tear[t].kept[k])
      BY <2>1 DEF DInv, IInv, CopiesFaithful, Faithful
    <2> QED
      BY <1>1, <2>2, <2>3, SessionAssumption DEF Listed, Service, D!IsOffered, D!ToolOf
  <1>7. D!Unregister
    BY <1>1, <1>4, <1>5, <1>6 DEF D!Unregister, D!connections, D!directory
  <1>8. VictimsNamed'
    BY <1>1, <1>3, SessionAssumption, VictimsKept
  <1>9. LoopKnows'
    BY <1>1, <1>3, ThreadFacts DEF DInv, LoopKnows
  <1> QED
    BY <1>7, <1>8, <1>9 DEF IsDirectoryStep, D!Next

\* remove_by_device that raises: the call of the event loop is over.
LEMMA UnregisterRaisesReturns ==
  ASSUME DInv, NEW t \in Threads, UnregisterRaises(t)
  PROVE  IsDirectoryStep
  <1>1. /\ tear[t].at = "write"
        /\ tear' = [tear EXCEPT ![t] = NoTear]
        /\ pc' = [pc EXCEPT ![t] = AfterRaise(pc[t])]
        /\ loop' = IF t = Loop THEN NoCall ELSE loop
        /\ UNCHANGED <<device_id, tools, closed, devices, services>>
    BY DEF UnregisterRaises, Goto, registries, perConn, sockets
  <1>2. /\ tear \in [Threads -> Teardown]
        /\ pc \in [Threads -> SyncLabels \cup ReaderLabels \cup LoopLabels]
    BY DEF DInv, IInv, TypeOK
  <1>3. /\ tear'[t].at = "no" /\ tear'[t].victim = NoConn
        /\ \A u \in Threads : u # t => tear'[u] = tear[u] /\ pc'[u] = pc[u]
    <2>1. /\ tear'[t] = NoTear
          /\ \A u \in Threads : u # t => tear'[u] = tear[u] /\ pc'[u] = pc[u]
      BY <1>1, <1>2
    <2> QED
      BY <2>1 DEF NoTear
  <1>4. /\ t = Loop => pc[t] = "lost" /\ pc'[t] = "idle"
        /\ \A c \in Conns : t = Sync(c) =>
             <<pc[t], pc'[t]>> \in {<<"listLost", "except">>, <<"failed", "failed">>}
        /\ \A c \in Conns : t = Reader(c) =>
             <<pc[t], pc'[t]>> \in {<<"recv", "recvError">>, <<"failing", "failing">>}
    BY <1>1, <1>2 DEF DInv, IInv, TearingAt, AfterRaise
  <1>5. Entered' = Entered /\ Ended' = Ended
    <2>1. ASSUME NEW c \in Conns
          PROVE  pc'[Sync(c)] \in {"replace", "close", "store"}
                   <=> pc[Sync(c)] \in {"replace", "close", "store"}
      <3>1. CASE t = Sync(c)
        BY <1>4, <3>1
      <3> QED
        BY <1>3, <3>1, ThreadFacts
    <2>2. ASSUME NEW c \in Conns
          PROVE  pc'[Reader(c)] \in {"ended", "failed"} <=> pc[Reader(c)] \in {"ended", "failed"}
      <3>1. CASE t = Reader(c)
        BY <1>4, <3>1
      <3> QED
        BY <1>3, <3>1, ThreadFacts
    <2>3. device_id' = device_id
      BY <1>1
    <2> QED
      BY <2>1, <2>2, <2>3, EnteredKept, EndedKept
  <1>6. Failing' = Failing
    BY <1>1, <1>3, ThreadFacts, FailingKept
  <1>7. VictimsNamed'
    BY <1>1, <1>3, SessionAssumption, VictimsKept
  <1>8. CASE t = Loop
    <2>1. loop # NoCall
      <3>1. loop.service \in Service
        BY <1>4, <1>8 DEF DInv, IInv, LoopHolds
      <3> QED
        BY <3>1, SessionAssumption DEF NoCall
    <2>2. D!Return
      BY <1>1, <1>5, <1>6, <1>8, <2>1
      DEF D!Return, D!NoCall, NoCall, D!connections, D!directory
    <2>3. LoopKnows'
      BY <1>1, <1>3, <1>4, <1>8 DEF LoopKnows
    <2> QED
      BY <1>7, <2>2, <2>3 DEF IsDirectoryStep, D!Next
  <1>9. CASE t # Loop
    <2>1. LoopKnows'
      BY <1>1, <1>3, <1>9, ThreadFacts, LoopKept
    <2> QED
      BY <1>1, <1>5, <1>6, <1>7, <1>9, <2>1, Stutters DEF IsDirectoryStep
  <1> QED
    BY <1>8, <1>9

-----------------------------------------------------------------------------
(* Calls. *)

LEMMA LookupLooksUp ==
  ASSUME DInv, NEW key \in Called, CallLookup(key)
  PROVE  IsDirectoryStep
  <1>1. /\ pc[Loop] = "idle" /\ tear[Loop].at = "no" /\ pc' = [pc EXCEPT ![Loop] = "route"]
        /\ services[key] # NoService
        /\ loop' = [name |-> key, service |-> services[key], conn |-> NoConn]
        /\ UNCHANGED <<device_id, tools, closed, devices, services, tear>>
    BY DEF CallLookup, At, Goto, NoCall, registries, perConn, sockets
  <1>2. pc \in [Threads -> SyncLabels \cup ReaderLabels \cup LoopLabels]
    BY DEF DInv, IInv, TypeOK
  <1>3. Entered' = Entered /\ Ended' = Ended /\ pc'[Loop] = "route"
    BY <1>1, <1>2, ThreadFacts, EnteredKept, EndedKept
  <1>4. Failing' = Failing
    BY <1>1, FailingKept
  <1>5. loop = NoCall
    BY <1>1 DEF DInv, LoopKnows
  <1>6. D!LookUp(key)
    BY <1>1, <1>3, <1>4, <1>5 DEF D!LookUp, D!NoCall, NoCall, D!connections, D!directory
  <1>7. key \in D!FullNames
    BY SessionAssumption DEF FullNames, D!FullNames
  <1>8. VictimsNamed' /\ LoopKnows'
    BY <1>1, <1>3, VictimsKept DEF LoopKnows
  <1> QED
    BY <1>6, <1>7, <1>8 DEF IsDirectoryStep, D!Next

\* A call the event loop is in is none it is not in.
LEMMA LoopIsInCall ==
  ASSUME DInv, pc[Loop] # "idle"
  PROVE  loop # NoCall
  <1>1. loop.service \in Service
    BY DEF DInv, IInv, LoopHolds
  <1> QED
    BY <1>1, SessionAssumption DEF NoCall

\* The device is looked up when the call is routed, not when it is looked up.
LEMMA RouteRoutes ==
  ASSUME DInv, CallRoute
  PROVE  IsDirectoryStep
  <1>1. /\ pc[Loop] = "route" /\ tear[Loop].at = "no" /\ pc' = [pc EXCEPT ![Loop] = "send"]
        /\ \E c \in Conns \cup {devices[loop.service.device]} :
             /\ devices[loop.service.device] = c /\ c # NoConn
             /\ loop' = [loop EXCEPT !.conn = c]
        /\ UNCHANGED <<device_id, tools, closed, devices, services, tear>>
    BY DEF CallRoute, DeviceOfService, At, Goto, registries, perConn, sockets
  <1>2. pc \in [Threads -> SyncLabels \cup ReaderLabels \cup LoopLabels]
    BY DEF DInv, IInv, TypeOK
  <1>3. Entered' = Entered /\ Ended' = Ended /\ pc'[Loop] = "send"
    BY <1>1, <1>2, ThreadFacts, EnteredKept, EndedKept
  <1>4. Failing' = Failing
    BY <1>1, FailingKept
  <1>5. loop # NoCall /\ loop.conn = NoConn
    BY <1>1, LoopIsInCall DEF DInv, LoopKnows
  <1>6. D!Route
    BY <1>1, <1>3, <1>4, <1>5 DEF D!Route, D!NoCall, NoCall, D!connections, D!directory
  <1>7. VictimsNamed' /\ LoopKnows'
    BY <1>1, <1>3, VictimsKept DEF LoopKnows
  <1> QED
    BY <1>6, <1>7 DEF IsDirectoryStep, D!Next

\* A call comes back: answered, timed out, or with no device to go to.
LEMMA ReturnReturns ==
  ASSUME DInv, CallNotConnected \/ CallAnswered \/ CallTimeout
  PROVE  IsDirectoryStep
  <1>1. /\ pc[Loop] # "idle" /\ tear[Loop].at = "no" /\ pc' = [pc EXCEPT ![Loop] = "idle"]
        /\ loop' = NoCall
        /\ UNCHANGED <<device_id, tools, closed, devices, services, tear>>
    BY DEF CallNotConnected, CallAnswered, CallTimeout, CallReturn, At, Goto,
           registries, perConn, sockets
  <1>2. pc \in [Threads -> SyncLabels \cup ReaderLabels \cup LoopLabels]
    BY DEF DInv, IInv, TypeOK
  <1>3. Entered' = Entered /\ Ended' = Ended /\ pc'[Loop] = "idle"
    BY <1>1, <1>2, ThreadFacts, EnteredKept, EndedKept
  <1>4. Failing' = Failing
    BY <1>1, FailingKept
  <1>5. D!Return
    BY <1>1, <1>3, <1>4, LoopIsInCall
    DEF D!Return, D!NoCall, NoCall, D!connections, D!directory
  <1>6. VictimsNamed' /\ LoopKnows'
    BY <1>1, <1>3, VictimsKept DEF LoopKnows
  <1> QED
    BY <1>5, <1>6 DEF IsDirectoryStep, D!Next

\* The call is sent, or sending it fails.
LEMMA SendInDirectory ==
  ASSUME DInv, CallSend
  PROVE  IsDirectoryStep
  <1>1. /\ pc[Loop] = "send" /\ tear[Loop].at = "no" /\ loop.conn \in Conns
        /\ \E label \in {"wait", "lost"} : pc' = [pc EXCEPT ![Loop] = label]
        /\ UNCHANGED tear \/ (OnError(Loop, loop.conn) /\ pc' = [pc EXCEPT ![Loop] = "lost"])
        /\ UNCHANGED <<device_id, tools, closed, devices, services, loop>>
    BY DEF CallSend, SendRequest, At, Goto, DInv, IInv, LoopHolds, registries, perConn, sockets
  <1>2. pc \in [Threads -> SyncLabels \cup ReaderLabels \cup LoopLabels]
    BY DEF DInv, IInv, TypeOK
  <1>3. /\ Entered' = Entered /\ Ended' = Ended
        /\ pc'[Loop] \in {"wait", "lost"}
        /\ \A u \in Threads : u # Loop => pc'[u] = pc[u]
    BY <1>1, <1>2, ThreadFacts, EnteredKept, EndedKept
  <1>4. CASE UNCHANGED tear
    <2>1. Failing' = Failing
      BY <1>1, <1>4, FailingKept
    <2>2. VictimsNamed' /\ LoopKnows'
      BY <1>1, <1>3, <1>4, VictimsKept DEF LoopKnows
    <2> QED
      BY <1>1, <1>3, <2>1, <2>2, Stutters DEF IsDirectoryStep
  <1>5. CASE OnError(Loop, loop.conn) /\ pc' = [pc EXCEPT ![Loop] = "lost"]
    <2>1. Owner(Loop) = loop.conn /\ pc'[Loop] = "lost"
      BY <1>2, <1>5, ThreadFacts DEF Owner
    <2> QED
      BY <1>1, <1>3, <1>5, <2>1, ErrorFails, ThreadFacts
  <1> QED
    BY <1>1, <1>4, <1>5

-----------------------------------------------------------------------------
(* The implementation. *)

LEMMA InitDirectory == Init => D!Init /\ DInv
  <1> SUFFICES ASSUME Init PROVE D!Init /\ DInv
    OBVIOUS
  <1>1. Entered = {} /\ Failing = {} /\ Ended = {}
    BY ThreadFacts DEF Init, Entered, Failing, Ended, NoTear
  <1>2. D!Init
    BY <1>1 DEF Init, D!Init, FullNames, D!FullNames, NoCall, D!NoCall
  <1>3. LoopKnows /\ VictimsNamed
    BY ThreadFacts, SessionAssumption DEF Init, LoopKnows, VictimsNamed, NoTear
  <1> QED
    BY <1>2, <1>3, InitIInv DEF DInv

LEMMA NextDirectory == DInv /\ [Next]_vars => DInv' /\ [D!Next]_(D!vars)
  <1> SUFFICES ASSUME DInv, [Next]_vars PROVE IsDirectoryStep /\ IInv'
    BY DEF IsDirectoryStep, DInv
  <1>1. IInv'
    BY NextIInv DEF DInv
  <1>2. ASSUME NEW t \in Threads, TeardownStep(t) PROVE IsDirectoryStep
    BY <1>2, RemovePopRemoves, RemoveCloseCloses, UnregisterReadQuiet,
       UnregisterWriteUnregisters, UnregisterRaisesReturns DEF TeardownStep
  <1>3. ASSUME NEW c \in Conns, HandleNewConnection(c) \/ HangUp(c) \/ ReaderBadLine(c)
        PROVE  IsDirectoryStep
    BY <1>3, QuietSteps, ErrorSteps
  <1>4. ASSUME NEW c \in Conns, SyncStep(c) PROVE IsDirectoryStep
    BY <1>2, <1>4, ThreadFacts, QuietSteps, IdentifyIntroduces, ReplacePopMakesRoom,
       ReplaceCloseCloses, ReplaceStoreEnters, SyncListInDirectory, ListedLists,
       RegisterRegisters, ErrorSteps DEF SyncStep
  <1>5. ASSUME NEW c \in Conns, ReaderStep(c) PROVE IsDirectoryStep
    BY <1>2, <1>5, ThreadFacts, ReaderEnds, ErrorSteps DEF ReaderStep
  <1>6. ASSUME NEW key \in Called, CallLookup(key) PROVE IsDirectoryStep
    BY <1>6, LookupLooksUp
  <1>7. ASSUME LoopStep PROVE IsDirectoryStep
    BY <1>2, <1>7, ThreadFacts, RouteRoutes, ReturnReturns, SendInDirectory DEF LoopStep
  <1>8. ASSUME UNCHANGED vars PROVE IsDirectoryStep
    <2>1. Entered' = Entered /\ Failing' = Failing /\ Ended' = Ended
      BY <1>8, EnteredKept, FailingKept, EndedKept DEF vars
    <2>2. VictimsNamed' /\ LoopKnows'
      BY <1>8 DEF vars, DInv, VictimsNamed, LoopKnows
    <2> QED
      BY <1>8, <2>1, <2>2, Stutters DEF vars, IsDirectoryStep
  <1> QED
    BY <1>1, <1>3, <1>4, <1>5, <1>6, <1>7, <1>8 DEF Next

\* The session handler, the registries and the router are a Directory: a device
\* never costs another one its session, a connection is registered once and never
\* comes back, a registered session is closed by nobody but its own reader, the
\* tools that are known were listed by a connection of their device, and a call goes
\* to what the registry has when it is routed, whatever the threads interleave.
THEOREM DirectoryImplemented == Spec => ImplementsDirectory
  BY InitDirectory, NextDirectory, PTL DEF Spec, ImplementsDirectory, D!Spec

-----------------------------------------------------------------------------
(* What follows. *)

\* A device's entry changes only on behalf of a connection that gave its id: one
\* that failed, or one that is on its way into the registry.
LeavesByOwnDevice ==
    [][\A d \in Names : devices'[d] # devices[d] =>
         \E b \in Conns : device_id[b] = d /\ (b \in Failing \/ b \notin Entered)]_vars

\* A connection that has left the registry does not come back.
EntersOnce ==
    [][\A c \in Entered : (\A d \in Names : devices[d] # c) =>
         \A d \in Names : devices'[d] # c]_vars

\* Each of them by the steps of the directory.
LEMMA DirectoryStepLaws ==
  ASSUME DInv, [D!Next]_(D!vars)
  PROVE  /\ \A d \in Names : devices'[d] # devices[d] =>
              \E b \in Conns : device_id[b] = d /\ (b \in Failing \/ b \notin Entered)
         /\ \A c \in Entered : (\A d \in Names : devices[d] # c) =>
              \A d \in Names : devices'[d] # c
  <1>1. /\ devices \in [Names -> Conns \cup {NoConn}] /\ NoConn \notin Conns
        /\ Entered \subseteq Conns
    BY SessionAssumption DEF DInv, IInv, TypeOK, Entered
  <1>2. ASSUME NEW b \in Conns, D!MakeRoom(b) PROVE devices' = [devices EXCEPT ![device_id[b]] = NoConn]
                                                    /\ b \notin Entered
    BY <1>2 DEF D!MakeRoom, D!Clear
  <1>3. ASSUME NEW b \in Conns, D!Enter(b) PROVE devices' = [devices EXCEPT ![device_id[b]] = b]
                                                 /\ b \notin Entered
    BY <1>3 DEF D!Enter
  <1>4. ASSUME NEW b \in Conns, D!Remove(b) PROVE devices' = [devices EXCEPT ![device_id[b]] = NoConn]
                                                  /\ b \in Failing
    BY <1>4 DEF D!Remove, D!Clear
  <1>5. \/ \E b \in Conns : D!MakeRoom(b) \/ D!Enter(b) \/ D!Remove(b)
        \/ devices' = devices
    BY DEF D!Next, D!Introduce, D!List, D!Fail, D!End, D!Close, D!Register, D!LookUp,
           D!Unregister, D!Route, D!Return, D!vars, D!directory
  <1>6. \/ \E b \in Conns : /\ b \in Failing \/ b \notin Entered
                            /\ \/ devices' = [devices EXCEPT ![device_id[b]] = NoConn]
                               \/ /\ devices' = [devices EXCEPT ![device_id[b]] = b]
                                  /\ b \notin Entered
        \/ devices' = devices
    BY <1>2, <1>3, <1>4, <1>5
  <1> QED
    BY <1>1, <1>6

\* DeviceRegistry: no device ever costs another one its session.
THEOREM DevicesIsolated == Spec => LeavesByOwnDevice
  <1>1. DInv /\ [Next]_vars => DInv'
        /\ [\A d \in Names : devices'[d] # devices[d] =>
              \E b \in Conns : device_id[b] = d /\ (b \in Failing \/ b \notin Entered)]_vars
    BY NextDirectory, DirectoryStepLaws
  <1> QED
    BY <1>1, InitDirectory, PTL DEF Spec, LeavesByOwnDevice

\* register_or_replace: a connection is registered once, and a session that was
\* removed is not registered again, whatever teardowns and replacements interleave.
THEOREM RegisteredOnce == Spec => EntersOnce
  <1>1. DInv /\ [Next]_vars => DInv'
        /\ [\A c \in Entered : (\A d \in Names : devices[d] # c) =>
              \A d \in Names : devices'[d] # c]_vars
    BY NextDirectory, DirectoryStepLaws
  <1> QED
    BY <1>1, InitDirectory, PTL DEF Spec, EntersOnce

\* No two connections ever give the same device id: no device connects twice.
DistinctIds == \A a, b \in Conns : device_id[a] # NoName /\ device_id[a] = device_id[b] => a = b

\* Which steps change the device registry.
LEMMA RegistryChanges ==
  ASSUME DInv, Next, devices' # devices
  PROVE  \/ \E t \in Threads : RemovePop(t)
         \/ \E c \in Conns : ReplacePop(c) \/ ReplaceStore(c)
  <1>1. ASSUME NEW t \in Threads, TeardownStep(t) PROVE RemovePop(t)
    BY <1>1 DEF TeardownStep, RemoveClose, UnregisterRead, UnregisterWrite, UnregisterRaises,
                registries
  <1>2. ASSUME NEW c \in Conns, SyncStep(c)
        PROVE  ReplacePop(c) \/ ReplaceStore(c) \/ TeardownStep(Sync(c))
    BY <1>2 DEF SyncStep, SyncInitialized, SyncIdentify, ReplaceClose, SyncList, SyncListed,
                SyncRegister, SyncDone, SyncTimeout, SyncExcept, registries
  <1>3. ASSUME NEW c \in Conns, ReaderStep(c) PROVE TeardownStep(Reader(c))
    BY <1>3 DEF ReaderStep, ReaderEof, ReaderRecvError, ReaderClose, registries
  <1>4. ASSUME LoopStep PROVE TeardownStep(Loop)
    BY <1>4 DEF LoopStep, CallRoute, CallNotConnected, CallSend, CallAnswered, CallTimeout,
                CallReturn, registries
  <1> QED
    BY <1>1, <1>2, <1>3, <1>4, ThreadFacts
    DEF Next, HandleNewConnection, HangUp, ReaderBadLine, CallLookup, registries

\* on_error, register_or_replace: that a session is removed because another one
\* failed takes two connections with one device id.
THEOREM DistinctIdsSafe == Spec /\ []DistinctIds => OnlyOwnFailureRemoves
  <1>1. DInv /\ DistinctIds /\ [Next]_vars
          => [\A d \in Names, c \in Conns : devices[d] = c /\ devices'[d] # c =>
               \/ \E t \in Threads : Owner(t) = c /\ tear[t].at = "pop" /\ tear'[t].at # "pop"
               \/ \E b \in Conns : b # c /\ device_id[b] = d /\ pc[Sync(b)] \in {"replace", "store"}
                                   /\ pc'[Sync(b)] # pc[Sync(b)]]_vars
    <2> SUFFICES ASSUME DInv, DistinctIds, Next, NEW d \in Names, NEW c \in Conns,
                        devices[d] = c, devices'[d] # c
                 PROVE  \E t \in Threads : /\ Owner(t) = c
                                           /\ tear[t].at = "pop" /\ tear'[t].at # "pop"
      OBVIOUS
    <2>1. /\ device_id[c] = d /\ d # NoName /\ pc[Sync(c)] \in PastStore
          /\ devices \in [Names -> Conns \cup {NoConn}]
      BY SessionAssumption DEF DInv, IInv, TypeOK, Keyed
    <2>2. CASE \E t \in Threads : RemovePop(t)
      <3>1. PICK t \in Threads : RemovePop(t)
        BY <2>2
      <3>2. tear[t].at = "pop" /\ tear[t].dev = d
        BY <2>1, <3>1 DEF RemovePop
      <3>3. Owner(t) \in Conns /\ device_id[Owner(t)] = d
        BY <3>2, OwnerNamed
      <3>4. Owner(t) = c
        BY <2>1, <3>3 DEF DistinctIds
      <3>5. tear'[t].at # "pop"
        <4> DEFINE victim == devices[tear[t].dev]
                   at == IF victim = NoConn THEN "read" ELSE "close"
        <4>1. tear' = [tear EXCEPT ![t] = [tear[t] EXCEPT !.at = at, !.victim = victim]]
              /\ at # "pop"
          BY <3>1 DEF RemovePop
        <4> HIDE DEF at, victim
        <4> QED
          BY <4>1 DEF DInv, IInv, TypeOK, Teardown
      <3> QED
        BY <3>2, <3>4, <3>5
    <2>3. ASSUME NEW b \in Conns, ReplacePop(b) \/ ReplaceStore(b) PROVE FALSE
      <3>1. pc[Sync(b)] \in {"replace", "store"} /\ device_id[b] \in Names
        BY <2>3 DEF ReplacePop, ReplaceStore, At, DInv, IInv, Identified
      <3>2. device_id[b] = d
        BY <2>1, <2>3, <3>1 DEF ReplacePop, ReplaceStore
      <3>3. b = c
        BY <2>1, <3>2 DEF DistinctIds
      <3> QED
        BY <2>1, <3>1, <3>3 DEF PastStore
    <2> QED
      BY <2>2, <2>3, RegistryChanges
  <1>2. DInv /\ [Next]_vars => DInv'
    BY NextDirectory
  <1> QED
    BY <1>1, <1>2, InitDirectory, PTL DEF Spec, OnlyOwnFailureRemoves

\* No device that connects again lists less than it did before.
KeepsItsTools ==
    \A a, b \in Conns :
        /\ device_id[a] # NoName /\ device_id[a] = device_id[b]
        /\ devices[device_id[b]] = b /\ pc[Sync(b)] = "done"
        => tools[a] \subseteq tools[b]

\* remove_by_device, register_or_replace: tools that are stale at rest take a device
\* that connects again and lists less than before; no interleaving of registrations,
\* replacements and removals brings them about alone.
THEOREM StaleToolsTakeLess == Spec /\ []KeepsItsTools => []OldToolsCleared
  <1>1. IInv /\ KeepsItsTools => OldToolsCleared
    <2> SUFFICES ASSUME IInv, KeepsItsTools, AtRest, NEW d \in Names, NEW key \in FullNames,
                        devices[d] # NoConn, services[key] # NoService,
                        services[key].device = d
                 PROVE  services[key].tool \in tools[devices[d]]
      BY DEF OldToolsCleared
    <2>1. PICK a \in Conns : device_id[a] = d /\ services[key].tool \in tools[a]
      BY DEF IInv, Faithful, Listed
    <2>2. /\ devices[d] \in Conns /\ device_id[devices[d]] = d /\ d # NoName
          /\ pc[Sync(devices[d])] \in PastStore
      BY SessionAssumption DEF IInv, TypeOK, Keyed
    <2>3. pc[Sync(devices[d])] \in {"failed", "done"}
      BY <2>2 DEF AtRest, PastStore
    <2>4. pc[Sync(devices[d])] # "failed"
      BY <2>2, ThreadFacts DEF AtRest, IInv, FailedLeaves
    <2> QED
      BY <2>1, <2>2, <2>3, <2>4 DEF KeepsItsTools
  <1> QED
    BY <1>1, Invariant, PTL

=============================================================================
