----------------------- MODULE GatewaySessionProofs -----------------------
(***************************************************************************)
(* Proofs about GatewaySession, for any connections, device ids, tools and *)
(* offers, any way of building full names, and any number of hang-ups: its *)
(* types, where calls go, what the tool registry holds, who closes a       *)
(* session, and that connections that failed leave the registry.           *)
(***************************************************************************)
EXTENDS GatewaySession, TLAPS

(* The parts of the inductive invariant. *)

\* The sync thread has no device id before it identified the device, has one
\* from then on, and registers only tools the device has listed.
Identified ==
    \A c \in Conns :
        /\ pc[Sync(c)] \in {"unborn", "initWait", "identify"} => device_id[c] = NoName
        /\ pc[Sync(c)] \notin {"unborn", "initWait", "identify", "except", "failed"} =>
              device_id[c] \in Names
        /\ pc[Sync(c)] = "unborn" => pc[Reader(c)] = "unborn"
        /\ todo[c] \subseteq tools[c]

\* Where a sync thread stands that will register its session no more.
PastStore == {"list", "listWait", "listLost", "register", "except", "failed", "done"}

\* A session is filed under its own device id, by its own sync thread.
Keyed ==
    \A d \in Names, c \in Conns : devices[d] = c =>
        device_id[c] = d /\ pc[Sync(c)] \in PastStore

\* The event loop's service has the name of the call, its connection the id.
LoopHolds ==
    /\ pc[Loop] # "idle" =>
         /\ loop.service \in Service
         /\ loop.name = FullName[<<loop.service.device, loop.service.tool>>]
    /\ pc[Loop] \in {"send", "wait", "lost"} =>
         /\ loop.conn \in Conns
         /\ device_id[loop.conn] = loop.service.device

\* Whatever registrations and removals interleave, the tool registry and every copy
\* of it in the making hold only tools a connection of the device has listed, each
\* under its own full name.
Listed(s) == \E c \in Conns : device_id[c] = s.device /\ s.tool \in tools[c]
Faithful(table) ==
    \A key \in FullNames : table[key] # NoService =>
        /\ key = FullName[<<table[key].device, table[key].tool>>]
        /\ Listed(table[key])
CopiesFaithful == \A t \in Threads : Faithful(tear[t].kept)

\* A teardown has a device id, and a session when it is to close one.
TearingHas ==
    /\ \A t \in Threads : tear[t].at # "no" => tear[t].dev \in Names
    /\ \A t \in Threads : tear[t].at = "close" => tear[t].victim \in Conns
    /\ \A c \in Conns : pc[Sync(c)] = "close" => tear[Sync(c)].victim \in Conns

\* A teardown runs at few places of each thread, with the device id of the
\* connection if it is a thread of one.
TearingAt ==
    /\ tear[Loop].at # "no" => pc[Loop] = "lost"
    /\ \A c \in Conns :
         /\ tear[Sync(c)].at # "no" =>
              tear[Sync(c)].dev = device_id[c] /\ pc[Sync(c)] \in {"listLost", "failed"}
         /\ tear[Reader(c)].at # "no" =>
              tear[Reader(c)].dev = device_id[c] /\ pc[Reader(c)] \in {"recv", "failing"}

\* A session that somebody is about to close is registered no more, for good.
VictimsGone ==
    \A t \in Threads, v \in Conns : tear[t].victim = v =>
        pc[Sync(v)] \in PastStore /\ \A d \in Names : devices[d] # v

\* Only a session that was registered is closed by anyone but its own reader.
ClosedPastStore ==
    \A c \in Conns : closed[c] =>
        pc[Reader(c)] \in {"ended", "failed"} \/ pc[Sync(c)] \in PastStore

\* Once a thread of a connection failed and has run remove_device, the session is
\* registered no more, unless its sync thread is still on its way there.
FailedLeaves ==
    \A c \in Conns :
        \/ pc[Sync(c)] = "failed" /\ tear[Sync(c)].at # "pop"
        \/ /\ pc[Reader(c)] \in {"failing", "failed"}
           /\ tear[Reader(c)].at # "pop"
           /\ pc[Sync(c)] \in {"register", "done"}
        => \A d \in Names : devices[d] # c

IInv ==
    /\ TypeOK
    /\ Identified
    /\ Keyed
    /\ LoopHolds
    /\ Faithful(services)
    /\ CopiesFaithful
    /\ TearingHas
    /\ TearingAt
    /\ VictimsGone
    /\ ClosedPastStore
    /\ ClosedByOwnReader
    /\ FailedLeaves

-----------------------------------------------------------------------------
(* Facts the steps share. *)

\* The event loop, the sync threads and the readers are different threads.
LEMMA ThreadFacts ==
    /\ Loop \in Threads
    /\ \A c \in Conns : Sync(c) \in Threads /\ Reader(c) \in Threads
    /\ \A c \in Conns : Sync(c) # Loop /\ Reader(c) # Loop
    /\ \A c, b \in Conns : Sync(c) # Reader(b)
    /\ \A c, b \in Conns : (Sync(c) = Sync(b) => c = b) /\ (Reader(c) = Reader(b) => c = b)
    /\ \A t \in Threads : t = Loop \/ \E c \in Conns : t = Sync(c) \/ t = Reader(c)
  BY DEF Loop, Sync, Reader, Threads

\* Moving a teardown to its next place leaves it a teardown.
LEMMA TeardownMoves ==
  ASSUME NEW r \in Teardown, NEW a \in {"no", "pop", "close", "read", "write"},
         NEW d \in Names \cup {NoName}, NEW v \in Conns \cup {NoConn}
  PROVE  /\ [r EXCEPT !.at = a, !.dev = d] \in Teardown
         /\ [r EXCEPT !.at = a, !.victim = v] \in Teardown
  BY DEF Teardown

\* So does a change of the session it has still to close.
LEMMA TeardownVictim ==
  ASSUME NEW r \in Teardown, NEW v \in Conns \cup {NoConn}
  PROVE  [r EXCEPT !.victim = v] \in Teardown
  BY DEF Teardown

\* So does the table it has read ...
LEMMA TeardownReads ==
  ASSUME NEW r \in Teardown, NEW k \in Table
  PROVE  [r EXCEPT !.at = "write", !.kept = k, !.current = TRUE] \in Teardown
  BY DEF Teardown

\* ... and what happens to the registry meanwhile.
LEMMA TeardownMarks ==
  ASSUME NEW r \in Teardown, NEW b \in BOOLEAN
  PROVE  /\ [r EXCEPT !.current = b] \in Teardown
         /\ [r EXCEPT !.grew = b] \in Teardown
  BY DEF Teardown

\* A thread outside a teardown has an idle one.
LEMMA NoTearFits == NoTear \in Teardown
  BY DEF NoTear, Teardown, Table

\* What on_error changes: it enters a teardown of the device id of the
\* connection, or does nothing if there is none.
LEMMA OnErrorEffect ==
  ASSUME TypeOK, NEW t \in Threads, NEW c \in Conns, OnError(t, c)
  PROVE  /\ tear' \in [Threads -> Teardown]
         /\ \A u \in Threads : u # t => tear'[u] = tear[u]
         /\ \A u \in Threads : /\ tear'[u].victim = tear[u].victim
                                /\ tear'[u].kept = tear[u].kept
         /\ device_id[c] = NoName => tear' = tear
         /\ device_id[c] # NoName =>
              /\ device_id[c] \in Names
              /\ tear'[t].at = "pop"
              /\ tear'[t].dev = device_id[c]
  <1>1. CASE device_id[c] = NoName
    BY <1>1 DEF OnError, TypeOK
  <1>2. CASE device_id[c] # NoName
    <2>1. device_id[c] \in Names /\ tear \in [Threads -> Teardown]
      BY <1>2 DEF TypeOK
    <2>2. [tear[t] EXCEPT !.at = "pop", !.dev = device_id[c]] \in Teardown
      BY <2>1, TeardownMoves
    <2>3. tear' \in [Threads -> Teardown]
      BY <1>2, <2>1, <2>2 DEF OnError
    <2>4. /\ \A u \in Threads : u # t => tear'[u] = tear[u]
          /\ tear'[t] = [tear[t] EXCEPT !.at = "pop", !.dev = device_id[c]]
      BY <1>2, <2>1 DEF OnError
    <2>5. /\ tear'[t].at = "pop"
          /\ tear'[t].dev = device_id[c]
          /\ tear'[t].victim = tear[t].victim
          /\ tear'[t].kept = tear[t].kept
      BY <2>1, <2>4 DEF Teardown
    <2> QED
      BY <1>2, <2>1, <2>3, <2>4, <2>5
  <1> QED
    BY <1>1, <1>2

\* What sending a request changes: the thread waits, and may first be in a
\* teardown, for a request that is lost.
LEMMA SendEffect ==
  ASSUME TypeOK, NEW t \in Threads, NEW c \in Conns, NEW wait, NEW lost,
         SendRequest(t, c, wait, lost)
  PROVE  /\ tear' \in [Threads -> Teardown]
         /\ \A u \in Threads : u # t => tear'[u] = tear[u] /\ pc'[u] = pc[u]
         /\ \A u \in Threads : /\ tear'[u].victim = tear[u].victim
                                /\ tear'[u].kept = tear[u].kept
         /\ pc'[t] \in {wait, lost}
         /\ pc' \in [Threads -> SyncLabels \cup ReaderLabels \cup LoopLabels \cup {wait, lost}]
         /\ \/ tear' = tear
            \/ /\ pc'[t] = lost
               /\ device_id[c] \in Names
               /\ tear'[t].at = "pop"
               /\ tear'[t].dev = device_id[c]
  <1>1. pc \in [Threads -> SyncLabels \cup ReaderLabels \cup LoopLabels]
          /\ tear \in [Threads -> Teardown]
    BY DEF TypeOK
  <1>2. CASE OnError(t, c) /\ Goto(t, lost)
    BY <1>1, <1>2, OnErrorEffect DEF Goto
  <1>3. CASE UNCHANGED tear /\ Goto(t, IF gone[c] THEN lost ELSE wait)
    BY <1>1, <1>3 DEF Goto
  <1> QED
    BY <1>2, <1>3 DEF SendRequest

\* A table stays faithful while devices keep their ids and tools
\* are only added to their lists.
LEMMA TableKept ==
  ASSUME NEW table \in Table, Faithful(table),
         \A c \in Conns : device_id[c] \in Names => device_id'[c] = device_id[c],
         \A c \in Conns : tools[c] \subseteq tools'[c]
  PROVE  \A key \in FullNames : table[key] # NoService =>
           /\ key = FullName[<<table[key].device, table[key].tool>>]
           /\ \E c \in Conns : device_id'[c] = table[key].device
                               /\ table[key].tool \in tools'[c]
  BY DEF Faithful, Listed, Table, Service

\* So do the copies of the registry that teardowns have made ...
LEMMA CopiesKept ==
  ASSUME TypeOK, CopiesFaithful,
         \A u \in Threads : tear'[u].kept = tear[u].kept,
         \A c \in Conns : device_id[c] \in Names => device_id'[c] = device_id[c],
         \A c \in Conns : tools[c] \subseteq tools'[c]
  PROVE  CopiesFaithful'
  <1>1. \A u \in Threads : tear[u].kept \in Table
    BY DEF TypeOK, Teardown
  <1> QED
    BY <1>1, TableKept DEF CopiesFaithful, Faithful, Listed

\* ... and the registry, while nobody changes it.
LEMMA ContentsKept ==
  ASSUME TypeOK, Faithful(services), CopiesFaithful,
         services' = services,
         \A u \in Threads : tear'[u].kept = tear[u].kept,
         \A c \in Conns : device_id[c] \in Names => device_id'[c] = device_id[c],
         \A c \in Conns : tools[c] \subseteq tools'[c]
  PROVE  Faithful(services)' /\ CopiesFaithful'
  <1>1. services \in Table
    BY DEF TypeOK
  <1>2. Faithful(services)'
    BY <1>1, TableKept DEF Faithful, Listed
  <1> QED
    BY <1>2, CopiesKept

\* The invariant holds before the first connection.
LEMMA InitIInv == Init => IInv
  <1> USE SessionAssumption, ThreadFacts
  <1> SUFFICES ASSUME Init PROVE IInv
    OBVIOUS
  <1>1. TypeOK
    BY NoTearFits
    DEF Init, TypeOK, NoCall, Table, SyncLabels, ReaderLabels, LoopLabels
  <1>2. Identified /\ Keyed /\ LoopHolds /\ Faithful(services) /\ CopiesFaithful
    BY DEF Init, Identified, Keyed, LoopHolds, Faithful, CopiesFaithful, NoTear
  <1>3. TearingHas /\ TearingAt /\ VictimsGone /\ ClosedPastStore /\ ClosedByOwnReader /\ FailedLeaves
    BY DEF Init, TearingHas, TearingAt, VictimsGone, ClosedPastStore, ClosedByOwnReader,
           FailedLeaves, NoTear
  <1> QED
    BY <1>1, <1>2, <1>3 DEF IInv

-----------------------------------------------------------------------------
(* Every step keeps the invariant. *)

\* A connection that starts has not been registered, closed or torn down before.
LEMMA HandleNewConnectionPreserves ==
  ASSUME NEW c \in Conns, IInv, HandleNewConnection(c)
  PROVE  IInv'
  <1> USE SessionAssumption, ThreadFacts
          DEF IInv, TypeOK, HandleNewConnection, registries, perConn, sockets
  <1>1. TypeOK'
    BY DEF SyncLabels, ReaderLabels, LoopLabels
  <1>2. Identified'
    BY DEF Identified
  <1>3. Keyed'
    BY DEF Keyed, PastStore
  <1>4. LoopHolds'
    BY DEF LoopHolds
  <1>5. Faithful(services)' /\ CopiesFaithful'
    BY ContentsKept
  <1>6. TearingHas'
    BY DEF TearingHas, Identified
  <1>7. TearingAt'
    BY DEF TearingAt, TearingHas, Identified
  <1>8. VictimsGone'
    BY DEF VictimsGone, PastStore
  <1>9. ClosedPastStore' /\ ClosedByOwnReader'
    BY DEF ClosedPastStore, ClosedByOwnReader, PastStore, Identified, Keyed
  <1>10. FailedLeaves'
    BY DEF FailedLeaves
  <1> HIDE DEF TypeOK
  <1> QED
    BY <1>1, <1>2, <1>3, <1>4, <1>5, <1>6, <1>7, <1>8, <1>9, <1>10

\* A hang-up shows in nothing the gateway keeps.
LEMMA HangUpPreserves ==
  ASSUME NEW c \in Conns, IInv, HangUp(c)
  PROVE  IInv'
  <1> USE SessionAssumption, ThreadFacts
          DEF IInv, TypeOK, HangUp, CountFault, registries, perConn, sockets
  <1>1. TypeOK'
    OBVIOUS
  <1>2. Identified'
    BY DEF Identified
  <1>3. Keyed'
    BY DEF Keyed, PastStore
  <1>4. LoopHolds'
    BY DEF LoopHolds
  <1>5. Faithful(services)' /\ CopiesFaithful'
    BY ContentsKept
  <1>6. TearingHas'
    BY DEF TearingHas
  <1>7. TearingAt'
    BY DEF TearingAt
  <1>8. VictimsGone'
    BY DEF VictimsGone, PastStore
  <1>9. ClosedPastStore' /\ ClosedByOwnReader'
    BY DEF ClosedPastStore, ClosedByOwnReader, PastStore
  <1>10. FailedLeaves'
    BY DEF FailedLeaves
  <1> HIDE DEF TypeOK
  <1> QED
    BY <1>1, <1>2, <1>3, <1>4, <1>5, <1>6, <1>7, <1>8, <1>9, <1>10

\* A bad line starts a teardown in the reader, which goes on reading.
LEMMA ReaderBadLinePreserves ==
  ASSUME NEW c \in Conns, IInv, ReaderBadLine(c)
  PROVE  IInv'
  <1> USE SessionAssumption, ThreadFacts
          DEF IInv, TypeOK, ReaderBadLine, CountFault, At, registries, perConn, sockets
  <1>0. /\ tear' \in [Threads -> Teardown]
        /\ \A u \in Threads : u # Reader(c) => tear'[u] = tear[u]
        /\ \A u \in Threads : /\ tear'[u].victim = tear[u].victim
                               /\ tear'[u].kept = tear[u].kept
        /\ device_id[c] = NoName => tear' = tear
        /\ device_id[c] # NoName =>
             /\ device_id[c] \in Names
             /\ tear'[Reader(c)].at = "pop"
             /\ tear'[Reader(c)].dev = device_id[c]
    BY OnErrorEffect
  <1>1. TypeOK'
    BY <1>0
  <1>2. Identified'
    BY <1>0 DEF Identified
  <1>3. Keyed'
    BY <1>0 DEF Keyed, PastStore
  <1>4. LoopHolds'
    BY <1>0 DEF LoopHolds
  <1>5. Faithful(services)' /\ CopiesFaithful'
    BY <1>0, ContentsKept
  <1>6. TearingHas'
    BY <1>0 DEF TearingHas
  <1>7. TearingAt'
    BY <1>0 DEF TearingAt
  <1>8. VictimsGone'
    BY <1>0 DEF VictimsGone, PastStore
  <1>9. ClosedPastStore' /\ ClosedByOwnReader'
    BY <1>0 DEF ClosedPastStore, ClosedByOwnReader, PastStore
  <1>10. FailedLeaves'
    BY <1>0 DEF FailedLeaves
  <1> HIDE DEF TypeOK
  <1> QED
    BY <1>1, <1>2, <1>3, <1>4, <1>5, <1>6, <1>7, <1>8, <1>9, <1>10

\* The answer to initialize only moves the sync thread on.
LEMMA SyncInitializedPreserves ==
  ASSUME NEW c \in Conns, IInv, SyncInitialized(c)
  PROVE  IInv'
  <1> USE SessionAssumption, ThreadFacts
          DEF IInv, TypeOK, SyncInitialized, At, Goto, registries, perConn, sockets
  <1>1. TypeOK'
    BY DEF SyncLabels, ReaderLabels, LoopLabels
  <1>2. Identified'
    BY DEF Identified
  <1>3. Keyed'
    BY DEF Keyed, PastStore
  <1>4. LoopHolds'
    BY DEF LoopHolds
  <1>5. Faithful(services)' /\ CopiesFaithful'
    BY ContentsKept
  <1>6. TearingHas'
    BY DEF TearingHas
  <1>7. TearingAt'
    BY DEF TearingAt
  <1>8. VictimsGone'
    BY DEF VictimsGone, PastStore
  <1>9. ClosedPastStore' /\ ClosedByOwnReader'
    BY DEF ClosedPastStore, ClosedByOwnReader, PastStore
  <1>10. FailedLeaves'
    BY DEF FailedLeaves
  <1> HIDE DEF TypeOK
  <1> QED
    BY <1>1, <1>2, <1>3, <1>4, <1>5, <1>6, <1>7, <1>8, <1>9, <1>10

\* The end of the registration loop leaves the registry as it is.
LEMMA SyncDonePreserves ==
  ASSUME NEW c \in Conns, IInv, SyncDone(c)
  PROVE  IInv'
  <1> USE SessionAssumption, ThreadFacts
          DEF IInv, TypeOK, SyncDone, At, Goto, registries, perConn, sockets
  <1>1. TypeOK'
    BY DEF SyncLabels, ReaderLabels, LoopLabels
  <1>2. Identified'
    BY DEF Identified
  <1>3. Keyed'
    BY DEF Keyed, PastStore
  <1>4. LoopHolds'
    BY DEF LoopHolds
  <1>5. Faithful(services)' /\ CopiesFaithful'
    BY ContentsKept
  <1>6. TearingHas'
    BY DEF TearingHas
  <1>7. TearingAt'
    BY DEF TearingAt
  <1>8. VictimsGone'
    BY DEF VictimsGone, PastStore
  <1>9. ClosedPastStore' /\ ClosedByOwnReader'
    BY DEF ClosedPastStore, ClosedByOwnReader, PastStore
  <1>10. FailedLeaves'
    BY DEF FailedLeaves
  <1> HIDE DEF TypeOK
  <1> QED
    BY <1>1, <1>2, <1>3, <1>4, <1>5, <1>6, <1>7, <1>8, <1>9, <1>10

\* So does a timeout.
LEMMA SyncTimeoutPreserves ==
  ASSUME NEW c \in Conns, IInv, SyncTimeout(c)
  PROVE  IInv'
  <1> USE SessionAssumption, ThreadFacts
          DEF IInv, TypeOK, SyncTimeout, At, Goto, registries, perConn, sockets
  <1>1. TypeOK'
    BY DEF SyncLabels, ReaderLabels, LoopLabels
  <1>2. Identified'
    BY DEF Identified
  <1>3. Keyed'
    BY DEF Keyed, PastStore
  <1>4. LoopHolds'
    BY DEF LoopHolds
  <1>5. Faithful(services)' /\ CopiesFaithful'
    BY ContentsKept
  <1>6. TearingHas'
    BY DEF TearingHas
  <1>7. TearingAt'
    BY DEF TearingAt
  <1>8. VictimsGone'
    BY DEF VictimsGone, PastStore
  <1>9. ClosedPastStore' /\ ClosedByOwnReader'
    BY DEF ClosedPastStore, ClosedByOwnReader, PastStore
  <1>10. FailedLeaves'
    BY DEF FailedLeaves
  <1> HIDE DEF TypeOK
  <1> QED
    BY <1>1, <1>2, <1>3, <1>4, <1>5, <1>6, <1>7, <1>8, <1>9, <1>10

\* The device id is set once: nothing refers to the connection before.
LEMMA SyncIdentifyPreserves ==
  ASSUME NEW c \in Conns, IInv, SyncIdentify(c)
  PROVE  IInv'
  <1> USE SessionAssumption, ThreadFacts
          DEF IInv, TypeOK, SyncIdentify, At, Goto, registries, perConn, sockets
  <1>1. TypeOK'
    BY DEF SyncLabels, ReaderLabels, LoopLabels
  <1>2. Identified'
    BY DEF Identified
  <1>3. Keyed'
    BY DEF Keyed, PastStore
  <1>4. LoopHolds'
    BY DEF LoopHolds, Identified, Service
  <1>5. Faithful(services)' /\ CopiesFaithful'
    BY ContentsKept DEF Identified
  <1>6. TearingHas'
    BY DEF TearingHas, Identified
  <1>7. TearingAt'
    BY DEF TearingAt, TearingHas, Identified
  <1>8. VictimsGone'
    BY DEF VictimsGone, PastStore
  <1>9. ClosedPastStore' /\ ClosedByOwnReader'
    BY DEF ClosedPastStore, ClosedByOwnReader, PastStore
  <1>10. FailedLeaves'
    BY DEF FailedLeaves
  <1> HIDE DEF TypeOK
  <1> QED
    BY <1>1, <1>2, <1>3, <1>4, <1>5, <1>6, <1>7, <1>8, <1>9, <1>10

\* The session that is popped was filed under this id only, by a sync thread that
\* is past storing it.
LEMMA ReplacePopPreserves ==
  ASSUME NEW c \in Conns, IInv, ReplacePop(c)
  PROVE  IInv'
  <1> USE SessionAssumption, ThreadFacts
          DEF IInv, TypeOK, ReplacePop, At, Goto, registries, perConn, sockets
  <1>0. /\ device_id[c] \in Names
        /\ devices[device_id[c]] \in Conns \cup {NoConn}
        /\ [tear[Sync(c)] EXCEPT !.victim = devices[device_id[c]]] \in Teardown
        /\ tear' \in [Threads -> Teardown]
        /\ \A u \in Threads : u # Sync(c) => tear'[u] = tear[u]
        /\ tear'[Sync(c)].victim = devices[device_id[c]]
        /\ \A u \in Threads : tear'[u].at = tear[u].at /\ tear'[u].dev = tear[u].dev
                               /\ tear'[u].kept = tear[u].kept
    <2>1. /\ device_id[c] \in Names
          /\ tear[Sync(c)] \in Teardown
          /\ devices[device_id[c]] \in Conns \cup {NoConn}
      BY DEF Identified
    <2>2. [tear[Sync(c)] EXCEPT !.victim = devices[device_id[c]]] \in Teardown
      BY <2>1, TeardownVictim
    <2>3. /\ tear' \in [Threads -> Teardown]
          /\ \A u \in Threads : u # Sync(c) => tear'[u] = tear[u]
          /\ tear'[Sync(c)] = [tear[Sync(c)] EXCEPT !.victim = devices[device_id[c]]]
      BY <2>2
    <2>4. /\ tear'[Sync(c)].victim = devices[device_id[c]]
          /\ tear'[Sync(c)].at = tear[Sync(c)].at
          /\ tear'[Sync(c)].dev = tear[Sync(c)].dev
          /\ tear'[Sync(c)].kept = tear[Sync(c)].kept
      BY <2>3 DEF Teardown
    <2> QED
      BY <2>1, <2>2, <2>3, <2>4
  <1>1. TypeOK'
    BY <1>0 DEF SyncLabels, ReaderLabels, LoopLabels
  <1>2. Identified'
    BY <1>0 DEF Identified
  <1>3. Keyed'
    BY <1>0 DEF Keyed, PastStore
  <1>4. LoopHolds'
    BY <1>0 DEF LoopHolds
  <1>5. Faithful(services)' /\ CopiesFaithful'
    BY <1>0, ContentsKept
  <1>6. TearingHas'
    BY <1>0 DEF TearingHas
  <1>7. TearingAt'
    BY <1>0 DEF TearingAt
  <1>8. VictimsGone'
    BY <1>0 DEF VictimsGone, PastStore, Keyed
  <1>9. ClosedPastStore' /\ ClosedByOwnReader'
    BY <1>0 DEF ClosedPastStore, ClosedByOwnReader, PastStore
  <1>10. FailedLeaves'
    BY <1>0 DEF FailedLeaves, Keyed
  <1> HIDE DEF TypeOK
  <1> QED
    BY <1>1, <1>2, <1>3, <1>4, <1>5, <1>6, <1>7, <1>8, <1>9, <1>10

\* The session that is closed is registered no more.
LEMMA ReplaceClosePreserves ==
  ASSUME NEW c \in Conns, IInv, ReplaceClose(c)
  PROVE  IInv'
  <1> USE SessionAssumption, ThreadFacts
          DEF IInv, TypeOK, ReplaceClose, At, Goto, registries, perConn, sockets
  <1>0. /\ tear[Sync(c)].victim \in Conns
        /\ tear' \in [Threads -> Teardown]
        /\ \A u \in Threads : u # Sync(c) => tear'[u] = tear[u]
        /\ tear'[Sync(c)].victim = NoConn
        /\ tear'[Sync(c)].at = tear[Sync(c)].at
        /\ tear'[Sync(c)].dev = tear[Sync(c)].dev
        /\ \A u \in Threads : tear'[u].kept = tear[u].kept
    <2>1. tear[Sync(c)] \in Teardown /\ tear[Sync(c)].victim \in Conns
      BY DEF TearingHas
    <2>2. [tear[Sync(c)] EXCEPT !.at = tear[Sync(c)].at, !.victim = NoConn] \in Teardown
      BY <2>1, TeardownMoves
    <2> QED
      BY <2>1, <2>2 DEF Teardown
  <1>a. \A u \in Threads, v \in Conns : tear'[u].victim = v => tear[u].victim = v
    BY <1>0
  <1>1. TypeOK'
    BY <1>0 DEF SyncLabels, ReaderLabels, LoopLabels
  <1>2. Identified'
    BY <1>0 DEF Identified
  <1>3. Keyed'
    BY <1>0 DEF Keyed, PastStore
  <1>4. LoopHolds'
    BY <1>0 DEF LoopHolds
  <1>5. Faithful(services)' /\ CopiesFaithful'
    BY <1>0, ContentsKept
  <1>6. TearingHas'
    BY <1>0 DEF TearingHas
  <1>7. TearingAt'
    BY <1>0 DEF TearingAt
  <1>8. VictimsGone'
    BY <1>0, <1>a DEF VictimsGone, PastStore
  <1>9. ClosedPastStore' /\ ClosedByOwnReader'
    BY <1>0 DEF ClosedPastStore, ClosedByOwnReader, PastStore, VictimsGone
  <1>10. FailedLeaves'
    BY <1>0 DEF FailedLeaves
  <1> HIDE DEF TypeOK
  <1> QED
    BY <1>1, <1>2, <1>3, <1>4, <1>5, <1>6, <1>7, <1>8, <1>9, <1>10

\* The session that is filed has been closed by its reader at most.
LEMMA ReplaceStorePreserves ==
  ASSUME NEW c \in Conns, IInv, ReplaceStore(c)
  PROVE  IInv'
  <1> USE SessionAssumption, ThreadFacts
          DEF IInv, TypeOK, ReplaceStore, At, Goto, registries, perConn, sockets
  <1>0. device_id[c] \in Names
    BY DEF Identified
  <1>1. TypeOK'
    BY <1>0 DEF SyncLabels, ReaderLabels, LoopLabels
  <1>2. Identified'
    BY <1>0 DEF Identified
  <1>3. Keyed'
    BY <1>0 DEF Keyed, PastStore
  <1>4. LoopHolds'
    BY <1>0 DEF LoopHolds
  <1>5. Faithful(services)' /\ CopiesFaithful'
    BY <1>0, ContentsKept
  <1>6. TearingHas'
    BY <1>0 DEF TearingHas
  <1>7. TearingAt'
    BY <1>0 DEF TearingAt
  <1>8. VictimsGone'
    BY <1>0 DEF VictimsGone, PastStore
  <1>9. ClosedPastStore' /\ ClosedByOwnReader'
    BY <1>0 DEF ClosedPastStore, ClosedByOwnReader, PastStore
  <1>10. FailedLeaves'
    BY <1>0 DEF FailedLeaves
  <1> HIDE DEF TypeOK
  <1> QED
    BY <1>1, <1>2, <1>3, <1>4, <1>5, <1>6, <1>7, <1>8, <1>9, <1>10

\* A request that cannot be sent starts a teardown in the sync thread.
LEMMA SyncListPreserves ==
  ASSUME NEW c \in Conns, IInv, SyncList(c)
  PROVE  IInv'
  <1> USE SessionAssumption, ThreadFacts
          DEF IInv, TypeOK, SyncList, At, registries, perConn, sockets
  <1>0. /\ tear' \in [Threads -> Teardown]
        /\ \A u \in Threads : u # Sync(c) => tear'[u] = tear[u] /\ pc'[u] = pc[u]
        /\ \A u \in Threads : /\ tear'[u].victim = tear[u].victim
                               /\ tear'[u].kept = tear[u].kept
        /\ pc'[Sync(c)] \in {"listWait", "listLost"}
        /\ pc' \in [Threads -> SyncLabels \cup ReaderLabels \cup LoopLabels
                                \cup {"listWait", "listLost"}]
        /\ \/ tear' = tear
           \/ /\ pc'[Sync(c)] = "listLost"
              /\ device_id[c] \in Names
              /\ tear'[Sync(c)].at = "pop"
              /\ tear'[Sync(c)].dev = device_id[c]
    BY SendEffect
  <1>1. TypeOK'
    BY <1>0 DEF SyncLabels, ReaderLabels, LoopLabels
  <1>2. Identified'
    BY <1>0 DEF Identified
  <1>3. Keyed'
    BY <1>0 DEF Keyed, PastStore
  <1>4. LoopHolds'
    BY <1>0 DEF LoopHolds
  <1>5. Faithful(services)' /\ CopiesFaithful'
    BY <1>0, ContentsKept
  <1>6. TearingHas'
    BY <1>0 DEF TearingHas
  <1>7. TearingAt'
    <2>1. CASE tear' = tear
      BY <1>0, <2>1 DEF TearingAt
    <2>2. CASE /\ tear'[Sync(c)].at = "pop" /\ tear'[Sync(c)].dev = device_id[c]
               /\ pc'[Sync(c)] = "listLost"
      BY <1>0, <2>2 DEF TearingAt
    <2> QED
      BY <1>0, <2>1, <2>2
  <1>8. VictimsGone'
    BY <1>0 DEF VictimsGone, PastStore
  <1>9. ClosedPastStore' /\ ClosedByOwnReader'
    BY <1>0 DEF ClosedPastStore, ClosedByOwnReader, PastStore
  <1>10. FailedLeaves'
    BY <1>0 DEF FailedLeaves
  <1> HIDE DEF TypeOK
  <1> QED
    BY <1>1, <1>2, <1>3, <1>4, <1>5, <1>6, <1>7, <1>8, <1>9, <1>10

\* Tools are added to the list and to the work of the registration loop; a reader
\* that failed answers no more.
LEMMA SyncListedPreserves ==
  ASSUME NEW c \in Conns, IInv, SyncListed(c)
  PROVE  IInv'
  <1> USE SessionAssumption, ThreadFacts
          DEF IInv, TypeOK, registries, perConn, sockets
  <1>0. /\ device_id[c] \in Names
        /\ tools' \in [Conns -> SUBSET Tools] /\ todo' \in [Conns -> SUBSET Tools]
        /\ \A b \in Conns : tools[b] \subseteq tools'[b] /\ todo'[b] \subseteq tools'[b]
        /\ pc[Sync(c)] = "listWait" /\ tear[Sync(c)].at = "no" /\ pc[Reader(c)] = "recv"
        /\ \E label \in {"list", "register"} : pc' = [pc EXCEPT ![Sync(c)] = label]
        /\ UNCHANGED <<devices, services, device_id, closed, gone, faults, tear, loop>>
    <2>1. PICK page \in SUBSET Offers[device_id[c]] : tools' = [tools EXCEPT ![c] = @ \cup page]
      BY DEF SyncListed
    <2>2. device_id[c] \in Names /\ page \subseteq Tools
      BY <2>1 DEF Identified, SyncListed, At
    <2>3. /\ tools' \in [Conns -> SUBSET Tools]
          /\ \A b \in Conns : tools[b] \subseteq tools'[b]
      BY <2>1, <2>2
    <2>4. /\ todo' \in [Conns -> SUBSET Tools]
          /\ \A b \in Conns : todo'[b] \subseteq tools'[b]
      BY <2>3 DEF Identified, SyncListed
    <2> QED
      BY <2>2, <2>3, <2>4 DEF SyncListed, Answered, At, Goto
  <1>1. TypeOK'
    BY <1>0 DEF SyncLabels, ReaderLabels, LoopLabels
  <1>2. Identified'
    BY <1>0 DEF Identified
  <1>3. Keyed'
    BY <1>0 DEF Keyed, PastStore
  <1>4. LoopHolds'
    BY <1>0 DEF LoopHolds
  <1>5. Faithful(services)' /\ CopiesFaithful'
    BY <1>0, ContentsKept
  <1>6. TearingHas'
    BY <1>0 DEF TearingHas
  <1>7. TearingAt'
    BY <1>0 DEF TearingAt
  <1>8. VictimsGone'
    BY <1>0 DEF VictimsGone, PastStore
  <1>9. ClosedPastStore' /\ ClosedByOwnReader'
    BY <1>0 DEF ClosedPastStore, ClosedByOwnReader, PastStore
  <1>10. FailedLeaves'
    BY <1>0 DEF FailedLeaves
  <1> HIDE DEF TypeOK
  <1> QED
    BY <1>1, <1>2, <1>3, <1>4, <1>5, <1>6, <1>7, <1>8, <1>9, <1>10

\* A service that is registered is of the device and in its list; nobody's copy of
\* the registry changes.
LEMMA SyncRegisterPreserves ==
  ASSUME NEW c \in Conns, IInv, SyncRegister(c)
  PROVE  IInv'
  <1> USE SessionAssumption, ThreadFacts
          DEF IInv, TypeOK, registries, perConn, sockets
  <1>0. /\ \E key \in FullNames, tool \in tools[c] :
              /\ key = FullName[<<device_id[c], tool>>]
              /\ services' = [services EXCEPT ![key] = [device |-> device_id[c], tool |-> tool]]
        /\ services' \in Table
        /\ device_id[c] \in Names
        /\ todo' \in [Conns -> SUBSET Tools] /\ \A b \in Conns : todo'[b] \subseteq todo[b]
        /\ tear' \in [Threads -> Teardown]
        /\ \A u \in Threads :
             /\ tear'[u].at = tear[u].at /\ tear'[u].dev = tear[u].dev
             /\ tear'[u].victim = tear[u].victim /\ tear'[u].kept = tear[u].kept
        /\ pc[Sync(c)] = "register" /\ tear[Sync(c)].at = "no"
        /\ \E label \in {"register", "except"} : pc' = [pc EXCEPT ![Sync(c)] = label]
        /\ UNCHANGED <<devices, device_id, tools, closed, gone, faults, loop>>
    <2> DEFINE key(tool) == KeyOf(device_id[c], tool)
               added(tool) == services[key(tool)] = NoService
    <2>1. PICK tool \in todo[c] :
            /\ services' = [services EXCEPT ![key(tool)] = [device |-> device_id[c], tool |-> tool]]
            /\ tear' = [t \in Threads |->
                         [tear[t] EXCEPT !.grew = @ \/ (tear[t].current /\ added(tool))]]
            /\ todo' = [todo EXCEPT ![c] = @ \ {tool}]
      BY DEF SyncRegister
    <2>2. device_id[c] \in Names /\ tool \in tools[c] /\ tool \in Tools
      BY DEF Identified, SyncRegister, At
    <2>3. key(tool) \in FullNames /\ key(tool) = FullName[<<device_id[c], tool>>]
      BY <2>2 DEF KeyOf, FullNames
    <2>4. services' \in Table
      BY <2>1, <2>2, <2>3 DEF Table, Service
    <2>5. ASSUME NEW u \in Threads
          PROVE  /\ tear'[u] \in Teardown
                 /\ tear'[u].at = tear[u].at /\ tear'[u].dev = tear[u].dev
                 /\ tear'[u].victim = tear[u].victim /\ tear'[u].kept = tear[u].kept
      <3>1. tear[u] \in Teardown /\ (tear[u].grew \/ (tear[u].current /\ added(tool))) \in BOOLEAN
        OBVIOUS
      <3>2. tear'[u] = [tear[u] EXCEPT !.grew = @ \/ (tear[u].current /\ added(tool))]
        BY <2>1
      <3>3. tear'[u] \in Teardown
        <4> DEFINE grew == tear[u].grew \/ (tear[u].current /\ added(tool))
        <4>1. grew \in BOOLEAN /\ tear'[u] = [tear[u] EXCEPT !.grew = grew]
          BY <3>1, <3>2
        <4> HIDE DEF grew
        <4>2. tear[u] \in Teardown
          BY <3>1
        <4>3. [tear[u] EXCEPT !.grew = grew] \in Teardown
          BY <4>1, <4>2, TeardownMarks
        <4> QED
          BY <4>1, <4>3
      <3> QED
        BY <3>1, <3>2, <3>3 DEF Teardown
    <2>6. tear' \in [Threads -> Teardown]
      BY <2>1, <2>5
    <2>7. todo' \in [Conns -> SUBSET Tools] /\ \A b \in Conns : todo'[b] \subseteq todo[b]
      BY <2>1
    <2>8. /\ pc[Sync(c)] = "register" /\ tear[Sync(c)].at = "no"
          /\ \E label \in {"register", "except"} : pc' = [pc EXCEPT ![Sync(c)] = label]
          /\ UNCHANGED <<devices, device_id, tools, closed, gone, faults, loop>>
      BY DEF SyncRegister, At, Goto
    <2> QED
      BY <2>1, <2>2, <2>3, <2>4, <2>5, <2>6, <2>7, <2>8
  <1>1. TypeOK'
    BY <1>0 DEF SyncLabels, ReaderLabels, LoopLabels
  <1>2. Identified'
    BY <1>0 DEF Identified
  <1>3. Keyed'
    BY <1>0 DEF Keyed, PastStore
  <1>4. LoopHolds'
    BY <1>0 DEF LoopHolds
  <1>5. Faithful(services)' /\ CopiesFaithful'
    <2>1. PICK key \in FullNames, tool \in tools[c] :
            /\ key = FullName[<<device_id[c], tool>>]
            /\ services' = [services EXCEPT ![key] = [device |-> device_id[c], tool |-> tool]]
      BY <1>0
    <2>2. ASSUME NEW k \in FullNames, services'[k] # NoService
          PROVE  /\ k = FullName[<<services'[k].device, services'[k].tool>>]
                 /\ \E b \in Conns : device_id[b] = services'[k].device
                                      /\ services'[k].tool \in tools[b]
      <3>1. CASE k = key
        <4>1. services'[k] = [device |-> device_id[c], tool |-> tool]
          BY <2>1, <3>1 DEF Table
        <4>2. services'[k].device = device_id[c] /\ services'[k].tool = tool
          BY <4>1
        <4>3. k = FullName[<<services'[k].device, services'[k].tool>>]
          BY <2>1, <3>1, <4>2
        <4>4. device_id[c] = services'[k].device /\ services'[k].tool \in tools[c]
          BY <2>1, <4>2
        <4> QED
          BY <4>3, <4>4, Zenon
      <3>2. CASE k # key
        <4>1. services'[k] = services[k]
          BY <2>1, <3>2 DEF Table
        <4> QED
          BY <2>2, <4>1 DEF Faithful, Listed
      <3> QED
        BY <3>1, <3>2
    <2>3. Faithful(services)'
      BY <1>0, <2>2 DEF Faithful, Listed
    <2>4. CopiesFaithful'
      BY <1>0, CopiesKept
    <2> QED
      BY <2>3, <2>4
  <1>6. TearingHas'
    BY <1>0 DEF TearingHas
  <1>7. TearingAt'
    BY <1>0 DEF TearingAt
  <1>8. VictimsGone'
    <2>1. \A b \in Conns : pc[Sync(b)] \in PastStore => pc'[Sync(b)] \in PastStore
      BY <1>0 DEF PastStore
    <2> SUFFICES ASSUME NEW u \in Threads, NEW v \in Conns, tear'[u].victim = v
                 PROVE  pc'[Sync(v)] \in PastStore /\ \A d \in Names : devices'[d] # v
      BY DEF VictimsGone, PastStore
    <2> QED
      BY <1>0, <2>1 DEF VictimsGone
  <1>9. ClosedPastStore' /\ ClosedByOwnReader'
    BY <1>0 DEF ClosedPastStore, ClosedByOwnReader, PastStore
  <1>10. FailedLeaves'
    BY <1>0 DEF FailedLeaves
  <1> HIDE DEF TypeOK
  <1> QED
    BY <1>1, <1>2, <1>3, <1>4, <1>5, <1>6, <1>7, <1>8, <1>9, <1>10

\* The except branch starts a teardown in the sync thread, or does nothing: a
\* connection without a device id is not registered.
LEMMA SyncExceptPreserves ==
  ASSUME NEW c \in Conns, IInv, SyncExcept(c)
  PROVE  IInv'
  <1> USE SessionAssumption, ThreadFacts
          DEF IInv, TypeOK, SyncExcept, At, Goto, registries, perConn, sockets
  <1>0. /\ tear' \in [Threads -> Teardown]
        /\ \A u \in Threads : u # Sync(c) => tear'[u] = tear[u]
        /\ \A u \in Threads : /\ tear'[u].victim = tear[u].victim
                               /\ tear'[u].kept = tear[u].kept
        /\ device_id[c] = NoName => tear' = tear
        /\ device_id[c] # NoName =>
             /\ device_id[c] \in Names
             /\ tear'[Sync(c)].at = "pop"
             /\ tear'[Sync(c)].dev = device_id[c]
    BY OnErrorEffect
  <1>1. TypeOK'
    BY <1>0 DEF SyncLabels, ReaderLabels, LoopLabels
  <1>2. Identified'
    BY <1>0 DEF Identified
  <1>3. Keyed'
    BY <1>0 DEF Keyed, PastStore
  <1>4. LoopHolds'
    BY <1>0 DEF LoopHolds
  <1>5. Faithful(services)' /\ CopiesFaithful'
    BY <1>0, ContentsKept
  <1>6. TearingHas'
    BY <1>0 DEF TearingHas
  <1>7. TearingAt'
    <2>1. CASE device_id[c] = NoName
      BY ZenonT(60), <1>0, <2>1 DEF TearingAt
    <2>2. CASE device_id[c] # NoName
      BY <1>0, <2>2 DEF TearingAt
    <2> QED
      BY <2>1, <2>2
  <1>8. VictimsGone'
    BY <1>0 DEF VictimsGone, PastStore
  <1>9. ClosedPastStore' /\ ClosedByOwnReader'
    BY <1>0 DEF ClosedPastStore, ClosedByOwnReader, PastStore
  <1>10. FailedLeaves'
    BY <1>0 DEF FailedLeaves, Keyed
  <1> HIDE DEF TypeOK
  <1> QED
    BY <1>1, <1>2, <1>3, <1>4, <1>5, <1>6, <1>7, <1>8, <1>9, <1>10

\* The reader closes its own connection.
LEMMA ReaderEofPreserves ==
  ASSUME NEW c \in Conns, IInv, ReaderEof(c)
  PROVE  IInv'
  <1> USE SessionAssumption, ThreadFacts
          DEF IInv, TypeOK, ReaderEof, At, Goto, registries, perConn, sockets
  <1>1. TypeOK'
    BY DEF SyncLabels, ReaderLabels, LoopLabels
  <1>2. Identified'
    BY DEF Identified
  <1>3. Keyed'
    BY DEF Keyed, PastStore
  <1>4. LoopHolds'
    BY DEF LoopHolds
  <1>5. Faithful(services)' /\ CopiesFaithful'
    BY ContentsKept
  <1>6. TearingHas'
    BY DEF TearingHas
  <1>7. TearingAt'
    BY DEF TearingAt
  <1>8. VictimsGone'
    BY DEF VictimsGone, PastStore
  <1>9. ClosedPastStore' /\ ClosedByOwnReader'
    BY DEF ClosedPastStore, ClosedByOwnReader, PastStore
  <1>10. FailedLeaves'
    BY DEF FailedLeaves
  <1> HIDE DEF TypeOK
  <1> QED
    BY <1>1, <1>2, <1>3, <1>4, <1>5, <1>6, <1>7, <1>8, <1>9, <1>10

\* A reader that fails starts a teardown, or its sync thread is not that far.
LEMMA ReaderRecvErrorPreserves ==
  ASSUME NEW c \in Conns, IInv, ReaderRecvError(c)
  PROVE  IInv'
  <1> USE SessionAssumption, ThreadFacts
          DEF IInv, TypeOK, registries, perConn, sockets
  <1>0. /\ tear' \in [Threads -> Teardown]
        /\ \A u \in Threads : u # Reader(c) => tear'[u] = tear[u]
        /\ \A u \in Threads : /\ tear'[u].victim = tear[u].victim
                               /\ tear'[u].kept = tear[u].kept
        /\ device_id[c] = NoName => tear' = tear
        /\ device_id[c] # NoName =>
             /\ device_id[c] \in Names
             /\ tear'[Reader(c)].at = "pop"
             /\ tear'[Reader(c)].dev = device_id[c]
    BY OnErrorEffect DEF ReaderRecvError
  <1>a. /\ pc[Reader(c)] \in {"recv", "recvError"} /\ tear[Reader(c)].at = "no"
         /\ pc' = [pc EXCEPT ![Reader(c)] = "failing"]
         /\ UNCHANGED <<devices, services, device_id, tools, todo, closed, gone, faults, loop>>
    BY DEF ReaderRecvError, At, Goto
  <1>1. TypeOK'
    BY <1>0, <1>a DEF SyncLabels, ReaderLabels, LoopLabels
  <1>2. Identified'
    BY <1>0, <1>a DEF Identified
  <1>3. Keyed'
    BY <1>0, <1>a DEF Keyed, PastStore
  <1>4. LoopHolds'
    BY <1>0, <1>a DEF LoopHolds
  <1>5. Faithful(services)' /\ CopiesFaithful'
    BY <1>0, <1>a, ContentsKept
  <1>6. TearingHas'
    BY <1>0, <1>a DEF TearingHas
  <1>7. TearingAt'
    BY <1>0, <1>a DEF TearingAt
  <1>8. VictimsGone'
    BY <1>0, <1>a DEF VictimsGone, PastStore
  <1>9. ClosedPastStore' /\ ClosedByOwnReader'
    BY <1>0, <1>a DEF ClosedPastStore, ClosedByOwnReader, PastStore
  <1>10. FailedLeaves'
    BY <1>0, <1>a DEF FailedLeaves, Identified
  <1> HIDE DEF TypeOK
  <1> QED
    BY <1>1, <1>2, <1>3, <1>4, <1>5, <1>6, <1>7, <1>8, <1>9, <1>10

\* The finally clause follows the teardown.
LEMMA ReaderClosePreserves ==
  ASSUME NEW c \in Conns, IInv, ReaderClose(c)
  PROVE  IInv'
  <1> USE SessionAssumption, ThreadFacts
          DEF IInv, TypeOK, ReaderClose, At, Goto, registries, perConn, sockets
  <1>1. TypeOK'
    BY DEF SyncLabels, ReaderLabels, LoopLabels
  <1>2. Identified'
    BY DEF Identified
  <1>3. Keyed'
    BY DEF Keyed, PastStore
  <1>4. LoopHolds'
    BY DEF LoopHolds
  <1>5. Faithful(services)' /\ CopiesFaithful'
    BY ContentsKept
  <1>6. TearingHas'
    BY DEF TearingHas
  <1>7. TearingAt'
    BY DEF TearingAt
  <1>8. VictimsGone'
    BY DEF VictimsGone, PastStore
  <1>9. ClosedPastStore' /\ ClosedByOwnReader'
    BY DEF ClosedPastStore, ClosedByOwnReader, PastStore
  <1>10. FailedLeaves'
    BY DEF FailedLeaves
  <1> HIDE DEF TypeOK
  <1> QED
    BY <1>1, <1>2, <1>3, <1>4, <1>5, <1>6, <1>7, <1>8, <1>9, <1>10

\* The service that is found has the name it is filed under.
LEMMA CallLookupPreserves ==
  ASSUME NEW key \in FullNames, IInv, CallLookup(key)
  PROVE  IInv'
  <1> USE SessionAssumption, ThreadFacts
          DEF IInv, TypeOK, CallLookup, At, Goto, NoCall, registries, perConn, sockets
  <1>1. TypeOK'
    BY DEF SyncLabels, ReaderLabels, LoopLabels, Table
  <1>2. Identified'
    BY DEF Identified
  <1>3. Keyed'
    BY DEF Keyed, PastStore
  <1>4. LoopHolds'
    BY DEF LoopHolds, Faithful, Table
  <1>5. Faithful(services)' /\ CopiesFaithful'
    BY ContentsKept
  <1>6. TearingHas'
    BY DEF TearingHas
  <1>7. TearingAt'
    BY DEF TearingAt
  <1>8. VictimsGone'
    BY DEF VictimsGone, PastStore
  <1>9. ClosedPastStore' /\ ClosedByOwnReader'
    BY DEF ClosedPastStore, ClosedByOwnReader, PastStore
  <1>10. FailedLeaves'
    BY DEF FailedLeaves
  <1> HIDE DEF TypeOK
  <1> QED
    BY <1>1, <1>2, <1>3, <1>4, <1>5, <1>6, <1>7, <1>8, <1>9, <1>10

\* The connection that is found has the device id of the service.
LEMMA CallRoutePreserves ==
  ASSUME  IInv, CallRoute
  PROVE  IInv'
  <1> USE SessionAssumption, ThreadFacts
          DEF IInv, TypeOK
  <1>0. /\ loop.service \in Service /\ loop.service.device \in Names
        /\ \E c \in Conns : devices[loop.service.device] = c /\ loop' = [loop EXCEPT !.conn = c]
        /\ pc[Loop] = "route" /\ tear[Loop].at = "no" /\ pc' = [pc EXCEPT ![Loop] = "send"]
        /\ UNCHANGED <<devices, services, device_id, tools, todo, closed, gone, faults, tear>>
    BY DEF CallRoute, DeviceOfService, At, Goto, LoopHolds, Service, registries, perConn, sockets
  <1>1. TypeOK'
    BY <1>0 DEF SyncLabels, ReaderLabels, LoopLabels
  <1>2. Identified'
    BY <1>0 DEF Identified
  <1>3. Keyed'
    BY <1>0 DEF Keyed, PastStore
  <1>4. LoopHolds'
    BY <1>0 DEF LoopHolds, Keyed
  <1>5. Faithful(services)' /\ CopiesFaithful'
    BY <1>0, ContentsKept
  <1>6. TearingHas'
    BY <1>0 DEF TearingHas
  <1>7. TearingAt'
    BY <1>0 DEF TearingAt
  <1>8. VictimsGone'
    BY <1>0 DEF VictimsGone, PastStore
  <1>9. ClosedPastStore' /\ ClosedByOwnReader'
    BY <1>0 DEF ClosedPastStore, ClosedByOwnReader, PastStore
  <1>10. FailedLeaves'
    BY <1>0 DEF FailedLeaves
  <1> HIDE DEF TypeOK
  <1> QED
    BY <1>1, <1>2, <1>3, <1>4, <1>5, <1>6, <1>7, <1>8, <1>9, <1>10

\* A call that ends leaves nothing behind.
LEMMA CallNotConnectedPreserves ==
  ASSUME  IInv, CallNotConnected
  PROVE  IInv'
  <1> USE SessionAssumption, ThreadFacts
          DEF IInv, TypeOK, CallNotConnected, At, Goto, NoCall, registries, perConn, sockets
  <1>1. TypeOK'
    BY DEF SyncLabels, ReaderLabels, LoopLabels
  <1>2. Identified'
    BY DEF Identified
  <1>3. Keyed'
    BY DEF Keyed, PastStore
  <1>4. LoopHolds'
    BY DEF LoopHolds
  <1>5. Faithful(services)' /\ CopiesFaithful'
    BY ContentsKept
  <1>6. TearingHas'
    BY DEF TearingHas
  <1>7. TearingAt'
    BY DEF TearingAt
  <1>8. VictimsGone'
    BY DEF VictimsGone, PastStore
  <1>9. ClosedPastStore' /\ ClosedByOwnReader'
    BY DEF ClosedPastStore, ClosedByOwnReader, PastStore
  <1>10. FailedLeaves'
    BY DEF FailedLeaves
  <1> HIDE DEF TypeOK
  <1> QED
    BY <1>1, <1>2, <1>3, <1>4, <1>5, <1>6, <1>7, <1>8, <1>9, <1>10

\* Neither does one that is answered or times out.
LEMMA CallReturnPreserves ==
  ASSUME NEW labels, IInv, CallReturn(labels)
  PROVE  IInv'
  <1> USE SessionAssumption, ThreadFacts
          DEF IInv, TypeOK, CallReturn, At, Goto, NoCall, registries, perConn, sockets
  <1>1. TypeOK'
    BY DEF SyncLabels, ReaderLabels, LoopLabels
  <1>2. Identified'
    BY DEF Identified
  <1>3. Keyed'
    BY DEF Keyed, PastStore
  <1>4. LoopHolds'
    BY DEF LoopHolds
  <1>5. Faithful(services)' /\ CopiesFaithful'
    BY ContentsKept
  <1>6. TearingHas'
    BY DEF TearingHas
  <1>7. TearingAt'
    BY DEF TearingAt
  <1>8. VictimsGone'
    BY DEF VictimsGone, PastStore
  <1>9. ClosedPastStore' /\ ClosedByOwnReader'
    BY DEF ClosedPastStore, ClosedByOwnReader, PastStore
  <1>10. FailedLeaves'
    BY DEF FailedLeaves
  <1> HIDE DEF TypeOK
  <1> QED
    BY <1>1, <1>2, <1>3, <1>4, <1>5, <1>6, <1>7, <1>8, <1>9, <1>10

\* A request that cannot be sent starts a teardown in the event loop.
LEMMA CallSendPreserves ==
  ASSUME  IInv, CallSend
  PROVE  IInv'
  <1> USE SessionAssumption, ThreadFacts
          DEF IInv, TypeOK, CallSend, At, registries, perConn, sockets
  <1>a. loop.conn \in Conns
    BY DEF LoopHolds
  <1>0. /\ tear' \in [Threads -> Teardown]
        /\ \A u \in Threads : u # Loop => tear'[u] = tear[u] /\ pc'[u] = pc[u]
        /\ \A u \in Threads : /\ tear'[u].victim = tear[u].victim
                               /\ tear'[u].kept = tear[u].kept
        /\ pc'[Loop] \in {"wait", "lost"}
        /\ pc' \in [Threads -> SyncLabels \cup ReaderLabels \cup LoopLabels
                                \cup {"wait", "lost"}]
        /\ \/ tear' = tear
           \/ /\ pc'[Loop] = "lost"
              /\ device_id[loop.conn] \in Names
              /\ tear'[Loop].at = "pop"
              /\ tear'[Loop].dev = device_id[loop.conn]
    BY <1>a, SendEffect
  <1>1. TypeOK'
    BY <1>0 DEF SyncLabels, ReaderLabels, LoopLabels
  <1>2. Identified'
    BY <1>0 DEF Identified
  <1>3. Keyed'
    BY <1>0 DEF Keyed, PastStore
  <1>4. LoopHolds'
    BY <1>0 DEF LoopHolds
  <1>5. Faithful(services)' /\ CopiesFaithful'
    BY <1>0, ContentsKept
  <1>6. TearingHas'
    BY <1>0 DEF TearingHas
  <1>7. TearingAt'
    <2>1. CASE tear' = tear
      BY <1>0, <2>1 DEF TearingAt
    <2>2. CASE /\ tear'[Loop].at = "pop" /\ tear'[Loop].dev = device_id[loop.conn]
               /\ pc'[Loop] = "lost"
      BY <1>0, <2>2 DEF TearingAt
    <2> QED
      BY <1>0, <2>1, <2>2
  <1>8. VictimsGone'
    BY <1>0 DEF VictimsGone, PastStore
  <1>9. ClosedPastStore' /\ ClosedByOwnReader'
    BY <1>0 DEF ClosedPastStore, ClosedByOwnReader, PastStore
  <1>10. FailedLeaves'
    BY <1>0 DEF FailedLeaves
  <1> HIDE DEF TypeOK
  <1> QED
    BY <1>1, <1>2, <1>3, <1>4, <1>5, <1>6, <1>7, <1>8, <1>9, <1>10

\* The session that is popped was filed under this id only, and is past storing.
LEMMA RemovePopPreserves ==
  ASSUME NEW t \in Threads, IInv, RemovePop(t)
  PROVE  IInv'
  <1> USE SessionAssumption, ThreadFacts
          DEF IInv, TypeOK
  <1>0. /\ tear[t].at = "pop" /\ tear[t].dev \in Names
        /\ devices[tear[t].dev] \in Conns \cup {NoConn}
        /\ devices' = [devices EXCEPT ![tear[t].dev] = NoConn]
        /\ tear' \in [Threads -> Teardown]
        /\ \A u \in Threads : u # t => tear'[u] = tear[u]
        /\ tear'[t].at \in {"read", "close"}
        /\ tear'[t].at = "close" => devices[tear[t].dev] \in Conns
        /\ tear'[t].victim = devices[tear[t].dev]
        /\ \A u \in Threads : tear'[u].dev = tear[u].dev /\ tear'[u].kept = tear[u].kept
        /\ UNCHANGED <<services, device_id, tools, todo, closed, gone, faults, pc, loop>>
    <2> DEFINE victim == devices[tear[t].dev]
               at == IF victim = NoConn THEN "read" ELSE "close"
    <2>1. tear[t].at = "pop" /\ tear[t].dev \in Names /\ tear[t] \in Teardown
      BY DEF RemovePop, TearingHas
    <2>2. /\ victim \in Conns \cup {NoConn} /\ at \in {"read", "close"}
          /\ at = "close" => victim \in Conns
      BY <2>1
    <2>3. /\ tear' = [tear EXCEPT ![t].at = at, ![t].victim = victim]
          /\ devices' = [devices EXCEPT ![tear[t].dev] = NoConn]
          /\ UNCHANGED <<services, device_id, tools, todo, closed, gone, faults, pc, loop>>
      BY SMTT(30) DEF RemovePop, perConn, sockets
    <2> HIDE DEF at, victim
    <2>4. [tear[t] EXCEPT !.at = at, !.victim = victim] \in Teardown
      BY <2>1, <2>2, TeardownMoves
    <2>5. /\ tear' \in [Threads -> Teardown]
          /\ \A u \in Threads : u # t => tear'[u] = tear[u]
          /\ tear'[t] = [tear[t] EXCEPT !.at = at, !.victim = victim]
      <3>1. tear' = [tear EXCEPT ![t] = [tear[t] EXCEPT !.at = at, !.victim = victim]]
        BY <2>3, Zenon
      <3> QED
        BY <2>4, <3>1
    <2>6. /\ tear'[t].at = at /\ tear'[t].victim = victim
          /\ tear'[t].dev = tear[t].dev /\ tear'[t].kept = tear[t].kept
      BY <2>1, <2>5 DEF Teardown
    <2> QED
      BY <2>1, <2>2, <2>3, <2>5, <2>6 DEF victim
  <1>1. TypeOK'
    BY <1>0 DEF SyncLabels, ReaderLabels, LoopLabels
  <1>2. Identified'
    BY <1>0 DEF Identified
  <1>3. Keyed'
    BY <1>0 DEF Keyed, PastStore
  <1>4. LoopHolds'
    BY <1>0 DEF LoopHolds
  <1>5. Faithful(services)' /\ CopiesFaithful'
    BY <1>0, ContentsKept
  <1>6. TearingHas'
    <2>1. \A u \in Threads : tear'[u].at # "no" => tear'[u].dev \in Names
      BY <1>0 DEF TearingHas
    <2>2. \A u \in Threads : tear'[u].at = "close" => tear'[u].victim \in Conns
      BY <1>0 DEF TearingHas
    <2>3. \A c \in Conns : pc'[Sync(c)] = "close" => tear'[Sync(c)].victim \in Conns
      BY <1>0 DEF TearingHas, TearingAt
    <2> QED
      BY <2>1, <2>2, <2>3 DEF TearingHas
  <1>7. TearingAt'
    <2>1. /\ \A u \in Threads : tear'[u].at # "no" => tear[u].at # "no"
          /\ \A u \in Threads : tear'[u].dev = tear[u].dev
          /\ pc' = pc /\ device_id' = device_id
      BY <1>0
    <2>2. TearingAt
      OBVIOUS
    <2> QED
      BY ONLY <2>1, <2>2, ThreadFacts DEF TearingAt
  <1>8. VictimsGone'
    BY <1>0 DEF VictimsGone, PastStore, Keyed
  <1>9. ClosedPastStore' /\ ClosedByOwnReader'
    BY <1>0 DEF ClosedPastStore, ClosedByOwnReader, PastStore
  <1>10. FailedLeaves'
    BY SMTT(30), <1>0 DEF FailedLeaves, TearingAt, Keyed
  <1> HIDE DEF TypeOK
  <1> QED
    BY <1>1, <1>2, <1>3, <1>4, <1>5, <1>6, <1>7, <1>8, <1>9, <1>10

\* The session that is closed is registered no more.
LEMMA RemoveClosePreserves ==
  ASSUME NEW t \in Threads, IInv, RemoveClose(t)
  PROVE  IInv'
  <1> USE SessionAssumption, ThreadFacts
          DEF IInv, TypeOK
  <1>0. /\ tear[t].at = "close" /\ tear[t].victim \in Conns
        /\ closed' = [closed EXCEPT ![tear[t].victim] = TRUE]
        /\ tear' \in [Threads -> Teardown]
        /\ \A u \in Threads : u # t => tear'[u] = tear[u]
        /\ tear'[t].at = "read" /\ tear'[t].victim = NoConn
        /\ \A u \in Threads : tear'[u].dev = tear[u].dev /\ tear'[u].kept = tear[u].kept
        /\ UNCHANGED <<devices, services, device_id, tools, todo, gone, faults, pc, loop>>
    <2>1. /\ tear[t].at = "close" /\ tear[t].victim \in Conns /\ tear[t] \in Teardown
      BY SMTT(30) DEF RemoveClose, TearingHas
    <2>2. [tear[t] EXCEPT !.at = "read", !.victim = NoConn] \in Teardown
      BY <2>1, TeardownMoves
    <2>3. /\ tear' = [tear EXCEPT ![t] = [tear[t] EXCEPT !.at = "read", !.victim = NoConn]]
          /\ closed' = [closed EXCEPT ![tear[t].victim] = TRUE]
          /\ UNCHANGED <<devices, services, device_id, tools, todo, gone, faults, pc, loop>>
      BY ZenonT(60) DEF RemoveClose, registries, perConn
    <2>4. /\ tear' \in [Threads -> Teardown]
          /\ \A u \in Threads : u # t => tear'[u] = tear[u]
          /\ tear'[t] = [tear[t] EXCEPT !.at = "read", !.victim = NoConn]
      BY <2>2, <2>3
    <2>5. /\ tear'[t].at = "read" /\ tear'[t].victim = NoConn
          /\ tear'[t].dev = tear[t].dev /\ tear'[t].kept = tear[t].kept
      BY <2>1, <2>4 DEF Teardown
    <2> QED
      BY <2>1, <2>3, <2>4, <2>5
  <1>a. \A u \in Threads, v \in Conns : tear'[u].victim = v => tear[u].victim = v
    BY <1>0
  <1>1. TypeOK'
    BY <1>0
  <1>2. Identified'
    BY <1>0 DEF Identified
  <1>3. Keyed'
    BY <1>0 DEF Keyed, PastStore
  <1>4. LoopHolds'
    BY <1>0 DEF LoopHolds
  <1>5. Faithful(services)' /\ CopiesFaithful'
    BY <1>0, ContentsKept
  <1>6. TearingHas'
    <2>1. \A u \in Threads : tear'[u].at # "no" => tear'[u].dev \in Names
      BY <1>0 DEF TearingHas
    <2>2. \A u \in Threads : tear'[u].at = "close" => tear'[u].victim \in Conns
      BY <1>0 DEF TearingHas
    <2>3. \A c \in Conns : pc'[Sync(c)] = "close" => tear'[Sync(c)].victim \in Conns
      BY <1>0 DEF TearingHas, TearingAt
    <2> QED
      BY <2>1, <2>2, <2>3 DEF TearingHas
  <1>7. TearingAt'
    BY ZenonT(60), <1>0 DEF TearingAt
  <1>8. VictimsGone'
    <2> SUFFICES ASSUME NEW u \in Threads, NEW v \in Conns, tear'[u].victim = v
                 PROVE  pc'[Sync(v)] \in PastStore /\ \A d \in Names : devices'[d] # v
      BY DEF VictimsGone, PastStore
    <2> QED
      BY <1>0, <1>a DEF VictimsGone
  <1>9. ClosedPastStore' /\ ClosedByOwnReader'
    <2>1. \A c \in Conns : closed'[c] => closed[c] \/ c = tear[t].victim
      BY <1>0
    <2>2. pc[Sync(tear[t].victim)] \in PastStore /\ \A d \in Names : devices[d] # tear[t].victim
      BY <1>0 DEF VictimsGone
    <2>3. ClosedPastStore'
      BY <1>0, <2>1, <2>2 DEF ClosedPastStore
    <2>4. ClosedByOwnReader'
      BY <1>0, <2>1, <2>2 DEF ClosedByOwnReader
    <2> QED
      BY <2>3, <2>4
  <1>10. FailedLeaves'
    BY <1>0 DEF FailedLeaves
  <1> HIDE DEF TypeOK
  <1> QED
    BY <1>1, <1>2, <1>3, <1>4, <1>5, <1>6, <1>7, <1>8, <1>9, <1>10

\* The copy holds nothing the registry does not hold.
LEMMA UnregisterReadPreserves ==
  ASSUME NEW t \in Threads, IInv, UnregisterRead(t)
  PROVE  IInv'
  <1> USE SessionAssumption, ThreadFacts
          DEF IInv, TypeOK
  <1>0. /\ tear' \in [Threads -> Teardown]
        /\ tear[t].at = "read" /\ tear'[t].at = "write"
        /\ \A u \in Threads : u # t => tear'[u] = tear[u]
        /\ \A u \in Threads : tear'[u].dev = tear[u].dev /\ tear'[u].victim = tear[u].victim
        /\ tear'[t].kept \in Table
        /\ \A k \in FullNames : tear'[t].kept[k] \in {services[k], NoService}
        /\ UNCHANGED <<devices, services, device_id, tools, todo, closed, gone, faults, pc, loop>>
    <2> DEFINE kept == [k \in FullNames |->
                          IF services[k] # NoService /\ services[k].device = tear[t].dev
                          THEN NoService ELSE services[k]]
    <2>1. kept \in Table /\ \A k \in FullNames : kept[k] \in {services[k], NoService}
      BY DEF Table
    <2>2. /\ tear' = [tear EXCEPT ![t] = [tear[t] EXCEPT !.at = "write", !.kept = kept,
                                                        !.current = TRUE]]
          /\ tear[t].at = "read"
          /\ UNCHANGED <<devices, services, device_id, tools, todo, closed, gone, faults, pc, loop>>
      BY ZenonT(60) DEF UnregisterRead, registries, perConn, sockets
    <2> HIDE DEF kept
    <2>3. tear[t] \in Teardown
      OBVIOUS
    <2>4. [tear[t] EXCEPT !.at = "write", !.kept = kept, !.current = TRUE] \in Teardown
      BY <2>1, <2>3, TeardownReads
    <2>5. /\ tear' \in [Threads -> Teardown]
          /\ \A u \in Threads : u # t => tear'[u] = tear[u]
          /\ tear'[t] = [tear[t] EXCEPT !.at = "write", !.kept = kept, !.current = TRUE]
      BY <2>2, <2>4
    <2>6. /\ tear'[t].at = "write" /\ tear'[t].dev = tear[t].dev
          /\ tear'[t].victim = tear[t].victim /\ tear'[t].kept = kept
      BY <2>3, <2>5 DEF Teardown
    <2> QED
      BY <2>1, <2>2, <2>5, <2>6
  <1>1. TypeOK'
    BY <1>0
  <1>2. Identified'
    BY <1>0 DEF Identified
  <1>3. Keyed'
    BY <1>0 DEF Keyed, PastStore
  <1>4. LoopHolds'
    BY <1>0 DEF LoopHolds
  <1>5. Faithful(services)' /\ CopiesFaithful'
    <2>1. ASSUME NEW table \in Table, \A k \in FullNames : table[k] \in {services[k], NoService}
          PROVE  Faithful(table)
      BY <2>1 DEF Faithful
    <2>2. \A u \in Threads : Faithful(tear'[u].kept)
      BY <1>0, <2>1 DEF CopiesFaithful
    <2>3. Faithful(services)' /\ CopiesFaithful'
      BY <1>0, <2>2 DEF CopiesFaithful, Faithful, Listed
    <2> QED
      BY <2>3
  <1>6. TearingHas'
    BY <1>0 DEF TearingHas
  <1>7. TearingAt'
    BY ZenonT(60), <1>0 DEF TearingAt
  <1>8. VictimsGone'
    BY <1>0 DEF VictimsGone, PastStore
  <1>9. ClosedPastStore' /\ ClosedByOwnReader'
    BY <1>0 DEF ClosedPastStore, ClosedByOwnReader, PastStore
  <1>10. FailedLeaves'
    BY <1>0 DEF FailedLeaves
  <1> HIDE DEF TypeOK
  <1> QED
    BY <1>1, <1>2, <1>3, <1>4, <1>5, <1>6, <1>7, <1>8, <1>9, <1>10

\* The copy becomes the registry.
LEMMA UnregisterWritePreserves ==
  ASSUME NEW t \in Threads, IInv, UnregisterWrite(t)
  PROVE  IInv'
  <1> USE SessionAssumption, ThreadFacts
          DEF IInv, TypeOK
  <1>0. /\ tear' \in [Threads -> Teardown]
        /\ tear[t].at = "write" /\ tear'[t].kept = NoTear.kept
        /\ tear'[t].at = "no" /\ tear'[t].victim = NoConn
        /\ \A u \in Threads : u # t =>
             /\ tear'[u].at = tear[u].at /\ tear'[u].dev = tear[u].dev
             /\ tear'[u].victim = tear[u].victim /\ tear'[u].kept = tear[u].kept
        /\ services' = tear[t].kept /\ tear[t].kept \in Table
        /\ UNCHANGED <<devices, device_id, tools, todo, closed, gone, faults, pc, loop>>
    <2>1. /\ tear' = [u \in Threads |-> IF u = t THEN NoTear
                                         ELSE [tear[u] EXCEPT !.current = FALSE]]
          /\ services' = tear[t].kept /\ tear[t].at = "write"
          /\ UNCHANGED <<devices, device_id, tools, todo, closed, gone, faults, pc, loop>>
      BY DEF UnregisterWrite, perConn, sockets
    <2>2. ASSUME NEW u \in Threads, u # t
          PROVE  /\ tear'[u] \in Teardown
                 /\ tear'[u].at = tear[u].at /\ tear'[u].dev = tear[u].dev
                 /\ tear'[u].victim = tear[u].victim /\ tear'[u].kept = tear[u].kept
      <3>1. tear[u] \in Teardown /\ tear'[u] = [tear[u] EXCEPT !.current = FALSE]
        BY <2>1, <2>2
      <3> QED
        BY <3>1 DEF Teardown
    <2>3. tear'[t] = NoTear
      BY <2>1
    <2>4. tear' \in [Threads -> Teardown]
      BY <2>1, <2>2, <2>3, NoTearFits
    <2>5. tear'[t].at = "no" /\ tear'[t].victim = NoConn /\ tear'[t].kept = NoTear.kept
      BY <2>3 DEF NoTear
    <2>6. tear[t].kept \in Table
      BY DEF Teardown
    <2> QED
      BY <2>1, <2>2, <2>4, <2>5, <2>6
  <1>1. TypeOK'
    BY <1>0
  <1>2. Identified'
    BY <1>0 DEF Identified
  <1>3. Keyed'
    BY <1>0 DEF Keyed, PastStore
  <1>4. LoopHolds'
    BY <1>0 DEF LoopHolds
  <1>5. Faithful(services)' /\ CopiesFaithful'
    <2>1. Faithful(tear[t].kept) /\ Faithful(NoTear.kept)
      BY DEF CopiesFaithful, Faithful, NoTear
    <2>2. \A u \in Threads : Faithful(tear'[u].kept)
      BY <1>0, <2>1 DEF CopiesFaithful
    <2>3. Faithful(services)' /\ CopiesFaithful'
      BY <1>0, <2>1, <2>2 DEF CopiesFaithful, Faithful, Listed
    <2> QED
      BY <2>3
  <1>6. TearingHas'
    <2>1. \A u \in Threads : tear'[u].at # "no" => tear'[u].dev \in Names
      BY <1>0 DEF TearingHas
    <2>2. \A u \in Threads : tear'[u].at = "close" => tear'[u].victim \in Conns
      BY <1>0 DEF TearingHas
    <2>3. \A c \in Conns : pc'[Sync(c)] = "close" => tear'[Sync(c)].victim \in Conns
      BY <1>0 DEF TearingHas, TearingAt
    <2> QED
      BY <2>1, <2>2, <2>3 DEF TearingHas
  <1>7. TearingAt'
    BY ZenonT(60), <1>0 DEF TearingAt
  <1>8. VictimsGone'
    BY <1>0 DEF VictimsGone, PastStore
  <1>9. ClosedPastStore' /\ ClosedByOwnReader'
    BY <1>0 DEF ClosedPastStore, ClosedByOwnReader, PastStore
  <1>10. FailedLeaves'
    BY <1>0 DEF FailedLeaves
  <1> HIDE DEF TypeOK
  <1> QED
    BY <1>1, <1>2, <1>3, <1>4, <1>5, <1>6, <1>7, <1>8, <1>9, <1>10

\* A teardown that raises has popped and closed its session before.
LEMMA UnregisterRaisesPreserves ==
  ASSUME NEW t \in Threads, IInv, UnregisterRaises(t)
  PROVE  IInv'
  <1> USE SessionAssumption, ThreadFacts
          DEF IInv, TypeOK
  <1>0. /\ tear' \in [Threads -> Teardown]
        /\ tear[t].at = "write" /\ tear'[t].kept = NoTear.kept
        /\ tear'[t].at = "no" /\ tear'[t].victim = NoConn
        /\ \A u \in Threads : u # t => tear'[u] = tear[u] /\ pc'[u] = pc[u]
        /\ pc' \in [Threads -> SyncLabels \cup ReaderLabels \cup LoopLabels]
        /\ t = Loop => pc'[Loop] = "idle" /\ loop' = NoCall
        /\ t # Loop => loop' = loop
        /\ \A c \in Conns : t = Sync(c) =>
             <<pc[t], pc'[t]>> \in {<<"listLost", "except">>, <<"failed", "failed">>}
        /\ \A c \in Conns : t = Reader(c) =>
             <<pc[t], pc'[t]>> \in {<<"recv", "recvError">>, <<"failing", "failing">>}
        /\ UNCHANGED <<devices, services, device_id, tools, todo, closed, gone, faults>>
    <2>1. /\ tear' = [tear EXCEPT ![t] = NoTear]
          /\ tear[t].at = "write"
          /\ pc' = [pc EXCEPT ![t] = AfterRaise(pc[t])]
          /\ loop' = IF t = Loop THEN NoCall ELSE loop
          /\ UNCHANGED <<devices, services, device_id, tools, todo, closed, gone, faults>>
      BY DEF UnregisterRaises, Goto, registries, perConn, sockets
    <2>2. /\ tear' \in [Threads -> Teardown]
          /\ tear'[t].kept = NoTear.kept /\ tear'[t].at = "no" /\ tear'[t].victim = NoConn
          /\ \A u \in Threads : u # t => tear'[u] = tear[u]
      <3>1. tear' \in [Threads -> Teardown] /\ tear'[t] = NoTear
            /\ \A u \in Threads : u # t => tear'[u] = tear[u]
        BY <2>1, NoTearFits
      <3> QED
        BY <3>1 DEF NoTear
    <2>3. /\ t = Loop => pc[t] = "lost"
          /\ \A c \in Conns : t = Sync(c) => pc[t] \in {"listLost", "failed"}
          /\ \A c \in Conns : t = Reader(c) => pc[t] \in {"recv", "failing"}
      BY <2>1 DEF TearingAt
    <2>4. /\ pc'[t] = AfterRaise(pc[t])
          /\ \A u \in Threads : u # t => pc'[u] = pc[u]
      BY <2>1
    <2>5. AfterRaise(pc[t]) \in SyncLabels \cup ReaderLabels \cup LoopLabels
      BY <2>3 DEF AfterRaise, SyncLabels, ReaderLabels, LoopLabels
    <2>6. pc' \in [Threads -> SyncLabels \cup ReaderLabels \cup LoopLabels]
      BY <2>1, <2>5
    <2>7. /\ t = Loop => pc'[Loop] = "idle"
          /\ \A c \in Conns : t = Sync(c) =>
               <<pc[t], pc'[t]>> \in {<<"listLost", "except">>, <<"failed", "failed">>}
          /\ \A c \in Conns : t = Reader(c) =>
               <<pc[t], pc'[t]>> \in {<<"recv", "recvError">>, <<"failing", "failing">>}
      BY <2>3, <2>4 DEF AfterRaise
    <2> QED
      BY <2>1, <2>2, <2>4, <2>6, <2>7
  <1>1. TypeOK'
    BY <1>0 DEF SyncLabels, ReaderLabels, LoopLabels, NoCall
  <1>2. Identified'
    BY <1>0 DEF Identified
  <1>3. Keyed'
    BY <1>0 DEF Keyed, PastStore
  <1>4. LoopHolds'
    BY <1>0 DEF LoopHolds
  <1>5. Faithful(services)' /\ CopiesFaithful'
    <2>0. Faithful(NoTear.kept)
      BY DEF Faithful, NoTear
    <2>1. \A u \in Threads : Faithful(tear'[u].kept)
      BY <1>0, <2>0 DEF CopiesFaithful
    <2> QED
      BY <1>0, <2>1 DEF CopiesFaithful, Faithful, Listed
  <1>6. TearingHas'
    <2>1. \A u \in Threads : tear'[u].at # "no" => tear'[u].dev \in Names
      BY <1>0 DEF TearingHas
    <2>2. \A u \in Threads : tear'[u].at = "close" => tear'[u].victim \in Conns
      BY <1>0 DEF TearingHas
    <2>3. \A c \in Conns : pc'[Sync(c)] = "close" => tear'[Sync(c)].victim \in Conns
      BY <1>0 DEF TearingHas, TearingAt
    <2> QED
      BY <2>1, <2>2, <2>3 DEF TearingHas
  <1>7. TearingAt'
    BY <1>0 DEF TearingAt
  <1>8. VictimsGone'
    BY <1>0 DEF VictimsGone, PastStore
  <1>9. ClosedPastStore' /\ ClosedByOwnReader'
    BY <1>0 DEF ClosedPastStore, ClosedByOwnReader, PastStore
  <1>10. FailedLeaves'
    BY <1>0 DEF FailedLeaves
  <1> HIDE DEF TypeOK
  <1> QED
    BY <1>1, <1>2, <1>3, <1>4, <1>5, <1>6, <1>7, <1>8, <1>9, <1>10

-----------------------------------------------------------------------------

\* No step of Next breaks the invariant.
LEMMA NextIInv == IInv /\ [Next]_vars => IInv'
  <1> SUFFICES ASSUME IInv, [Next]_vars PROVE IInv'
    OBVIOUS
  <1>1. ASSUME NEW t \in Threads, TeardownStep(t) PROVE IInv'
    BY <1>1, RemovePopPreserves, RemoveClosePreserves, UnregisterReadPreserves,
       UnregisterWritePreserves, UnregisterRaisesPreserves DEF TeardownStep
  <1>2. ASSUME NEW c \in Conns, HandleNewConnection(c) \/ HangUp(c) \/ ReaderBadLine(c)
        PROVE  IInv'
    BY <1>2, HandleNewConnectionPreserves, HangUpPreserves, ReaderBadLinePreserves
  <1>3. ASSUME NEW c \in Conns, SyncStep(c) PROVE IInv'
    BY <1>1, <1>3, ThreadFacts, SyncInitializedPreserves, SyncIdentifyPreserves,
       ReplacePopPreserves, ReplaceClosePreserves, ReplaceStorePreserves,
       SyncListPreserves, SyncListedPreserves, SyncRegisterPreserves,
       SyncDonePreserves, SyncTimeoutPreserves, SyncExceptPreserves DEF SyncStep
  <1>4. ASSUME NEW c \in Conns, ReaderStep(c) PROVE IInv'
    BY <1>1, <1>4, ThreadFacts, ReaderEofPreserves, ReaderRecvErrorPreserves,
       ReaderClosePreserves DEF ReaderStep
  <1>5. ASSUME NEW key \in Called, CallLookup(key) PROVE IInv'
    BY <1>5, SessionAssumption, CallLookupPreserves
  <1>6. ASSUME LoopStep PROVE IInv'
    BY <1>1, <1>6, ThreadFacts, CallRoutePreserves, CallNotConnectedPreserves,
       CallSendPreserves, CallReturnPreserves DEF LoopStep, CallAnswered, CallTimeout
  <1>7. ASSUME UNCHANGED vars PROVE IInv'
    BY <1>7
    DEF vars, IInv, TypeOK, Identified, Keyed, LoopHolds, Faithful, CopiesFaithful, Listed,
        TearingHas, TearingAt, VictimsGone, ClosedPastStore, ClosedByOwnReader, FailedLeaves
  <1> QED
    BY <1>2, <1>3, <1>4, <1>5, <1>6, <1>7 DEF Next

\* The inductive invariant is one.
THEOREM Invariant == Spec => []IInv
  BY InitIInv, NextIInv, PTL DEF Spec

\* Every variable keeps its type, and every thread its own labels.
THEOREM TypeCorrect == Spec => []TypeOK
  <1>1. IInv => TypeOK
    BY DEF IInv
  <1> QED
    BY <1>1, Invariant, PTL

\* call_tool: a tools/call goes to a connection that called itself by the device
\* id in the name that was called, whatever the sync threads, the readers and the
\* teardowns do to the two registries between its steps.
THEOREM CallsReachTheirDevice == Spec => []RouteFidelity
  <1>1. IInv => RouteFidelity
    BY DEF IInv, LoopHolds, RouteFidelity
  <1> QED
    BY <1>1, Invariant, PTL

\* DeviceRegistry: a session that can be looked up was closed by its own reader
\* or not at all, because both ways to close one pop it first.
THEOREM RegisteredSessionsOpen == Spec => []ClosedByOwnReader
  <1>1. IInv => ClosedByOwnReader
    BY DEF IInv
  <1> QED
    BY <1>1, Invariant, PTL

\* on_error and the except branch: a connection whose synchronisation failed, or
\* whose reader failed after a synchronisation that went through, is not registered.
THEOREM FailedConnectionsLeave == Spec => []DeadConnectionLeaves
  <1>1. ASSUME IInv, NEW c \in Conns, Dead(c)
        PROVE  \A d \in Names : devices[d] # c
    <2>1. CASE pc[Sync(c)] = "failed" /\ tear[Sync(c)].at # "pop"
      BY <1>1, <2>1 DEF IInv, FailedLeaves
    <2>2. CASE pc[Reader(c)] = "failed" /\ pc[Sync(c)] = "done"
      <3>1. tear[Reader(c)].at = "no"
        BY <1>1, <2>2 DEF IInv, TearingAt
      <3> QED
        BY <1>1, <2>2, <3>1 DEF IInv, FailedLeaves
    <2> QED
      BY <1>1, <2>1, <2>2 DEF Dead
  <1>2. IInv => DeadConnectionLeaves
    BY <1>1 DEF DeadConnectionLeaves
  <1> QED
    BY <1>2, Invariant, PTL

=============================================================================
