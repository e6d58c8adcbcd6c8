-------------------------- MODULE DeviceLinkProofs --------------------------
(***************************************************************************)
(* The link to a device implements the specification of the client, so     *)
(* that what is proved of the client holds at the end of every link, for   *)
(* any callers, calls, lines, and ways of cutting the stream.              *)
(***************************************************************************)
EXTENDS DeviceLink, JsonRpcClientProofs

\* The lines of the stream answer requests that were sent, or were unasked.
WrittenHonestly ==
    /\ written \in Seq(Line)
    /\ \A n \in DOMAIN written : written[n].id \in sent \cup StrayIds

\* Before the sync thread is started nobody calls and nothing is sent.
QuietBefore ==
    wiring # "synced" => /\ sent = {}
                         /\ \A t \in Callers : pc[t] = "idle"

\* What was dropped or handled begins in the part of the stream that was read, and
\* nothing is handled by the dummy callback.
LinesBehind ==
    /\ \A n \in dropped \cup handled : 3 * n - 2 <= received
    /\ wiring = "accepted" => handled = {}

LinkInv == LinkTypeOK /\ WrittenHonestly /\ QuietBefore /\ LinesBehind /\ NoAnswerDropped

LEMMA LinkInitInv == LinkInit => LinkInv
  <1> SUFFICES ASSUME LinkInit PROVE LinkInv
    OBVIOUS
  <1>1. LinkTypeOK
    BY LinkAssumption DEF LinkInit, LinkTypeOK
  <1> QED
    BY <1>1 DEF LinkInit, Init, LinkInv, WrittenHonestly, QuietBefore, LinesBehind, NoAnswerDropped

LEMMA LinkStepInv ==
    ASSUME LinkInv, [LinkNext]_<<vars, link>>
    PROVE  LinkInv'
  <1> USE LinkAssumption DEF LinkInv
  <1>1. CASE HandleNewConnection
    BY <1>1 DEF HandleNewConnection, vars, LinkTypeOK, WrittenHonestly, QuietBefore, LinesBehind, NoAnswerDropped
  <1>2. ASSUME NEW line \in Line, DeviceWrites(line)
        PROVE  LinkInv'
    <2>1. /\ written' \in Seq(Line)
          /\ Len(written') = Len(written) + 1
          /\ \A n \in DOMAIN written : written'[n] = written[n]
          /\ written'[Len(written) + 1] = line
      BY <1>2 DEF DeviceWrites, LinkTypeOK
    <2>2. LinkTypeOK'
      BY <1>2, <2>1 DEF DeviceWrites, LinkTypeOK
    <2>3. WrittenHonestly'
      BY <1>2, <2>1 DEF DeviceWrites, WrittenHonestly, vars
    <2>4. QuietBefore' /\ LinesBehind'
      BY <1>2 DEF DeviceWrites, vars, QuietBefore, LinesBehind
    <2>5. NoAnswerDropped'
      BY <1>2, <2>1 DEF DeviceWrites, NoAnswerDropped, LinkTypeOK
    <2> QED
      BY <2>2, <2>3, <2>4, <2>5
  <1>3. ASSUME NEW last \in received + 1 .. 3 * Len(written),
               RecvDropped(last) \/ RecvBlank(last) \/ RecvBad(last)
        PROVE  LinkInv'
    <2>1. /\ UNCHANGED <<wiring, written, sent, pc, handled>>
          /\ received' = last
          /\ open' \in BOOLEAN
          /\ \/ dropped' = dropped
             \/ /\ wiring = "accepted"
                /\ dropped' = dropped \cup {n \in DOMAIN written :
                                              {3 * n - 2, 3 * n - 1} \cap Chunk(last) # {}}
      BY <1>3 DEF RecvDropped, RecvBlank, RecvBad, Recv, ReadUpTo, vars, LinkTypeOK
    <2>2. received \in Nat /\ last \in Nat /\ received < last /\ last <= 3 * Len(written)
      BY DEF LinkTypeOK
    <2>3. \A n \in dropped' : n \in dropped \/ (n \in DOMAIN written /\ 3 * n - 2 <= last)
      BY <2>1, <2>2 DEF Chunk, LinkTypeOK
    <2>4. dropped' \subseteq 1 .. Len(written)
      BY <2>3 DEF LinkTypeOK
    <2>5. LinkTypeOK'
      BY <2>1, <2>2, <2>4 DEF LinkTypeOK, LinesBehind
    <2>6. LinesBehind'
      BY <2>1, <2>2, <2>3, <2>4 DEF LinkTypeOK, LinesBehind
    <2>7. NoAnswerDropped'
      BY <2>1, <2>4 DEF NoAnswerDropped, WrittenHonestly, QuietBefore
    <2> QED
      BY <2>1, <2>5, <2>6, <2>7 DEF WrittenHonestly, QuietBefore
  <1>4. ASSUME NEW last \in received + 1 .. 3 * Len(written), NEW n \in DOMAIN written, RecvLine(last, n)
        PROVE  LinkInv'
    <2>1. /\ UNCHANGED <<wiring, written, sent, pc, dropped, open>>
          /\ received' = last
          /\ handled' = handled \cup {n}
          /\ wiring # "accepted"
          /\ 3 * n - 2 \in Chunk(last)
      BY <1>4 DEF RecvLine, Recv, ReadUpTo, HandleText, callerVars, IsLine, Stripped
    <2>2. received \in Nat /\ last \in Nat /\ received < last /\ last <= 3 * Len(written)
      BY DEF LinkTypeOK
    <2>3. received < 3 * n - 2 /\ 3 * n - 2 <= last /\ n \in 1 .. Len(written)
      BY <2>1, <2>2 DEF Chunk, LinkTypeOK
    <2>4. n \notin dropped
      BY <2>2, <2>3 DEF LinesBehind, LinkTypeOK
    <2>5. LinkTypeOK'
      BY <2>1, <2>2, <2>3, <2>4 DEF LinkTypeOK
    <2>6. LinesBehind'
      BY <2>1, <2>2, <2>3 DEF LinkTypeOK, LinesBehind
    <2> QED
      BY <2>1, <2>5, <2>6 DEF WrittenHonestly, QuietBefore, NoAnswerDropped
  <1>5. ASSUME NEW t \in Callers, CallRegistered(t) \/ CallerGoesOn(t)
        PROVE  LinkInv'
    <2>1. wiring = "synced" /\ UNCHANGED link
      BY <1>5 DEF CallRegistered, SyncStarted, CallerGoesOn, CallerStep, CallSend, CallSendRaises,
           CallReturn, CallExpire, CallCleanup, QuietBefore
    <2>2. sent \subseteq sent'
      BY <1>5 DEF CallRegistered, CallRegister, CallerGoesOn, CallerStep, CallSend, CallSendRaises,
           CallReturn, CallExpire, CallCleanup
    <2> QED
      BY <2>1, <2>2 DEF link, LinkTypeOK, WrittenHonestly, QuietBefore, LinesBehind, NoAnswerDropped
  <1>6. CASE ReaderGoesOn
    BY <1>6 DEF ReaderGoesOn, ReaderStep, HandleTextStore, HandleTextSet, callerVars, link, LinkTypeOK,
         WrittenHonestly, QuietBefore, LinesBehind, NoAnswerDropped
  <1>7. CASE UNCHANGED <<vars, link>>
    BY <1>7 DEF vars, link, LinkTypeOK, WrittenHonestly, QuietBefore, LinesBehind, NoAnswerDropped
  <1> QED
    BY <1>1, <1>2, <1>3, <1>4, <1>5, <1>6, <1>7 DEF LinkNext

LEMMA LinkInvariant == LinkSpec => []LinkInv
  BY LinkInitInv, LinkStepInv, PTL DEF LinkSpec

\* Every step of the link is a step of the client or invisible to it: what on_bytes
\* hands to handle_text is a line the client expects, however the stream is cut.
LEMMA LinkStepIsClients ==
    ASSUME LinkInv, [LinkNext]_<<vars, link>>
    PROVE  [Next]_vars
  <1>1. ASSUME NEW last \in received + 1 .. 3 * Len(written), NEW n \in DOMAIN written, RecvLine(last, n)
        PROVE  Next
    <2>1. written[n] \in Line
      BY DEF LinkInv, WrittenHonestly
    <2> QED
      BY <1>1, <2>1 DEF RecvLine, Next
  <1>2. ASSUME NEW t \in Callers, CallRegistered(t) \/ CallerGoesOn(t)
        PROVE  Next
    BY <1>2 DEF CallRegistered, CallerGoesOn, Next
  <1> QED
    BY <1>1, <1>2 DEF LinkNext, HandleNewConnection, DeviceWrites, RecvDropped, RecvBlank, RecvBad,
         ReaderGoesOn, Next

\* The state of the link is well typed; no line is both dropped and handled.
THEOREM LinkTypeCorrect == LinkSpec => []LinkTypeOK
  <1>1. LinkInv => LinkTypeOK
    BY DEF LinkInv
  <1> QED
    BY <1>1, LinkInvariant, PTL

\* No answer is lost to the dummy callback the accept loop gives a connection.
THEOREM EarlyBytesHarmless == LinkSpec => []NoAnswerDropped
  <1>1. LinkInv => NoAnswerDropped
    BY DEF LinkInv
  <1> QED
    BY <1>1, LinkInvariant, PTL

\* The link implements the client's specification (MlinkMcpJsonRpcClient behind
\* on_bytes and send_bytes).
THEOREM LinkImplementsClient == LinkSpec => Spec
  <1>1. LinkInit => Init
    BY DEF LinkInit
  <1>2. LinkInv /\ [LinkNext]_<<vars, link>> => [Next]_vars
    BY LinkStepIsClients
  <1> QED
    BY <1>1, <1>2, LinkInvariant, PTL DEF LinkSpec, Spec

\* Hence a call over a link returns only the answer to its own request, and ends
\* once, although the stream is cut anywhere.
THEOREM LinkAnswersMatch == LinkSpec => []OwnResponse /\ ImplementsRpcCallsSafely
  BY LinkImplementsClient, AnswersMatchCalls, Refinement, PTL

-----------------------------------------------------------------------------
(* What the finding about cut lines takes. *)

\* Every recv returns one line and nothing else.
WholeLines == [][received' \in {received, received + 3}]_<<vars, link>>

\* The lines that were read are those that went to a callback.
ReadSoFar ==
    \E k \in Nat : received = 3 * k /\ 1 .. k \subseteq dropped \cup handled

\* A chunk that is one line is recognised as that line and as no other.
LEMMA ChunkOfLine ==
    ASSUME NEW k \in Nat, received = 3 * k
    PROVE  /\ IsLine(3 * k + 3, k + 1) /\ ~IsBlank(3 * k + 3)
           /\ \A n \in Nat : IsLine(3 * k + 3, n) => n = k + 1
  <1>1. /\ (3 * k + 1) % 3 = 1 /\ (3 * k + 2) % 3 = 2 /\ (3 * k + 3) % 3 = 0
        /\ Chunk(3 * k + 3) = {3 * k + 1, 3 * k + 2, 3 * k + 3}
    BY DEF Chunk
  <1>2. Stripped(3 * k + 3) = {3 * k + 1, 3 * k + 2}
    BY <1>1 DEF Stripped
  <1> QED
    BY <1>2 DEF IsLine, IsBlank

LEMMA ReadSoFarStep ==
    ASSUME LinkInv, ReadSoFar, [LinkNext]_<<vars, link>>,
           received' \in {received, received + 3}
    PROVE  ReadSoFar'
  <1>1. PICK k \in Nat : received = 3 * k /\ 1 .. k \subseteq dropped \cup handled
    BY DEF ReadSoFar
  <1>2. ASSUME received' = received, dropped \cup handled \subseteq (dropped \cup handled)'
        PROVE  ReadSoFar'
    BY <1>1, <1>2 DEF ReadSoFar
  <1>3. ASSUME NEW last \in received + 1 .. 3 * Len(written), received' = last,
               k + 1 \in DOMAIN written => k + 1 \in (dropped \cup handled)',
               dropped \cup handled \subseteq (dropped \cup handled)'
        PROVE  ReadSoFar'
    <2>1. last = 3 * (k + 1) /\ k + 1 \in 1 .. Len(written)
      BY <1>1, <1>3 DEF LinkInv, LinkTypeOK
    <2>2. 1 .. (k + 1) = (1 .. k) \cup {k + 1}
      BY <1>1
    <2>3. 1 .. (k + 1) \subseteq (dropped \cup handled)'
      BY <1>1, <1>3, <2>1, <2>2 DEF LinkInv, LinkTypeOK
    <2> QED
      BY <1>3, <2>1, <2>3 DEF ReadSoFar
  <1>4. ASSUME NEW last \in received + 1 .. 3 * Len(written),
               RecvDropped(last) \/ RecvBlank(last) \/ RecvBad(last)
        PROVE  ReadSoFar'
    <2>0. received' = last
      BY <1>4 DEF RecvDropped, RecvBlank, RecvBad, Recv, ReadUpTo
    <2>1. received' = last /\ last = 3 * k + 3
      BY <1>1, <2>0 DEF LinkInv, LinkTypeOK
    <2>2. IsLine(last, k + 1) /\ ~IsBlank(last)
      BY <1>1, <2>1, ChunkOfLine
    <2>3. k + 1 \in DOMAIN written
      BY <1>1, <2>1 DEF LinkInv, LinkTypeOK
    <2>4. RecvDropped(last)
      BY <1>4, <2>2, <2>3 DEF RecvBlank, RecvBad
    <2>5. 3 * (k + 1) - 2 \in Chunk(last)
      BY <1>1, <2>1 DEF Chunk
    <2> QED
      BY <1>3, <2>1, <2>3, <2>4, <2>5 DEF RecvDropped
  <1>5. ASSUME NEW last \in received + 1 .. 3 * Len(written), NEW n \in DOMAIN written,
               RecvLine(last, n)
        PROVE  ReadSoFar'
    <2>1. received' = last /\ last = 3 * k + 3 /\ IsLine(last, n) /\ n \in Nat
      BY <1>1, <1>5 DEF RecvLine, Recv, ReadUpTo, LinkInv, LinkTypeOK
    <2>2. n = k + 1
      BY <1>1, <2>1, ChunkOfLine
    <2> QED
      BY <1>3, <1>5, <2>1, <2>2 DEF RecvLine
  <1>6. CASE HandleNewConnection \/ \E line \in Line : DeviceWrites(line)
    BY <1>2, <1>6 DEF HandleNewConnection, DeviceWrites
  <1>7. CASE (\E t \in Callers : CallRegistered(t) \/ CallerGoesOn(t)) \/ ReaderGoesOn
             \/ UNCHANGED <<vars, link>>
    BY <1>2, <1>7 DEF CallRegistered, CallerGoesOn, ReaderGoesOn, link
  <1> QED
    BY <1>4, <1>5, <1>6, <1>7 DEF LinkNext

\* _reader_loop: handle_text is called for every full line, but for those that went to
\* the dummy callback, as long as every recv returns exactly one of them.
THEOREM WholeLinesHandled == LinkSpec /\ WholeLines => []EveryLineHandled
  <1>1. LinkInit => ReadSoFar
    BY DEF LinkInit, ReadSoFar
  <1>2. LinkInv /\ ReadSoFar /\ [LinkNext]_<<vars, link>>
          /\ [received' \in {received, received + 3}]_<<vars, link>> => ReadSoFar'
    <2> SUFFICES ASSUME LinkInv, ReadSoFar, [LinkNext]_<<vars, link>>,
                        [received' \in {received, received + 3}]_<<vars, link>>
                 PROVE  ReadSoFar'
      OBVIOUS
    <2>1. received' \in {received, received + 3}
      BY DEF link
    <2> QED
      BY <2>1, ReadSoFarStep
  <1>3. LinkInv /\ ReadSoFar => EveryLineHandled
    BY DEF LinkInv, LinkTypeOK, ReadSoFar, EveryLineHandled
  <1> QED
    BY <1>1, <1>2, <1>3, LinkInvariant, PTL DEF LinkSpec, WholeLines

=============================================================================
