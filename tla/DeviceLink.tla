----------------------------- MODULE DeviceLink -----------------------------
(***************************************************************************)
(* One device connection from accept to the JSON-RPC client                *)
(* (transport/*.py, the callbacks of protocol/mlink_session.py): the       *)
(* reader thread runs before the callbacks are set, and hands on whatever  *)
(* one recv returns as if it were one line.  JsonRpcClient is the client   *)
(* at the end of it, and every step of the link is one of the client's or  *)
(* invisible to it.                                                        *)
(*                                                                         *)
(* The device writes whole lines.  A line is three units of the stream, a  *)
(* first part, the rest, and the newline: unit 3n - 2, 3n - 1 and 3n are   *)
(* those of the n-th line.                                                 *)
(***************************************************************************)
EXTENDS JsonRpcClient, Sequences

CONSTANT MaxLines   \* bound on the lines the device writes

ASSUME LinkAssumption == MaxLines \in Nat

VARIABLES
    wiring,    \* how far accept and handle_new_connection are
    written,   \* the lines the device wrote
    received,  \* the number of units recv returned
    dropped,   \* the lines that went to the dummy callback
    handled,   \* the lines that went to handle_text
    open       \* the reader thread goes on

link == <<wiring, written, received, dropped, handled, open>>

LinkTypeOK ==
    /\ wiring \in {"accepted", "bytes", "error", "synced"}
    /\ written \in Seq(Line)
    /\ Len(written) <= MaxLines
    /\ received \in 0 .. 3 * Len(written)
    /\ dropped \cup handled \subseteq 1 .. Len(written)
    /\ dropped \cap handled = {}
    /\ open \in BOOLEAN

LinkInit ==
    /\ Init
    /\ wiring = "accepted"
    /\ written = <<>>
    /\ received = 0
    /\ dropped = {}
    /\ handled = {}
    /\ open = TRUE

-----------------------------------------------------------------------------

\* The accept loop has made the connection, whose constructor starts the reader
\* with a dummy callback; handle_new_connection sets _on_bytes, then _on_error,
\* and starts the sync thread last.
HandleNewConnection ==
    /\ \/ wiring = "accepted" /\ wiring' = "bytes"
       \/ wiring = "bytes" /\ wiring' = "error"
       \/ wiring = "error" /\ wiring' = "synced"
    /\ UNCHANGED <<vars, written, received, dropped, handled, open>>

\* Whether calls can be made; the faulty variant starts the sync thread first.
SyncAtOnce == TRUE
SyncStarted == wiring = "synced"

\* The device answers a request it has received, or writes a line unasked.
DeviceWrites(line) ==
    /\ Len(written) < MaxLines
    /\ line.id \in sent \cup StrayIds
    /\ written' = Append(written, line)
    /\ UNCHANGED <<vars, wiring, received, dropped, handled, open>>

\* What recv returns, and what strip leaves of it: it takes the newlines off the
\* ends, so that there is nothing, or the two parts of a line and nothing else.
Chunk(last) == received + 1 .. last
Stripped(last) == {u \in Chunk(last) : u % 3 # 0}
IsBlank(last) == Stripped(last) = {}
IsLine(last, n) == Stripped(last) = {3 * n - 2, 3 * n - 1}

\* How far the stream is read; the faulty variant takes the byte after the chunk
\* for its newline.
ReadBeyond(last) == last + 1
ReadUpTo(last) == last

\* The reader is at recv, which returns some of what the device has written.
Recv(last) ==
    /\ open
    /\ reader = ReaderIdle
    /\ received' = ReadUpTo(last)
    /\ UNCHANGED <<wiring, written>>

\* The dummy callback takes what comes too early.
RecvDropped(last) ==
    /\ wiring = "accepted"
    /\ Recv(last)
    /\ dropped' = dropped \cup {n \in DOMAIN written : {3 * n - 2, 3 * n - 1} \cap Chunk(last) # {}}
    /\ UNCHANGED <<vars, handled, open>>

\* on_bytes is given exactly one line ...
RecvLine(last, n) ==
    /\ wiring # "accepted"
    /\ IsLine(last, n)
    /\ Recv(last)
    /\ HandleText(written[n])
    /\ handled' = handled \cup {n}
    /\ UNCHANGED <<dropped, open>>

\* ... or newlines alone ...
RecvBlank(last) ==
    /\ wiring # "accepted"
    /\ IsBlank(last)
    /\ Recv(last)
    /\ UNCHANGED <<vars, dropped, handled, open>>

\* ... or anything else, on which json.loads raises: the error callback, if it is
\* set, closes the connection when the device has been registered.
RecvBad(last) ==
    /\ wiring # "accepted"
    /\ ~IsBlank(last) /\ \A n \in DOMAIN written : ~IsLine(last, n)
    /\ Recv(last)
    /\ open' \in IF wiring = "synced" THEN BOOLEAN ELSE {TRUE}
    /\ UNCHANGED <<vars, dropped, handled>>

\* The client beyond the link.
CallRegistered(t) == SyncStarted /\ CallRegister(t) /\ UNCHANGED link
CallerGoesOn(t) == CallerStep(t) /\ UNCHANGED link
ReaderGoesOn == ReaderStep /\ UNCHANGED link

-----------------------------------------------------------------------------

LinkNext ==
    \/ HandleNewConnection
    \/ \E line \in Line : DeviceWrites(line)
    \/ \E last \in received + 1 .. 3 * Len(written) :
        \/ RecvDropped(last) \/ RecvBlank(last) \/ RecvBad(last)
        \/ \E n \in DOMAIN written : RecvLine(last, n)
    \/ \E t \in Callers : CallRegistered(t) \/ CallerGoesOn(t)
    \/ ReaderGoesOn

LinkSpec == LinkInit /\ [][LinkNext]_<<vars, link>>

\* As for the client: threads inside _call and handle_text keep running.
LinkFairSpec ==
    /\ LinkSpec
    /\ \A t \in Callers : WF_<<vars, link>>(CallerGoesOn(t))
    /\ WF_<<vars, link>>(ReaderGoesOn)

-----------------------------------------------------------------------------
(* What holds. *)

\* What arrives before on_bytes is set is lost, but no answer is among it: calls
\* are made after the callbacks are set (handle_new_connection), so only lines
\* sent unasked go to the dummy callback of the accept loop.
NoAnswerDropped == \A n \in dropped : written[n].id \in StrayIds

-----------------------------------------------------------------------------
(* What the documentation says and the code does not do. *)

\* handle_text is called whenever a full line has been received.
EveryLineHandled ==
    open => \A n \in DOMAIN written : 3 * n <= received => n \in dropped \cup handled

=============================================================================
