----------------------------- MODULE Directory -----------------------------
(***************************************************************************)
(* What the session handler, the registries and the router promise         *)
(* together (protocol/mlink_session.py, gateway/), although threads of     *)
(* many connections change the registries without a lock: a directory of   *)
(* devices.                                                                *)
(*                                                                         *)
(* A connection enters it once, under the one name it gave, and is not     *)
(* back once it is out.  An entry goes only because a connection of the    *)
(* same name failed or is about to enter, so that no device ever costs     *)
(* another one its entry.  What is in the directory is closed by nobody    *)
(* else.  The tools that are known are tools a connection of their device  *)
(* has listed, and a call goes to what the directory has under the name of *)
(* its tool's device when it is routed.  It is not promised that the       *)
(* connection that failed is the one whose entry goes, nor that all tools  *)
(* of the devices in the directory are known.                              *)
(* GatewaySession is shown to implement this specification.                *)
(***************************************************************************)

CONSTANTS
    Conns,      \* the connections
    Names,      \* the names of devices
    Tools,      \* the names devices give their tools
    FullName,   \* the full name of a tool of a device
    NoConn, NoName, NoService

VARIABLES
    name,       \* name[c]: the name connection c has given
    offered,    \* offered[c]: the tools it has listed
    failing,    \* the connections of which a failure is being dealt with
    ended,      \* the connections whose own reader closed them
    closed,     \* closed[c]: the connection is closed
    entered,    \* the connections that are, or have been, in the directory
    entry,      \* entry[d]: the connection under the name d
    known,      \* known[k]: the tool under the full name k
    call        \* the call under way: its tool, and where it goes

connections == <<name, offered, failing, ended, closed>>
directory == <<entered, entry>>
vars == <<connections, directory, known, call>>

FullNames == {FullName[p] : p \in Names \X Tools}
Services == [device : Names, tool : Tools]
NoCall == [name |-> NoService, service |-> NoService, conn |-> NoConn]

Init ==
    /\ name = [c \in Conns |-> NoName]
    /\ offered = [c \in Conns |-> {}]
    /\ failing = {}
    /\ ended = {}
    /\ closed = [c \in Conns |-> FALSE]
    /\ entered = {}
    /\ entry = [d \in Names |-> NoConn]
    /\ known = [k \in FullNames |-> NoService]
    /\ call = NoCall

-----------------------------------------------------------------------------
(* Connections. *)

Introduce(c) ==
    /\ name[c] = NoName
    /\ \E d \in Names : name' = [name EXCEPT ![c] = d]
    /\ UNCHANGED <<offered, failing, ended, closed, directory, known, call>>

List(c) ==
    /\ name[c] # NoName
    /\ \E page \in SUBSET Tools : offered' = [offered EXCEPT ![c] = @ \cup page]
    /\ UNCHANGED <<name, failing, ended, closed, directory, known, call>>

\* Nothing is done about a connection that fails before it has a name.
Fail(c) ==
    /\ name[c] # NoName
    /\ failing' = failing \cup {c}
    /\ UNCHANGED <<name, offered, ended, closed, directory, known, call>>

\* The reader of a connection may close it at any time ...
End(c) ==
    /\ closed' = [closed EXCEPT ![c] = TRUE]
    /\ ended' = ended \cup {c}
    /\ UNCHANGED <<name, offered, failing, directory, known, call>>

\* ... and everybody else once it has left the directory.
Close(c) ==
    /\ c \in entered
    /\ \A d \in Names : entry[d] # c
    /\ closed' = [closed EXCEPT ![c] = TRUE]
    /\ UNCHANGED <<name, offered, failing, ended, directory, known, call>>

-----------------------------------------------------------------------------
(* The directory. *)

Clear(c) == entry' = [entry EXCEPT ![name[c]] = NoConn]

MakeRoom(c) ==
    /\ name[c] # NoName
    /\ c \notin entered
    /\ Clear(c)
    /\ UNCHANGED <<connections, entered, known, call>>

Enter(c) ==
    /\ name[c] # NoName
    /\ c \notin entered
    /\ entered' = entered \cup {c}
    /\ entry' = [entry EXCEPT ![name[c]] = c]
    /\ UNCHANGED <<connections, known, call>>

\* Two threads may deal with failures of one connection.
Remove(c) ==
    /\ c \in failing
    /\ Clear(c)
    /\ failing' \in {failing, failing \ {c}}
    /\ UNCHANGED <<name, offered, ended, closed, entered, known, call>>

-----------------------------------------------------------------------------
(* Tools and calls. *)

ToolOf(c, tool) == [device |-> name[c], tool |-> tool]
IsOffered(k, service) ==
    \E c \in Conns : name[c] # NoName /\ \E tool \in offered[c] :
        service = ToolOf(c, tool) /\ k = FullName[<<name[c], tool>>]

Register(k) ==
    /\ \E c \in Conns : \E tool \in offered[c] :
        /\ k = FullName[<<name[c], tool>>]
        /\ known' = [known EXCEPT ![k] = ToolOf(c, tool)]
    /\ UNCHANGED <<connections, directory, call>>

\* A removal replaces all that is known, perhaps by what is out of date.
Unregister ==
    /\ known' \in [FullNames -> Services \cup {NoService}]
    /\ \A k \in FullNames : known'[k] # NoService => IsOffered(k, known'[k])
    /\ UNCHANGED <<connections, directory, call>>

LookUp(k) ==
    /\ call = NoCall
    /\ known[k] # NoService
    /\ call' = [name |-> k, service |-> known[k], conn |-> NoConn]
    /\ UNCHANGED <<connections, directory, known>>

Route ==
    /\ call # NoCall
    /\ call.conn = NoConn
    /\ entry[call.service.device] # NoConn
    /\ call' = [call EXCEPT !.conn = entry[call.service.device]]
    /\ UNCHANGED <<connections, directory, known>>

Return ==
    /\ call # NoCall
    /\ call' = NoCall
    /\ UNCHANGED <<connections, directory, known>>

-----------------------------------------------------------------------------

Next ==
    \/ \E c \in Conns :
        \/ Introduce(c) \/ List(c) \/ Fail(c) \/ End(c) \/ Close(c)
        \/ MakeRoom(c) \/ Enter(c) \/ Remove(c)
    \/ \E k \in FullNames : Register(k) \/ LookUp(k)
    \/ Unregister \/ Route \/ Return

Spec == Init /\ [][Next]_vars

=============================================================================
