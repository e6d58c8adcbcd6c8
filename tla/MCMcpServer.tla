---------------------------- MODULE MCMcpServer ----------------------------
(***************************************************************************)
(* Two threads; a device whose tool has another schema whenever it         *)
(* registers, perhaps one that FastMCP refuses; a device that gives its    *)
(* tool the name of a builtin one; and two clients.                        *)
(***************************************************************************)
EXTENDS McpServer

CONSTANTS t1, t2, s1, s2, v

MCThreads == {t1, t2}
MCSessions == {s1, s2}
MCTools == {"arm.move", "gateway.status"}
MCBuiltins == {"gateway.status"}
MCDevices == {"arm", "gateway"}
MCDeviceOf == [k \in MCTools |-> IF k = "arm.move" THEN "arm" ELSE "gateway"]
MCScalars == {Null, v}

\* "p" and "q", with and without a default; an object called "arguments"; the same
\* beside "q"; a name FastMCP refuses.
Plain == [required |-> {}, default |-> [n \in {"p", "q"} |-> IF n = "q" THEN v ELSE Null]]
Wrapping == [required |-> {"arguments"}, default |-> [n \in {} |-> Null]]
Beside == [required |-> {"arguments"}, default |-> [n \in {"q"} |-> Null]]
Bad == [required |-> {"_p"}, default |-> [n \in {} |-> Null]]
MCSchemas == {Plain, Wrapping, Beside, Bad}
MCOffers == ({"arm.move"} \X MCSchemas) \cup {<<"gateway.status", Plain>>}

\* Arguments with a null, as they are and in two wrappers.
Given == [p |-> v, q |-> Null]
Wrapped == [arguments |-> Given]
MCRequests == {"arm.move"} \X {Given, [arguments |-> Wrapped]}

MCObjects == {Given, Wrapped} \cup
    {Validated(schema, request[2]) :
        <<schema, request>> \in {sr \in (MCSchemas \cup {BuiltinSchema}) \X MCRequests :
                                   Accepts(sr[1], sr[2][2])}}
MCInnermost[o \in MCObjects] == IF IsWrapper(o) THEN MCInnermost[o["arguments"]] ELSE o

=============================================================================
