----------------------------- MODULE Arguments -----------------------------
(***************************************************************************)
(* The arguments of a tool call on their way from an MCP client to a       *)
(* device: FastMCP checks them against the parameters that                 *)
(* register_service derived from the tool's schema (mcp/mcp_server.py),    *)
(* and the router normalises what is left (gateway/tool_router.py).        *)
(*                                                                         *)
(* An object is a function from names to values, and a value is a scalar   *)
(* or an object.  A schema has the properties it requires and the defaults *)
(* of the others, Null where it gives none.                                *)
(***************************************************************************)
EXTENDS Functions

CONSTANTS
    Null,       \* None in Python, null in JSON
    Scalars,    \* the values that are no objects
    BadNames    \* names that cannot be parameters of a FastMCP tool

ASSUME ArgumentsAssumption == Null \in Scalars

Params(schema) == schema.required \cup DOMAIN schema.default

\* add_tool raises for such a schema: a name that is no identifier, or that
\* begins with an underscore.
Refused(schema) == Params(schema) \cap BadNames # {}

\* What FastMCP does with the arguments of a call: an error unless the required
\* ones are there, defaults for the others, and names it does not know are dropped.
Accepts(schema, given) == schema.required \subseteq DOMAIN given
Validated(schema, given) ==
    [p \in Params(schema) |-> IF p \in DOMAIN given THEN given[p] ELSE schema.default[p]]

\* The condition of the loop in _normalize_arguments.
IsWrapper(o) == DOMAIN o = {"arguments"} /\ o["arguments"] \notin Scalars

\* Its last step.
DropNulls(o) == Restrict(o, {n \in DOMAIN o : o[n] # Null})

=============================================================================
