-------------------------- MODULE MCGatewaySession --------------------------
(***************************************************************************)
(* Two connections.  They may be one device that reconnects, or two        *)
(* devices whose tools have the same full name, "a" + "b.c" and "a.b" +    *)
(* "c".                                                                    *)
(***************************************************************************)
EXTENDS GatewaySession, Sequences, TLC

FullNames2(names, toolNames) == [p \in names \X toolNames |-> p[1] \o "." \o p[2]]

OneDevice == {"a"}
OneTool == {"c"}
OneOffer == [d \in OneDevice |-> OneTool]
OneFullName == FullNames2(OneDevice, OneTool)

TwoDevices == {"a", "a.b"}
TwoTools == {"c", "b.c"}
CollidingOffers == [d \in TwoDevices |-> IF d = "a" THEN {"b.c"} ELSE {"c"}]
CollidingFullNames == FullNames2(TwoDevices, TwoTools)

OneCalled == {"a.c"}
CollidingCalled == {"a.b.c"}

ConnSymmetry == Permutations(Conns)

=============================================================================
