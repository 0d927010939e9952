--------------------------- MODULE MCGatewayPool ---------------------------
\* Small instances of GatewayPool for TLC.
EXTENDS GatewayPool, TLC

CONSTANTS g1, g2, all, s1, s2, none

Forward(g, s) == [kind |-> "forward", group |-> g, session |-> s]
Chat          == [kind |-> "chat", group |-> all, session |-> none]
Models(g)     == [kind |-> "models", group |-> g, session |-> none]
Test(g)       == [kind |-> "test", group |-> g, session |-> none]

\* Every handler may get every kind of request.
MixedArrivals ==
  [r \in Requests |-> {Forward(g1, none), Forward(g1, s1), Chat, Models(g1),
                        Test(g1)}]
\* Plain requests only.
PlainArrivals == [r \in Requests |-> {Forward(g1, none)}]
\* One handler serves clients, the others a model list too.
HealthArrivals ==
  LET first == CHOOSE r \in Requests : TRUE
  IN  [r \in Requests |-> IF r = first THEN {Forward(g1, none)}
                           ELSE {Forward(g1, none), Models(g1)}]
\* One conversation at a time: no two handlers share a session.  One handler
\* serves the chat page in between.
TurnArrivals ==
  LET pick == CHOOSE f \in [Requests -> Sessions] :
                \A q, r \in Requests : f[q] = f[r] => q = r
  IN  [r \in Requests |-> IF pick[r] = s1 THEN {Forward(g1, s1), Chat}
                           ELSE {Forward(g1, pick[r])}]

AllOutcomes   == {"ok"} \cup TransportErrors \cup HTTPErrors

RequestSymmetry == Permutations(Requests)
PoolSymmetry    == Permutations(Requests) \cup Permutations(Accounts)
=============================================================================
