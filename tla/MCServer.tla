------------------------------ MODULE MCServer ------------------------------
(***************************************************************************)
(* What surrounds the pool of accounts, in one run: the gateway's records  *)
(* and its listener, the translation of streams, of histories and of       *)
(* tools, the WARP exits and the plug-ins.  They share no state: the       *)
(* initial states choose the part that moves.  The others stay where they  *)
(* start, and of a Responses stream there is then nothing.                 *)
(***************************************************************************)
EXTENDS GatewayStore, GatewayService, AnthropicStreams, ResponsesStreams,
        Conversations, ClientTools, WarpPool, PluginCenter, TLC

CONSTANTS k1, p1

VARIABLE part

gatewayVars == <<vars, serviceVars>>
textVars   == <<antVars, rspVars, cvVars, ctVars>>
hostVars   == <<warpVars, plugVars>>

partVars == <<part, gatewayVars, textVars, hostVars>>

\* Names of tools and of namespaces that flatten to one another.
ToolNames  == {<<"a">>, <<"a", "__", "a">>, <<"tool_search">>}
SpaceNames == {<<"a">>, <<"a", "__", "a">>}

NoStream ==
  /\ rspUp = [at |-> "new"] /\ rspChat = 0 /\ rspAnth = 0 /\ rspCalls = 0
  /\ rspSeen = [created |-> FALSE, astray |-> FALSE, cut |-> FALSE]
  /\ rspBack = 0 /\ rspAcc = 0

PartsInit ==
  /\ part \in {"records", "service", "anthropic", "responses", "conversations",
               "tools", "warp", "plugins"}
  /\ Init /\ ServiceInit
  /\ part # "records" => reqKey = [r \in Requests |-> k1]
  /\ AntInit /\ (part # "anthropic" => antUp.kind = "chat")
  /\ IF part = "responses" THEN RspInit ELSE NoStream
  /\ CvInit /\ (part # "conversations" => cvKind = "chat")
  /\ CtInit
  /\ WarpInit /\ PlugInit
  \* The ports are alike.
  /\ DOMAIN wInsts \subseteq {p1}
  /\ part # "warp" => wInsts = Nothing /\ wMirror = {}
  /\ part # "plugins" => /\ plugBox = [c \in Containers |-> "none"]
                         /\ plugDaemon

PartsNext ==
  /\ part' = part
  /\ \/ part = "records" /\ Next /\ UNCHANGED <<serviceVars, textVars, hostVars>>
     \/ part = "service" /\ ServiceNext /\ UNCHANGED <<vars, textVars, hostVars>>
     \/ /\ part = "anthropic" /\ AntNext
        /\ UNCHANGED <<gatewayVars, rspVars, cvVars, ctVars, hostVars>>
     \/ /\ part = "responses" /\ RspNext
        /\ UNCHANGED <<gatewayVars, antVars, cvVars, ctVars, hostVars>>
     \/ /\ part = "conversations" /\ CvNext
        /\ UNCHANGED <<gatewayVars, antVars, rspVars, ctVars, hostVars>>
     \/ /\ part = "tools" /\ CtNext
        /\ UNCHANGED <<gatewayVars, antVars, rspVars, cvVars, hostVars>>
     \/ part = "warp" /\ WarpNext /\ UNCHANGED <<gatewayVars, textVars, plugVars>>
     \/ part = "plugins" /\ PlugNext /\ UNCHANGED <<gatewayVars, textVars, warpVars>>

PartsSpec == PartsInit /\ [][PartsNext]_partVars
=============================================================================
