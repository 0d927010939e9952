------------------------ MODULE CaptchaSolver_proofs ------------------------
(***************************************************************************)
(* The solver of captchas keeps its gates, its counters and its pool, for  *)
(* any hosts, callers, fills, limits, batches and bounds.                  *)
(***************************************************************************)
EXTENDS CaptchaSolver, FiniteSetTheorems, SequenceTheorems, TLAPS

Calls == [at : CapPlaces, left : SUBSET CapHosts, host : CapHosts \cup {NoHost},
          gate : Nat, max : CapLimits \cup {0}, loop : 0..CapBatches,
          batch : 0..CapBatches, token : Nat]
LoopPlaces == {"none", "check", "filling", "leaving", "ended"}

\* The types, by the groups of variables that steps leave alone together.
GateOK == /\ capLimit \in CapLimits
          /\ capGates \in Seq([host : CapHosts, max : CapLimits])
          /\ capGateOf \in [CapHosts -> 0..Len(capGates)]
CallOK == capCall \in [CapCalls -> Calls] /\ capInflight \in [CapHosts -> Int]
PoolOK == /\ capMade \in 0..CapTokens
          /\ capPool \subseteq 1..capMade /\ capOld \subseteq capPool
          /\ capUsed \subseteq 1..capMade
WarmOK == /\ capTarget \in {0, CapWarm} /\ capRunning \in BOOLEAN
          /\ capStop \in 0..CapBatches /\ capArmed \in 0..CapBatches
          /\ capClosed \subseteq 1..CapBatches
          /\ capLoop \in [1..CapBatches -> LoopPlaces]
RunOK  == /\ capBatch \in 0..CapBatches
          /\ capAt \in {"idle", "setup", "armed", "running"}
          /\ capCancelled \subseteq 1..CapBatches
          /\ capStopping \in [batch : 0..CapBatches, next : {"none", "pool", "cancel"}]
          /\ capAt # "idle" => capBatch \in 1..CapBatches
          /\ capStopping.next # "none" => capStopping.batch \in 1..CapBatches

\* Where a call has which gate, host and token.
Gated == {"held", "post", "heldAgain", "postAgain"}
Alive == Gated \cup {"queue", "single", "again"}
PlaceOK(call) ==
  /\ call.at \in Gated <=> call.gate # 0
  /\ call.at \in Gated \cup {"again"} => call.host \in CapHosts
  /\ call.at \in Alive => call.max \in CapLimits
  /\ call.at = "filled" <=> call.token # 0
CallsOK == \A c \in CapCalls : PlaceOK(capCall[c])

\* The token of a fill is one that was made.
TokensOK == \A c \in CapCalls : capCall[c].token <= capMade

\* A batch starts one loop at most, and before it runs.
ArmedOK == capArmed <= capBatch /\ (capAt = "setup" => capArmed < capBatch)

CapTypes == /\ GateOK /\ CallOK /\ PoolOK /\ WarmOK /\ RunOK
            /\ CallsOK /\ TokensOK /\ ArmedOK

LEMMA TypesKept ==
  ASSUME CapTypes
  PROVE  /\ UNCHANGED capGateVars => GateOK'
         /\ UNCHANGED capCall => CallsOK'
         /\ UNCHANGED capCallVars => CallOK'
         /\ UNCHANGED capPoolVars => PoolOK'
         /\ UNCHANGED capWarmVars => WarmOK'
         /\ UNCHANGED capRunVars => RunOK'
         /\ UNCHANGED <<capCall, capMade>> => TokensOK'
         /\ UNCHANGED <<capArmed, capBatch, capAt>> => ArmedOK'
BY DEF TokensOK, ArmedOK, CapTypes, GateOK, CallOK, PoolOK, WarmOK, RunOK, CallsOK, PlaceOK,
       capGateVars, capCallVars, capPoolVars, capWarmVars, capRunVars

-----------------------------------------------------------------------------
(* What becomes of a call                                                  *)

\* Call c becomes new, a well-formed call; as a fill it stays with its loop.
Becomes(c, new) ==
  /\ capCall' = [capCall EXCEPT ![c] = new]
  /\ new \in Calls /\ PlaceOK(new)
  /\ c \in CapFillers /\ new.at # "idle" =>
       capCall[c].at # "idle" /\ new.loop = capCall[c].loop

\* It has given back what it held.
Empty(new) == new.gate = 0 /\ new.token = 0

LEMMA IdleOK == /\ CapIdle \in Calls /\ PlaceOK(CapIdle) /\ Empty(CapIdle)
                /\ CapIdle.at = "idle"
BY CaptchaAssumption DEF CapIdle, Calls, PlaceOK, Empty, CapPlaces, Gated, Alive

LEMMA FailedOK ==
  ASSUME CapTypes, NEW c \in CapCalls
  PROVE  /\ CapFailed(c) \in Calls /\ PlaceOK(CapFailed(c)) /\ Empty(CapFailed(c))
         /\ CapFailed(c).at \in {"failed", "paid", "idle"}
         /\ c \in CapFillers => CapFailed(c).loop = capCall[c].loop
<1> DEFINE new == CapFailed(c)
<1>1. capCall[c].loop \in 0..CapBatches /\ capCall[c].batch \in 0..CapBatches
  BY DEF CapTypes, CallOK, Calls
<1>2. /\ new = [at |-> new.at, left |-> {}, host |-> NoHost, gate |-> 0, max |-> 0,
                loop |-> new.loop, batch |-> new.batch, token |-> 0]
      /\ new.at \in {"failed", "paid", "idle"}
      /\ new.loop \in {0, capCall[c].loop} /\ new.batch \in {0, capCall[c].batch}
      /\ c \in CapFillers => new.loop = capCall[c].loop
  <2>1. CASE c \in CapFillers
    BY <2>1 DEF CapFailed, CapIdle
  <2>2. CASE c \notin CapFillers
    BY <2>2 DEF CapFailed, CapIdle
  <2>3. QED
    BY <2>1, <2>2
<1> HIDE DEF new
<1>3. new \in Calls
  BY <1>1, <1>2, CaptchaAssumption DEF Calls, CapPlaces
<1>4. PlaceOK(new) /\ Empty(new)
  BY <1>2 DEF PlaceOK, Empty, Gated, Alive
<1>5. QED
  BY <1>2, <1>3, <1>4 DEF new

LEMMA NextOK ==
  ASSUME CapTypes, NEW c \in CapCalls, capCall[c].at \in Alive
  PROVE  /\ NextHost(c) \in Calls /\ PlaceOK(NextHost(c)) /\ Empty(NextHost(c))
         /\ NextHost(c).at \in {"queue", "failed", "paid", "idle"}
         /\ c \in CapFillers => NextHost(c).loop = capCall[c].loop
<1>1. capCall[c] \in Calls /\ PlaceOK(capCall[c])
  BY DEF CapTypes, CallOK, CallsOK
<1>2. CASE NextHost(c) = CapFailed(c)
  BY <1>2, FailedOK
<1>3. CASE NextHost(c) = [capCall[c] EXCEPT !.at = "queue", !.host = NoHost, !.gate = 0]
  <2> DEFINE old == capCall[c]
             new == [old EXCEPT !.at = "queue", !.host = NoHost, !.gate = 0]
  <2> HIDE DEF old
  <2>1. old \in Calls /\ PlaceOK(old) /\ old.at \in Alive
    BY <1>1 DEF old
  <2>2. new \in Calls
    BY <2>1 DEF Calls, CapPlaces
  <2>3. /\ new.at = "queue" /\ new.gate = 0 /\ new.max = old.max
        /\ new.token = old.token /\ new.loop = old.loop
    BY <2>1 DEF Calls
  <2>4. old.token = 0 /\ old.max \in CapLimits
    BY <2>1 DEF PlaceOK, Gated, Alive
  <2> HIDE DEF new
  <2>5. PlaceOK(new) /\ Empty(new)
    BY <2>3, <2>4 DEF PlaceOK, Empty, Gated, Alive
  <2>6. QED
    BY <1>3, <2>2, <2>3, <2>5 DEF new, old
<1>4. QED
  BY <1>2, <1>3 DEF NextHost

\* Call c gives back what it held and is not, or no longer, in a request.
Drops(c) == \E new : Becomes(c, new) /\ Empty(new) /\ new.at \notin {"post", "postAgain"}

LEMMA DropSteps ==
  ASSUME CapTypes, NEW c \in CapCalls,
         \/ CapQueueEnds(c) \/ CapHeldLate(c) \/ CapReacquireEnds(c) \/ CapPaid(c)
         \/ CapFilled(c) \/ CapPostFails(c) \/ CapHangs(c)
  PROVE  Drops(c)
<1> DEFINE old == capCall[c]
<1>1. old \in Calls /\ PlaceOK(old)
  BY DEF CapTypes, CallOK, CallsOK
<1>2. ASSUME capCall' = [capCall EXCEPT ![c] = CapIdle] PROVE Drops(c)
  BY <1>2, IdleOK DEF Drops, Becomes
<1>3. ASSUME old.at \in Alive, capCall' = [capCall EXCEPT ![c] = CapFailed(c)]
      PROVE  Drops(c)
  BY <1>3, FailedOK DEF Drops, Becomes, Alive, Gated
<1>4. ASSUME old.at \in Alive, capCall' = [capCall EXCEPT ![c] = NextHost(c)]
      PROVE  Drops(c)
  BY <1>4, NextOK DEF Drops, Becomes, Alive, Gated
<1>5. CASE CapQueueEnds(c)
  BY <1>3, <1>5 DEF CapQueueEnds, Alive
<1>6. CASE CapHeldLate(c)
  BY <1>3, <1>4, <1>6 DEF CapHeldLate, Alive, Gated
<1>7. CASE CapReacquireEnds(c)
  BY <1>4, <1>7 DEF CapReacquireEnds, Alive
<1>8. CASE CapPaid(c) \/ CapFilled(c)
  BY <1>2, <1>8 DEF CapPaid, CapFilled
<1>9. CASE CapPostFails(c)
  BY <1>4, <1>9 DEF CapPostFails, PostEnds, Posting, Alive, Gated
<1>10. CASE CapHangs(c)
  <2> DEFINE new == [old EXCEPT !.at = "again", !.gate = 0]
  <2> HIDE DEF old
  <2>1. /\ new.at = "again" /\ new.gate = 0 /\ new.max = old.max /\ new.host = old.host
        /\ new.token = old.token /\ new.loop = old.loop /\ new \in Calls
    BY <1>1 DEF Calls, CapPlaces
  <2>2. old.at = "post" /\ old.token = 0 /\ old.max \in CapLimits /\ old.host \in CapHosts
    BY <1>1, <1>10 DEF CapHangs, PlaceOK, Gated, Alive, old
  <2>3. capCall' = [capCall EXCEPT ![c] = new]
    BY <1>10 DEF CapHangs, PostEnds, old
  <2> HIDE DEF new
  <2>4. PlaceOK(new) /\ Empty(new) /\ new.at \notin {"post", "postAgain"}
    BY <2>1, <2>2 DEF PlaceOK, Empty, Gated, Alive
  <2>5. c \in CapFillers /\ new.at # "idle" => capCall[c].at # "idle" /\ new.loop = capCall[c].loop
    BY <2>1, <2>2 DEF old
  <2>6. QED
    BY <2>1, <2>3, <2>4, <2>5 DEF Drops, Becomes
<1>11. QED
  BY <1>5, <1>6, <1>7, <1>8, <1>9, <1>10

LEMMA BeginDrops ==
  ASSUME CapTypes, NEW c \in CapCalls, CapBegin(c)
  PROVE  capCall' = capCall \/ Drops(c)
<1> DEFINE call(where) == [at |-> where, left |-> CapHosts, host |-> NoHost, gate |-> 0,
             max |-> capLimit, loop |-> 0, batch |-> capBatch, token |-> 0]
<1>1. SUFFICES ASSUME capCall' # capCall PROVE Drops(c)
  OBVIOUS
<1>2. /\ capLimit \in CapLimits /\ capBatch \in 0..CapBatches /\ c \notin CapFillers
      /\ CapCallers \cap CapFillers = {}
  BY CaptchaAssumption DEF CapBegin, CapTypes, GateOK, RunOK
<1>3. PICK where \in {"single", "paid", "queue"} :
        capCall' = [capCall EXCEPT ![c] = call(where)]
  <2>1. CASE CapProvider = "auralith"
    BY <1>1, <2>1 DEF CapBegin, CapIdle
  <2>2. CASE CapProvider = "paid"
    BY <1>1, <2>2 DEF CapBegin, CapIdle
  <2>3. CASE CapProvider \in {"ezsolver", "auto"}
    BY <1>1, <2>3 DEF CapBegin, CapIdle
  <2>4. QED
    BY <2>1, <2>2, <2>3, CaptchaAssumption
<1>4. call(where) \in Calls
  BY <1>2, CaptchaAssumption DEF Calls, CapPlaces
<1>5. /\ call(where).at = where /\ call(where).gate = 0 /\ call(where).token = 0
      /\ call(where).max = capLimit
  OBVIOUS
<1> HIDE DEF call
<1>6. PlaceOK(call(where)) /\ Empty(call(where))
  BY <1>2, <1>5 DEF PlaceOK, Empty, Gated, Alive
<1>7. QED
  BY <1>2, <1>3, <1>4, <1>5, <1>6 DEF Drops, Becomes

LEMMA BecomesOK ==
  ASSUME CapTypes, NEW c \in CapCalls, NEW new, Becomes(c, new)
  PROVE  capCall' \in [CapCalls -> Calls] /\ CallsOK'
BY DEF CapTypes, CallOK, CallsOK, Becomes

LEMMA DropOK ==
  ASSUME CapTypes, NEW c \in CapCalls, Drops(c)
  PROVE  capCall' \in [CapCalls -> Calls] /\ CallsOK'
BY BecomesOK DEF Drops

\* A gate is entered, and made if there is none of the size.
LEMMA EnterOK ==
  ASSUME CapTypes, NEW c \in CapCalls, NEW h \in CapHosts,
         NEW where \in {"held", "heldAgain"}, EnterGate(c, h, where),
         capCall[c].at \in {"queue", "single", "again"}, UNCHANGED capLimit
  PROVE  /\ GateOK'
         /\ \E g \in 1..Len(capGates') : \E new :
              /\ Becomes(c, new) /\ new.at = where
              /\ new.gate = g /\ new.host = h /\ new.token = 0
<1> DEFINE old == capCall[c]
           g   == IF GateFits(h, old.max) THEN capGateOf[h] ELSE Len(capGates) + 1
           new == [old EXCEPT !.gate = g, !.host = h, !.at = where]
<1>1. /\ capGates \in Seq([host : CapHosts, max : CapLimits])
      /\ capGateOf \in [CapHosts -> 0..Len(capGates)]
      /\ capLimit \in CapLimits /\ Len(capGates) \in Nat
  BY LenProperties DEF CapTypes, GateOK
<1>2. /\ old \in Calls /\ PlaceOK(old) /\ old.max \in CapLimits /\ old.token = 0
      /\ old.at # "idle"
  BY DEF CapTypes, CallOK, CallsOK, PlaceOK, Alive, Calls
<1>3. capCall' = [capCall EXCEPT ![c] = new]
  BY <1>2 DEF EnterGate
<1>4. /\ GateFits(h, old.max) => capGates' = capGates /\ capGateOf' = capGateOf
      /\ ~ GateFits(h, old.max) =>
           /\ capGates' = Append(capGates, [host |-> h, max |-> old.max])
           /\ capGateOf' = [capGateOf EXCEPT ![h] = g]
  BY DEF EnterGate
<1>5. g \in 1..Len(capGates') /\ GateOK'
  <2>1. CASE GateFits(h, old.max)
    <3>1. g = capGateOf[h] /\ g # 0
      BY <2>1 DEF GateFits
    <3>2. capGates' = capGates /\ capGateOf' = capGateOf
      BY <1>4, <2>1
    <3> HIDE DEF g, old
    <3>3. GateOK'
      BY <1>1, <3>2 DEF GateOK
    <3>4. g \in 1..Len(capGates)
      BY <1>1, <3>1
    <3>5. QED
      BY <3>2, <3>3, <3>4
  <2>2. CASE ~ GateFits(h, old.max)
    <3>1. g = Len(capGates) + 1
      BY <2>2
    <3>2. [host |-> h, max |-> old.max] \in [host : CapHosts, max : CapLimits]
      BY <1>2
    <3>3. /\ capGates' \in Seq([host : CapHosts, max : CapLimits])
          /\ Len(capGates') = Len(capGates) + 1
      <4> DEFINE S == [host : CapHosts, max : CapLimits]
                 gate == [host |-> h, max |-> old.max]
      <4>1. gate \in S /\ capGates \in Seq(S)
        BY <1>1, <3>2
      <4>2. capGates' = Append(capGates, gate)
        BY <1>4, <2>2
      <4> HIDE DEF gate, S, g, old
      <4>3. capGates' \in Seq(S) /\ Len(capGates') = Len(capGates) + 1
        BY <4>1, <4>2, AppendProperties
      <4>4. QED
        BY <4>3 DEF S
    <3> HIDE DEF g, old
    <3>4. capGateOf' \in [CapHosts -> 0..Len(capGates')]
      BY <1>1, <1>4, <2>2, <3>1, <3>3
    <3>5. QED
      BY <1>1, <3>1, <3>3, <3>4 DEF GateOK
  <2>3. QED
    BY <2>1, <2>2
<1> HIDE DEF g, old
<1>6. /\ new \in Calls /\ new.at = where /\ new.gate = g /\ new.host = h
      /\ new.max = old.max /\ new.token = old.token /\ new.loop = old.loop
  <2>1. g \in Nat /\ g # 0
    BY <1>1, <1>5, LenProperties DEF GateOK
  <2>2. QED
    BY <1>2, <2>1 DEF Calls, CapPlaces
<1> HIDE DEF new
<1>7. PlaceOK(new)
  BY <1>2, <1>5, <1>6 DEF PlaceOK, Gated, Alive
<1>8. Becomes(c, new)
  BY <1>2, <1>3, <1>6, <1>7 DEF Becomes, old
<1>9. QED
  BY <1>2, <1>5, <1>6, <1>8

\* Call c takes a slot of gate g at host h.
Enters(c, h, g) == \E new : /\ Becomes(c, new) /\ new.at \in {"held", "heldAgain"}
                            /\ new.gate = g /\ new.host = h /\ new.token = 0

LEMMA AcquireOK ==
  ASSUME CapTypes, NEW c \in CapCalls, NEW h \in CapHosts, CapAcquire(c, h)
  PROVE  /\ GateOK' /\ EnterGate(c, h, "held") /\ capCall[c].gate = 0
         /\ \E g \in 1..Len(capGates') : Enters(c, h, g)
<1>1. /\ EnterGate(c, h, "held") /\ UNCHANGED capLimit
      /\ capCall[c].at \in {"queue", "single", "again"}
  BY DEF CapAcquire
<1>2. capCall[c].gate = 0
  BY <1>1 DEF CapTypes, CallsOK, PlaceOK, Gated
<1>3. QED
  BY <1>1, <1>2, EnterOK DEF Enters

LEMMA ReacquireOK ==
  ASSUME CapTypes, NEW c \in CapCalls, CapReacquire(c)
  PROVE  /\ GateOK' /\ EnterGate(c, capCall[c].host, "heldAgain") /\ capCall[c].gate = 0
         /\ capCall[c].host \in CapHosts
         /\ \E g \in 1..Len(capGates') : Enters(c, capCall[c].host, g)
<1>1. /\ EnterGate(c, capCall[c].host, "heldAgain") /\ UNCHANGED capLimit
      /\ capCall[c].at \in {"queue", "single", "again"}
  BY DEF CapReacquire
<1>2. capCall[c].gate = 0 /\ capCall[c].host \in CapHosts
  BY DEF CapReacquire, CapTypes, CallsOK, PlaceOK, Gated
<1>3. QED
  BY <1>1, <1>2, EnterOK DEF Enters

LEMMA PostOK ==
  ASSUME CapTypes, NEW c \in CapCalls, CapPost(c)
  PROVE  \E new :
           /\ Becomes(c, new) /\ new.at \in {"post", "postAgain"}
           /\ new.gate = capCall[c].gate /\ new.host = capCall[c].host
           /\ new.token = 0
<1> DEFINE old == capCall[c]
           at  == IF old.at = "held" THEN "post" ELSE "postAgain"
           new == [old EXCEPT !.at = at, !.left = @ \ {old.host}]
<1>1. /\ old \in Calls /\ PlaceOK(old) /\ old.at \in {"held", "heldAgain"}
      /\ old.at # "idle" /\ old.token = 0
  BY DEF CapTypes, CallOK, CallsOK, PlaceOK, Calls, CapPost
<1>2. capCall' = [capCall EXCEPT ![c] = new]
  BY DEF CapPost
<1>3. at \in {"post", "postAgain"}
  OBVIOUS
<1> HIDE DEF old, at
<1>4. /\ new \in Calls /\ new.at = at /\ new.gate = old.gate /\ new.host = old.host
      /\ new.max = old.max /\ new.token = old.token /\ new.loop = old.loop
  BY <1>1, <1>3 DEF Calls, CapPlaces
<1> HIDE DEF new
<1>5. PlaceOK(new)
  BY <1>1, <1>3, <1>4 DEF PlaceOK, Gated, Alive
<1>6. Becomes(c, new)
  BY <1>1, <1>2, <1>4, <1>5 DEF Becomes, old
<1>7. QED
  BY <1>1, <1>3, <1>4, <1>6 DEF old

\* A fill keeps its token until it has reported; a registration takes it along.
LEMMA TokenOK ==
  ASSUME CapTypes, NEW c \in CapCalls, CapToken(c)
  PROVE  \/ c \notin CapFillers /\ Drops(c)
         \/ c \in CapFillers /\ \E new :
              /\ Becomes(c, new) /\ new.at = "filled" /\ new.gate = 0
              /\ new.token = capMade + 1
<1>1. CASE c \notin CapFillers
  <2>1. c \in CapCallers
    BY <1>1 DEF CapCalls
  <2>2. capCall' = [capCall EXCEPT ![c] = CapIdle]
    BY <2>1 DEF CapToken, PostEnds
  <2>3. QED
    BY <1>1, <2>2, IdleOK DEF Drops, Becomes
<1>2. CASE c \in CapFillers
  <2> DEFINE new == [at |-> "filled", left |-> {}, host |-> NoHost, gate |-> 0, max |-> 0,
                     loop |-> capCall[c].loop, batch |-> 0, token |-> capMade + 1]
  <2>1. c \notin CapCallers
    BY <1>2, CaptchaAssumption
  <2>2. capCall' = [capCall EXCEPT ![c] = new]
    BY <2>1 DEF CapToken, PostEnds, CapIdle
  <2>3. capCall[c].loop \in 0..CapBatches /\ capMade \in Nat /\ capCall[c].at # "idle"
    BY CaptchaAssumption DEF CapTypes, CallOK, PoolOK, Calls, CapToken, Posting
  <2>4. new \in Calls
    BY <2>3, CaptchaAssumption DEF Calls, CapPlaces
  <2>5. PlaceOK(new)
    BY <2>3 DEF PlaceOK, Gated, Alive
  <2>6. /\ new.at = "filled" /\ new.gate = 0 /\ new.token = capMade + 1
        /\ new.loop = capCall[c].loop
    OBVIOUS
  <2> HIDE DEF new
  <2>7. QED
    BY <1>2, <2>2, <2>3, <2>4, <2>5, <2>6 DEF Becomes
<1>3. QED
  BY <1>1, <1>2

\* The fills that a turn of a loop begins.
LEMMA CheckOK ==
  ASSUME CapTypes, NEW l \in 1..CapBatches, LoopCheck(l)
  PROVE  /\ capCall' \in [CapCalls -> Calls] /\ CallsOK'
         /\ \A d \in CapCalls :
              \/ capCall'[d] = capCall[d]
              \/ /\ d \in CapFillers /\ capCall[d].at = "idle" /\ capLoop'[l] = "filling"
                 /\ capCall'[d].at = "queue" /\ capCall'[d].gate = 0
                 /\ capCall'[d].token = 0 /\ capCall'[d].loop = l
<1> DEFINE new == [CapIdle EXCEPT !.at = "queue", !.left = CapHosts,
                               !.max = capLimit, !.loop = l]
<1>1. capCall \in [CapCalls -> Calls] /\ capLoop \in [1..CapBatches -> LoopPlaces]
  BY DEF CapTypes, CallOK, WarmOK
<1>2. /\ new \in Calls /\ PlaceOK(new)
      /\ new.at = "queue" /\ new.gate = 0 /\ new.token = 0 /\ new.loop = l
  <2>1. capLimit \in CapLimits
    BY DEF CapTypes, GateOK
  <2>2. /\ new \in Calls /\ new.at = "queue" /\ new.gate = 0 /\ new.max = capLimit
        /\ new.token = 0 /\ new.loop = l
    <3>1. CapIdle \in Calls /\ CapIdle.gate = 0 /\ CapIdle.token = 0
      BY IdleOK DEF Empty
    <3>2. l \in 0..CapBatches /\ "queue" \in CapPlaces /\ CapHosts \in SUBSET CapHosts
      BY CaptchaAssumption DEF CapPlaces
    <3> HIDE DEF new
    <3>3. new = [CapIdle EXCEPT !.at = "queue", !.left = CapHosts,
                             !.max = capLimit, !.loop = l]
      BY DEF new
    <3>4. new \in Calls
      BY <2>1, <3>1, <3>2, <3>3 DEF Calls
    <3>5. QED
      BY <3>1, <3>3, <3>4 DEF Calls
  <2> HIDE DEF new
  <2>3. PlaceOK(new)
    BY <2>1, <2>2 DEF PlaceOK, Gated, Alive
  <2>4. QED
    BY <2>2, <2>3
<1>3. CASE UNCHANGED capCall
  BY <1>1, <1>3 DEF CapTypes, CallsOK
<1>4. ASSUME NEW fill \in SUBSET {d \in CapFillers : capCall[d].at = "idle"},
             capLoop' = [capLoop EXCEPT ![l] = IF fill = {} THEN "check" ELSE "filling"],
             capCall' = [d \in CapCalls |-> IF d \in fill THEN new ELSE capCall[d]]
      PROVE  /\ capCall' \in [CapCalls -> Calls] /\ CallsOK'
             /\ \A d \in CapCalls :
                  \/ capCall'[d] = capCall[d]
                  \/ /\ d \in CapFillers /\ capCall[d].at = "idle" /\ capLoop'[l] = "filling"
                     /\ capCall'[d] = new
  <2> HIDE DEF new
  <2>1. capCall' \in [CapCalls -> Calls]
    BY <1>1, <1>2, <1>4
  <2>2. CallsOK'
    BY <1>2, <1>4 DEF CapTypes, CallsOK
  <2>3. QED
    BY <1>1, <1>4, <2>1, <2>2
<1>5. \/ UNCHANGED capCall
      \/ \E fill \in SUBSET {d \in CapFillers : capCall[d].at = "idle"} :
           /\ capLoop' = [capLoop EXCEPT ![l] = IF fill = {} THEN "check" ELSE "filling"]
           /\ capCall' = [d \in CapCalls |-> IF d \in fill THEN new ELSE capCall[d]]
  <2>1. CASE l \in capClosed \/ capStop # l
    BY <2>1 DEF LoopCheck
  <2>2. CASE ~ (l \in capClosed \/ capStop # l)
    BY <2>2 DEF LoopCheck
  <2>3. QED
    BY <2>1, <2>2
<1> HIDE DEF new
<1>6. QED
  BY <1>2, <1>3, <1>4, <1>5

-----------------------------------------------------------------------------
(* The types                                                               *)

\* A call of CapCalls takes a step, or a loop begins fills.
CallMoves == \/ \E c \in CapCalls : CapCallStep(c)
             \/ \E l \in 1..CapBatches : LoopCheck(l)

LEMMA CallsTyped ==
  ASSUME CapTypes, CallMoves
  PROVE  capCall' \in [CapCalls -> Calls] /\ CallsOK'
<1>1. ASSUME UNCHANGED capCall PROVE capCall' \in [CapCalls -> Calls] /\ CallsOK'
  BY <1>1 DEF CapTypes, CallOK, CallsOK, PlaceOK
<1>2. ASSUME NEW c \in CapCalls, CapCallStep(c)
      PROVE  capCall' \in [CapCalls -> Calls] /\ CallsOK'
  <2>1. CASE CapBegin(c)
    BY <1>1, <2>1, BeginDrops, DropOK
  <2>2. CASE \/ CapQueueEnds(c) \/ CapHeldLate(c) \/ CapReacquireEnds(c) \/ CapPaid(c)
             \/ CapFilled(c) \/ CapPostFails(c) \/ CapHangs(c)
    BY <2>2, DropSteps, DropOK
  <2>3. CASE CapPost(c)
    BY <2>3, PostOK, BecomesOK
  <2>4. CASE CapToken(c)
    BY <2>4, TokenOK, BecomesOK, DropOK
  <2>5. ASSUME NEW h \in CapHosts, CapAcquire(c, h)
        PROVE  capCall' \in [CapCalls -> Calls] /\ CallsOK'
    BY <2>5, AcquireOK, BecomesOK DEF Enters
  <2>6. CASE CapReacquire(c)
    BY <2>6, ReacquireOK, BecomesOK DEF Enters
  <2>7. QED
    BY <1>2, <2>1, <2>2, <2>3, <2>4, <2>5, <2>6 DEF CapCallStep
<1>3. ASSUME NEW l \in 1..CapBatches, LoopCheck(l)
      PROVE  capCall' \in [CapCalls -> Calls] /\ CallsOK'
  BY <1>3, CheckOK
<1>4. QED
  BY <1>2, <1>3 DEF CallMoves

\* What a step of a call leaves alone, and the types of what it changes.
LEMMA CallStepTypes ==
  ASSUME CapTypes, NEW c \in CapCalls, CapCallStep(c)
  PROVE  CapTypes'
<1>1. capCall' \in [CapCalls -> Calls] /\ CallsOK'
  BY CallsTyped DEF CallMoves
<1>2. \A d \in CapCalls : capCall[d] \in Calls /\ PlaceOK(capCall[d])
  BY DEF CapTypes, CallOK, CallsOK
<1>3. capInflight' \in [CapHosts -> Int]
  <2>1. capInflight \in [CapHosts -> Int]
    BY DEF CapTypes, CallOK
  <2>2. CASE UNCHANGED capInflight
    BY <2>1, <2>2
  <2>3. CASE CapPost(c)
    <3>1. capInflight' = [capInflight EXCEPT ![capCall[c].host]
                                             = capInflight[capCall[c].host] + 1]
      BY <2>3, Zenon DEF CapPost
    <3>2. capCall[c].host \in CapHosts
      BY <1>2, <2>3 DEF CapPost, PlaceOK, Gated
    <3>3. capInflight[capCall[c].host] + 1 \in Int
      BY <2>1, <3>2
    <3>4. QED
      BY <2>1, <3>1, <3>2, <3>3
  <2>4. CASE CapToken(c) \/ CapPostFails(c) \/ CapHangs(c)
    BY <2>1, <2>4 DEF CapToken, CapPostFails, CapHangs, PostEnds
  <2>5. QED
    BY <2>2, <2>3, <2>4 DEF CapCallStep, CapBegin, CapQueueEnds, CapHeldLate, CapReacquire,
       CapReacquireEnds, CapPaid, CapFilled, CapAcquire
<1>4. GateOK'
  <2>1. CASE UNCHANGED capGateVars
    BY <2>1, TypesKept
  <2>2. ASSUME NEW h \in CapHosts, CapAcquire(c, h) PROVE GateOK'
    BY <2>2, AcquireOK
  <2>3. CASE CapReacquire(c)
    BY <2>3, ReacquireOK
  <2>4. QED
    BY <2>1, <2>2, <2>3 DEF CapCallStep, CapBegin, CapQueueEnds, CapHeldLate, CapPost,
       CapToken, CapPostFails, CapHangs, CapReacquireEnds, CapPaid, CapFilled
<1>5. PoolOK'
  <2>1. /\ capMade \in 0..CapTokens /\ capPool \subseteq 1..capMade
        /\ capOld \subseteq capPool /\ capUsed \subseteq 1..capMade /\ CapTokens \in Nat
    BY CaptchaAssumption DEF CapTypes, PoolOK
  <2>2. CASE UNCHANGED capPoolVars
    BY <2>2, TypesKept
  <2>3. CASE CapBegin(c)
    <3>1. capMade' = capMade /\ capPool' \subseteq capPool /\ capOld' \subseteq capPool'
      BY <2>1, <2>3 DEF CapBegin
    <3>2. capUsed' \subseteq capUsed \cup capPool
      BY <2>3 DEF CapBegin
    <3>3. QED
      BY <2>1, <3>1, <3>2 DEF PoolOK
  <2>4. CASE CapToken(c) \/ CapPaid(c)
    <3>1. /\ \/ capMade' = capMade
             \/ capMade < CapTokens /\ capMade' = capMade + 1
          /\ capPool' = capPool /\ capOld' = capOld
          /\ \/ capUsed' = capUsed
             \/ capMade' = capMade + 1 /\ capUsed' = capUsed \cup {capMade'}
      <4>1. CASE CapToken(c)
        BY <4>1 DEF CapToken
      <4>2. CASE CapPaid(c)
        BY <4>2 DEF CapPaid
      <4>3. QED
        BY <2>4, <4>1, <4>2
    <3>2. capMade' \in 0..CapTokens
      BY <2>1, <3>1
    <3>3. 1..capMade \subseteq 1..capMade' /\ (capMade' = capMade + 1 => capMade' \in 1..capMade')
      BY <2>1, <3>1
    <3>4. QED
      BY <2>1, <3>1, <3>2, <3>3 DEF PoolOK
  <2>5. CASE CapFilled(c)
    <3>1. /\ capMade' = capMade /\ capOld' = capOld /\ capUsed' = capUsed
          /\ \/ capPool' = capPool
             \/ capCall[c].at = "filled" /\ capPool' = capPool \cup {capCall[c].token}
      BY <2>5 DEF CapFilled
    <3>2. capCall[c].at = "filled" => capCall[c].token \in 1..capMade
      BY <1>2, <2>1 DEF PlaceOK, CapTypes, TokensOK, Calls
    <3>3. QED
      BY <2>1, <3>1, <3>2 DEF PoolOK
  <2>6. QED
    BY <2>2, <2>3, <2>4, <2>5 DEF CapCallStep, CapQueueEnds, CapHeldLate, CapPost,
       CapPostFails, CapHangs, CapReacquire, CapReacquireEnds, CapAcquire
<1>6. WarmOK'
  <2>1. CASE UNCHANGED capWarmVars
    BY <2>1, TypesKept
  <2>2. CASE CapFilled(c)
    BY <2>2 DEF CapFilled, CapTypes, WarmOK, LoopPlaces
  <2>3. QED
    BY <2>1, <2>2 DEF CapCallStep, CapBegin, CapQueueEnds, CapHeldLate, CapPost, CapToken,
       CapPostFails, CapHangs, CapReacquire, CapReacquireEnds, CapPaid, CapAcquire
<1>7. RunOK' /\ ArmedOK'
  <2>1. UNCHANGED capRunVars /\ UNCHANGED capArmed
    BY DEF CapCallStep, CapBegin, CapQueueEnds, CapHeldLate, CapPost, CapToken, CapFilled,
       CapPostFails, CapHangs, CapReacquire, CapReacquireEnds, CapPaid, CapAcquire,
       capWarmVars
  <2>2. QED
    BY <2>1, TypesKept DEF capRunVars
<1>8. TokensOK'
  <2>1. /\ capMade \in Nat /\ capMade' \in Nat /\ capMade <= capMade'
        /\ \A d \in CapCalls : capCall[d].token \in Nat /\ capCall[d].token <= capMade
        /\ capCall \in [CapCalls -> Calls]
    <3>1. capMade' = capMade \/ capMade' = capMade + 1
      BY DEF CapCallStep, CapBegin, CapQueueEnds, CapHeldLate, CapPost, CapToken, CapFilled,
         CapPostFails, CapHangs, CapReacquire, CapReacquireEnds, CapPaid, CapAcquire, 
         capPoolVars
    <3>2. QED
      BY <1>2, <3>1, CaptchaAssumption DEF CapTypes, PoolOK, TokensOK, CallOK, Calls
  <2>2. ASSUME NEW new, Becomes(c, new), new.token = 0 \/ new.token = capMade'
        PROVE  TokensOK'
    BY <2>1, <2>2 DEF Becomes, TokensOK
  <2>3. CASE UNCHANGED capCall
    BY <2>1, <2>3 DEF TokensOK
  <2>4. CASE Drops(c)
    BY <2>2, <2>4 DEF Drops, Empty
  <2>5. QED
    <3>1. CASE CapBegin(c)
      BY <2>3, <2>4, <3>1, BeginDrops
    <3>2. CASE \/ CapQueueEnds(c) \/ CapHeldLate(c) \/ CapReacquireEnds(c) \/ CapPaid(c)
               \/ CapFilled(c) \/ CapPostFails(c) \/ CapHangs(c)
      BY <2>4, <3>2, DropSteps
    <3>3. CASE CapPost(c)
      BY <2>2, <3>3, PostOK
    <3>4. CASE CapToken(c)
      BY <2>2, <2>4, <3>4, TokenOK DEF CapToken
    <3>5. ASSUME NEW h \in CapHosts, CapAcquire(c, h) PROVE TokensOK'
      BY <2>2, <3>5, AcquireOK DEF Enters
    <3>6. CASE CapReacquire(c)
      BY <2>2, <3>6, ReacquireOK DEF Enters
    <3>7. QED
      BY <3>1, <3>2, <3>3, <3>4, <3>5, <3>6 DEF CapCallStep
<1>9. QED
  BY <1>1, <1>3, <1>4, <1>5, <1>6, <1>7, <1>8 DEF CapTypes, CallOK

LEMMA LoopTypes ==
  ASSUME CapTypes, NEW l \in 1..CapBatches, LoopCheck(l) \/ LoopIdles(l) \/ LoopLeaves(l)
  PROVE  CapTypes'
<1>1. capInflight' = capInflight /\ UNCHANGED capGateVars /\ UNCHANGED capRunVars
      /\ UNCHANGED <<capMade, capUsed, capArmed>>
  BY DEF LoopCheck, LoopIdles, LoopLeaves, capCallVars, capPoolVars
<1>2. capCall' \in [CapCalls -> Calls] /\ CallsOK' /\ TokensOK'
  <2>1. CASE LoopCheck(l)
    <3>1. \A d \in CapCalls : capCall'[d].token \in {0, capCall[d].token}
      BY <2>1, CheckOK
    <3>2. capMade \in Nat
      BY CaptchaAssumption DEF CapTypes, PoolOK
    <3>3. TokensOK'
      BY <1>1, <3>1, <3>2 DEF CapTypes, TokensOK
    <3>4. QED
      BY <2>1, <3>3, CheckOK
  <2>2. CASE LoopIdles(l) \/ LoopLeaves(l)
    <3>1. capCall' = capCall /\ capMade' = capMade
      BY <2>2 DEF LoopIdles, LoopLeaves, capCallVars, capPoolVars
    <3>2. QED
      BY <3>1, TypesKept DEF CapTypes, CallOK
  <2>3. QED
    BY <2>1, <2>2
<1>3. PoolOK'
  <2>1. capPool' \subseteq capPool /\ capOld' \subseteq capPool'
    <3>1. CASE LoopCheck(l)
      BY <3>1 DEF LoopCheck, CapTypes, PoolOK
    <3>2. CASE LoopIdles(l) \/ LoopLeaves(l)
      BY <3>2 DEF LoopIdles, LoopLeaves, capPoolVars, CapTypes, PoolOK
    <3>3. QED
      BY <3>1, <3>2
  <2>2. QED
    BY <1>1, <2>1 DEF CapTypes, PoolOK
<1>4. WarmOK'
  <2>1. /\ capTarget' \in {capTarget, 0} /\ capRunning' \in {capRunning, FALSE}
        /\ capStop' \in {capStop, 0} /\ capArmed' = capArmed
        /\ capClosed' \subseteq capClosed
    <3>1. CASE LoopCheck(l)
      BY <3>1 DEF LoopCheck
    <3>2. CASE LoopIdles(l)
      BY <3>2 DEF LoopIdles
    <3>3. CASE LoopLeaves(l)
      BY <3>3 DEF LoopLeaves
    <3>4. QED
      BY <3>1, <3>2, <3>3
  <2>2. capLoop' \in [1..CapBatches -> LoopPlaces]
    <3>1. PICK where \in LoopPlaces : capLoop' = [capLoop EXCEPT ![l] = where]
      <4>1. CASE LoopCheck(l)
        <5>1. CASE l \in capClosed \/ capStop # l
          BY <4>1, <5>1 DEF LoopCheck, LoopPlaces
        <5>2. CASE ~ (l \in capClosed \/ capStop # l)
          BY <4>1, <5>2 DEF LoopCheck, LoopPlaces
        <5>3. QED
          BY <5>1, <5>2
      <4>2. CASE LoopIdles(l) \/ LoopLeaves(l)
        BY <4>2 DEF LoopIdles, LoopLeaves, LoopPlaces
      <4>3. QED
        BY <4>1, <4>2
    <3>2. QED
      BY <3>1 DEF CapTypes, WarmOK
  <2>3. capRunning' \in BOOLEAN
    BY <2>1, Zenon DEF CapTypes, WarmOK
  <2>4. /\ capTarget' \in {0, CapWarm} /\ capStop' \in 0..CapBatches
        /\ capArmed' \in 0..CapBatches /\ capClosed' \subseteq 1..CapBatches
    BY <2>1, CaptchaAssumption DEF CapTypes, WarmOK
  <2>5. QED
    BY <2>2, <2>3, <2>4 DEF WarmOK
<1>5. QED
  BY <1>1, <1>2, <1>3, <1>4, TypesKept DEF CapTypes, CallOK, capRunVars

\* The steps of the batches, the settings and the clock.
RunStep == \/ \E t \in capPool : CapAges(t)
           \/ \E max \in CapLimits : CapSettings(max)
           \/ CapStart \/ CapConfigure \/ CapSetup \/ CapEnd
           \/ CapStopCall \/ CapStopPool \/ CapStopCancel

LEMMA StopTypes ==
  ASSUME CapTypes, StopWarmup
  PROVE  PoolOK' /\ WarmOK' /\ UNCHANGED <<capMade, capArmed>>
<1>1. PoolOK'
  BY DEF StopWarmup, CapTypes, PoolOK
<1>2. capClosed' \subseteq 1..CapBatches
  <2>1. {capStop} \ {0} \subseteq 1..CapBatches
    BY DEF CapTypes, WarmOK
  <2>2. QED
    BY <2>1 DEF StopWarmup, CapTypes, WarmOK
<1>3. WarmOK'
  <2>1. capRunning' \in BOOLEAN
    BY DEF StopWarmup
  <2>2. capTarget' \in {0, CapWarm} /\ capStop' \in 0..CapBatches
    BY CaptchaAssumption DEF StopWarmup
  <2>3. capArmed' \in 0..CapBatches /\ capLoop' \in [1..CapBatches -> LoopPlaces]
    BY DEF StopWarmup, CapTypes, WarmOK
  <2>4. QED
    BY <1>2, <2>1, <2>2, <2>3 DEF WarmOK
<1>4. QED
  BY <1>1, <1>3 DEF StopWarmup

LEMMA RunTypes ==
  ASSUME CapTypes, RunStep
  PROVE  CapTypes'
<1> USE CaptchaAssumption
<1>1. UNCHANGED capCallVars /\ UNCHANGED capMade
  BY DEF RunStep, CapAges, CapSettings, CapStart, CapConfigure, CapSetup, CapEnd, StopWarmup,
     CapStopCall, CapStopPool, CapStopCancel, capPoolVars
<1>2. CallOK' /\ CallsOK' /\ TokensOK'
  BY <1>1, TypesKept DEF capCallVars
<1>3. GateOK'
  <2>1. ASSUME NEW max \in CapLimits, CapSettings(max) PROVE GateOK'
    BY <2>1 DEF CapSettings, CapTypes, GateOK
  <2>2. CASE UNCHANGED capGateVars
    BY <2>2, TypesKept
  <2>3. QED
    BY <2>1, <2>2 DEF RunStep, CapAges, CapStart, CapConfigure, CapSetup, CapEnd,
       CapStopCall, CapStopPool, CapStopCancel
<1>4. ASSUME UNCHANGED capPoolVars PROVE PoolOK'
  BY <1>4, TypesKept
<1>5. ASSUME UNCHANGED capWarmVars PROVE WarmOK'
  BY <1>5, TypesKept
<1>6. ASSUME UNCHANGED <<capArmed, capBatch, capAt>> PROVE ArmedOK'
  BY <1>6, TypesKept
<1>7. SUFFICES PoolOK' /\ WarmOK' /\ RunOK' /\ ArmedOK'
  BY <1>2, <1>3 DEF CapTypes
<1>8. ASSUME NEW t \in capPool, CapAges(t) PROVE PoolOK' /\ WarmOK' /\ RunOK' /\ ArmedOK'
  <2>1. UNCHANGED capWarmVars /\ UNCHANGED capRunVars
    BY <1>8 DEF CapAges
  <2>2. PoolOK'
    BY <1>8 DEF CapAges, CapTypes, PoolOK
  <2>3. QED
    BY <1>5, <1>6, <2>1, <2>2, TypesKept DEF capWarmVars, capRunVars
<1>9. ASSUME NEW max \in CapLimits, CapSettings(max) 
      PROVE PoolOK' /\ WarmOK' /\ RunOK' /\ ArmedOK'
  BY <1>9, TypesKept DEF CapSettings, capWarmVars, capRunVars
<1>10. CASE CapStart \/ CapSetup
  <2>1. UNCHANGED capPoolVars /\ UNCHANGED capWarmVars
    BY <1>10 DEF CapStart, CapSetup
  <2>2. RunOK' /\ ArmedOK'
    <3>1. CASE CapStart
      BY <2>1, <3>1 DEF CapStart, CapTypes, RunOK, WarmOK, ArmedOK, capWarmVars
    <3>2. CASE CapSetup
      BY <2>1, <3>2 DEF CapSetup, CapTypes, RunOK, WarmOK, ArmedOK, capWarmVars
    <3>3. QED
      BY <1>10, <3>1, <3>2
  <2>3. QED
    BY <1>4, <1>5, <2>1, <2>2
<1>11. CASE CapConfigure
  <2>1. capArmed < capBatch /\ capBatch \in 0..CapBatches /\ capArmed \in 0..CapBatches
    BY <1>11 DEF CapConfigure, CapTypes, ArmedOK, RunOK, WarmOK
  <2>2. capArmed' \in {capArmed, capArmed + 1} /\ capBatch' = capBatch /\ capAt' = "armed"
    BY <1>11 DEF CapConfigure
  <2>3. ArmedOK'
    BY <2>1, <2>2 DEF ArmedOK
  <2>4. WarmOK'
    <3>1. CASE capRunning
      BY <1>11, <3>1 DEF CapConfigure, CapTypes, WarmOK
    <3>2. CASE ~ capRunning
      <4>1. capArmed + 1 \in 1..CapBatches
        BY <2>1
      <4>2. QED
        BY <1>11, <3>2, <4>1 DEF CapConfigure, CapTypes, WarmOK, LoopPlaces
    <3>3. QED
      BY <3>1, <3>2
  <2>5. RunOK'
    BY <1>11 DEF CapConfigure, CapTypes, RunOK
  <2>6. QED
    BY <1>4, <1>11, <2>3, <2>4, <2>5 DEF CapConfigure
<1>12. CASE CapEnd \/ CapStopPool
  <2>1. StopWarmup
    BY <1>12 DEF CapEnd, CapStopPool
  <2>2. RunOK' /\ ArmedOK'
    BY <1>12, <2>1, StopTypes DEF CapEnd, CapStopPool, CapTypes, RunOK, ArmedOK
  <2>3. QED
    BY <2>1, <2>2, StopTypes
<1>13. CASE CapStopCall \/ CapStopCancel
  <2>1. UNCHANGED capPoolVars /\ UNCHANGED capWarmVars /\ UNCHANGED <<capBatch, capAt>>
    BY <1>13 DEF CapStopCall, CapStopCancel
  <2>2. RunOK'
    <3>1. CASE CapStopCall
      BY <3>1 DEF CapStopCall, CapTypes, RunOK
    <3>2. CASE CapStopCancel
      <4>1. capStopping.batch \in 1..CapBatches
        BY <3>2 DEF CapStopCancel, CapTypes, RunOK
      <4>2. /\ capStopping' = NoStop
            /\ NoStop \in [batch : 0..CapBatches, next : {"none", "pool", "cancel"}]
            /\ NoStop.next = "none"
        BY <3>2 DEF CapStopCancel, NoStop
      <4>3. QED
        BY <3>2, <4>1, <4>2 DEF CapStopCancel, CapTypes, RunOK
    <3>3. QED
      BY <1>13, <3>1, <3>2
  <2>3. QED
    BY <1>4, <1>5, <1>6, <2>1, <2>2 DEF capWarmVars
<1>14. QED
  BY <1>8, <1>9, <1>10, <1>11, <1>12, <1>13 DEF RunStep

\* The types hold of every state, whatever the settings and the bounds.
LEMMA TypesInductive == CapTypes /\ [CapNext]_capVars => CapTypes'
<1>1. ASSUME CapTypes, CapNext PROVE CapTypes'
  BY <1>1, CallStepTypes, LoopTypes, RunTypes DEF CapNext, RunStep
<1>2. ASSUME CapTypes, UNCHANGED capVars PROVE CapTypes'
  BY <1>2, TypesKept DEF CapTypes, capVars, capCallVars, capPoolVars, capWarmVars, capRunVars
<1>3. QED
  BY <1>1, <1>2

LEMMA TypesInit == CapInit => CapTypes
<1> SUFFICES ASSUME CapInit PROVE CapTypes
  OBVIOUS
<1> USE CaptchaAssumption DEF CapInit
<1>1. GateOK
  <2>1. Len(capGates) = 0 /\ capGates \in Seq([host : CapHosts, max : CapLimits])
    BY EmptySeq
  <2>2. QED
    BY <2>1 DEF GateOK
<1>2. CallOK /\ CallsOK /\ TokensOK
  <2>1. \A c \in CapCalls : capCall[c] = CapIdle
    OBVIOUS
  <2>2. CapIdle.token = 0 /\ capMade = 0
    BY IdleOK DEF Empty
  <2>3. QED
    BY <2>1, <2>2, IdleOK DEF CallOK, CallsOK, TokensOK
<1>3. PoolOK /\ WarmOK /\ ArmedOK
  <2>1. PoolOK /\ ArmedOK
    BY DEF PoolOK, ArmedOK
  <2>2. capRunning \in BOOLEAN
    OBVIOUS
  <2>3. QED
    BY <2>1, <2>2 DEF WarmOK, LoopPlaces
<1>4. RunOK
  BY DEF RunOK, NoStop
<1>5. QED
  BY <1>1, <1>2, <1>3, <1>4 DEF CapTypes

-----------------------------------------------------------------------------
(* The gates                                                               *)

GateInv ==
  /\ \A c \in CapCalls :
       /\ capCall[c].gate <= Len(capGates)
       /\ capCall[c].gate # 0 => capGates[capCall[c].gate].host = capCall[c].host
  /\ \A h \in CapHosts : capGateOf[h] # 0 => capGates[capGateOf[h]].host = h
  /\ \A g \in 1..Len(capGates) : Cardinality(Holders(g)) <= capGates[g].max

LEMMA SomeCalls ==
  ASSUME NEW S, S \subseteq CapCalls
  PROVE  /\ IsFiniteSet(S) /\ Cardinality(S) \in Nat
         /\ \A T \in SUBSET S : Cardinality(T) <= Cardinality(S)
         /\ \A c \in CapCalls \ S : Cardinality(S \cup {c}) = Cardinality(S) + 1
         /\ \A c \in S : Cardinality(S \ {c}) = Cardinality(S) - 1
<1>1. IsFiniteSet(CapCalls)
  BY CaptchaAssumption, FS_Union DEF CapCalls
<1>2. IsFiniteSet(S) /\ Cardinality(S) \in Nat
  BY <1>1, FS_Subset, FS_CardinalityType
<1>3. \A T \in SUBSET S : Cardinality(T) <= Cardinality(S)
  BY <1>2, FS_Subset
<1>4. \A c \in CapCalls \ S : Cardinality(S \cup {c}) = Cardinality(S) + 1
  BY <1>2, FS_AddElement
<1>5. \A c \in S : Cardinality(S \ {c}) = Cardinality(S) - 1
  BY <1>2, FS_RemoveElement
<1>6. QED
  BY <1>2, <1>3, <1>4, <1>5

\* No gate is made, and no call is with another gate than before.
NoneEnters ==
  /\ UNCHANGED <<capGates, capGateOf>>
  /\ \A d \in CapCalls : \/ capCall'[d].gate = 0
                         \/ /\ capCall'[d].gate = capCall[d].gate
                            /\ capCall'[d].host = capCall[d].host

LEMMA GatesKept ==
  ASSUME CapTypes, GateInv, NoneEnters
  PROVE  GateInv'
<1>1. /\ capGates' = capGates /\ capGateOf' = capGateOf
      /\ Len(capGates) \in Nat
      /\ \A g \in 1..Len(capGates) : capGates[g].max \in Nat
  <2>1. capGates \in Seq([host : CapHosts, max : CapLimits])
    BY DEF CapTypes, GateOK
  <2>2. Len(capGates) \in Nat
    BY <2>1, LenProperties
  <2>3. \A g \in 1..Len(capGates) : capGates[g] \in [host : CapHosts, max : CapLimits]
    BY <2>1, ElementOfSeq
  <2>4. QED
    BY <2>2, <2>3, CaptchaAssumption DEF NoneEnters
<1>2. ASSUME NEW g \in 1..Len(capGates)
      PROVE  Cardinality(Holders(g)') <= capGates[g].max
  <2>1. Holders(g)' \subseteq Holders(g) /\ Holders(g) \subseteq CapCalls
    BY <1>1, <1>2 DEF Holders, NoneEnters
  <2>2. Cardinality(Holders(g)') <= Cardinality(Holders(g))
    BY <2>1, SomeCalls
  <2>3. Cardinality(Holders(g)) \in Nat /\ Cardinality(Holders(g)') \in Nat
    BY <2>1, SomeCalls
  <2>4. Cardinality(Holders(g)) <= capGates[g].max
    BY DEF GateInv
  <2>5. QED
    BY <1>1, <2>2, <2>3, <2>4
<1>3. QED
  BY <1>1, <1>2 DEF GateInv, NoneEnters

LEMMA GateEntered ==
  ASSUME CapTypes, GateInv, NEW c \in CapCalls, NEW h \in CapHosts, NEW where,
         EnterGate(c, h, where), capCall[c].gate = 0, capCall[c].at \in Alive,
         NEW gx \in 1..Len(capGates'), Enters(c, h, gx)
  PROVE  GateInv'
<1> DEFINE max == capCall[c].max
<1>1. /\ capGates \in Seq([host : CapHosts, max : CapLimits])
      /\ capGateOf \in [CapHosts -> 0..Len(capGates)] /\ capCall \in [CapCalls -> Calls]
      /\ Len(capGates) \in Nat
      /\ \A i \in 1..Len(capGates) : capGates[i].max \in Nat
  <2>1. /\ capGates \in Seq([host : CapHosts, max : CapLimits])
        /\ capGateOf \in [CapHosts -> 0..Len(capGates)] /\ capCall \in [CapCalls -> Calls]
    BY DEF CapTypes, GateOK, CallOK
  <2>2. Len(capGates) \in Nat
    BY <2>1, LenProperties
  <2>3. \A i \in 1..Len(capGates) : capGates[i] \in [host : CapHosts, max : CapLimits]
    BY <2>1, ElementOfSeq
  <2>4. QED
    BY <2>1, <2>2, <2>3, CaptchaAssumption
<1>2. PICK g \in Nat : g = IF GateFits(h, max) THEN capGateOf[h] ELSE Len(capGates) + 1
  BY <1>1
<1>3. /\ capCall'[c].gate = g /\ capCall'[c].host = h
      /\ \A d \in CapCalls \ {c} : capCall'[d] = capCall[d]
  <2>1. capCall'[c].gate = gx /\ capCall'[c].host = h
    BY <1>1 DEF Enters, Becomes
  <2>2. \A d \in CapCalls \ {c} : capCall'[d] = capCall[d]
    BY <1>1 DEF Enters, Becomes
  <2>3. capCall'[c] = [capCall[c] EXCEPT !.gate = g, !.host = h, !.at = where]
    BY <1>1, <1>2 DEF EnterGate
  <2>4. capCall[c] \in Calls
    BY <1>1
  <2>5. capCall'[c].gate = g
    BY <2>3, <2>4 DEF Calls
  <2>6. QED
    BY <2>1, <2>2, <2>5
<1>4. ASSUME NEW i \in 1..Len(capGates), i # g
      PROVE  Cardinality(Holders(i)') <= capGates[i].max
  <2>1. Holders(i)' = Holders(i)
    BY <1>3, <1>4 DEF Holders
  <2>2. QED
    BY <2>1 DEF GateInv
<1>5. CASE GateFits(h, max)
  <2>1. /\ g = capGateOf[h] /\ g # 0 /\ capGates[g].max = max
        /\ Cardinality(Holders(g)) < max
        /\ capGates' = capGates /\ capGateOf' = capGateOf
    BY <1>5, <1>2 DEF EnterGate, GateFits
  <2> HIDE DEF max
  <2>2. g \in 1..Len(capGates) /\ capGates[g].host = h
    BY <1>1, <2>1 DEF GateInv
  <2>3. Cardinality(Holders(g)') <= capGates[g].max
    <3>1. c \notin Holders(g) /\ Holders(g) \subseteq CapCalls
      BY <2>2 DEF Holders
    <3>2. Holders(g)' = Holders(g) \cup {c}
      BY <1>3 DEF Holders
    <3>3. Cardinality(Holders(g)') = Cardinality(Holders(g)) + 1
      BY <3>1, <3>2, SomeCalls
    <3>4. Cardinality(Holders(g)) \in Nat
      BY <3>1, SomeCalls
    <3>5. QED
      BY <1>1, <2>1, <2>2, <3>3, <3>4
  <2>4. QED
    BY <1>3, <1>4, <2>1, <2>2, <2>3 DEF GateInv
<1>6. CASE ~ GateFits(h, max)
  <2> DEFINE S == [host : CapHosts, max : CapLimits]
             gate == [host |-> h, max |-> max]
  <2>1. /\ g = Len(capGates) + 1
        /\ capGates' = Append(capGates, gate)
        /\ capGateOf' = [capGateOf EXCEPT ![h] = g]
    BY <1>6, <1>2 DEF EnterGate
  <2>2. gate \in S /\ gate.host = h /\ gate.max = max /\ max \in Nat \ {0}
    <3>1. max \in CapLimits
      BY DEF CapTypes, CallsOK, PlaceOK
    <3>2. QED
      BY <3>1, CaptchaAssumption
  <2> HIDE DEF gate, max
  <2>3. /\ Len(capGates') = Len(capGates) + 1 /\ capGates'[g] = gate
        /\ \A i \in 1..Len(capGates) : capGates'[i] = capGates[i]
    <3>1. capGates \in Seq(S)
      BY <1>1
    <3> HIDE DEF S
    <3>2. QED
      BY <2>1, <2>2, <3>1, AppendProperties
  <2>4. Cardinality(Holders(g)') <= max
    <3>1. Holders(g)' = {c}
      <4>1. \A d \in CapCalls : capCall[d].gate # g
        BY <1>1, <2>1 DEF GateInv, Calls
      <4>2. QED
        BY <1>3, <4>1 DEF Holders
    <3>2. Cardinality({c}) = 1
      BY FS_Singleton
    <3>3. QED
      BY <2>2, <3>1, <3>2
  <2>5. \A i \in 1..Len(capGates') : Cardinality(Holders(i)') <= capGates'[i].max
    <3>1. ASSUME NEW i \in 1..Len(capGates') PROVE Cardinality(Holders(i)') <= capGates'[i].max
      <4>1. i = g \/ (i \in 1..Len(capGates) /\ i # g)
        BY <1>1, <2>1, <2>3
      <4>2. QED
        BY <1>4, <2>2, <2>3, <2>4, <4>1
    <3>2. QED
      BY <3>1
  <2>6. \A d \in CapCalls :
          /\ capCall'[d].gate <= Len(capGates')
          /\ capCall'[d].gate # 0 => capGates'[capCall'[d].gate].host = capCall'[d].host
    <3>1. \A d \in CapCalls : capCall[d].gate \in Nat
      BY <1>1 DEF Calls
    <3>2. QED
      BY <1>1, <1>3, <2>1, <2>2, <2>3, <3>1 DEF GateInv
  <2>7. \A k \in CapHosts : capGateOf'[k] # 0 => capGates'[capGateOf'[k]].host = k
    BY <1>1, <2>1, <2>2, <2>3 DEF GateInv
  <2>8. QED
    BY <2>5, <2>6, <2>7 DEF GateInv
<1>7. QED
  BY <1>5, <1>6

\* The steps that take no gate; of the others, that the call held none.
Entering == \E c \in CapCalls : CapReacquire(c) \/ \E h \in CapHosts : CapAcquire(c, h)

LEMMA BecomesStays ==
  ASSUME CapTypes, NEW c \in CapCalls, NEW new, Becomes(c, new),
         UNCHANGED <<capGates, capGateOf>>,
         new.gate = 0 \/ (new.gate = capCall[c].gate /\ new.host = capCall[c].host)
  PROVE  NoneEnters
BY DEF CapTypes, CallOK, Becomes, NoneEnters

LEMMA OthersStay ==
  ASSUME CapTypes, CapNext, ~ Entering
  PROVE  NoneEnters
<1>1. ASSUME NEW c \in CapCalls, Drops(c), UNCHANGED capGateVars PROVE NoneEnters
  BY <1>1, BecomesStays DEF Drops, Empty, capGateVars
<1>2. ASSUME UNCHANGED capCall, UNCHANGED <<capGates, capGateOf>> PROVE NoneEnters
  BY <1>2 DEF NoneEnters
<1>3. ASSUME NEW c \in CapCalls, CapCallStep(c) PROVE NoneEnters
  <2>1. UNCHANGED capGateVars
    BY <1>3 DEF Entering, CapCallStep, CapBegin, CapQueueEnds, CapHeldLate, CapPost, CapToken,
       CapPostFails, CapHangs, CapReacquireEnds, CapPaid, CapFilled
  <2>2. CASE CapBegin(c)
    BY <1>1, <1>2, <2>1, <2>2, BeginDrops DEF capGateVars
  <2>3. CASE \/ CapQueueEnds(c) \/ CapHeldLate(c) \/ CapReacquireEnds(c) \/ CapPaid(c)
             \/ CapFilled(c) \/ CapPostFails(c) \/ CapHangs(c)
    BY <1>1, <2>1, <2>3, DropSteps
  <2>4. CASE CapPost(c)
    BY <2>1, <2>4, PostOK, BecomesStays DEF capGateVars
  <2>5. CASE CapToken(c)
    BY <1>1, <2>1, <2>5, TokenOK, BecomesStays DEF capGateVars
  <2>6. QED
    BY <1>3, <2>2, <2>3, <2>4, <2>5 DEF CapCallStep, Entering
<1>4. ASSUME NEW l \in 1..CapBatches, LoopCheck(l) PROVE NoneEnters
  <2>1. UNCHANGED capGateVars
    BY <1>4 DEF LoopCheck
  <2>2. QED
    BY <1>4, <2>1, CheckOK DEF NoneEnters, capGateVars
<1>5. ASSUME NEW l \in 1..CapBatches, LoopIdles(l) \/ LoopLeaves(l) PROVE NoneEnters
  BY <1>2, <1>5 DEF LoopIdles, LoopLeaves, capGateVars, capCallVars
<1>6. CASE RunStep
  BY <1>2, <1>6 DEF RunStep, CapAges, CapSettings, CapStart, CapConfigure, CapSetup, CapEnd,
     CapStopCall, CapStopPool, CapStopCancel, capGateVars, capCallVars
<1>7. QED
  BY <1>3, <1>4, <1>5, <1>6 DEF CapNext, RunStep

LEMMA GateStep ==
  ASSUME CapTypes, GateInv, CapNext
  PROVE  GateInv'
<1>1. CASE ~ Entering
  BY <1>1, OthersStay, GatesKept
<1>2. ASSUME NEW c \in CapCalls, NEW h \in CapHosts, CapAcquire(c, h) PROVE GateInv'
  BY <1>2, AcquireOK, GateEntered DEF CapAcquire, Alive
<1>3. ASSUME NEW c \in CapCalls, CapReacquire(c) PROVE GateInv'
  BY <1>3, ReacquireOK, GateEntered DEF CapReacquire, Alive
<1>4. QED
  BY <1>1, <1>2, <1>3 DEF Entering

-----------------------------------------------------------------------------
(* The requests in flight                                                  *)

LEMMA InflightKept ==
  ASSUME InflightExact, UNCHANGED capInflight,
         \A d \in CapCalls : /\ d \in Posting' <=> d \in Posting
                             /\ d \in Posting => capCall'[d].host = capCall[d].host
  PROVE  InflightExact'
<1>1. Posting \subseteq CapCalls /\ Posting' \subseteq CapCalls
  BY DEF Posting
<1>2. ASSUME NEW h \in CapHosts
      PROVE  {c \in Posting' : capCall'[c].host = h} = {c \in Posting : capCall[c].host = h}
  <2>1. Posting' = Posting
    BY <1>1
  <2>2. \A c \in Posting : capCall'[c].host = capCall[c].host
    BY <1>1
  <2>3. QED
    BY <2>1, <2>2
<1>3. QED
  BY <1>2 DEF InflightExact

\* Call c, posting, becomes one that is not, or the other way round.
LEMMA InflightMoves ==
  ASSUME CapTypes, InflightExact, NEW c \in CapCalls, NEW new, Becomes(c, new),
         NEW host \in CapHosts, host = capCall[c].host,
         \/ /\ c \in Posting /\ new.at \notin {"post", "postAgain"}
            /\ capInflight' = [capInflight EXCEPT ![host] = capInflight[host] - 1]
         \/ /\ c \notin Posting /\ new.at \in {"post", "postAgain"} /\ new.host = host
            /\ capInflight' = [capInflight EXCEPT ![host] = capInflight[host] + 1]
  PROVE  InflightExact'
<1>1. /\ capCall'[c] = new /\ \A d \in CapCalls \ {c} : capCall'[d] = capCall[d]
      /\ capInflight \in [CapHosts -> Int]
  BY DEF CapTypes, CallOK, Becomes
<1>2. ASSUME NEW h \in CapHosts
      PROVE  capInflight'[h] = Cardinality({d \in Posting' : capCall'[d].host = h})
  <2> DEFINE old == {d \in Posting : capCall[d].host = h}
             now == {d \in Posting' : capCall'[d].host = h}
  <2>1. old \subseteq CapCalls /\ capInflight[h] = Cardinality(old)
    BY DEF Posting, InflightExact
  <2>2. CASE h # host
    <3>1. now = old
      BY <1>1, <2>2 DEF Posting
    <3>2. QED
      BY <1>1, <2>1, <2>2, <3>1
  <2>3. CASE h = host /\ c \in Posting
    <3>1. now = old \ {c} /\ c \in old
      BY <1>1, <2>3 DEF Posting
    <3>2. capInflight'[h] = capInflight[h] - 1
      BY <1>1, <2>3
    <3> HIDE DEF old, now
    <3>3. Cardinality(now) = Cardinality(old) - 1
      BY <2>1, <3>1, SomeCalls
    <3>4. QED
      BY <2>1, <3>2, <3>3 DEF now
  <2>4. CASE h = host /\ c \notin Posting
    <3>1. now = old \cup {c} /\ c \notin old
      BY <1>1, <2>4 DEF Posting
    <3>2. capInflight'[h] = capInflight[h] + 1
      BY <1>1, <2>4
    <3> HIDE DEF old, now
    <3>3. Cardinality(now) = Cardinality(old) + 1
      BY <2>1, <3>1, SomeCalls
    <3>4. QED
      BY <2>1, <3>2, <3>3 DEF now
  <2>5. QED
    BY <2>2, <2>3, <2>4
<1>3. QED
  BY <1>2 DEF InflightExact

LEMMA InflightStep ==
  ASSUME CapTypes, InflightExact, CapNext
  PROVE  InflightExact'
<1>1. ASSUME NEW c \in CapCalls, NEW new, Becomes(c, new), UNCHANGED capInflight,
             c \notin Posting, new.at \notin {"post", "postAgain"}
      PROVE  InflightExact'
  <2>1. /\ capCall'[c] = new /\ \A d \in CapCalls \ {c} : capCall'[d] = capCall[d]
    BY <1>1 DEF CapTypes, CallOK, Becomes
  <2>2. \A d \in CapCalls : /\ d \in Posting' <=> d \in Posting
                            /\ d \in Posting => capCall'[d].host = capCall[d].host
    BY <1>1, <2>1 DEF Posting
  <2>3. QED
    BY <1>1, <2>2, InflightKept
<1>2. ASSUME NEW c \in CapCalls, Drops(c), UNCHANGED capInflight, c \notin Posting
      PROVE  InflightExact'
  BY <1>1, <1>2 DEF Drops
<1>3. ASSUME UNCHANGED capCall, UNCHANGED capInflight PROVE InflightExact'
  BY <1>3 DEF InflightExact, Posting
<1>4. ASSUME NEW c \in CapCalls, Drops(c), c \in Posting,
             capInflight' = [capInflight EXCEPT ![capCall[c].host] = @ - 1]
      PROVE  InflightExact'
  <2>1. PICK new : Becomes(c, new) /\ new.at \notin {"post", "postAgain"}
    BY <1>4 DEF Drops
  <2>2. PICK host \in CapHosts : host = capCall[c].host
    BY <1>4 DEF CapTypes, CallsOK, PlaceOK, Posting, Gated
  <2>3. QED
    BY <1>4, <2>1, <2>2, InflightMoves
<1>5. ASSUME NEW c \in CapCalls, CapCallStep(c) PROVE InflightExact'
  <2>1. CASE CapBegin(c)
    BY <1>2, <1>3, <2>1, BeginDrops DEF CapBegin, Posting
  <2>2. CASE \/ CapQueueEnds(c) \/ CapHeldLate(c) \/ CapReacquireEnds(c) \/ CapPaid(c)
             \/ CapFilled(c)
    <3>1. UNCHANGED capInflight /\ c \notin Posting
      BY <2>2 DEF CapQueueEnds, CapHeldLate, CapReacquireEnds, CapPaid, CapFilled, Posting
    <3>2. QED
      BY <1>2, <2>2, <3>1, DropSteps
  <2>3. CASE CapPostFails(c) \/ CapHangs(c)
    BY <1>4, <2>3, DropSteps DEF CapPostFails, CapHangs, PostEnds, Posting
  <2>4. CASE CapToken(c)
    <3>1. c \in Posting /\ capInflight' = [capInflight EXCEPT ![capCall[c].host] = @ - 1]
      BY <2>4 DEF CapToken, PostEnds
    <3>2. CASE Drops(c)
      BY <1>4, <3>1, <3>2
    <3>3. ASSUME NEW new, Becomes(c, new), new.at = "filled" PROVE InflightExact'
      <4>1. PICK host \in CapHosts : host = capCall[c].host
        BY <3>1 DEF CapTypes, CallsOK, PlaceOK, Posting, Gated
      <4>2. QED
        BY <3>1, <3>3, <4>1, InflightMoves
    <3>4. QED
      BY <2>4, <3>2, <3>3, TokenOK
  <2>5. CASE CapPost(c)
    <3>1. PICK new : /\ Becomes(c, new) /\ new.at \in {"post", "postAgain"}
                     /\ new.host = capCall[c].host
      BY <2>5, PostOK
    <3>2. capInflight' = [capInflight EXCEPT ![capCall[c].host]
                                             = capInflight[capCall[c].host] + 1]
      BY <2>5, Zenon DEF CapPost
    <3>3. PICK host \in CapHosts : host = capCall[c].host
      BY <2>5 DEF CapPost, CapTypes, CallsOK, PlaceOK, Gated
    <3>4. c \notin Posting
      BY <2>5 DEF CapPost, Posting
    <3>5. QED
      BY <3>1, <3>2, <3>3, <3>4, InflightMoves
  <2>6. ASSUME NEW h \in CapHosts, CapAcquire(c, h) PROVE InflightExact'
    BY <1>1, <2>6, AcquireOK DEF CapAcquire, Enters, Posting
  <2>7. CASE CapReacquire(c)
    BY <1>1, <2>7, ReacquireOK DEF CapReacquire, Enters, Posting
  <2>8. QED
    BY <1>5, <2>1, <2>2, <2>3, <2>4, <2>5, <2>6, <2>7 DEF CapCallStep
<1>6. ASSUME NEW l \in 1..CapBatches, LoopCheck(l) PROVE InflightExact'
  <2>1. UNCHANGED capInflight
    BY <1>6 DEF LoopCheck
  <2>2. \A d \in CapCalls : /\ d \in Posting' <=> d \in Posting
                            /\ d \in Posting => capCall'[d].host = capCall[d].host
    BY <1>6, CheckOK DEF Posting
  <2>3. QED
    BY <2>1, <2>2, InflightKept
<1>7. ASSUME NEW l \in 1..CapBatches, LoopIdles(l) \/ LoopLeaves(l) PROVE InflightExact'
  BY <1>3, <1>7 DEF LoopIdles, LoopLeaves, capCallVars
<1>8. CASE RunStep
  BY <1>3, <1>8 DEF RunStep, CapAges, CapSettings, CapStart, CapConfigure, CapSetup, CapEnd,
     CapStopCall, CapStopPool, CapStopCancel, capCallVars
<1>9. QED
  BY <1>5, <1>6, <1>7, <1>8 DEF CapNext, RunStep

-----------------------------------------------------------------------------
(* The tokens                                                              *)

TokenInv ==
  /\ capPool \cap capUsed = {}
  /\ \A c \in CapCalls : capCall[c].token \notin capPool \cup capUsed
  /\ \A c, d \in CapCalls :
       c # d /\ capCall[c].token # 0 => capCall[c].token # capCall[d].token

TokensFinite ==
  /\ capMade \in Nat /\ capPool \subseteq 1..capMade /\ capUsed \subseteq 1..capMade
  /\ \A c \in CapCalls : capCall[c].token \in 0..capMade

LEMMA TokenTypes == CapTypes => TokensFinite
BY CaptchaAssumption DEF CapTypes, PoolOK, CallOK, Calls, TokensOK, TokensFinite

\* Tokens only leave the pool, for a registration or for good, and the calls.
LEMMA TokensLeave ==
  ASSUME TokensFinite, TokenInv,
         capPool' \subseteq capPool, capUsed' \subseteq capUsed \cup (capPool \ capPool'),
         \A d \in CapCalls : capCall'[d].token \in {0, capCall[d].token}
  PROVE  TokenInv'
<1>1. capPool' \cap capUsed' = {}
  BY DEF TokenInv
<1>2. capPool' \cup capUsed' \subseteq capPool \cup capUsed /\ 0 \notin capPool \cup capUsed
  BY DEF TokensFinite
<1>3. \A d \in CapCalls : capCall'[d].token \notin capPool' \cup capUsed'
  BY <1>2 DEF TokenInv
<1>4. \A c, d \in CapCalls :
        c # d /\ capCall'[c].token # 0 => capCall'[c].token # capCall'[d].token
  BY DEF TokenInv
<1>5. QED
  BY <1>1, <1>3, <1>4 DEF TokenInv

LEMMA TokenStep ==
  ASSUME CapTypes, TokenInv, CapNext
  PROVE  TokenInv'
<1>1. TokensFinite /\ capCall \in [CapCalls -> Calls] /\ capOld \subseteq capPool
  BY TokenTypes DEF CapTypes, CallOK, PoolOK
<1>2. ASSUME UNCHANGED capCall PROVE \A d \in CapCalls : capCall'[d].token \in {0, capCall[d].token}
  BY <1>2
<1>3. ASSUME NEW c \in CapCalls, NEW new, Becomes(c, new), new.token = 0
      PROVE  /\ capCall'[c].token = 0 /\ \A d \in CapCalls \ {c} : capCall'[d] = capCall[d]
             /\ \A d \in CapCalls : capCall'[d].token \in {0, capCall[d].token}
  BY <1>1, <1>3 DEF Becomes
<1>4. ASSUME NEW c \in CapCalls, Drops(c)
      PROVE  /\ capCall'[c].token = 0 /\ \A d \in CapCalls \ {c} : capCall'[d] = capCall[d]
             /\ \A d \in CapCalls : capCall'[d].token \in {0, capCall[d].token}
  BY <1>3, <1>4 DEF Drops, Empty
\* A new token goes to a registration.
<1>5. ASSUME UNCHANGED capPool, capUsed' = capUsed \cup {capMade + 1},
             \A d \in CapCalls : capCall'[d].token \in {0, capCall[d].token}
      PROVE  TokenInv'
  <2>1. \A n \in 0..capMade : n # capMade + 1
    BY <1>1 DEF TokensFinite
  <2>2. capMade + 1 \notin capPool
    BY <1>1, <2>1 DEF TokensFinite
  <2>3. capMade + 1 # 0 /\ 0 \notin capPool \cup capUsed
    BY <1>1 DEF TokensFinite
  <2>4. \A d \in CapCalls : capCall'[d].token # capMade + 1
    BY <1>1, <1>5, <2>1, <2>3 DEF TokensFinite
  <2>5. \A d \in CapCalls : capCall'[d].token \notin capPool \cup capUsed
    BY <1>5, <2>3 DEF TokenInv
  <2>6. \A c, d \in CapCalls :
          c # d /\ capCall'[c].token # 0 => capCall'[c].token # capCall'[d].token
    BY <1>5 DEF TokenInv
  <2>7. QED
    BY <1>5, <2>2, <2>4, <2>5, <2>6 DEF TokenInv
<1>6. ASSUME NEW c \in CapCalls, CapCallStep(c) PROVE TokenInv'
  <2>1. CASE CapBegin(c)
    <3>1. capPool' \subseteq capPool /\ capUsed' \subseteq capUsed \cup (capPool \ capPool')
      BY <2>1 DEF CapBegin
    <3>2. \A d \in CapCalls : capCall'[d].token \in {0, capCall[d].token}
      BY <1>2, <1>4, <2>1, BeginDrops
    <3>3. QED
      BY <1>1, <3>1, <3>2, TokensLeave
  <2>2. CASE \/ CapQueueEnds(c) \/ CapHeldLate(c) \/ CapReacquireEnds(c)
             \/ CapPostFails(c) \/ CapHangs(c)
    <3>1. UNCHANGED capPool /\ UNCHANGED capUsed
      BY <2>2 DEF CapQueueEnds, CapHeldLate, CapReacquireEnds, CapPostFails, CapHangs,
         capPoolVars
    <3>2. \A d \in CapCalls : capCall'[d].token \in {0, capCall[d].token}
      BY <1>4, <2>2, DropSteps
    <3>3. QED
      BY <1>1, <3>1, <3>2, TokensLeave
  <2>3. CASE CapPaid(c)
    <3>1. \A d \in CapCalls : capCall'[d].token \in {0, capCall[d].token}
      BY <1>4, <2>3, DropSteps
    <3>2. UNCHANGED capPool /\ (capUsed' = capUsed \/ capUsed' = capUsed \cup {capMade + 1})
      BY <2>3 DEF CapPaid
    <3>3. QED
      BY <1>1, <1>5, <3>1, <3>2, TokensLeave
  <2>4. CASE CapToken(c) /\ c \notin CapFillers
    <3>1. \A d \in CapCalls : capCall'[d].token \in {0, capCall[d].token}
      BY <1>4, <2>4, TokenOK
    <3>2. UNCHANGED capPool /\ capUsed' = capUsed \cup {capMade + 1}
      BY <2>4 DEF CapToken, CapCalls
    <3>3. QED
      BY <1>5, <3>1, <3>2
  <2>5. CASE CapToken(c) /\ c \in CapFillers
    <3>1. PICK new : Becomes(c, new) /\ new.token = capMade + 1
      BY <2>5, TokenOK
    <3>2. /\ capCall'[c].token = capMade + 1
          /\ \A d \in CapCalls \ {c} : capCall'[d] = capCall[d]
      BY <1>1, <3>1 DEF Becomes
    <3>3. UNCHANGED capPool /\ UNCHANGED capUsed
      BY <2>5, CaptchaAssumption DEF CapToken
    <3>4. capMade + 1 \notin capPool \cup capUsed
      BY <1>1 DEF TokensFinite
    <3>5. \A d \in CapCalls : capCall[d].token # capMade + 1
      BY <1>1 DEF TokensFinite
    <3>6. QED
      BY <3>2, <3>3, <3>4, <3>5 DEF TokenInv
  <2>6. CASE CapFilled(c)
    <3>1. /\ capCall'[c].token = 0 /\ \A d \in CapCalls \ {c} : capCall'[d] = capCall[d]
          /\ \A d \in CapCalls : capCall'[d].token \in {0, capCall[d].token}
      BY <1>4, <2>6, DropSteps
    <3>2. /\ UNCHANGED capUsed
          /\ capPool' = capPool \/ capPool' = capPool \cup {capCall[c].token}
      BY <2>6 DEF CapFilled
    <3>3. CASE capPool' = capPool
      BY <1>1, <3>1, <3>2, <3>3, TokensLeave
    <3>4. CASE capPool' = capPool \cup {capCall[c].token} /\ capCall[c].at = "filled"
      <4>1. capCall[c].token # 0
        BY <3>4 DEF CapTypes, CallsOK, PlaceOK
      <4>2. 0 \notin capPool' \cup capUsed'
        BY <1>1, <3>2, <3>4, <4>1 DEF TokensFinite
      <4>3. \A d \in CapCalls \ {c} : capCall[d].token \notin capPool' \cup capUsed'
        BY <3>2, <3>4, <4>1 DEF TokenInv
      <4>4. capPool' \cap capUsed' = {}
        BY <3>2, <3>4 DEF TokenInv
      <4>5. \A d \in CapCalls : capCall'[d].token \notin capPool' \cup capUsed'
        BY <3>1, <4>2, <4>3
      <4>6. \A b, d \in CapCalls :
              b # d /\ capCall'[b].token # 0 => capCall'[b].token # capCall'[d].token
        BY <3>1 DEF TokenInv
      <4>7. QED
        BY <4>4, <4>5, <4>6 DEF TokenInv
    <3>5. QED
      BY <2>6, <3>3, <3>4 DEF CapFilled
  <2>7. CASE CapPost(c)
    <3>1. \A d \in CapCalls : capCall'[d].token \in {0, capCall[d].token}
      BY <1>3, <2>7, PostOK
    <3>2. UNCHANGED capPool /\ UNCHANGED capUsed
      BY <2>7 DEF CapPost, capPoolVars
    <3>3. QED
      BY <1>1, <3>1, <3>2, TokensLeave
  <2>8. ASSUME NEW h \in CapHosts, CapAcquire(c, h) PROVE TokenInv'
    <3>1. \A d \in CapCalls : capCall'[d].token \in {0, capCall[d].token}
      BY <1>3, <2>8, AcquireOK DEF Enters
    <3>2. UNCHANGED capPool /\ UNCHANGED capUsed
      BY <2>8 DEF CapAcquire, capPoolVars
    <3>3. QED
      BY <1>1, <3>1, <3>2, TokensLeave
  <2>9. CASE CapReacquire(c)
    <3>1. \A d \in CapCalls : capCall'[d].token \in {0, capCall[d].token}
      BY <1>3, <2>9, ReacquireOK DEF Enters
    <3>2. UNCHANGED capPool /\ UNCHANGED capUsed
      BY <2>9 DEF CapReacquire, capPoolVars
    <3>3. QED
      BY <1>1, <3>1, <3>2, TokensLeave
  <2>10. QED
    BY <1>6, <2>1, <2>2, <2>3, <2>4, <2>5, <2>6, <2>7, <2>8, <2>9 DEF CapCallStep
<1>7. ASSUME NEW l \in 1..CapBatches, LoopCheck(l) \/ LoopIdles(l) \/ LoopLeaves(l)
      PROVE  TokenInv'
  <2>1. capPool' \subseteq capPool /\ UNCHANGED capUsed
    BY <1>1, <1>7 DEF LoopCheck, LoopIdles, LoopLeaves, capPoolVars
  <2>2. \A d \in CapCalls : capCall'[d].token \in {0, capCall[d].token}
    <3>1. CASE LoopCheck(l)
      BY <3>1, CheckOK
    <3>2. CASE LoopIdles(l) \/ LoopLeaves(l)
      BY <1>2, <3>2 DEF LoopIdles, LoopLeaves, capCallVars
    <3>3. QED
      BY <1>7, <3>1, <3>2
  <2>3. QED
    BY <1>1, <2>1, <2>2, TokensLeave
<1>8. CASE RunStep
  <2>1. capPool' \subseteq capPool /\ UNCHANGED capUsed
    BY <1>8 DEF RunStep, CapAges, CapSettings, CapStart, CapConfigure, CapSetup, CapEnd,
       StopWarmup, CapStopCall, CapStopPool, CapStopCancel, capPoolVars
  <2>2. UNCHANGED capCall
    BY <1>8 DEF RunStep, CapAges, CapSettings, CapStart, CapConfigure, CapSetup, CapEnd,
       CapStopCall, CapStopPool, CapStopCancel, capCallVars
  <2>3. QED
    BY <1>1, <1>2, <2>1, <2>2, TokensLeave
<1>9. QED
  BY <1>6, <1>7, <1>8 DEF CapNext, RunStep

-----------------------------------------------------------------------------
(* The loops                                                               *)

LoopInv ==
  /\ capStop = 0 => ~ capRunning /\ capPool = {} /\ capTarget = 0
  /\ capStop # 0 => capRunning
  /\ Cardinality(capPool) <= capTarget
  /\ \A l \in 1..CapBatches :
       /\ capLoop[l] \in {"check", "filling", "leaving"} /\ l \notin capClosed => capStop = l
       /\ l > capArmed => capLoop[l] = "none"
  /\ \A c \in CapFillers : capCall[c].at # "idle" =>
       capCall[c].loop \in 1..CapBatches /\ capLoop[capCall[c].loop] = "filling"

\* The fills at work stay with loops that still wait for them.
FillsStay ==
  \A d \in CapFillers : capCall'[d].at # "idle" =>
    \/ /\ capCall[d].at # "idle" /\ capCall'[d].loop = capCall[d].loop
       /\ capLoop'[capCall[d].loop] = capLoop[capCall[d].loop]
    \/ capCall'[d].loop \in 1..CapBatches /\ capLoop'[capCall'[d].loop] = "filling"

LEMMA PoolFinite ==
  ASSUME CapTypes, NEW S, S \subseteq capPool
  PROVE  /\ IsFiniteSet(S) /\ Cardinality(S) \in Nat /\ Cardinality(S) <= Cardinality(capPool)
         /\ Cardinality(capPool) \in Nat /\ IsFiniteSet(capPool)
         /\ \A t : Cardinality(S \cup {t}) <= Cardinality(S) + 1
<1>1. capMade \in Nat /\ capPool \subseteq 1..capMade
  BY CaptchaAssumption DEF CapTypes, PoolOK
<1>2. IsFiniteSet(1..capMade)
  BY <1>1, FS_Interval
<1>3. IsFiniteSet(capPool) /\ IsFiniteSet(S)
  BY <1>1, <1>2, FS_Subset
<1>4. Cardinality(S) \in Nat /\ Cardinality(capPool) \in Nat
  BY <1>3, FS_CardinalityType
<1>5. Cardinality(S) <= Cardinality(capPool)
  BY <1>3, FS_Subset
<1>6. \A t : Cardinality(S \cup {t}) <= Cardinality(S) + 1
  BY <1>3, <1>4, FS_AddElement
<1>7. QED
  BY <1>3, <1>4, <1>5, <1>6

\* The loops stay where they are and the pool shrinks at most.
LEMMA LoopsKept ==
  ASSUME CapTypes, LoopInv, UNCHANGED capWarmVars, capPool' \subseteq capPool, FillsStay
  PROVE  LoopInv'
<1>1. /\ capStop' = capStop /\ capRunning' = capRunning /\ capTarget' = capTarget
      /\ capLoop' = capLoop /\ capClosed' = capClosed /\ capArmed' = capArmed
  BY DEF capWarmVars
<1>2. Cardinality(capPool') <= capTarget'
  <2>1. capTarget \in Nat
    BY CaptchaAssumption DEF CapTypes, WarmOK
  <2>2. QED
    BY <1>1, <2>1, PoolFinite DEF LoopInv
<1>3. \A c \in CapFillers : capCall'[c].at # "idle" =>
        capCall'[c].loop \in 1..CapBatches /\ capLoop'[capCall'[c].loop] = "filling"
  BY <1>1 DEF LoopInv, FillsStay
<1>4. QED
  BY <1>1, <1>2, <1>3 DEF LoopInv

LEMMA LoopCallStep ==
  ASSUME CapTypes, LoopInv, NEW c \in CapCalls, CapCallStep(c)
  PROVE  LoopInv'
<1>1. /\ capCall \in [CapCalls -> Calls] /\ capLoop \in [1..CapBatches -> LoopPlaces]
      /\ capOld \subseteq capPool /\ capTarget \in Nat /\ CapFillers \subseteq CapCalls
  BY CaptchaAssumption DEF CapTypes, CallOK, WarmOK, PoolOK, CapCalls
<1>2. ASSUME NEW new, Becomes(c, new), UNCHANGED capLoop PROVE FillsStay
  BY <1>1, <1>2 DEF Becomes, FillsStay
<1>3. ASSUME Drops(c), UNCHANGED capLoop PROVE FillsStay
  BY <1>2, <1>3 DEF Drops
<1>4. CASE CapBegin(c)
  <2>1. capPool' \subseteq capPool /\ UNCHANGED capWarmVars /\ UNCHANGED capLoop
    BY <1>4 DEF CapBegin, capWarmVars
  <2>2. FillsStay
    <3>1. UNCHANGED capCall => FillsStay
      BY <2>1 DEF FillsStay
    <3>2. QED
      BY <1>3, <1>4, <2>1, <3>1, BeginDrops
  <2>3. QED
    BY <2>1, <2>2, LoopsKept
<1>5. CASE \/ CapQueueEnds(c) \/ CapHeldLate(c) \/ CapReacquireEnds(c)
           \/ CapPostFails(c) \/ CapHangs(c) \/ CapPaid(c)
  <2>1. capPool' \subseteq capPool /\ UNCHANGED capWarmVars /\ UNCHANGED capLoop
    BY <1>5 DEF CapQueueEnds, CapHeldLate, CapReacquireEnds, CapPostFails, CapHangs, CapPaid,
       capWarmVars, capPoolVars
  <2>2. QED
    BY <1>3, <1>5, <2>1, DropSteps, LoopsKept
<1>6. CASE CapToken(c) \/ CapPost(c)
  <2>1. capPool' \subseteq capPool /\ UNCHANGED capWarmVars /\ UNCHANGED capLoop
    BY <1>6 DEF CapToken, CapPost, capWarmVars, capPoolVars
  <2>2. QED
    BY <1>2, <1>3, <1>6, <2>1, TokenOK, PostOK, LoopsKept
<1>7. ASSUME NEW h \in CapHosts, CapAcquire(c, h) PROVE LoopInv'
  <2>1. capPool' \subseteq capPool /\ UNCHANGED capWarmVars /\ UNCHANGED capLoop
    BY <1>7 DEF CapAcquire, capWarmVars, capPoolVars
  <2>2. QED
    BY <1>2, <1>7, <2>1, AcquireOK, LoopsKept DEF Enters
<1>8. CASE CapReacquire(c)
  <2>1. capPool' \subseteq capPool /\ UNCHANGED capWarmVars /\ UNCHANGED capLoop
    BY <1>8 DEF CapReacquire, capWarmVars, capPoolVars
  <2>2. QED
    BY <1>2, <1>8, <2>1, ReacquireOK, LoopsKept DEF Enters
<1>9. CASE CapFilled(c)
  <2>1. /\ c \in CapFillers /\ capCall[c].at # "idle" /\ capCall'[c] = CapIdle
        /\ \A d \in CapCalls \ {c} : capCall'[d] = capCall[d]
    BY <1>1, <1>9 DEF CapFilled
  <2>2. PICK l \in 1..CapBatches : l = capCall[c].loop /\ capLoop[l] = "filling"
    BY <2>1 DEF LoopInv
  <2>3. /\ \A k \in 1..CapBatches \ {l} : capLoop'[k] = capLoop[k]
        /\ capLoop'[l] \in {"filling", "check"}
        /\ (\E d \in CapFillers \ {c} : capCall[d].loop = l) => capLoop' = capLoop
    BY <1>1, <1>9, <2>2 DEF CapFilled
  <2>4. /\ capStop' = capStop /\ capRunning' = capRunning /\ capTarget' = capTarget
        /\ capClosed' = capClosed /\ capArmed' = capArmed
    BY <1>9 DEF CapFilled
  <2>5. /\ Cardinality(capPool') <= capTarget /\ (capTarget = 0 => capPool' = capPool)
    <3>1. CASE capPool' = capPool
      BY <3>1 DEF LoopInv
    <3>2. CASE Cardinality(capPool) < capTarget /\ capPool' = capPool \cup {capCall[c].token}
      <4>1. /\ Cardinality(capPool') <= Cardinality(capPool) + 1
            /\ Cardinality(capPool) \in Nat
        BY <3>2, PoolFinite
      <4>2. IsFiniteSet(capPool') /\ Cardinality(capPool') \in Nat
        BY <3>2, PoolFinite, FS_AddElement, FS_CardinalityType
      <4>3. QED
        BY <1>1, <3>2, <4>1, <4>2
    <3>3. QED
      BY <1>9, <3>1, <3>2 DEF CapFilled
  <2>6. \A k \in 1..CapBatches :
          /\ capLoop'[k] \in {"check", "filling", "leaving"} =>
               capLoop[k] \in {"check", "filling", "leaving"}
          /\ capLoop[k] = "none" => capLoop'[k] = "none"
    BY <2>2, <2>3
  <2>7. \A d \in CapFillers : capCall'[d].at # "idle" =>
          capCall'[d].loop \in 1..CapBatches /\ capLoop'[capCall'[d].loop] = "filling"
    <3>1. ASSUME NEW d \in CapFillers, capCall'[d].at # "idle"
          PROVE  capCall'[d].loop \in 1..CapBatches /\ capLoop'[capCall'[d].loop] = "filling"
      <4>1. d # c /\ capCall'[d] = capCall[d]
        BY <1>1, <2>1, <3>1, IdleOK
      <4>2. capCall[d].loop \in 1..CapBatches /\ capLoop[capCall[d].loop] = "filling"
        BY <3>1, <4>1 DEF LoopInv
      <4>3. QED
        BY <2>3, <4>1, <4>2
    <3>2. QED
      BY <3>1
  <2>8. QED
    BY <2>4, <2>5, <2>6, <2>7 DEF LoopInv
<1>10. QED
  BY <1>4, <1>5, <1>6, <1>7, <1>8, <1>9 DEF CapCallStep

LEMMA LoopTurnStep ==
  ASSUME CapTypes, LoopInv, NEW l \in 1..CapBatches,
         LoopCheck(l) \/ LoopIdles(l) \/ LoopLeaves(l)
  PROVE  LoopInv'
<1>1. /\ capCall \in [CapCalls -> Calls] /\ capLoop \in [1..CapBatches -> LoopPlaces]
      /\ capOld \subseteq capPool /\ capTarget \in Nat /\ CapFillers \subseteq CapCalls
  BY CaptchaAssumption DEF CapTypes, CallOK, WarmOK, PoolOK, CapCalls
\* The loop is elsewhere, not idle before and not yet armed after.
<1>2. ASSUME NEW S \in SUBSET capPool, capPool' = S, UNCHANGED capArmed,
             \A k \in 1..CapBatches \ {l} :
               capLoop'[k] = capLoop[k] /\ (k \in capClosed' <=> k \in capClosed),
             capLoop[l] \in {"check", "leaving"}, capLoop'[l] # "none",
             \/ /\ UNCHANGED <<capStop, capRunning, capTarget>>
                /\ capLoop'[l] = "ended" \/ capStop = l
             \/ /\ capStop = l /\ capStop' = 0 /\ ~ capRunning' /\ capTarget' = 0
                /\ S = {} /\ capLoop'[l] = "ended",
             FillsStay
      PROVE  LoopInv'
  <2>1. Cardinality(capPool') <= capTarget'
    <3>1. CASE S = {} /\ capTarget' = 0
      BY <1>2, <3>1, FS_EmptySet
    <3>2. CASE capTarget' = capTarget
      BY <1>1, <1>2, <3>2, PoolFinite DEF LoopInv
    <3>3. QED
      BY <1>2, <3>1, <3>2
  <2>2. \A k \in 1..CapBatches :
          /\ capLoop'[k] \in {"check", "filling", "leaving"} /\ k \notin capClosed'
               => capStop' = k
          /\ k > capArmed' => capLoop'[k] = "none"
    <3>1. ASSUME NEW k \in 1..CapBatches, k # l
          PROVE  /\ capLoop'[k] \in {"check", "filling", "leaving"} /\ k \notin capClosed'
                      => capStop' = k
                 /\ k > capArmed' => capLoop'[k] = "none"
      BY <1>2, <3>1 DEF LoopInv
    <3>2. /\ capLoop'[l] \in {"check", "filling", "leaving"} /\ l \notin capClosed'
               => capStop' = l
          /\ l > capArmed' => capLoop'[l] = "none"
      BY <1>2 DEF LoopInv
    <3>3. QED
      BY <3>1, <3>2
  <2>3. \A d \in CapFillers : capCall'[d].at # "idle" =>
          capCall'[d].loop \in 1..CapBatches /\ capLoop'[capCall'[d].loop] = "filling"
    BY <1>2 DEF LoopInv, FillsStay
  <2>4. /\ capStop' = 0 => ~ capRunning' /\ capPool' = {} /\ capTarget' = 0
        /\ capStop' # 0 => capRunning'
    BY <1>2 DEF LoopInv
  <2>5. QED
    BY <2>1, <2>2, <2>3, <2>4 DEF LoopInv
<1>3. CASE LoopCheck(l)
  <2>1. /\ capLoop[l] = "check" /\ capPool' \subseteq capPool /\ UNCHANGED capArmed
        /\ UNCHANGED <<capStop, capRunning, capTarget>>
    BY <1>1, <1>3 DEF LoopCheck
  <2>2. /\ \A k \in 1..CapBatches \ {l} :
             capLoop'[k] = capLoop[k] /\ (k \in capClosed' <=> k \in capClosed)
        /\ capLoop'[l] # "none" /\ (capLoop'[l] = "ended" \/ capStop = l)
    <3>1. CASE l \in capClosed \/ capStop # l
      BY <1>1, <1>3, <3>1 DEF LoopCheck
    <3>2. CASE ~ (l \in capClosed \/ capStop # l)
      <4>1. PICK where \in {"check", "filling"} : capLoop' = [capLoop EXCEPT ![l] = where]
        BY <1>3, <3>2 DEF LoopCheck
      <4>2. UNCHANGED capClosed
        BY <1>3, <3>2 DEF LoopCheck
      <4>3. QED
        BY <1>1, <3>2, <4>1, <4>2
    <3>3. QED
      BY <3>1, <3>2
  <2>3. FillsStay
    <3>1. ASSUME NEW d \in CapFillers, capCall'[d].at # "idle", capCall'[d] = capCall[d]
          PROVE  /\ capCall[d].at # "idle" /\ capCall'[d].loop = capCall[d].loop
                 /\ capLoop'[capCall[d].loop] = capLoop[capCall[d].loop]
      <4>1. capCall[d].loop \in 1..CapBatches /\ capLoop[capCall[d].loop] = "filling"
        BY <3>1 DEF LoopInv
      <4>2. QED
        BY <2>1, <2>2, <3>1, <4>1
    <3>2. QED
      BY <1>1, <1>3, <3>1, CheckOK DEF FillsStay
  <2>4. QED
    BY <1>2, <2>1, <2>2, <2>3
<1>4. CASE LoopIdles(l) \/ LoopLeaves(l)
  <2>1. /\ capLoop[l] \in {"check", "leaving"} /\ capCall' = capCall /\ UNCHANGED capArmed
        /\ capPool' \subseteq capPool
    BY <1>4 DEF LoopIdles, LoopLeaves, capCallVars, capPoolVars
  <2>2. /\ \A k \in 1..CapBatches \ {l} :
             capLoop'[k] = capLoop[k] /\ (k \in capClosed' <=> k \in capClosed)
        /\ capLoop'[l] # "none"
    BY <1>1, <1>4 DEF LoopIdles, LoopLeaves
  <2>3. FillsStay
    <3>1. ASSUME NEW d \in CapFillers, capCall'[d].at # "idle"
          PROVE  /\ capCall[d].at # "idle" /\ capCall'[d].loop = capCall[d].loop
                 /\ capLoop'[capCall[d].loop] = capLoop[capCall[d].loop]
      <4>1. capCall[d].loop \in 1..CapBatches /\ capLoop[capCall[d].loop] = "filling"
        BY <2>1, <3>1 DEF LoopInv
      <4>2. QED
        BY <2>1, <2>2, <3>1, <4>1
    <3>2. QED
      BY <3>1 DEF FillsStay
  <2>4. \/ /\ UNCHANGED <<capStop, capRunning, capTarget>>
           /\ capLoop'[l] = "ended" \/ capStop = l
        \/ /\ capStop = l /\ capStop' = 0 /\ ~ capRunning' /\ capTarget' = 0
           /\ capPool' = {} /\ capLoop'[l] = "ended"
    BY <1>1, <1>4 DEF LoopIdles, LoopLeaves
  <2>5. QED
    BY <1>2, <2>1, <2>2, <2>3, <2>4
<1>5. QED
  BY <1>3, <1>4

LEMMA LoopStop ==
  ASSUME CapTypes, LoopInv, StopWarmup, UNCHANGED capCall
  PROVE  LoopInv'
<1>1. /\ capStop' = 0 /\ ~ capRunning' /\ capTarget' = 0 /\ capPool' = {}
      /\ capLoop' = capLoop /\ capArmed' = capArmed
      /\ capClosed' = capClosed \cup ({capStop} \ {0})
  BY DEF StopWarmup
<1>2. Cardinality(capPool') <= capTarget'
  BY <1>1, FS_EmptySet
<1>3. \A l \in 1..CapBatches : ~ (capLoop[l] \in {"check", "filling", "leaving"} /\ l \notin capClosed')
  BY <1>1 DEF LoopInv
<1>4. QED
  BY <1>1, <1>2, <1>3 DEF LoopInv

LEMMA LoopConfigure ==
  ASSUME CapTypes, LoopInv, CapConfigure
  PROVE  LoopInv'
<1>1. /\ capCall' = capCall /\ capPool' = capPool /\ capClosed' = capClosed
      /\ capTarget' = CapWarm /\ capRunning'
  BY DEF CapConfigure, capCallVars, capPoolVars
<1>2. Cardinality(capPool) <= CapWarm
  <2>1. capTarget \in {0, CapWarm} /\ CapWarm \in Nat /\ Cardinality(capPool) \in Nat
    BY CaptchaAssumption, PoolFinite DEF CapTypes, WarmOK
  <2>2. QED
    BY <2>1 DEF LoopInv
<1>3. CASE capRunning
  <2>1. UNCHANGED <<capStop, capLoop, capArmed>> /\ capStop # 0
    BY <1>3 DEF CapConfigure, LoopInv
  <2>2. QED
    BY <1>1, <1>2, <2>1 DEF LoopInv
<1>4. CASE ~ capRunning
  <2>1. PICK n \in 1..CapBatches : n = capArmed + 1 /\ capArmed \in Nat
    <3>1. /\ capArmed < capBatch /\ capBatch \in 0..CapBatches /\ capArmed \in 0..CapBatches
          /\ CapBatches \in Nat
      BY CaptchaAssumption DEF CapConfigure, CapTypes, ArmedOK, RunOK, WarmOK
    <3>2. QED
      BY <3>1
  <2>2. /\ capArmed' = n /\ capStop' = n /\ capStop' # 0
        /\ capLoop' = [capLoop EXCEPT ![n] = "check"]
    BY <1>4, <2>1 DEF CapConfigure
  <2>3. capLoop \in [1..CapBatches -> LoopPlaces]
    BY DEF CapTypes, WarmOK
  <2>4. capStop = 0 /\ capLoop[n] = "none"
    BY <1>4, <2>1 DEF LoopInv
  <2>5. \A l \in 1..CapBatches \ {n} :
          /\ ~ (capLoop'[l] \in {"check", "filling", "leaving"} /\ l \notin capClosed)
          /\ l > n => capLoop'[l] = "none"
    BY <2>1, <2>2, <2>3, <2>4 DEF LoopInv
  <2>6. \A c \in CapFillers : capCall[c].at # "idle" =>
          capCall[c].loop \in 1..CapBatches /\ capLoop'[capCall[c].loop] = "filling"
    BY <2>2, <2>3, <2>4 DEF LoopInv
  <2>7. QED
    BY <1>1, <1>2, <2>1, <2>2, <2>5, <2>6 DEF LoopInv
<1>5. QED
  BY <1>3, <1>4

LEMMA LoopStep ==
  ASSUME CapTypes, LoopInv, CapNext
  PROVE  LoopInv'
<1>1. CASE \E c \in CapCalls : CapCallStep(c)
  BY <1>1, LoopCallStep
<1>2. CASE \E l \in 1..CapBatches : LoopCheck(l) \/ LoopIdles(l) \/ LoopLeaves(l)
  BY <1>2, LoopTurnStep
<1>3. CASE CapConfigure
  BY <1>3, LoopConfigure
<1>4. CASE CapEnd \/ CapStopPool
  BY <1>4, LoopStop DEF CapEnd, CapStopPool, capCallVars
<1>5. CASE \/ \E t \in capPool : CapAges(t)
           \/ \E max \in CapLimits : CapSettings(max)
           \/ CapStart \/ CapSetup \/ CapStopCall \/ CapStopCancel
  <2>1. UNCHANGED capWarmVars /\ capCall' = capCall /\ capPool' = capPool
    BY <1>5 DEF CapAges, CapSettings, CapStart, CapSetup, CapStopCall, CapStopCancel,
       capCallVars, capPoolVars
  <2>2. FillsStay
    BY <2>1 DEF FillsStay, capWarmVars
  <2>3. QED
    BY <2>1, <2>2, LoopsKept
<1>6. QED
  BY <1>1, <1>2, <1>3, <1>4, <1>5 DEF CapNext

-----------------------------------------------------------------------------
(* The theorems                                                            *)

\* What holds of every state, and is kept by every step.
CapInv == CapTypes /\ GateInv /\ InflightExact /\ TokenInv /\ LoopInv

LEMMA CapInvInit == CapInit => CapInv
<1> SUFFICES ASSUME CapInit PROVE CapInv
  OBVIOUS
<1>1. CapTypes
  BY TypesInit
<1>2. /\ \A c \in CapCalls : capCall[c] = CapIdle
      /\ CapIdle.gate = 0 /\ CapIdle.token = 0 /\ CapIdle.at = "idle"
      /\ Len(capGates) = 0 /\ Posting = {}
  BY IdleOK, EmptySeq DEF CapInit, Empty, Posting
<1>3. GateInv
  BY <1>2 DEF GateInv, CapInit
<1>4. InflightExact
  <2>1. \A h \in CapHosts : {c \in Posting : capCall[c].host = h} = {}
    BY <1>2
  <2>2. QED
    BY <2>1, FS_EmptySet DEF InflightExact, CapInit
<1>5. TokenInv
  BY <1>2 DEF TokenInv, CapInit
<1>6. LoopInv
  <2>1. CapFillers \subseteq CapCalls
    BY DEF CapCalls
  <2>2. Cardinality(capPool) <= capTarget
    BY FS_EmptySet DEF CapInit
  <2>3. QED
    BY <1>2, <2>1, <2>2 DEF LoopInv, CapInit
<1>7. QED
  BY <1>1, <1>3, <1>4, <1>5, <1>6 DEF CapInv

LEMMA CapInvStep == CapInv /\ [CapNext]_capVars => CapInv'
<1>1. ASSUME CapInv, CapNext PROVE CapInv'
  BY <1>1, TypesInductive, GateStep, InflightStep, TokenStep, LoopStep DEF CapInv
<1>2. ASSUME CapInv, UNCHANGED capVars PROVE CapInv'
  <2>1. CapTypes'
    BY <1>2, TypesInductive DEF CapInv
  <2>2. UNCHANGED capGateVars /\ UNCHANGED capCallVars /\ UNCHANGED capPoolVars
        /\ UNCHANGED capWarmVars
    BY <1>2 DEF capVars
  <2>3. GateInv' /\ InflightExact'
    BY <1>2, <2>2 DEF CapInv, GateInv, InflightExact, Holders, Posting, capGateVars, capCallVars
  <2>4. TokenInv' /\ LoopInv'
    BY <1>2, <2>2 DEF CapInv, TokenInv, LoopInv, capCallVars, capPoolVars, capWarmVars
  <2>5. QED
    BY <2>1, <2>3, <2>4 DEF CapInv
<1>3. QED
  BY <1>1, <1>2

LEMMA CapInvAlways == CapSpec => []CapInv
BY CapInvInit, CapInvStep, PTL DEF CapSpec

LEMMA CapInvTypes == CapInv => CapTypeOK
<1> SUFFICES ASSUME CapInv PROVE CapTypeOK
  OBVIOUS
<1>1. /\ GateOK /\ PoolOK /\ WarmOK /\ RunOK /\ capCall \in [CapCalls -> Calls]
      /\ capInflight \in [CapHosts -> Int] /\ TokensFinite
  BY TokenTypes DEF CapInv, CapTypes, CallOK
<1>2. Len(capGates) \in Nat
  BY <1>1, LenProperties DEF GateOK
<1>3. \A c \in CapCalls : capCall[c].gate \in 0..Len(capGates) /\ capCall[c].token \in 0..capMade
  BY <1>1, <1>2 DEF CapInv, GateInv, Calls, TokensFinite
<1>4. capCall \in [CapCalls -> [at : CapPlaces, left : SUBSET CapHosts,
                       host : CapHosts \cup {NoHost}, gate : 0..Len(capGates),
                       max : CapLimits \cup {0}, loop : 0..CapBatches,
                       batch : 0..CapBatches, token : 0..capMade]]
  BY <1>1, <1>3 DEF Calls
<1>5. capInflight \in [CapHosts -> Nat]
  <2>1. \A h \in CapHosts : capInflight[h] \in Nat
    <3>1. ASSUME NEW h \in CapHosts PROVE capInflight[h] \in Nat
      <4>1. {c \in Posting : capCall[c].host = h} \subseteq CapCalls
        BY DEF Posting
      <4>2. QED
        BY <4>1, SomeCalls DEF CapInv, InflightExact
    <3>2. QED
      BY <3>1
  <2>2. QED
    BY <1>1, <2>1
<1>6. QED
  BY <1>1, <1>4, <1>5 DEF CapTypeOK, GateOK, PoolOK, WarmOK, RunOK, LoopPlaces

LEMMA CapInvSound == CapInv => SolverSound
<1> SUFFICES ASSUME CapInv PROVE SolverSound
  OBVIOUS
<1>1. GateRespected
  <2>1. \A c \in Posting : capCall[c].gate # 0
    BY DEF CapInv, CapTypes, CallsOK, PlaceOK, Posting, Gated
  <2>2. Posting \subseteq CapCalls
    BY DEF Posting
  <2>3. QED
    BY <2>1, <2>2 DEF CapInv, GateInv, GateRespected
<1>2. TokenOnce
  BY DEF CapInv, TokenInv, TokenOnce
<1>3. PoolKept
  BY DEF CapInv, LoopInv, PoolKept
<1>4. QED
  BY <1>1, <1>2, <1>3, CapInvTypes DEF SolverSound, CapInv

\* In every reachable state every variable has its type, for any hosts, callers,
\* fills, limits, batches and bounds.
THEOREM CapTypeCorrect == CapSpec => []CapTypeOK
<1>1. CapInv => CapTypeOK
  BY CapInvTypes
<1>2. QED
  BY <1>1, CapInvAlways, PTL

\* Whatever calls, fills, changes of the limit and stops overlap: no gate is held
\* by more calls than its size and every request is made by a holder of the gate
\* of its host, the requests counted are those under way, no token is handed out
\* twice, and a pool without a loop is empty.
THEOREM SolverAlwaysSound == CapSpec => []SolverSound
<1>1. CapInv => SolverSound
  BY CapInvSound
<1>2. QED
  BY <1>1, CapInvAlways, PTL
=============================================================================
