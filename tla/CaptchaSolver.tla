---------------------------- MODULE CaptchaSolver ----------------------------
(***************************************************************************)
(* The Turnstile solver of a registration (grokregister/captcha.go): live  *)
(* calls of SolveTurnstileWithOptions compete with a background loop that  *)
(* keeps a pool of tokens warm, and both pass one concurrency gate for     *)
(* each solver host.                                                       *)
(*                                                                         *)
(* Tokens are numbers.  Time is abstracted: a token may grow too old, a    *)
(* wait may end and a budget may be short at any moment; the order in which*)
(* the hosts are preferred and the number of fills of one round (remote    *)
(* workers, streak of failures) are left open.  Pause, Resume and Ensure,  *)
(* which nothing calls, and VeloraTurn, which is EzSolver under another    *)
(* name, are left out.                                                     *)
(***************************************************************************)
EXTENDS Integers, Sequences, FiniteSets

CONSTANTS
  CapHosts,      \* solver hosts that are configured
  CapCallers,    \* goroutines that solve for a registration
  CapFillers,    \* goroutines that fill the pool, at most so many at once
  CapProvider,   \* the provider of the registrations
  CapLimits,     \* values the setting MaxConcurrency may take
  CapWarm,       \* tokens the pool is to hold
  CapTokens,     \* bound: tokens the solvers produce
  CapBatches,    \* bound: batches that are started
  MaxGates,      \* bound: gates that are made
  NoHost

ASSUME CaptchaAssumption ==
  /\ IsFiniteSet(CapHosts) /\ CapHosts # {} /\ NoHost \notin CapHosts
  /\ IsFiniteSet(CapCallers) /\ IsFiniteSet(CapFillers)
  /\ CapCallers \cap CapFillers = {}
  /\ CapProvider \in {"ezsolver", "auto", "auralith", "paid"}
  /\ CapLimits # {} /\ CapLimits \subseteq Nat \ {0}
  /\ CapWarm \in Nat \ {0} /\ CapTokens \in Nat \ {0}
  /\ CapBatches \in Nat \ {0} /\ MaxGates \in Nat \ {0}

CapCalls == CapCallers \cup CapFillers

VARIABLES
  capLimit,      \* MaxConcurrency in the settings
  capGates,      \* every gate made so far: its host and its size
  capGateOf,     \* ezHostGates: the number of each host's gate, 0 for none
  capCall,       \* where each call is and what it holds
  capInflight,   \* ezHostStats: requests in flight at each host
  capPool,       \* ezPool
  capOld,        \* tokens of the pool that are too old to use
  capMade,       \* history: tokens produced
  capUsed,       \* history: tokens handed to a registration
  capTarget,     \* ezPoolTarget
  capStop,       \* ezPoolStopCh: the loop that holds it, 0 for nil
  capRunning,    \* ezPoolRunning
  capClosed,     \* loops that run although their channel is closed
  capLoop,       \* where each loop is
  capArmed,      \* loops that were started
  capBatch,      \* the number of the engine's batch
  capAt,         \* where its run is
  capCancelled,  \* batches whose cancel is closed
  capStopping    \* a Stop of the page: the batch it read, and what is next

capGateVars == <<capLimit, capGates, capGateOf>>
capCallVars == <<capCall, capInflight>>
capPoolVars == <<capPool, capOld, capMade, capUsed>>
capWarmVars == <<capTarget, capStop, capRunning, capClosed, capLoop, capArmed>>
capRunVars  == <<capBatch, capAt, capCancelled, capStopping>>
capVars == <<capGateVars, capCallVars, capPoolVars, capWarmVars, capRunVars>>

CapIdle == [at |-> "idle", left |-> {}, host |-> NoHost, gate |-> 0, max |-> 0,
         loop |-> 0, batch |-> 0, token |-> 0]
NoStop == [batch |-> 0, next |-> "none"]

CapInit ==
  /\ capLimit \in CapLimits /\ capGates = <<>>
  /\ capGateOf = [h \in CapHosts |-> 0]
  /\ capCall = [c \in CapCalls |-> CapIdle]
  /\ capInflight = [h \in CapHosts |-> 0]
  /\ capPool = {} /\ capOld = {} /\ capMade = 0 /\ capUsed = {}
  /\ capTarget = 0 /\ capStop = 0 /\ capRunning = FALSE /\ capClosed = {}
  /\ capLoop = [l \in 1..CapBatches |-> "none"] /\ capArmed = 0
  /\ capBatch = 0 /\ capAt = "idle" /\ capCancelled = {}
  /\ capStopping = NoStop

-----------------------------------------------------------------------------
(* Gates                                                                   *)

Holders(g) == {c \in CapCalls : capCall[c].gate = g}
GateFits(h, max) == capGateOf[h] # 0 /\ capGates[capGateOf[h]].max = max

\* A gate of another size replaces the one of the host; who holds the old one
\* gives its slot back there.
EnterGate(c, h, where) ==
  LET max == capCall[c].max
      g   == IF GateFits(h, max) THEN capGateOf[h] ELSE Len(capGates) + 1
  IN  /\ g <= MaxGates
      /\ IF GateFits(h, max)
         THEN /\ Cardinality(Holders(g)) < max
              /\ UNCHANGED <<capGates, capGateOf>>
         ELSE /\ capGates' = Append(capGates, [host |-> h, max |-> max])
              /\ capGateOf' = [capGateOf EXCEPT ![h] = g]
      /\ capCall' = [capCall EXCEPT ![c].gate = g, ![c].host = h,
                                    ![c].at = where]

CapSettings(max) ==
  /\ max # capLimit /\ capLimit' = max
  /\ UNCHANGED <<capGates, capGateOf, capCallVars, capPoolVars, capWarmVars,
                 capRunVars>>

-----------------------------------------------------------------------------
(* A call                                                                  *)

Stopped(c) == c \in CapCallers /\ capCall[c].batch \in capCancelled

\* What becomes of a call that has nothing left to try: it returns, unless auto
\* goes on to the paid services; a fill tells its loop.
CapFailed(c) ==
  IF c \in CapFillers THEN [CapIdle EXCEPT !.at = "failed", !.loop = capCall[c].loop]
  ELSE IF CapProvider = "auto" /\ ~Stopped(c)
       THEN [CapIdle EXCEPT !.at = "paid", !.batch = capCall[c].batch] ELSE CapIdle

\* The next host, if one is left and the job goes on.
NextHost(c) ==
  IF capCall[c].left # {} /\ ~Stopped(c) /\ CapProvider # "auralith"
  THEN [capCall[c] EXCEPT !.at = "queue", !.host = NoHost, !.gate = 0]
  ELSE CapFailed(c)

\* SolveTurnstileWithOptions: a warm token, or a solve of its own.
CapBegin(c) ==
  /\ capAt = "running" /\ c \in CapCallers /\ capCall[c].at = "idle"
  /\ capBatch \notin capCancelled
  /\ LET fresh == capPool \ capOld
         call(where) == [CapIdle EXCEPT !.at = where, !.left = CapHosts,
                                     !.max = capLimit, !.batch = capBatch]
     IN  IF CapProvider \in {"ezsolver", "auto"} /\ fresh # {}
         THEN \E t \in fresh :
                /\ capPool' = fresh \ {t} /\ capOld' = {}
                /\ capUsed' = capUsed \cup {t}
                /\ capCall' = capCall
         ELSE /\ capPool' = IF CapProvider \in {"ezsolver", "auto"}
                            THEN fresh ELSE capPool
              /\ capOld' = capOld \cap capPool'
              /\ capCall' = [capCall EXCEPT ![c] =
                   CASE CapProvider = "auralith" -> call("single")
                     [] CapProvider = "paid"     -> call("paid")
                     [] OTHER                    -> call("queue")]
              /\ UNCHANGED capUsed
  /\ UNCHANGED <<capGateVars, capInflight, capMade, capWarmVars, capRunVars>>

\* acquireAnyEzSolverHost, and acquireAuralith, which has no time limit: the
\* first host of the list with a free slot.
CapAcquire(c, h) ==
  /\ \/ capCall[c].at = "queue" /\ h \in capCall[c].left
     \/ capCall[c].at = "single" /\ h = CHOOSE first \in CapHosts : TRUE
  /\ EnterGate(c, h, "held")
  /\ UNCHANGED <<capLimit, capInflight, capPoolVars, capWarmVars, capRunVars>>

\* The queue times out, or the job is cancelled while it waits.
CapQueueEnds(c) ==
  /\ \/ capCall[c].at = "queue"
     \/ capCall[c].at = "single" /\ Stopped(c)
  /\ capCall' = [capCall EXCEPT ![c] = CapFailed(c)]
  /\ UNCHANGED <<capGateVars, capInflight, capPoolVars, capWarmVars, capRunVars>>

\* Too little time is left after the wait.
CapHeldLate(c) ==
  /\ capCall[c].at \in {"held", "heldAgain"} /\ CapProvider # "auralith"
  /\ capCall' = [capCall EXCEPT ![c] =
                    IF capCall[c].at = "heldAgain" THEN NextHost(c) ELSE CapFailed(c)]
  /\ UNCHANGED <<capGateVars, capInflight, capPoolVars, capWarmVars, capRunVars>>

\* postEzSolverOnce
CapPost(c) ==
  /\ capCall[c].at \in {"held", "heldAgain"}
  /\ LET h == capCall[c].host
         at == IF capCall[c].at = "held" THEN "post" ELSE "postAgain"
     IN  /\ capCall' = [capCall EXCEPT ![c].at = at,
                                       ![c].left = @ \ {h}]
         /\ capInflight' = [capInflight EXCEPT ![h] = @ + 1]
  /\ UNCHANGED <<capGateVars, capPoolVars, capWarmVars, capRunVars>>

Posting == {c \in CapCalls : capCall[c].at \in {"post", "postAgain"}}

\* The request is answered, fails, runs out of time or is cancelled; the slot is
\* given back before anything else is tried.
PostEnds(c, call) ==
  /\ capCall' = [capCall EXCEPT ![c] = call]
  /\ capInflight' = [capInflight EXCEPT ![capCall[c].host] = @ - 1]

CapToken(c) ==
  /\ c \in Posting /\ capMade < CapTokens
  /\ capMade' = capMade + 1
  /\ IF c \in CapCallers
     THEN PostEnds(c, CapIdle) /\ capUsed' = capUsed \cup {capMade'}
     ELSE /\ PostEnds(c, [CapIdle EXCEPT !.at = "filled", !.token = capMade',
                                      !.loop = capCall[c].loop])
          /\ UNCHANGED capUsed
  /\ UNCHANGED <<capGateVars, capPool, capOld, capWarmVars, capRunVars>>

CapPostFails(c) ==
  /\ c \in Posting /\ PostEnds(c, NextHost(c))
  /\ UNCHANGED <<capGateVars, capPoolVars, capWarmVars, capRunVars>>

\* A hung browser is recycled, so the same host is asked once more, through the
\* gate again.
CapHangs(c) ==
  /\ capCall[c].at = "post" /\ CapProvider # "auralith"
  /\ PostEnds(c, [capCall[c] EXCEPT !.at = "again", !.gate = 0])
  /\ UNCHANGED <<capGateVars, capPoolVars, capWarmVars, capRunVars>>

\* A retry that passes the gate by.
ReacquireUngated(c) ==
  /\ capCall[c].at = "again"
  /\ capGateOf[capCall[c].host] # 0
  /\ capCall' = [capCall EXCEPT ![c].gate = capGateOf[capCall[c].host],
                                ![c].at = "heldAgain"]
  /\ UNCHANGED <<capGateVars, capInflight, capPoolVars, capWarmVars, capRunVars>>

CapReacquire(c) ==
  /\ capCall[c].at = "again"
  /\ EnterGate(c, capCall[c].host, "heldAgain")
  /\ UNCHANGED <<capLimit, capInflight, capPoolVars, capWarmVars, capRunVars>>

CapReacquireEnds(c) ==
  /\ capCall[c].at = "again"
  /\ capCall' = [capCall EXCEPT ![c] = NextHost(c)]
  /\ UNCHANGED <<capGateVars, capInflight, capPoolVars, capWarmVars, capRunVars>>

\* solveTurnstilePaidFallback: NextCaptcha, then YesCaptcha, each polled forty
\* times at most.
CapPaid(c) ==
  /\ capCall[c].at = "paid"
  /\ \/ /\ ~Stopped(c) /\ capMade < CapTokens
        /\ capMade' = capMade + 1 /\ capUsed' = capUsed \cup {capMade'}
        /\ capCall' = [capCall EXCEPT ![c] = CapIdle]
     \/ capCall' = [capCall EXCEPT ![c] = CapIdle] /\ UNCHANGED <<capMade, capUsed>>
  /\ UNCHANGED <<capGateVars, capInflight, capPool, capOld, capWarmVars,
                 capRunVars>>

-----------------------------------------------------------------------------
(* The warm pool                                                           *)

\* ConfigureEzTokenWarmup: a loop that runs is not started again.
CapConfigure ==
  /\ capAt = "setup" /\ CapProvider \in {"ezsolver", "auto"}
  /\ capTarget' = CapWarm /\ capRunning' = TRUE
  /\ IF capRunning
     THEN UNCHANGED <<capStop, capLoop, capArmed>>
     ELSE /\ capArmed' = capArmed + 1
          /\ capStop' = capArmed'
          /\ capLoop' = [capLoop EXCEPT ![capArmed'] = "check"]
  /\ capAt' = "armed"
  /\ UNCHANGED <<capGateVars, capCallVars, capPoolVars, capClosed, capBatch,
                 capCancelled, capStopping>>

\* StopEzTokenWarmup
StopWarmup ==
  /\ capClosed' = capClosed \cup ({capStop} \ {0})
  /\ capStop' = 0 /\ capRunning' = FALSE /\ capTarget' = 0
  /\ capPool' = {} /\ capOld' = {}
  /\ UNCHANGED <<capLoop, capArmed, capMade, capUsed>>

\* One turn of ezTokenWarmupLoop: stopped or superseded, or what is too old goes
\* and what is missing is filled by goroutines no cancel reaches.
LoopCheck(l) ==
  /\ capLoop[l] = "check"
  /\ IF l \in capClosed \/ capStop # l
     THEN /\ capLoop' = [capLoop EXCEPT ![l] = "ended"]
          /\ capClosed' = capClosed \ {l}
          /\ UNCHANGED <<capCall, capPool, capOld>>
     ELSE \E fill \in SUBSET {c \in CapFillers : capCall[c].at = "idle"} :
          /\ capPool' = capPool \ capOld /\ capOld' = {}
          /\ Cardinality(fill) <= capTarget - Cardinality(capPool')
          /\ fill # {} \/ capOld # {}
          /\ capLoop' = [capLoop EXCEPT ![l] =
                           IF fill = {} THEN "check" ELSE "filling"]
          /\ capCall' = [c \in CapCalls |->
               IF c \in fill
               THEN [CapIdle EXCEPT !.at = "queue", !.left = CapHosts,
                                 !.max = capLimit, !.loop = l]
               ELSE capCall[c]]
          /\ UNCHANGED capClosed
  /\ UNCHANGED <<capGateVars, capInflight, capMade, capUsed, capTarget, capStop,
                 capRunning, capArmed, capRunVars>>

\* Nothing was used or filled for a minute: the loop has seen it and ends itself,
\* unless another loop has taken its place in the meantime.
LoopIdles(l) ==
  /\ capLoop[l] = "check" /\ l \notin capClosed /\ capStop = l
  /\ capLoop' = [capLoop EXCEPT ![l] = "leaving"]
  /\ UNCHANGED <<capGateVars, capCallVars, capPoolVars, capTarget, capStop,
                 capRunning, capClosed, capArmed, capRunVars>>

LoopLeaves(l) ==
  /\ capLoop[l] = "leaving"
  /\ capLoop' = [capLoop EXCEPT ![l] = "ended"]
  /\ capClosed' = capClosed \ {l}
  /\ IF capStop = l
     THEN /\ capStop' = 0 /\ capRunning' = FALSE /\ capTarget' = 0
          /\ capPool' = {} /\ capOld' = {}
     ELSE UNCHANGED <<capStop, capRunning, capTarget, capPool, capOld>>
  /\ UNCHANGED <<capGateVars, capCallVars, capMade, capUsed, capArmed, capRunVars>>

\* A fill adds its token if the pool still wants it; the last of a round lets its
\* loop go on.
CapFilled(c) ==
  /\ c \in CapFillers /\ capCall[c].at \in {"filled", "failed"}
  /\ capPool' = IF capCall[c].at = "filled" /\ Cardinality(capPool) < capTarget
                THEN capPool \cup {capCall[c].token}
                ELSE capPool
  /\ capCall' = [capCall EXCEPT ![c] = CapIdle]
  /\ LET l == capCall[c].loop
     IN  capLoop' = IF \E d \in CapFillers \ {c} : capCall[d].loop = l
                    THEN capLoop ELSE [capLoop EXCEPT ![l] = "check"]
  /\ UNCHANGED <<capGateVars, capInflight, capOld, capMade, capUsed, capTarget,
                 capStop, capRunning, capClosed, capArmed, capRunVars>>

CapAges(t) ==
  /\ t \in capPool \ capOld /\ capOld' = capOld \cup {t}
  /\ UNCHANGED <<capGateVars, capCallVars, capPool, capMade, capUsed, capWarmVars,
                 capRunVars>>
-----------------------------------------------------------------------------
(* The batches of the engine                                               *)

CapStart ==
  /\ capAt = "idle" /\ capBatch < CapBatches
  /\ capBatch' = capBatch + 1 /\ capAt' = "setup"
  /\ UNCHANGED <<capGateVars, capCallVars, capPoolVars, capWarmVars,
                 capCancelled, capStopping>>

\* The setup ends early when there is no worker, mailbox or panel, and then
\* leaves the warm-up to end itself; otherwise RunBatch begins.
CapSetup ==
  /\ \/ capAt = "armed"
     \/ capAt = "setup" /\ CapProvider \notin {"ezsolver", "auto"}
  /\ capAt' \in {"running", "idle"}
  /\ UNCHANGED <<capGateVars, capCallVars, capPoolVars, capWarmVars, capBatch,
                 capCancelled, capStopping>>

CapEnd ==
  /\ capAt = "running" /\ capAt' = "idle"
  /\ StopWarmup
  /\ UNCHANGED <<capGateVars, capCallVars, capBatch, capCancelled, capStopping>>

\* RegisterEngine.Stop: the pool is stopped and the cancel closed after the lock
\* is released.
CapStopCall ==
  /\ capAt # "idle" /\ capStopping = NoStop /\ capBatch \notin capCancelled
  /\ capStopping' = [batch |-> capBatch, next |-> "pool"]
  /\ UNCHANGED <<capGateVars, capCallVars, capPoolVars, capWarmVars, capBatch,
                 capAt, capCancelled>>

CapStopPool ==
  /\ capStopping.next = "pool" /\ StopWarmup
  /\ capStopping' = [capStopping EXCEPT !.next = "cancel"]
  /\ UNCHANGED <<capGateVars, capCallVars, capBatch, capAt, capCancelled>>

CapStopCancel ==
  /\ capStopping.next = "cancel"
  /\ capCancelled' = capCancelled \cup {capStopping.batch}
  /\ capStopping' = NoStop
  /\ UNCHANGED <<capGateVars, capCallVars, capPoolVars, capWarmVars, capBatch,
                 capAt>>

CapCallStep(c) ==
  \/ CapBegin(c) \/ CapQueueEnds(c) \/ CapHeldLate(c) \/ CapPost(c)
  \/ CapToken(c) \/ CapPostFails(c) \/ CapHangs(c) \/ CapReacquire(c)
  \/ CapReacquireEnds(c) \/ CapPaid(c) \/ CapFilled(c)
  \/ \E h \in CapHosts : CapAcquire(c, h)

CapNext ==
  \/ \E c \in CapCalls : CapCallStep(c)
  \/ \E l \in 1..CapBatches : LoopCheck(l) \/ LoopIdles(l) \/ LoopLeaves(l)
  \/ \E t \in capPool : CapAges(t)
  \/ \E max \in CapLimits : CapSettings(max)
  \/ CapStart \/ CapConfigure \/ CapSetup \/ CapEnd
  \/ CapStopCall \/ CapStopPool \/ CapStopCancel

CapSpec == CapInit /\ [][CapNext]_capVars

-----------------------------------------------------------------------------
(* Properties                                                              *)

CapPlaces == {"idle", "queue", "single", "held", "post", "again", "heldAgain",
              "postAgain", "filled", "failed", "paid"}

\* Every variable has its type (captcha.go: ezHostGates, ezHostStats, ezPool and
\* what goes with it).
CapTypeOK ==
  /\ capLimit \in CapLimits
  /\ capGates \in Seq([host : CapHosts, max : CapLimits])
  /\ capGateOf \in [CapHosts -> 0..Len(capGates)]
  /\ capCall \in [CapCalls -> [at : CapPlaces, left : SUBSET CapHosts,
                       host : CapHosts \cup {NoHost}, gate : 0..Len(capGates),
                       max : CapLimits \cup {0}, loop : 0..CapBatches,
                       batch : 0..CapBatches, token : 0..capMade]]
  /\ capInflight \in [CapHosts -> Nat]
  /\ capMade \in 0..CapTokens
  /\ capPool \subseteq 1..capMade /\ capOld \subseteq capPool
  /\ capUsed \subseteq 1..capMade
  /\ capTarget \in {0, CapWarm} /\ capRunning \in BOOLEAN
  /\ capStop \in 0..CapBatches /\ capArmed \in 0..CapBatches
  /\ capClosed \subseteq 1..CapBatches
  /\ capLoop \in [1..CapBatches -> {"none", "check", "filling", "leaving", "ended"}]
  /\ capBatch \in 0..CapBatches /\ capAt \in {"idle", "setup", "armed", "running"}
  /\ capCancelled \subseteq 1..CapBatches
  /\ capStopping \in [batch : 0..CapBatches, next : {"none", "pool", "cancel"}]

\* No gate is ever held by more calls than its size, and every request to a
\* solver is made by a holder, the retries after a hung browser included.
GateRespected ==
  /\ \A g \in 1..Len(capGates) : Cardinality(Holders(g)) <= capGates[g].max
  /\ \A c \in Posting : capCall[c].gate # 0 /\ capGates[capCall[c].gate].host
                                                    = capCall[c].host

\* The requests counted for a host, by which the hosts are ranked, are those
\* really under way.
InflightExact ==
  \A h \in CapHosts :
    capInflight[h] = Cardinality({c \in Posting : capCall[c].host = h})

\* No token is handed out twice: not by the pool, and not by the pool and a call.
TokenOnce ==
  /\ capPool \cap capUsed = {}
  /\ \A c \in CapCalls : capCall[c].token \notin capPool \cup capUsed

\* A pool nobody keeps warm is empty and stays so, whatever fills are still under
\* way; a loop that was not told to stop is the one in charge.
PoolKept ==
  /\ capStop = 0 => capPool = {} /\ ~capRunning
  /\ Cardinality(capPool) <= capTarget
  /\ \A l \in 1..CapBatches :
       capLoop[l] \in {"check", "filling", "leaving"} /\ l \notin capClosed
         => capStop = l

\* What the solver promises a batch, whatever calls, fills, settings and stops
\* overlap.
SolverSound ==
  CapTypeOK /\ GateRespected /\ InflightExact /\ TokenOnce /\ PoolKept
=============================================================================
