------------------------------ MODULE RunBatch ------------------------------
(***************************************************************************)
(* RunBatch (pkg/grokregister/batch.go): a pool of workers takes jobs from *)
(* a channel and runs each of them, up to MaxJobAttempts times, through a  *)
(* proxy of a shared working set.  The working set shrinks when a proxy    *)
(* fails too often, is topped up from a reserve, and rests proxies that are*)
(* throttled; a run of failures pauses all workers.                        *)
(*                                                                         *)
(* Every critical section of proxyMu is one action: probing a proxy, a     *)
(* reconnection and the choice from the reserve happen outside of it, so   *)
(* two workers may decide on the same pool at the same time.  What one job *)
(* does on the network is its outcome; which of several equal proxies is   *)
(* used longest ago is left open.                                          *)
(***************************************************************************)
EXTENDS Naturals, Sequences, FiniteSets, Functions

CONSTANTS
  Workers,         \* worker goroutines
  Count,           \* jobs
  Proxies,         \* proxy URLs
  NoProxy,         \* the empty URL: a direct connection
  ProxyPool,       \* the configured pool, duplicates and blanks removed
  WorkingSize,     \* concurrency + ProxyWorkingHeadroom
  MaxProxyFails,
  MaxPerIP,
  FailThreshold,   \* AutoPauseFailThreshold
  AutoPause,       \* AutoPauseOnFailures
  Cooldown,        \* ProxyCooldownMinutes > 0
  MaxJobAttempts,
  Outcomes         \* how one attempt may end

\* What the error message is taken for: another proxy may help; the upstream
\* limits the exit; the proxy cannot resolve the target; or ("refused",
\* "solver") none of these, the last one having nothing to do with the proxy.
Retryable  == {"unreachable", "throttled", "unresolved"}
Limited    == {"throttled", "limited"}
Unresolved == {"unresolved", "dns"}
Failures   == Retryable \cup Limited \cup Unresolved \cup {"refused", "solver"}

ASSUME BatchAssumption ==
  /\ IsFiniteSet(Workers) /\ Workers # {}
  /\ Count \in Nat \ {0}
  /\ NoProxy \notin Proxies
  /\ ProxyPool \in Seq(Proxies)
  /\ \A i, j \in 1..Len(ProxyPool) : ProxyPool[i] = ProxyPool[j] => i = j
  /\ WorkingSize \in Nat \ {0}
  /\ MaxProxyFails \in Nat \ {0} /\ MaxPerIP \in Nat \ {0}
  /\ FailThreshold \in Nat \ {0}
  /\ AutoPause \in BOOLEAN /\ Cooldown \in BOOLEAN
  /\ MaxJobAttempts \in Nat \ {0}
  /\ Outcomes \subseteq {"success", "cancelled"} \cup Failures

VARIABLES
  phase,      \* "precheck", "run", "aborted", "done"
  pool,       \* proxyPool: how many slots each proxy has in the working set
  reserve,    \* proxyReserve: not probed yet
  proxied,    \* initialPoolSize > 0
  fails,      \* proxyFails, up to MaxProxyFails
  total,      \* proxySuccessTotal
  cooling,    \* proxies whose proxyCoolUntil has not passed
  sticky,     \* stickyByWorker: the proxy each worker keeps
  jobs,       \* jobs left in the channel
  pc,         \* where each worker is
  proxy,      \* lastProxy of the job at hand
  attempt,
  result,
  found,      \* candidates: the reserve as read before probing it
  completed, success, fail,
  streak, paused,   \* autoPauseTracker
  cancelled,        \* the SafeCancel is closed
  held              \* history: workers that finished a job in this pause

poolVars  == <<pool, reserve, proxied, fails, total, cooling>>
jobVars   == <<proxy, attempt, result, found>>
countVars == <<completed, success, fail>>
pauseVars == <<streak, paused, held>>
vars == <<phase, pool, reserve, proxied, fails, total, cooling, sticky, jobs,
          pc, proxy, attempt, result, found, completed, success, fail, streak,
          paused, held, cancelled>>

\* splitProxyWorkingSet
Least(m, n) == IF m < n THEN m ELSE n
WantWorking == Least(WorkingSize, Len(ProxyPool))
Working == SubSeq(ProxyPool, 1, WantWorking)
SlotsOf(s) == [p \in Proxies |-> Cardinality({i \in DOMAIN s : s[i] = p})]
Reserve == SubSeq(ProxyPool, WantWorking + 1, Len(ProxyPool))

Init ==
  /\ phase = IF ProxyPool = <<>> THEN "run" ELSE "precheck"
  /\ pool = SlotsOf(Working) /\ reserve = Reserve
  /\ proxied = FALSE
  /\ fails = [p \in Proxies |-> 0]
  /\ total = [p \in Proxies |-> 0]
  /\ cooling = {}
  /\ sticky = [w \in Workers |-> NoProxy]
  /\ jobs = Count
  /\ pc = [w \in Workers |-> "next"]
  /\ proxy = [w \in Workers |-> NoProxy]
  /\ attempt = [w \in Workers |-> 0]
  /\ result = [w \in Workers |-> "success"]
  /\ found = [w \in Workers |-> <<>>]
  /\ completed = 0 /\ success = 0 /\ fail = 0
  /\ streak = 0 /\ paused = FALSE /\ held = {}
  /\ cancelled = FALSE

-----------------------------------------------------------------------------
(* Start: the working set is probed                                        *)

\* len(proxyPool), the slots of the proxies of a set, and those in use.
Size(slots) == SumFunction(slots)
Only(ps) == [p \in Proxies |-> IF p \in ps THEN pool[p] ELSE 0]
Slots == {p \in Proxies : pool[p] > 0}

\* One round of PreCheckProxyPool; when nothing answers, as many proxies again
\* are taken from the reserve, and without any left the batch is given up.
PreCheck ==
  /\ phase = "precheck"
  /\ \E ok \in SUBSET Proxies :
       LET n == Least(WantWorking, Len(reserve)) IN
       \/ /\ Slots \cap ok # {}
          /\ pool' = Only(ok) /\ proxied' = TRUE /\ phase' = "run"
          /\ UNCHANGED reserve
       \/ /\ Slots \cap ok = {} /\ reserve # <<>>
          /\ pool' = SlotsOf(SubSeq(reserve, 1, n))
          /\ reserve' = SubSeq(reserve, n + 1, Len(reserve))
          /\ UNCHANGED <<phase, proxied>>
       \/ /\ Slots \cap ok = {} /\ reserve = <<>>
          /\ pool' = Only({}) /\ phase' = "aborted"
          /\ UNCHANGED <<reserve, proxied>>
  /\ UNCHANGED <<fails, total, cooling, sticky, jobs, pc, jobVars, countVars,
                 pauseVars, cancelled>>

-----------------------------------------------------------------------------
(* One worker                                                              *)

Goto(w, where) == pc' = [pc EXCEPT ![w] = where]

\* Take a job from the channel; a cancelled batch drops it.
NextJob(w) ==
  /\ phase = "run" /\ pc[w] = "next"
  /\ jobs' = IF jobs = 0 THEN 0 ELSE jobs - 1
  /\ Goto(w, IF jobs = 0 \/ cancelled THEN "gone" ELSE "gate")
  /\ UNCHANGED <<phase, poolVars, sticky, jobVars, countVars, pauseVars,
                 cancelled>>

\* waitIfPaused: only a pause looks at the cancellation.
GateOpen(w) ==
  /\ pc[w] = "gate"
  /\ Goto(w, "acquire")
  /\ UNCHANGED <<phase, poolVars, sticky, jobs, jobVars, countVars, pauseVars,
                 cancelled>>

Gate(w) ==
  /\ pc[w] = "gate"
  /\ \/ ~ paused /\ Goto(w, "acquire")
     \/ paused /\ cancelled /\ Goto(w, "gone")
  /\ UNCHANGED <<phase, poolVars, sticky, jobs, jobVars, countVars, pauseVars,
                 cancelled>>

\* acquireStickyProxy with a proxy at hand: kept while it is below MaxPerIP.
KeepSticky(w) ==
  /\ pc[w] = "acquire" /\ sticky[w] # NoProxy
  /\ proxy' = [proxy EXCEPT ![w] = sticky[w]]
  /\ IF total[sticky[w]] >= MaxPerIP
       THEN /\ sticky' = [sticky EXCEPT ![w] = NoProxy]
            /\ Goto(w, "reconnect, pick")
       ELSE Goto(w, "attempt") /\ UNCHANGED sticky
  /\ UNCHANGED <<phase, poolVars, jobs, attempt, result, found, countVars,
                 pauseVars, cancelled>>

\* pickProxy: a slot that rests only if all do; a full one, reconnected first,
\* only if all others are full.
PickProxy(w) ==
  LET live == Slots \ cooling
      open == {p \in live : total[p] < MaxPerIP} IN
  /\ pc[w] = "acquire" /\ sticky[w] = NoProxy
  /\ \E p \in IF Slots = {} THEN {NoProxy} ELSE IF live = {} THEN Slots
              ELSE IF open = {} THEN live ELSE open :
       /\ proxy' = [proxy EXCEPT ![w] = p]
       /\ sticky' = [sticky EXCEPT ![w] = p]
  /\ Goto(w, IF live # {} /\ open = {} THEN "reconnect, attempt" ELSE "attempt")
  /\ UNCHANGED <<phase, poolVars, jobs, attempt, result, found, countVars,
                 pauseVars, cancelled>>

\* Variants of definitions of the model, each with a plausible slip, are named
\* after them; the model uses none of them.
AgainOnceMore(w) ==
  /\ result[w] \in Retryable
  /\ attempt[w] + 1 <= MaxJobAttempts

\* A retryable failure leaves attempts.
Again(w) ==
  /\ result[w] \in Retryable
  /\ attempt[w] + 1 < MaxJobAttempts

AfterTrackInPlace(w) ==
  IF Again(w) THEN Goto(w, "acquire") /\ UNCHANGED attempt
              ELSE Goto(w, "release") /\ UNCHANGED attempt

\* After trackProxyResult the next attempt looks for a proxy, or the job ends.
AfterTrack(w) ==
  IF Again(w)
    THEN Goto(w, "acquire") /\ attempt' = [attempt EXCEPT ![w] = @ + 1]
    ELSE Goto(w, "release") /\ UNCHANGED attempt

\* forceProxyReconnect, its first critical section; the probe that follows
\* tells whether the exit has changed.
Reconnect(w) ==
  /\ \/ pc[w] = "reconnect, pick" /\ Goto(w, "acquire") /\ UNCHANGED attempt
     \/ pc[w] = "reconnect, attempt" /\ Goto(w, "attempt") /\ UNCHANGED attempt
     \/ pc[w] = "reconnect, count" /\ Goto(w, "count") /\ UNCHANGED attempt
     \/ pc[w] = "reconnect, rest" /\ AfterTrack(w)
     \/ pc[w] = "reconnect, rest" /\ Cooldown /\ result[w] \in Limited
        /\ Goto(w, "rest") /\ UNCHANGED attempt
  /\ total' = [total EXCEPT ![proxy[w]] = 0]
  /\ fails' = [fails EXCEPT ![proxy[w]] = 0]
  /\ UNCHANGED <<phase, pool, reserve, proxied, cooling, sticky, jobs, proxy,
                 result, found, countVars, pauseVars, cancelled>>

\* The registrar runs.  Without a proxy in a proxied batch the job fails at
\* once; the first attempt looks at the cancellation.
Attempt(w) ==
  /\ pc[w] = "attempt"
  /\ \/ /\ proxied /\ proxy[w] = NoProxy
        /\ result' = [result EXCEPT ![w] = "empty"]
        /\ Goto(w, "release")
     \/ /\ ~ (proxied /\ proxy[w] = NoProxy) /\ cancelled /\ attempt[w] = 0
        /\ Goto(w, "gone") /\ UNCHANGED result
     \/ /\ ~ (proxied /\ proxy[w] = NoProxy) /\ ~ (cancelled /\ attempt[w] = 0)
        /\ \E o \in Outcomes :
             /\ result' = [result EXCEPT ![w] = o]
             /\ Goto(w, "attempted")
  /\ UNCHANGED <<phase, poolVars, sticky, jobs, proxy, attempt, found, countVars,
                 pauseVars, cancelled>>

\* trackProxyResult, first critical section; before a further attempt the
\* cancellation is looked at and the worker lets go of its proxy.
Track(w) ==
  LET p == proxy[w]
      n == Least(fails[p] + 1, MaxProxyFails)
      neutral == p = NoProxy \/ result[w] \in {"cancelled", "solver"} IN
  /\ pc[w] = "attempted"
  /\ IF Again(w) /\ cancelled
       THEN Goto(w, "gone") /\ UNCHANGED <<fails, attempt, sticky>>
       ELSE
         /\ sticky' = IF Again(w) THEN [sticky EXCEPT ![w] = NoProxy] ELSE sticky
         /\ fails' = IF neutral THEN fails
                     ELSE [fails EXCEPT ![p] =
                             IF result[w] = "success" THEN 0 ELSE n]
         /\ IF neutral \/ result[w] = "success" \/ n < MaxProxyFails
              THEN AfterTrack(w)
              ELSE Goto(w, "verify") /\ UNCHANGED attempt
  /\ UNCHANGED <<phase, pool, reserve, proxied, total, cooling, jobs, proxy,
                 result, found, countVars, pauseVars, cancelled>>

\* VerifyProxyMidBatch; a DNS failure condemns the proxy without it.
Verify(w) ==
  /\ pc[w] = "verify"
  /\ \/ Goto(w, "remove") /\ UNCHANGED fails
     \/ /\ result[w] \notin Unresolved
        /\ fails' = [fails EXCEPT ![proxy[w]] = 0]
        /\ Goto(w, "reconnect, rest")
  /\ UNCHANGED <<phase, pool, reserve, proxied, total, cooling, sticky, jobs,
                 jobVars, countVars, pauseVars, cancelled>>

\* The proxy leaves the pool; below its size the reserve is read.
Remove(w) ==
  LET p == proxy[w]
      removed == p \in Slots IN
  /\ pc[w] = "remove"
  /\ pool' = [pool EXCEPT ![p] = 0]
  /\ total' = IF removed THEN [total EXCEPT ![p] = 0] ELSE total
  /\ IF removed /\ reserve # <<>> /\ Size(pool') < WantWorking
       THEN /\ found' = [found EXCEPT ![w] = reserve]
            /\ Goto(w, "refill") /\ UNCHANGED attempt
       ELSE IF Slots \subseteq {p} /\ proxied
       THEN Goto(w, "give up") /\ UNCHANGED <<attempt, found>>
       ELSE AfterTrack(w) /\ UNCHANGED found
  /\ UNCHANGED <<phase, reserve, proxied, fails, cooling, sticky, jobs, proxy,
                 result, countVars, pauseVars, cancelled>>

\* A throttled proxy that cannot change its exit rests; with too few others the
\* reserve is read.
Rest(w) ==
  /\ pc[w] = "rest"
  /\ cooling' = cooling \cup {proxy[w]}
  /\ IF reserve # <<>> /\ Size(Only(Proxies \ cooling')) < WantWorking
       THEN /\ found' = [found EXCEPT ![w] = reserve]
            /\ Goto(w, "top up") /\ UNCHANGED attempt
       ELSE AfterTrack(w) /\ UNCHANGED found
  /\ UNCHANGED <<phase, pool, reserve, proxied, fails, total, sticky, jobs,
                 proxy, result, countVars, pauseVars, cancelled>>

\* takeProxyReserve probed the candidates up to the k-th, the first that
\* answered, or all of them in vain; what it leaves replaces the reserve.
TakeReserve(w) ==
  LET s == found[w] IN
  /\ pc[w] \in {"refill", "top up"}
  /\ \/ \E k \in 1..Len(s) :
          /\ pool' = [pool EXCEPT ![s[k]] = @ + 1]
          /\ reserve' = SubSeq(s, k + 1, Len(s))
     \/ UNCHANGED pool /\ reserve' = <<>>
  /\ found' = [found EXCEPT ![w] = <<>>]
  /\ IF pc[w] = "refill" /\ Slots' = {}
       THEN Goto(w, "give up") /\ UNCHANGED attempt ELSE AfterTrack(w)
  /\ UNCHANGED <<phase, proxied, fails, total, cooling, sticky, jobs, proxy,
                 result, countVars, pauseVars, cancelled>>

\* No proxy is left: the batch cancels itself.
GiveUp(w) ==
  /\ pc[w] = "give up"
  /\ cancelled' = TRUE
  /\ AfterTrack(w)
  /\ UNCHANGED <<phase, poolVars, sticky, jobs, proxy, result, found, countVars,
                 pauseVars>>

ReleaseSticky(w) ==
  LET p == proxy[w] IN
  /\ pc[w] = "release"
  /\ sticky' = IF result[w] = "success" THEN sticky
               ELSE [sticky EXCEPT ![w] = NoProxy]
  /\ total' = IF result[w] # "success" \/ p = NoProxy THEN total
              ELSE [total EXCEPT ![p] = @ + 1]
  /\ Goto(w, "count")
  /\ UNCHANGED <<phase, pool, reserve, proxied, fails, cooling, jobs, jobVars,
                 countVars, pauseVars, cancelled>>

\* stickyRelease at the end of a job.
Release(w) ==
  LET p == proxy[w] IN
  /\ pc[w] = "release"
  /\ \/ /\ result[w] # "success"
        /\ sticky' = [sticky EXCEPT ![w] = NoProxy]
        /\ Goto(w, "count") /\ UNCHANGED total
     \/ /\ result[w] = "success" /\ p = NoProxy
        /\ Goto(w, "count") /\ UNCHANGED <<sticky, total>>
     \/ /\ result[w] = "success" /\ p # NoProxy
        /\ total' = [total EXCEPT ![p] = @ + 1]
        /\ IF total[p] + 1 >= MaxPerIP
             THEN /\ sticky' = [sticky EXCEPT ![w] = NoProxy]
                  /\ Goto(w, "reconnect, count")
             ELSE /\ sticky' = [sticky EXCEPT ![w] = p]
                  /\ Goto(w, "count")
  /\ UNCHANGED <<phase, pool, reserve, proxied, fails, cooling, jobs, jobVars,
                 countVars, pauseVars, cancelled>>

CountJobLate(w) ==
  /\ pc[w] = "count"
  /\ completed' = IF result[w] = "cancelled" THEN completed ELSE completed + 1
  /\ Goto(w, "record")
  /\ UNCHANGED <<phase, poolVars, sticky, jobs, jobVars, success, fail,
                 pauseVars, cancelled>>

CountJob(w) ==
  /\ pc[w] = "count"
  /\ completed' = completed + 1
  /\ Goto(w, "record")
  /\ UNCHANGED <<phase, poolVars, sticky, jobs, jobVars, success, fail,
                 pauseVars, cancelled>>

\* recordResult: a run of failures begins a pause, unless one is on.
Failed ==
  LET hit == AutoPause /\ ~ paused /\ streak + 1 >= FailThreshold IN
  /\ streak' = IF ~ AutoPause \/ hit THEN 0 ELSE streak + 1
  /\ paused' = (paused \/ hit)

\* A cancelled job is neither; one that found no proxy at its first attempt is
\* a failure the pause does not count.  The job's variables go out of scope.
Record(w) ==
  /\ pc[w] = "record"
  /\ CASE result[w] = "success" ->
            /\ success' = success + 1 /\ streak' = 0
            /\ UNCHANGED <<fail, paused>>
       [] result[w] = "cancelled" -> UNCHANGED <<success, fail, streak, paused>>
       [] result[w] = "empty" /\ attempt[w] = 0 ->
            fail' = fail + 1 /\ UNCHANGED <<success, streak, paused>>
       [] OTHER -> fail' = fail + 1 /\ Failed /\ UNCHANGED success
  /\ Goto(w, "next")
  /\ proxy' = [proxy EXCEPT ![w] = NoProxy]
  /\ attempt' = [attempt EXCEPT ![w] = 0]
  /\ result' = [result EXCEPT ![w] = "success"]
  /\ held' = IF paused' THEN held \cup {w} ELSE held
  /\ UNCHANGED <<phase, poolVars, sticky, jobs, found, completed, cancelled>>

Worker(w) ==
  \/ NextJob(w) \/ Gate(w) \/ KeepSticky(w) \/ PickProxy(w) \/ Reconnect(w)
  \/ Attempt(w) \/ Track(w) \/ Verify(w) \/ Remove(w) \/ Rest(w)
  \/ TakeReserve(w) \/ GiveUp(w) \/ Release(w) \/ CountJob(w) \/ Record(w)

-----------------------------------------------------------------------------
(* Around the workers                                                      *)

\* The engine's Stop closes the SafeCancel.
Stop ==
  /\ cancelled' = TRUE
  /\ UNCHANGED <<phase, poolVars, sticky, jobs, pc, jobVars, countVars,
                 pauseVars>>

PauseEnds ==
  /\ paused
  /\ paused' = FALSE /\ held' = {}
  /\ UNCHANGED <<phase, poolVars, sticky, jobs, pc, jobVars, countVars, streak,
                 cancelled>>

RestEnds(p) ==
  /\ p \in cooling
  /\ cooling' = cooling \ {p}
  /\ UNCHANGED <<phase, pool, reserve, proxied, fails, total, sticky, jobs, pc,
                 jobVars, countVars, pauseVars, cancelled>>

\* wg.Wait
Finish ==
  /\ phase = "run" /\ \A w \in Workers : pc[w] = "gone"
  /\ phase' = "done"
  /\ UNCHANGED <<poolVars, sticky, jobs, pc, jobVars, countVars, pauseVars,
                 cancelled>>

Next ==
  \/ PreCheck \/ Stop \/ PauseEnds \/ Finish
  \/ \E w \in Workers : Worker(w)
  \/ \E p \in Proxies : RestEnds(p)

Spec == Init /\ [][Next]_vars

\* Workers run, attempts and probes have timeouts, and a pause has an end.
FairSpec ==
  /\ Spec
  /\ WF_vars(PreCheck) /\ WF_vars(PauseEnds) /\ WF_vars(Finish)
  /\ \A w \in Workers : WF_vars(Worker(w))

-----------------------------------------------------------------------------
(* Properties                                                              *)

Places == {"next", "gate", "acquire", "reconnect, pick", "reconnect, attempt",
           "reconnect, count", "reconnect, rest", "attempt", "attempted",
           "verify", "remove", "refill", "rest", "top up", "give up", "release",
           "count", "record", "gone"}
AtProxy == {"reconnect, pick", "reconnect, attempt", "reconnect, count",
            "reconnect, rest", "verify", "remove", "rest"}

\* Every variable holds what the code can put there; a worker that judges,
\* reconnects or removes a proxy has one.
TypeOK ==
  /\ phase \in {"precheck", "run", "aborted", "done"}
  /\ pool \in [Proxies -> Nat] /\ reserve \in Seq(Proxies)
  /\ proxied \in BOOLEAN
  /\ fails \in [Proxies -> 0..MaxProxyFails]
  /\ total \in [Proxies -> Nat]
  /\ cooling \subseteq Proxies
  /\ sticky \in [Workers -> Proxies \cup {NoProxy}]
  /\ jobs \in 0..Count
  /\ pc \in [Workers -> Places]
  /\ proxy \in [Workers -> Proxies \cup {NoProxy}]
  /\ attempt \in [Workers -> 0..(MaxJobAttempts - 1)]
  /\ result \in [Workers -> {"success", "cancelled", "empty"} \cup Failures]
  /\ found \in [Workers -> Seq(Proxies)]
  /\ completed \in Nat /\ success \in Nat /\ fail \in Nat /\ streak \in Nat
  /\ paused \in BOOLEAN /\ held \subseteq Workers /\ cancelled \in BOOLEAN
  /\ \A w \in Workers : pc[w] \in AtProxy => proxy[w] # NoProxy

\* Workers that have taken a job and not counted it.
Busy == {w \in Workers : pc[w] \notin {"next", "record", "gone"}}

\* No job is lost or counted twice (batch.go:758-762, :849, :1008): as long as
\* nobody has cancelled, every job waits in the channel, is in the hands of one
\* worker, or is completed; a cancelled batch drops jobs and adds none.
JobsConserved ==
  /\ jobs + completed + Cardinality(Busy) <= Count
  /\ ~ cancelled => jobs + completed + Cardinality(Busy) = Count

\* The promise of max_per_ip (batch.go:300-302, :312) as far as the code keeps it: an
\* exit is used for MaxPerIP - 1 registrations and one more for each worker that
\* is about to reconnect it, however attempts, eliminations, refills and
\* reconnections of the workers interleave.
Overdue(p) == {w \in Workers : pc[w] = "reconnect, count" /\ proxy[w] = p}

CapOvershoot == \A p \in Proxies : total[p] < MaxPerIP + Cardinality(Overdue(p))

\* A pause holds all workers (batch.go:824-839): one that finishes a job during
\* the pause, or begins the pause with it, begins no other before its end.
PauseHolds ==
  [][\A w \in Workers :
       paused /\ attempt[w] = 0 /\ pc[w] # "attempt" /\ pc'[w] = "attempt"
         => w \notin held]_vars

\* The batch ends (batch.go:1053): no retry, pause, rest or refill keeps a
\* worker for ever.
BatchEnds == <>(phase \in {"aborted", "done"})

\* What the caller relies on, BatchTally: each job is counted once, as completed
\* and then as a success or a failure; uncancelled, the batch ends with all jobs
\* completed; nothing is counted after its end (batch.go:1008-1048, :1078-1102).
Tally == INSTANCE BatchTally WITH
           Total <- Count, ended <- phase \in {"aborted", "done"}
TallySpec == Tally!Spec

\* "so one dead proxy does not break the batch" (batch.go:221-222): a worker
\* gives the batch up only when the reserve has been used up.
ReserveFirst ==
  [][\A w \in Workers : pc[w] # "give up" /\ pc'[w] = "give up"
       => reserve' = <<>>]_vars
=============================================================================
