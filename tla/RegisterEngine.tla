--------------------------- MODULE RegisterEngine ---------------------------
(***************************************************************************)
(* The register engine (engine/register.go): Start runs one batch at a     *)
(* time in a goroutine of its own, Stop closes its cancel channel, and what*)
(* the batch reports becomes the status the page polls.                    *)
(*                                                                         *)
(* Goroutines outlive the batch that began them: the imports of its        *)
(* successes, the sampler of the figures per minute, which only a closed   *)
(* channel ends, and a diagnosis of a stalled batch that is about to       *)
(* report.  Batches are numbered so that the model can tell whose they are.*)
(* The batch itself is reduced to its jobs and counters (RunBatch); the    *)
(* list of results and its copy in the store, which nothing reads, are     *)
(* left out, and so are the counts of imports, to which a late import of   *)
(* an earlier batch adds its own.                                          *)
(***************************************************************************)
EXTENDS Integers, Sequences, FiniteSets

CONSTANTS
  MaxBatches,    \* bound: calls of Start that succeed
  EngWorkers,    \* workers of a batch
  EngCount,      \* jobs of a batch
  MaxMinute,     \* bound: minutes that pass
  PerMinKept,    \* minutes the status keeps
  AutoImport, RemoveOnFail   \* settings of the imports

ASSUME EngineAssumption ==
  /\ MaxBatches \in Nat \ {0} /\ EngCount \in Nat \ {0}
  /\ MaxMinute \in Nat \ {0} /\ PerMinKept \in Nat \ {0}
  /\ IsFiniteSet(EngWorkers) /\ EngWorkers # {}
  /\ AutoImport \in BOOLEAN /\ RemoveOnFail \in BOOLEAN

VARIABLES
  engRunning,   \* running
  engBatch,     \* the batch of the last Start
  engAt,        \* where run() is, for each batch
  engStatus,    \* status: its flags and counters
  engClosing,   \* batches a Stop has yet to cancel
  engClosed,    \* batches whose SafeCancel is closed
  engJobs,      \* jobs no worker of the batch has taken
  engWorker,    \* what each worker is about to do
  engDone,      \* completed, success and fail of each batch
  engStall,     \* batches whose stall diagnosis is about to report
  engImport,    \* the imports of each batch: how many are at which stage
  engMinute,    \* the clock
  engPerMin, engLast, engBase,   \* perMin, perMinLast, perMinSucc and perMinFail
  engLate       \* history: a diagnosis has reported after its batch

engRunVars    == <<engRunning, engBatch, engAt>>
engCancelVars == <<engClosing, engClosed>>
engJobVars    == <<engJobs, engWorker, engDone>>
engRateVars   == <<engMinute, engPerMin, engLast, engBase>>
engVars == <<engRunVars, engStatus, engCancelVars, engJobVars, engStall,
             engImport, engRateVars, engLate>>

EngBatches == 1..MaxBatches
Zero == [completed |-> 0, success |-> 0, fail |-> 0]
NoImports == [converting |-> 0, saving |-> 0, removing |-> 0, over |-> 0]
FreshStatus == [running |-> TRUE, stopping |-> FALSE, completed |-> 0, success |-> 0,
          fail |-> 0]

EngInit ==
  /\ engRunning = FALSE /\ engBatch = 0
  /\ engAt = [b \in EngBatches |-> "none"]
  /\ engStatus = [FreshStatus EXCEPT !.running = FALSE]
  /\ engClosing = {} /\ engClosed = {}
  /\ engJobs = 0
  /\ engWorker = [w \in EngWorkers |-> "idle"]
  /\ engDone = [b \in EngBatches |-> Zero]
  /\ engStall = {}
  /\ engImport = [b \in EngBatches |-> NoImports]
  /\ engMinute = 1 /\ engPerMin = <<>> /\ engLast = 0
  /\ engBase = [success |-> 0, fail |-> 0]
  /\ engLate = FALSE

EngGoto(b, where) == engAt' = [engAt EXCEPT ![b] = where]

-----------------------------------------------------------------------------
(* Start and Stop                                                          *)

EngStartKeepsBase ==
  LET b == engBatch + 1 IN
  /\ ~ engRunning /\ b \in EngBatches
  /\ engRunning' = TRUE /\ engBatch' = b
  /\ EngGoto(b, "setup")
  /\ engStatus' = FreshStatus
  /\ engPerMin' = <<>> /\ engLast' = 0
  /\ engLate' = FALSE
  /\ UNCHANGED <<engCancelVars, engJobVars, engStall, engImport,
                 engMinute, engBase>>

\* Start rebuilds the status; what it refuses changes nothing.
EngStart ==
  LET b == engBatch + 1 IN
  /\ ~ engRunning /\ b \in EngBatches
  /\ engRunning' = TRUE /\ engBatch' = b
  /\ EngGoto(b, "setup")
  /\ engStatus' = FreshStatus
  /\ engPerMin' = <<>> /\ engLast' = 0
  /\ engBase' = [success |-> 0, fail |-> 0]
  /\ engLate' = FALSE
  /\ UNCHANGED <<engCancelVars, engJobVars, engStall, engImport,
                 engMinute>>

\* Stop notes the cancel channel of the batch and closes it without the lock.
EngStop ==
  /\ engRunning
  /\ engStatus' = [engStatus EXCEPT !.stopping = TRUE]
  /\ engClosing' = engClosing \cup {engBatch}
  /\ UNCHANGED <<engRunVars, engClosed, engJobVars, engStall,
                 engImport, engRateVars, engLate>>

EngClose(b) ==
  /\ b \in engClosing
  /\ engClosing' = engClosing \ {b}
  /\ engClosed' = engClosed \cup {b}
  /\ UNCHANGED <<engRunVars, engStatus, engJobVars, engStall,
                 engImport, engRateVars, engLate>>

-----------------------------------------------------------------------------
(* The figures per minute                                                  *)

\* flushPerMinLocked: the minute that ends gets what was counted since the last
\* sample; a second sample within a minute only moves the baseline.
Flush ==
  /\ engPerMin' = IF engLast \in {0, engMinute} THEN engPerMin
       ELSE LET s == Append(engPerMin,
                      [success |-> engStatus.success - engBase.success,
                       fail |-> engStatus.fail - engBase.fail]) IN
            SubSeq(s, IF Len(s) > PerMinKept THEN 2 ELSE 1, Len(s))
  /\ engLast' = engMinute
  /\ engBase' = [success |-> engStatus.success, fail |-> engStatus.fail]

-----------------------------------------------------------------------------
(* The batch                                                               *)

\* Variants of definitions of the model, each with a plausible slip, are named
\* after them; the model uses none of them.
ReportedOpen(d, b) ==
  [engStatus EXCEPT
     !.completed = d.completed, !.success = d.success, !.fail = d.fail,
     !.running = d.completed < EngCount]

\* report: OnProgress with the counters of batch b, read under progressMu.
Reported(d, b) ==
  [engStatus EXCEPT
     !.completed = d.completed, !.success = d.success, !.fail = d.fail,
     !.running = d.completed < EngCount /\ b \notin engClosed]

\* run up to RunBatch: without a mailbox every job counts as failed.
EngSetup(b) ==
  /\ engAt[b] = "setup"
  /\ \/ /\ EngGoto(b, "end") /\ UNCHANGED engJobs
        /\ engStatus' = [engStatus EXCEPT !.completed = EngCount,
                                          !.fail = EngCount]
     \/ /\ EngGoto(b, "batch") /\ engJobs' = EngCount
        /\ engStatus' = Reported(engDone[b], b)
     \/ \* no proxy answers
        /\ EngGoto(b, "final") /\ UNCHANGED engJobs
        /\ engStatus' = [Reported(engDone[b], b) EXCEPT !.running = FALSE]
  /\ UNCHANGED <<engRunning, engBatch, engCancelVars, engWorker,
                 engDone, engStall, engImport, engRateVars, engLate>>

\* A worker takes a job and counts it as completed; a cancelled batch drops
\* it, or what it does ends as cancelled.
EngJob(b, w) ==
  /\ engAt[b] = "batch" /\ engWorker[w] = "idle" /\ engJobs > 0
  /\ engJobs' = engJobs - 1
  /\ \/ /\ b \in engClosed /\ UNCHANGED <<engWorker, engDone>>
     \/ \E o \in {"success", "fail"} \cup
                 (IF b \in engClosed THEN {"cancelled"} ELSE {}) :
          /\ engWorker' = [engWorker EXCEPT ![w] = o]
          /\ engDone' = [engDone EXCEPT ![b].completed = @ + 1]
  /\ UNCHANGED <<engRunVars, engStatus, engCancelVars, engStall,
                 engImport, engRateVars, engLate>>

\* It counts the outcome and reports.
EngReport(b, w) ==
  LET o == engWorker[w] IN
  /\ engAt[b] = "batch" /\ o \in {"success", "fail", "cancelled"}
  /\ engDone' = IF o = "cancelled" THEN engDone
                ELSE IF o = "success"
                THEN [engDone EXCEPT ![b].success = @ + 1]
                ELSE [engDone EXCEPT ![b].fail = @ + 1]
  /\ engStatus' = Reported(engDone'[b], b)
  /\ engWorker' = [engWorker EXCEPT
       ![w] = IF o = "success" THEN "hand over" ELSE "hand back"]
  /\ UNCHANGED <<engRunVars, engCancelVars, engJobs, engStall,
                 engImport, engRateVars, engLate>>

EngResultOpen(b, w) ==
  /\ engAt[b] = "batch" /\ engWorker[w] \in {"hand over", "hand back"}
  /\ engImport' = IF engWorker[w] = "hand over" /\ b \notin engClosed
                  THEN [engImport EXCEPT ![b].converting = @ + 1] ELSE engImport
  /\ engWorker' = [engWorker EXCEPT ![w] = "idle"]
  /\ UNCHANGED <<engRunVars, engStatus, engCancelVars, engJobs,
                 engDone, engStall, engRateVars, engLate>>

\* OnResult: a success begins its import.
EngResult(b, w) ==
  /\ engAt[b] = "batch" /\ engWorker[w] \in {"hand over", "hand back"}
  /\ engImport' = IF engWorker[w] = "hand over"
                  THEN [engImport EXCEPT ![b].converting = @ + 1] ELSE engImport
  /\ engWorker' = [engWorker EXCEPT ![w] = "idle"]
  /\ UNCHANGED <<engRunVars, engStatus, engCancelVars, engJobs,
                 engDone, engStall, engRateVars, engLate>>

\* The diagnosis sees no progress, and reports later.
EngStalled(b) ==
  /\ engAt[b] = "batch" /\ b \notin engClosed \cup engStall
  /\ engDone[b].completed < EngCount
  /\ engStall' = engStall \cup {b}
  /\ UNCHANGED <<engRunVars, engStatus, engCancelVars, engJobVars,
                 engImport, engRateVars, engLate>>

EngDiagnose(b) ==
  /\ b \in engStall
  /\ engStall' = engStall \ {b}
  /\ engStatus' = Reported(engDone[b], b)
  /\ engLate' = (engLate \/ engBatch # b)
  /\ UNCHANGED <<engRunVars, engCancelVars, engJobVars, engImport,
                 engRateVars>>

\* The batch cancels itself when no proxy is left.
EngGiveUp(b) ==
  /\ engAt[b] = "batch"
  /\ engClosed' = engClosed \cup {b}
  /\ UNCHANGED <<engRunVars, engStatus, engClosing, engJobVars,
                 engStall, engImport, engRateVars, engLate>>

\* All workers have returned: the last report of RunBatch, then run()'s own.
EngFinish(b) ==
  /\ engAt[b] = "batch" /\ engJobs = 0
  /\ \A w \in EngWorkers : engWorker[w] = "idle"
  /\ EngGoto(b, "final")
  /\ engStatus' = [Reported(engDone[b], b) EXCEPT !.running = FALSE]
  /\ UNCHANGED <<engRunning, engBatch, engCancelVars, engJobVars,
                 engStall, engImport, engRateVars, engLate>>

EngFinal(b) ==
  /\ engAt[b] = "final"
  /\ EngGoto(b, "end")
  /\ engStatus' = [Reported(engDone[b], b) EXCEPT !.running = FALSE]
  /\ UNCHANGED <<engRunning, engBatch, engCancelVars, engJobVars,
                 engStall, engImport, engRateVars, engLate>>

\* The deferred end: the figures of the last minute.
EngEnd(b) ==
  /\ engAt[b] = "end"
  /\ EngGoto(b, "gone")
  /\ engRunning' = FALSE
  /\ engStatus' = [engStatus EXCEPT !.running = FALSE]
  /\ Flush
  /\ UNCHANGED <<engBatch, engCancelVars, engJobVars, engStall,
                 engImport, engMinute, engLate>>

-----------------------------------------------------------------------------
(* The imports                                                             *)

EngMove(b, from, to) ==
  engImport' = [engImport EXCEPT ![b][from] = @ - 1, ![b][to] = @ + 1]

\* The conversion is over, with the token or after its retries.  A result that
\* has its token, or whose import is left to the user, is only saved.
EngConvert(b) ==
  /\ engImport[b].converting > 0
  /\ \/ EngMove(b, "converting", "saving")
     \/ AutoImport /\ RemoveOnFail /\ EngMove(b, "converting", "removing")
  /\ UNCHANGED <<engRunVars, engStatus, engCancelVars, engJobVars, engStall,
                 engRateVars, engLate>>

\* UpsertFromResult, or DeleteByEmail.
EngSave(b) ==
  /\ \/ engImport[b].saving > 0 /\ EngMove(b, "saving", "over")
     \/ engImport[b].removing > 0 /\ EngMove(b, "removing", "over")
  /\ UNCHANGED <<engRunVars, engStatus, engCancelVars, engJobVars,
                 engStall, engRateVars, engLate>>

-----------------------------------------------------------------------------
(* The sampler                                                             *)

EngTick ==
  /\ engMinute < MaxMinute
  /\ engMinute' = engMinute + 1
  /\ UNCHANGED <<engRunVars, engStatus, engCancelVars, engJobVars,
                 engStall, engImport, engPerMin, engLast, engBase, engLate>>

\* It samples whatever batch there is, until its own channel is closed.
EngSample(b) ==
  /\ engAt[b] # "none" /\ b \notin engClosed
  /\ Flush
  /\ UNCHANGED <<engRunVars, engStatus, engCancelVars, engJobVars,
                 engStall, engImport, engMinute, engLate>>

-----------------------------------------------------------------------------
EngBatchStep(b) ==
  \/ EngSetup(b) \/ EngFinish(b) \/ EngFinal(b) \/ EngEnd(b)
  \/ \E w \in EngWorkers : EngJob(b, w) \/ EngReport(b, w) \/ EngResult(b, w)

EngNext ==
  \/ EngStart \/ EngStop \/ EngTick
  \/ \E b \in EngBatches :
       \/ EngBatchStep(b) \/ EngClose(b) \/ EngGiveUp(b)
       \/ EngStalled(b) \/ EngDiagnose(b)
       \/ EngConvert(b) \/ EngSave(b)
       \/ EngSample(b)

EngSpec == EngInit /\ [][EngNext]_engVars

-----------------------------------------------------------------------------
(* Properties                                                              *)

EngPlaces == {"none", "setup", "batch", "final", "end", "gone"}
EngActive == {b \in EngBatches : engAt[b] \in {"setup", "batch", "final", "end"}}

\* Every variable of the engine holds what the code can put there.
EngTypeOK ==
  /\ engRunning \in BOOLEAN /\ engBatch \in 0..MaxBatches
  /\ engAt \in [EngBatches -> EngPlaces]
  /\ engStatus \in [running : BOOLEAN, stopping : BOOLEAN, completed : Nat,
                    success : Nat, fail : Nat]
  /\ engClosing \subseteq EngBatches /\ engClosed \subseteq EngBatches
  /\ engJobs \in 0..EngCount
  /\ engWorker \in [EngWorkers -> {"idle", "success", "fail", "cancelled",
                                   "hand over", "hand back"}]
  /\ engDone \in [EngBatches -> [completed : Nat, success : Nat, fail : Nat]]
  /\ engStall \subseteq EngBatches
  /\ engImport \in [EngBatches -> [converting : Nat, saving : Nat,
                                   removing : Nat, over : Nat]]
  /\ engMinute \in 1..MaxMinute /\ engLast \in 0..MaxMinute
  /\ engPerMin \in Seq([success : Int, fail : Int])
  /\ engBase \in [success : Nat, fail : Nat]
  /\ engLate \in BOOLEAN

\* When the engine is free again (register.go:637-654) the page is told so, and
\* stays told: neither the diagnosis of a batch that has ended nor a leftover of
\* an earlier one sets Running (batch.go:293, register.go:925-937).  Until then
\* exactly the last batch is at work, so that two never share the status.
EngineSettles ==
  /\ ~ engRunning => ~ engStatus.running
  /\ EngActive = IF engRunning THEN {engBatch} ELSE {}

\* What the engine promises the page, and the types it keeps.
EngineSound == EngTypeOK /\ EngineSettles

\* Every success leads to one account, stored or given up, whatever ends first,
\* its batch or its import (register.go:976-1092).
SuccessesArrive ==
  \A b \in EngBatches :
    engDone[b].success =
      engImport[b].converting + engImport[b].saving + engImport[b].removing
      + engImport[b].over
      + Cardinality({w \in EngWorkers : engAt[b] = "batch"
                                        /\ engWorker[w] = "hand over"})

\* s holds, minute after minute, what a counter that never falls has gained
\* between one reading and the next, the last of them at most top.
Gains(s, f, top) ==
  \E reading \in [0..Len(s) -> 0..top] :
    \A i \in 1..Len(s) : /\ reading[i - 1] <= reading[i]
                         /\ s[i][f] = reading[i] - reading[i - 1]

\* The figures per minute are gains of the counters of the status, so that they
\* never show more than there was, nor less than nothing (register.go:1172-1199),
\* also with the samplers of earlier batches; only a diagnosis of an earlier
\* batch can falsify them.
PerMinSound ==
  ~ engLate => \A f \in {"success", "fail"} :
                 /\ Gains(engPerMin, f, engBase[f])
                 /\ engBase[f] <= engStatus[f]
=============================================================================
