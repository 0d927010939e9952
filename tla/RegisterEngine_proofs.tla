----------------------- MODULE RegisterEngine_proofs ------------------------
(***************************************************************************)
(* Theorems about RegisterEngine, for any number of batches, workers, jobs *)
(* and minutes, and about AccountImport, for any number of accounts,       *)
(* requests, edits and attempts.                                           *)
(***************************************************************************)
EXTENDS RegisterEngine, AccountImport, FiniteSetTheorems, SequenceTheorems, TLAPS

Statuses == [running : BOOLEAN, stopping : BOOLEAN, completed : Nat,
             success : Nat, fail : Nat]
Figures  == [completed : Nat, success : Nat, fail : Nat]
Minutes  == [success : Int, fail : Int]
Imports  == [converting : Nat, saving : Nat, removing : Nat, over : Nat]
WorkerPlaces == {"idle", "success", "fail", "cancelled", "hand over", "hand back"}

\* The types, by the groups of variables that steps leave alone together.  A run
\* has a batch.
RunOK    == /\ engRunning \in BOOLEAN /\ engBatch \in 0..MaxBatches
            /\ engAt \in [EngBatches -> EngPlaces]
            /\ engRunning => engBatch # 0
CancelOK == engClosing \subseteq EngBatches /\ engClosed \subseteq EngBatches
JobOK    == /\ engJobs \in 0..EngCount
            /\ engWorker \in [EngWorkers -> WorkerPlaces]
            /\ engDone \in [EngBatches -> Figures]
StallOK  == engStall \subseteq EngBatches /\ engLate \in BOOLEAN
ImportOK == engImport \in [EngBatches -> Imports]
RateOK   == /\ engMinute \in 1..MaxMinute /\ engLast \in 0..MaxMinute
            /\ engPerMin \in Seq(Minutes)
            /\ engBase \in [success : Nat, fail : Nat]
EngTypeInv == /\ RunOK /\ CancelOK /\ JobOK /\ StallOK /\ ImportOK /\ RateOK
              /\ engStatus \in Statuses

LEMMA TypesOfInv == EngTypeInv => EngTypeOK
BY DEF EngTypeInv, EngTypeOK, RunOK, CancelOK, JobOK, StallOK, ImportOK, RateOK,
       Statuses, Figures, Minutes, Imports, WorkerPlaces

LEMMA TypesKept ==
  ASSUME EngTypeInv
  PROVE  /\ UNCHANGED engRunVars => RunOK'
         /\ UNCHANGED engCancelVars => CancelOK'
         /\ UNCHANGED engJobVars => JobOK'
         /\ UNCHANGED <<engStall, engLate>> => StallOK'
         /\ UNCHANGED engImport => ImportOK'
         /\ UNCHANGED engRateVars => RateOK'
         /\ UNCHANGED engStatus => engStatus' \in Statuses
BY DEF EngTypeInv, RunOK, CancelOK, JobOK, StallOK, ImportOK, RateOK,
       engRunVars, engCancelVars, engJobVars, engRateVars

-----------------------------------------------------------------------------
(* What the steps do to the parts of the state                             *)

\* A report is a status, whatever batch it is of.
LEMMA ReportType ==
  ASSUME engStatus \in Statuses, NEW d \in Figures, NEW b
  PROVE  /\ Reported(d, b) \in Statuses
         /\ [Reported(d, b) EXCEPT !.running = FALSE] \in Statuses
         /\ Reported(d, b).running = (d.completed < EngCount /\ b \notin engClosed)
         /\ ~ [Reported(d, b) EXCEPT !.running = FALSE].running
<1> DEFINE open == d.completed < EngCount /\ b \notin engClosed
<1>1. open \in BOOLEAN
  OBVIOUS
<1>2. Reported(d, b) = [engStatus EXCEPT
        !.completed = d.completed, !.success = d.success, !.fail = d.fail,
        !.running = open]
  BY DEF Reported
<1> HIDE DEF open
<1>3. /\ Reported(d, b) \in Statuses /\ Reported(d, b).running = open
  BY <1>1, <1>2 DEF Statuses, Figures
<1>4. QED
  BY <1>3 DEF Statuses, open

\* A sample keeps the types of the figures per minute.
LEMMA FlushType ==
  ASSUME EngTypeInv, Flush, engMinute' = engMinute
  PROVE  RateOK'
<1> DEFINE M == Minutes
           m == [success |-> engStatus.success - engBase.success,
                 fail |-> engStatus.fail - engBase.fail]
           s == Append(engPerMin, m)
<1>1. /\ engStatus.success \in Nat /\ engStatus.fail \in Nat
      /\ engBase.success \in Nat /\ engBase.fail \in Nat
      /\ engMinute \in 0..MaxMinute
  <2>1. /\ engStatus \in Statuses /\ engBase \in [success : Nat, fail : Nat]
        /\ engMinute \in 1..MaxMinute
    BY DEF EngTypeInv, RateOK
  <2>2. QED
    BY <2>1, EngineAssumption DEF Statuses
<1>2. engPerMin \in Seq(M)
  BY DEF EngTypeInv, RateOK
<1>3. m \in M
  BY <1>1 DEF Minutes
<1>4. s \in Seq(M) /\ Len(s) \in Nat /\ Len(s) >= 1
  <2> HIDE DEF M, m
  <2>1. s \in Seq(M) /\ Len(s) = Len(engPerMin) + 1
    BY <1>2, <1>3, AppendProperties
  <2>2. QED
    BY <1>2, <2>1, LenProperties
<1>5. ASSUME NEW i \in {1, 2} PROVE SubSeq(s, i, Len(s)) \in Seq(M)
  <2> HIDE DEF s, M
  <2>1. \A k \in i..Len(s) : s[k] \in M
    BY <1>4, ElementOfSeq
  <2>2. QED
    BY <1>4, <2>1, SubSeqProperties
<1>6. engPerMin' \in {engPerMin, SubSeq(s, 1, Len(s)), SubSeq(s, 2, Len(s))}
  BY DEF Flush
<1>7. engPerMin' \in Seq(M)
  <2> HIDE DEF s, M
  <2>1. QED
    BY <1>2, <1>5, <1>6
<1>8. engLast' = engMinute
      /\ engBase' = [success |-> engStatus.success, fail |-> engStatus.fail]
  BY DEF Flush
<1>9. engMinute' \in 1..MaxMinute
  BY DEF EngTypeInv, RateOK
<1>10. QED
  BY <1>1, <1>7, <1>8, <1>9 DEF RateOK

-----------------------------------------------------------------------------
\* What a batch counts, and how an import moves on.
LEMMA MoveType ==
  ASSUME EngTypeInv, NEW b \in EngBatches,
         NEW from \in {"converting", "saving", "removing"},
         NEW to \in {"saving", "removing", "over"},
         engImport[b][from] > 0, EngMove(b, from, to), from # to
  PROVE  ImportOK'
<1>1. engImport \in [EngBatches -> Imports]
  BY DEF EngTypeInv, ImportOK
<1> DEFINE i == engImport[b]
           j == [i EXCEPT ![from] = @ - 1, ![to] = @ + 1]
<1>2. i \in Imports
  BY <1>1
<1>3. engImport' = [engImport EXCEPT ![b] = j]
  BY <1>1 DEF EngMove
<1>4. j \in Imports
  BY <1>2 DEF Imports
<1> HIDE DEF j
<1>5. QED
  BY <1>1, <1>3, <1>4 DEF ImportOK

-----------------------------------------------------------------------------
LEMMA TypesFirst == EngInit => EngTypeInv
<1> SUFFICES ASSUME EngInit PROVE EngTypeInv
  OBVIOUS
<1> USE EngineAssumption
<1>1. RunOK /\ CancelOK /\ StallOK
  <2>1. engRunning = FALSE /\ engBatch = 0 /\ engAt = [b \in EngBatches |-> "none"]
    BY DEF EngInit
  <2>2. RunOK
    <3>1. 0 \in 0..MaxBatches /\ [b \in EngBatches |-> "none"] \in [EngBatches -> EngPlaces]
      BY DEF EngPlaces
    <3>2. QED
      BY <2>1, <3>1, Zenon DEF RunOK
  <2>3. CancelOK /\ StallOK
    BY DEF EngInit, CancelOK, StallOK
  <2>4. QED
    BY <2>2, <2>3
<1>2. JobOK
  BY DEF EngInit, JobOK, Zero, Figures, WorkerPlaces
<1>3. ImportOK
  BY DEF EngInit, ImportOK, NoImports, Imports
<1>4. RateOK
  <2>1. <<>> \in Seq(Minutes)
    OBVIOUS
  <2>2. [success |-> 0, fail |-> 0] \in [success : Nat, fail : Nat]
    OBVIOUS
  <2>3. 1 \in 1..MaxMinute /\ 0 \in 0..MaxMinute
    OBVIOUS
  <2>4. QED
    BY <2>1, <2>2, <2>3, Zenon DEF EngInit, RateOK
<1>5. engStatus \in Statuses
  BY DEF EngInit, FreshStatus, Statuses
<1>6. QED
  BY <1>1, <1>2, <1>3, <1>4, <1>5 DEF EngTypeInv

LEMMA TypesStep == EngTypeInv /\ [EngNext]_engVars => EngTypeInv'
<1> SUFFICES ASSUME EngTypeInv, [EngNext]_engVars PROVE EngTypeInv'
  OBVIOUS
<1> USE EngineAssumption, TypesKept DEF EngTypeInv
<1>1. CASE EngStart
  <2>1. RunOK'
    BY <1>1 DEF EngStart, RunOK, EngBatches, EngGoto, EngPlaces
  <2>2. RateOK'
    BY <1>1 DEF EngStart, RateOK
  <2>3. engStatus' \in Statuses /\ StallOK'
    BY <1>1 DEF EngStart, FreshStatus, Statuses, StallOK
  <2>4. QED
    BY <1>1, <2>1, <2>2, <2>3 DEF EngStart
<1>2. CASE EngStop
  <2>1. CancelOK'
    BY <1>2 DEF EngStop, CancelOK, RunOK, EngBatches
  <2>2. engStatus' \in Statuses
    BY <1>2 DEF EngStop, Statuses
  <2>3. QED
    BY <1>2, <2>1, <2>2 DEF EngStop, engCancelVars
<1>3. CASE EngTick
  <2>1. RateOK'
    BY <1>3 DEF EngTick, RateOK
  <2>2. QED
    BY <1>3, <2>1 DEF EngTick
<1>4. ASSUME NEW b \in EngBatches, EngClose(b) PROVE EngTypeInv'
  <2>1. CancelOK'
    BY <1>4 DEF EngClose, CancelOK
  <2>2. QED
    BY <1>4, <2>1 DEF EngClose
<1>5. ASSUME NEW b \in EngBatches, EngSetup(b) PROVE EngTypeInv'
  <2>1. RunOK'
    BY <1>5 DEF EngSetup, RunOK, EngGoto, EngPlaces
  <2>2. JobOK'
    BY <1>5 DEF EngSetup, JobOK
  <2>3. engStatus' \in Statuses
    <3>1. engDone[b] \in Figures
      BY DEF JobOK
    <3>2. [engStatus EXCEPT !.completed = EngCount, !.fail = EngCount] \in Statuses
      BY DEF Statuses
    <3>3. /\ Reported(engDone[b], b) \in Statuses
          /\ [Reported(engDone[b], b) EXCEPT !.running = FALSE] \in Statuses
      BY <3>1, ReportType
    <3>4. \/ engStatus' = [engStatus EXCEPT !.completed = EngCount, !.fail = EngCount]
          \/ engStatus' = Reported(engDone[b], b)
          \/ engStatus' = [Reported(engDone[b], b) EXCEPT !.running = FALSE]
      BY <1>5 DEF EngSetup
    <3>5. QED
      BY <3>2, <3>3, <3>4
  <2>4. QED
    BY <1>5, <2>1, <2>2, <2>3 DEF EngSetup
<1>6. ASSUME NEW b \in EngBatches, NEW w \in EngWorkers, EngJob(b, w)
      PROVE EngTypeInv'
  <2>1. JobOK'
    <3>1. engJobs' \in 0..EngCount
      BY <1>6 DEF EngJob, JobOK
    <3>2. engWorker' \in [EngWorkers -> WorkerPlaces]
      BY <1>6 DEF EngJob, JobOK, WorkerPlaces
    <3>3. engDone' \in [EngBatches -> Figures]
      BY <1>6 DEF EngJob, JobOK, Figures
    <3>4. QED
      BY <3>1, <3>2, <3>3 DEF JobOK
  <2>2. QED
    BY <1>6, <2>1 DEF EngJob
<1>7. ASSUME NEW b \in EngBatches, NEW w \in EngWorkers, EngReport(b, w)
      PROVE EngTypeInv'
  <2> DEFINE more == [engDone[b] EXCEPT !.success = @ + 1]
             worse == [engDone[b] EXCEPT !.fail = @ + 1]
  <2>1. engDone' \in [EngBatches -> Figures]
    <3>1. engDone[b] \in Figures
      BY DEF JobOK
    <3>2. more \in Figures /\ worse \in Figures
      BY <3>1 DEF Figures
    <3>3. engDone' \in {engDone, [engDone EXCEPT ![b] = more],
                        [engDone EXCEPT ![b] = worse]}
      BY <1>7 DEF EngReport
    <3> HIDE DEF more, worse
    <3>4. QED
      BY <3>2, <3>3 DEF JobOK
  <2>2. JobOK'
    <3>1. engWorker' \in [EngWorkers -> WorkerPlaces]
      BY <1>7 DEF EngReport, JobOK, WorkerPlaces
    <3>2. QED
      BY <1>7, <2>1, <3>1 DEF EngReport, JobOK
  <2>3. engStatus' \in Statuses
    BY <1>7, <2>1, ReportType DEF EngReport
  <2>4. QED
    BY <1>7, <2>2, <2>3 DEF EngReport
<1>8. ASSUME NEW b \in EngBatches, NEW w \in EngWorkers, EngResult(b, w)
      PROVE EngTypeInv'
  <2>1. ImportOK'
    <3>1. engImport[b] \in Imports
      BY DEF ImportOK
    <3>2. [engImport[b] EXCEPT !.converting = @ + 1] \in Imports
      BY <3>1 DEF Imports
    <3>3. engImport' \in {engImport,
            [engImport EXCEPT ![b] = [engImport[b] EXCEPT !.converting = @ + 1]]}
      BY <1>8 DEF EngResult, ImportOK
    <3>4. QED
      BY <3>2, <3>3 DEF ImportOK
  <2>2. JobOK'
    BY <1>8 DEF EngResult, JobOK, WorkerPlaces
  <2>3. QED
    BY <1>8, <2>1, <2>2 DEF EngResult
<1>9. ASSUME NEW b \in EngBatches, EngFinish(b) \/ EngFinal(b) PROVE EngTypeInv'
  <2>1. RunOK'
    BY <1>9 DEF EngFinish, EngFinal, RunOK, EngGoto, EngPlaces
  <2>2. engStatus' \in Statuses
    <3>1. engDone[b] \in Figures
      BY DEF JobOK
    <3>2. engStatus' = [Reported(engDone[b], b) EXCEPT !.running = FALSE]
      BY <1>9 DEF EngFinish, EngFinal
    <3>3. QED
      BY <3>1, <3>2, ReportType
  <2>3. QED
    BY <1>9, <2>1, <2>2 DEF EngFinish, EngFinal
<1>10. ASSUME NEW b \in EngBatches, EngEnd(b) PROVE EngTypeInv'
  <2>1. RunOK'
    BY <1>10 DEF EngEnd, RunOK, EngGoto, EngPlaces
  <2>2. engStatus' \in Statuses
    BY <1>10 DEF EngEnd, Statuses
  <2>3. RateOK'
    BY <1>10, FlushType DEF EngEnd
  <2>4. QED
    BY <1>10, <2>1, <2>2, <2>3 DEF EngEnd
<1>11. ASSUME NEW b \in EngBatches, EngGiveUp(b) PROVE EngTypeInv'
  <2>1. CancelOK'
    BY <1>11 DEF EngGiveUp, CancelOK
  <2>2. QED
    BY <1>11, <2>1 DEF EngGiveUp
<1>12. ASSUME NEW b \in EngBatches, EngStalled(b) \/ EngDiagnose(b)
       PROVE EngTypeInv'
  <2>1. StallOK'
    BY <1>12 DEF EngStalled, EngDiagnose, StallOK
  <2>2. engStatus' \in Statuses
    <3>1. engDone[b] \in Figures
      BY DEF JobOK
    <3>2. QED
      BY <1>12, <3>1, ReportType DEF EngStalled, EngDiagnose
  <2>3. QED
    BY <1>12, <2>1, <2>2 DEF EngStalled, EngDiagnose
<1>13. ASSUME NEW b \in EngBatches, EngConvert(b) PROVE EngTypeInv'
  <2>1. ImportOK'
    BY <1>13, MoveType DEF EngConvert, ImportOK
  <2>2. QED
    BY <1>13, <2>1 DEF EngConvert
<1>14. ASSUME NEW b \in EngBatches, EngSave(b) PROVE EngTypeInv'
  <2>1. ImportOK'
    BY <1>14, MoveType DEF EngSave, ImportOK
  <2>2. QED
    BY <1>14, <2>1 DEF EngSave
<1>15. ASSUME NEW b \in EngBatches, EngSample(b) PROVE EngTypeInv'
  <2>1. RateOK'
    BY <1>15, FlushType DEF EngSample
  <2>2. QED
    BY <1>15, <2>1 DEF EngSample
<1>16. CASE UNCHANGED engVars
  BY <1>16 DEF engVars
<1>17. QED
  BY <1>1, <1>2, <1>3, <1>4, <1>5, <1>6, <1>7, <1>8, <1>9, <1>10, <1>11, <1>12,
     <1>13, <1>14, <1>15, <1>16 DEF EngNext, EngBatchStep

\* Type correctness: every variable of the engine (register.go:96-140) keeps its
\* type, whatever leftovers of earlier batches still report, sample or import.
THEOREM EngTypeCorrect == EngSpec => []EngTypeOK
<1>1. EngSpec => []EngTypeInv
  BY TypesFirst, TypesStep, PTL DEF EngSpec
<1>2. QED
  BY <1>1, TypesOfInv, PTL

-----------------------------------------------------------------------------
(* One run at a time, and a page that is told the end                      *)

\* Who may still report: a batch that has left RunBatch is complete or cancelled,
\* so that its diagnosis finds nothing running; only one batch is at work, and
\* only that one counts.
SettleInv ==
  /\ EngineSettles
  /\ \A b \in EngBatches :
       /\ b > engBatch => engAt[b] = "none"
       /\ engAt[b] \in {"none", "setup"} => engDone[b] = Zero /\ b \notin engStall
       /\ engAt[b] = "batch" =>
            b \in engClosed \/ engJobs + engDone[b].completed = EngCount
       /\ engAt[b] \in {"final", "end", "gone"} /\ b \in engStall =>
            b \in engClosed \/ engDone[b].completed >= EngCount

\* Steps of a batch are of the one at work.
LEMMA ActiveIsCurrent ==
  ASSUME EngTypeInv, SettleInv, NEW b \in EngBatches,
         engAt[b] \in {"setup", "batch", "final", "end"}
  PROVE  engRunning /\ b = engBatch /\ \A a \in EngBatches \ {b} : a \notin EngActive
BY DEF SettleInv, EngineSettles, EngActive, EngTypeInv, RunOK

LEMMA SettleFirst == EngInit => SettleInv
<1> SUFFICES ASSUME EngInit PROVE SettleInv
  OBVIOUS
<1>1. EngActive = {} /\ ~ engRunning /\ ~ engStatus.running
  BY DEF EngInit, EngActive, FreshStatus
<1>2. QED
  BY <1>1 DEF EngInit, SettleInv, EngineSettles

LEMMA SettleStep == EngTypeInv /\ SettleInv /\ [EngNext]_engVars => SettleInv'
<1> SUFFICES ASSUME EngTypeInv, SettleInv, [EngNext]_engVars PROVE SettleInv'
  OBVIOUS
<1> USE EngineAssumption
<1>0. /\ engStatus \in Statuses
      /\ engAt \in [EngBatches -> EngPlaces]
      /\ engDone \in [EngBatches -> Figures]
      /\ engBatch \in 0..MaxBatches
      /\ engRunning \in BOOLEAN
      /\ engJobs \in 0..EngCount
  BY DEF EngTypeInv, RunOK, JobOK
<1>1. CASE EngStart
  <2> DEFINE b == engBatch + 1
  <2>1. /\ ~ engRunning /\ b \in EngBatches /\ engRunning' /\ engBatch' = b
        /\ engAt' = [engAt EXCEPT ![b] = "setup"]
        /\ UNCHANGED <<engDone, engStall, engClosed, engJobs>>
    BY <1>1 DEF EngStart, EngGoto, engCancelVars, engJobVars
  <2>2. engAt[b] = "none"
    BY <2>1, <1>0 DEF SettleInv
  <2>3. EngActive = {} /\ EngActive' = {b}
    <3>1. EngActive = {}
      BY <2>1 DEF SettleInv, EngineSettles
    <3>2. QED
      BY <2>1, <3>1, <1>0 DEF EngActive
  <2>4. EngineSettles'
    BY <2>1, <2>3 DEF EngineSettles
  <2>5. engAt'[b] = "setup" /\ \A a \in EngBatches \ {b} : engAt'[a] = engAt[a]
    BY <1>0, <2>1
  <2>6. \A a \in EngBatches : a > b => a > engBatch /\ a # b
    BY <1>0 DEF EngBatches
  <2>7. engDone[b] = Zero /\ b \notin engStall
    BY <2>1, <2>2 DEF SettleInv
  <2> HIDE DEF b
  <2>8. QED
    BY <2>1, <2>4, <2>5, <2>6, <2>7 DEF SettleInv
<1>2. CASE EngStop
  <2>1. engStatus'.running = engStatus.running
    BY <1>0, <1>2 DEF EngStop, Statuses
  <2>2. QED
    BY <1>2, <2>1 DEF EngStop, engRunVars, engJobVars, SettleInv, EngineSettles,
       EngActive
<1>3. CASE EngTick
  BY <1>3 DEF EngTick, engRunVars, engJobVars, engCancelVars, SettleInv,
     EngineSettles, EngActive
<1>4. ASSUME NEW b \in EngBatches, EngClose(b) \/ EngGiveUp(b) PROVE SettleInv'
  BY <1>4 DEF EngClose, EngGiveUp, engRunVars, engJobVars, SettleInv,
     EngineSettles, EngActive
<1>5. ASSUME NEW b \in EngBatches, EngSetup(b) PROVE SettleInv'
  <2>1. /\ engAt[b] = "setup" /\ engRunning' = engRunning /\ engBatch' = engBatch
        /\ UNCHANGED <<engDone, engStall, engClosed>>
    BY <1>5 DEF EngSetup, engCancelVars
  <2>2. /\ engAt' = [engAt EXCEPT ![b] = engAt'[b]]
        /\ engAt'[b] \in {"batch", "final", "end"}
        /\ engAt'[b] = "batch" => engJobs' = EngCount
    BY <1>5, <1>0 DEF EngSetup, EngGoto
  <2>3. engRunning /\ b = engBatch
    BY <2>1, ActiveIsCurrent
  <2>4. EngActive' = EngActive
    BY <2>1, <2>2, <1>0 DEF EngActive
  <2>5. engDone[b] = Zero /\ b \notin engStall
    BY <2>1 DEF SettleInv
  <2>6. \A a \in EngBatches \ {b} : engAt'[a] = engAt[a] /\ engAt[a] # "batch"
    BY <2>1, <2>2, <1>0, ActiveIsCurrent DEF EngActive
  <2>7. EngineSettles'
    BY <2>1, <2>3, <2>4 DEF SettleInv, EngineSettles
  <2>8. QED
    BY <1>0, <2>1, <2>2, <2>3, <2>5, <2>6, <2>7 DEF SettleInv, Zero
<1>6. ASSUME NEW b \in EngBatches, NEW w \in EngWorkers, EngJob(b, w)
      PROVE SettleInv'
  <2>1. /\ engAt[b] = "batch" /\ engJobs' = engJobs - 1
        /\ UNCHANGED <<engRunning, engBatch, engAt, engStatus, engStall, engClosed>>
    BY <1>6 DEF EngJob, engRunVars, engCancelVars
  <2>2. \/ b \in engClosed /\ engDone' = engDone
        \/ engDone' = [engDone EXCEPT ![b].completed = @ + 1]
    BY <1>6 DEF EngJob
  <2>3. /\ \A a \in EngBatches \ {b} : engDone'[a] = engDone[a] /\ engAt[a] # "batch"
        /\ b \in engClosed \/ engDone'[b].completed = engDone[b].completed + 1
    BY <2>1, <2>2, <1>0, ActiveIsCurrent DEF Figures, EngActive
  <2>4. EngineSettles'
    BY <2>1 DEF SettleInv, EngineSettles, EngActive
  <2>5. engDone[b].completed \in Nat
    BY <1>0 DEF Figures
  <2>6. QED
    BY <1>0, <2>1, <2>3, <2>4, <2>5 DEF SettleInv
<1>7. ASSUME NEW b \in EngBatches, NEW w \in EngWorkers, EngReport(b, w)
      PROVE SettleInv'
  <2>1. /\ engAt[b] = "batch"
        /\ UNCHANGED <<engRunning, engBatch, engAt, engStall, engClosed, engJobs>>
    BY <1>7 DEF EngReport, engRunVars, engCancelVars
  <2>2. \A a \in EngBatches : /\ a # b => engDone'[a] = engDone[a]
                              /\ engDone'[a].completed = engDone[a].completed
    BY <1>7, <1>0 DEF EngReport, Figures
  <2>3. engRunning
    BY <2>1, ActiveIsCurrent
  <2>4. EngineSettles'
    BY <2>1, <2>3 DEF SettleInv, EngineSettles, EngActive
  <2>5. QED
    BY <2>1, <2>2, <2>4 DEF SettleInv
<1>8. ASSUME NEW b \in EngBatches, NEW w \in EngWorkers, EngResult(b, w)
      PROVE SettleInv'
  BY <1>8 DEF EngResult, engRunVars, engCancelVars, SettleInv, EngineSettles,
     EngActive
<1>9. ASSUME NEW b \in EngBatches, EngFinish(b) \/ EngFinal(b) PROVE SettleInv'
  <2>1. /\ engAt[b] \in {"batch", "final"}
        /\ engAt[b] = "batch" => engJobs = 0
        /\ engAt' = [engAt EXCEPT ![b] = IF engAt[b] = "batch" THEN "final" ELSE "end"]
        /\ UNCHANGED <<engRunning, engBatch, engDone, engStall, engClosed, engJobs>>
    BY <1>9 DEF EngFinish, EngFinal, EngGoto, engCancelVars, engJobVars
  <2>2. engRunning
    BY <2>1, ActiveIsCurrent
  <2>3. EngActive' = EngActive
    BY <2>1, <1>0 DEF EngActive
  <2>4. EngineSettles'
    BY <2>1, <2>2, <2>3 DEF SettleInv, EngineSettles
  <2>5. engDone[b].completed \in Nat
    BY <1>0 DEF Figures
  <2>6. engAt[b] = "batch" => b \in engClosed \/ engDone[b].completed >= EngCount
    BY <2>1, <2>5 DEF SettleInv
  <2>7. QED
    BY <1>0, <2>1, <2>4, <2>6 DEF SettleInv
<1>10. ASSUME NEW b \in EngBatches, EngEnd(b) PROVE SettleInv'
  <2>1. /\ engAt[b] = "end" /\ engAt' = [engAt EXCEPT ![b] = "gone"]
        /\ ~ engRunning'
        /\ engStatus' = [engStatus EXCEPT !.running = FALSE]
        /\ UNCHANGED <<engBatch, engDone, engStall, engClosed, engJobs>>
    BY <1>10 DEF EngEnd, EngGoto, engCancelVars, engJobVars
  <2>2. EngActive = {b}
    BY <2>1, ActiveIsCurrent DEF SettleInv, EngineSettles
  <2>3. EngActive' = {}
    BY <2>1, <2>2, <1>0 DEF EngActive
  <2>4. ~ engStatus'.running
    BY <2>1, <1>0 DEF Statuses
  <2>5. EngineSettles'
    BY <2>1, <2>3, <2>4 DEF EngineSettles
  <2>6. QED
    BY <1>0, <2>1, <2>5 DEF SettleInv
<1>11. ASSUME NEW b \in EngBatches, EngStalled(b) PROVE SettleInv'
  BY <1>11 DEF EngStalled, engRunVars, engCancelVars, engJobVars, SettleInv,
     EngineSettles, EngActive
<1>12. ASSUME NEW b \in EngBatches, EngDiagnose(b) PROVE SettleInv'
  <2>1. /\ b \in engStall /\ engStall' = engStall \ {b}
        /\ engStatus' = Reported(engDone[b], b)
        /\ UNCHANGED <<engRunning, engBatch, engAt, engDone, engClosed, engJobs>>
    BY <1>12 DEF EngDiagnose, engRunVars, engCancelVars, engJobVars
  <2>2. ~ engRunning => ~ engStatus'.running
    <3>1. SUFFICES ASSUME ~ engRunning PROVE ~ engStatus'.running
      OBVIOUS
    <3>2. engAt[b] = "gone"
      BY <2>1, <3>1, <1>0 DEF SettleInv, EngineSettles, EngActive, EngPlaces
    <3>3. b \in engClosed \/ engDone[b].completed >= EngCount
      BY <2>1, <3>2 DEF SettleInv
    <3>4. engDone[b] \in Figures /\ engDone[b].completed \in Nat
      BY <1>0 DEF Figures
    <3>5. ~ (engDone[b].completed < EngCount /\ b \notin engClosed)
      BY <3>3, <3>4
    <3>6. engStatus'.running = (engDone[b].completed < EngCount /\ b \notin engClosed)
      BY <1>0, <2>1, <3>4, ReportType
    <3>7. QED
      BY <3>5, <3>6, Zenon
  <2>3. EngineSettles'
    BY <2>1, <2>2 DEF SettleInv, EngineSettles, EngActive
  <2>4. QED
    BY <2>1, <2>3 DEF SettleInv
<1>13. ASSUME NEW b \in EngBatches, EngConvert(b) PROVE SettleInv'
  BY <1>13 DEF EngConvert, engRunVars, engCancelVars, engJobVars,
     SettleInv, EngineSettles, EngActive
<1>14. ASSUME NEW b \in EngBatches, EngSave(b) \/ EngSample(b) PROVE SettleInv'
  BY <1>14 DEF EngSave, EngSample, engRunVars, engCancelVars, engJobVars,
     SettleInv, EngineSettles, EngActive
<1>15. CASE UNCHANGED engVars
  BY <1>15 DEF engVars, engRunVars, engCancelVars, engJobVars, SettleInv,
     EngineSettles, EngActive
<1>16. QED
  BY <1>1, <1>2, <1>3, <1>4, <1>5, <1>6, <1>7, <1>8, <1>9, <1>10, <1>11, <1>12,
     <1>13, <1>14, <1>15 DEF EngNext, EngBatchStep

\* When the engine is free again the page is told so and stays told, and until
\* then exactly the last batch is at work, whatever an earlier one still reports.
THEOREM EngineAlwaysSettles == EngSpec => []EngineSound
<1>1. EngSpec => [](EngTypeInv /\ SettleInv)
  BY TypesFirst, TypesStep, SettleFirst, SettleStep, PTL DEF EngSpec
<1>2. EngTypeInv /\ SettleInv => EngineSound
  BY TypesOfInv DEF SettleInv, EngineSound
<1>3. QED
  BY <1>1, <1>2, PTL

-----------------------------------------------------------------------------
(* Every success arrives                                                   *)

Handing(b) == {w \in EngWorkers : engAt[b] = "batch" /\ engWorker[w] = "hand over"}
Imported(i) == i.converting + i.saving + i.removing + i.over

\* Workers are busy only while their batch runs.
ArriveInv ==
  /\ \A b \in EngBatches :
       engDone[b].success = Imported(engImport[b]) + Cardinality(Handing(b))
  /\ (\A b \in EngBatches : engAt[b] # "batch") =>
       \A w \in EngWorkers : engWorker[w] = "idle"

LEMMA HandingFinite ==
  ASSUME NEW b
  PROVE  IsFiniteSet(Handing(b)) /\ Cardinality(Handing(b)) \in Nat
<1>1. Handing(b) \subseteq EngWorkers /\ IsFiniteSet(EngWorkers)
  BY EngineAssumption DEF Handing
<1>2. QED
  BY <1>1, FS_Subset, FS_CardinalityType

\* A step that changes neither what was counted, nor an import, nor who is about
\* to hand over, keeps the sum.
LEMMA ArriveKept ==
  ASSUME ArriveInv, UNCHANGED <<engDone, engImport, engAt, engWorker>>
  PROVE  ArriveInv'
<1>1. \A b : Handing(b)' = Handing(b)
  BY DEF Handing
<1>2. QED
  BY <1>1 DEF ArriveInv

\* A batch that moves on with idle workers hands nothing over, before or after.
LEMMA ArriveIdle ==
  ASSUME ArriveInv, UNCHANGED <<engDone, engImport, engWorker>>,
         \A w \in EngWorkers : engWorker[w] = "idle"
  PROVE  ArriveInv'
<1>1. \A b : Handing(b)' = {} /\ Handing(b) = {}
  BY DEF Handing
<1>2. QED
  BY <1>1 DEF ArriveInv

\* Moving on, an import stays one.
LEMMA MoveKeepsSum ==
  ASSUME EngTypeInv, ArriveInv, NEW b \in EngBatches,
         NEW from \in {"converting", "saving", "removing"},
         NEW to \in {"saving", "removing", "over"},
         engImport[b][from] > 0, EngMove(b, from, to), from # to,
         UNCHANGED <<engDone, engAt, engWorker>>
  PROVE  ArriveInv'
<1> DEFINE i == engImport[b]
           j == [i EXCEPT ![from] = @ - 1, ![to] = @ + 1]
<1>1. /\ \A a \in EngBatches \ {b} : engImport'[a] = engImport[a]
      /\ engImport'[b] = j
  <2>1. engImport \in [EngBatches -> Imports]
    BY DEF EngTypeInv, ImportOK
  <2>2. engImport' = [engImport EXCEPT ![b] = j]
    BY <2>1 DEF EngMove
  <2> HIDE DEF j
  <2>3. QED
    BY <2>1, <2>2
<1>2. i \in Imports
  BY DEF EngTypeInv, ImportOK
<1>3. Imported(j) = Imported(i)
  <2> HIDE DEF i
  <2>1. ASSUME NEW n \in Imports, NEW m,
               m = [n EXCEPT ![from] = @ - 1, ![to] = @ + 1]
        PROVE  Imported(m) = Imported(n)
    <3>1. CASE from = "converting"
      BY <2>1, <3>1 DEF Imported, Imports
    <3>2. CASE from = "saving"
      BY <2>1, <3>2 DEF Imported, Imports
    <3>3. CASE from = "removing"
      BY <2>1, <3>3 DEF Imported, Imports
    <3>4. QED
      BY <3>1, <3>2, <3>3
  <2>2. QED
    BY <1>2, <2>1
<1>4. \A a : Handing(a)' = Handing(a)
  BY DEF Handing
<1> HIDE DEF j
<1>5. QED
  BY <1>1, <1>3, <1>4 DEF ArriveInv

LEMMA ArriveFirst == EngInit => ArriveInv
<1> SUFFICES ASSUME EngInit PROVE ArriveInv
  OBVIOUS
<1>1. \A b \in EngBatches : Handing(b) = {}
  <2>1. \A b \in EngBatches : engAt[b] = "none"
    BY DEF EngInit
  <2>2. QED
    BY <2>1 DEF Handing
<1>2. \A b \in EngBatches : engDone[b].success = 0 /\ Imported(engImport[b]) = 0
  <2>1. Zero.success = 0 /\ Imported(NoImports) = 0
    BY DEF Zero, NoImports, Imported
  <2>2. \A b \in EngBatches : engDone[b] = Zero /\ engImport[b] = NoImports
    BY DEF EngInit
  <2>3. QED
    BY <2>1, <2>2
<1>3. Cardinality({}) = 0
  BY FS_EmptySet
<1>4. \A b \in EngBatches :
        engDone[b].success = Imported(engImport[b]) + Cardinality(Handing(b))
  <2> TAKE b \in EngBatches
  <2>1. Cardinality(Handing(b)) = 0
    BY <1>1, <1>3
  <2>2. QED
    BY <1>2, <2>1
<1>5. \A w \in EngWorkers : engWorker[w] = "idle"
  BY DEF EngInit
<1>6. QED
  BY <1>4, <1>5 DEF ArriveInv

LEMMA ArriveStep ==
  EngTypeInv /\ SettleInv /\ ArriveInv /\ [EngNext]_engVars => ArriveInv'
<1> SUFFICES ASSUME EngTypeInv, SettleInv, ArriveInv, [EngNext]_engVars
             PROVE ArriveInv'
  OBVIOUS
<1>0. /\ engAt \in [EngBatches -> EngPlaces]
      /\ engDone \in [EngBatches -> Figures]
      /\ engWorker \in [EngWorkers -> WorkerPlaces]
      /\ engImport \in [EngBatches -> Imports]
  BY DEF EngTypeInv, RunOK, JobOK, ImportOK
<1>1. CASE EngStart
  <2>1. ~ engRunning /\ UNCHANGED <<engDone, engImport, engWorker>>
    BY <1>1 DEF EngStart, engJobVars
  <2>2. \A b \in EngBatches : engAt[b] # "batch"
    BY <2>1, ActiveIsCurrent
  <2>3. QED
    BY <2>1, <2>2, ArriveIdle DEF ArriveInv
<1>2. ASSUME NEW b \in EngBatches, EngSetup(b) PROVE ArriveInv'
  <2>1. engAt[b] = "setup" /\ UNCHANGED <<engDone, engImport, engWorker>>
    BY <1>2 DEF EngSetup
  <2>2. \A a \in EngBatches : engAt[a] # "batch"
    BY <2>1, ActiveIsCurrent DEF EngActive
  <2>3. QED
    BY <2>1, <2>2, ArriveIdle DEF ArriveInv
<1>3. ASSUME NEW b \in EngBatches, EngFinish(b) \/ EngFinal(b) \/ EngEnd(b)
      PROVE ArriveInv'
  <2>1. /\ UNCHANGED <<engDone, engImport, engWorker>>
        /\ engAt[b] \in {"final", "end"} \/ \A w \in EngWorkers : engWorker[w] = "idle"
    BY <1>3 DEF EngFinish, EngFinal, EngEnd, engJobVars
  <2>2. engAt[b] \in {"final", "end"} => \A a \in EngBatches : engAt[a] # "batch"
    BY ActiveIsCurrent DEF EngActive
  <2>3. QED
    BY <2>1, <2>2, ArriveIdle DEF ArriveInv
<1>4. ASSUME NEW b \in EngBatches, NEW w \in EngWorkers, EngJob(b, w)
      PROVE ArriveInv'
  <2>1. /\ engAt[b] = "batch" /\ engWorker[w] = "idle"
        /\ UNCHANGED <<engAt, engImport>>
    BY <1>4 DEF EngJob, engRunVars
  <2>2. \A v \in EngWorkers : engWorker'[v] = "hand over" <=> engWorker[v] = "hand over"
    BY <1>4, <1>0 DEF EngJob
  <2>3. \A a \in EngBatches : engDone'[a].success = engDone[a].success
    BY <1>4, <1>0 DEF EngJob, Figures
  <2>4. \A a : Handing(a)' = Handing(a)
    BY <2>1, <2>2 DEF Handing
  <2>5. QED
    BY <2>1, <2>3, <2>4 DEF ArriveInv
<1>5. ASSUME NEW b \in EngBatches, NEW w \in EngWorkers, EngReport(b, w)
      PROVE ArriveInv'
  <2>1. /\ engAt[b] = "batch" /\ engWorker[w] \in {"success", "fail", "cancelled"}
        /\ UNCHANGED <<engAt, engImport>>
        /\ engWorker' = [engWorker EXCEPT ![w] =
             IF engWorker[w] = "success" THEN "hand over" ELSE "hand back"]
    BY <1>5 DEF EngReport, engRunVars
  <2>2. \A a \in EngBatches : a # b => Handing(a)' = Handing(a)
    BY <2>1, ActiveIsCurrent DEF Handing, EngActive
  <2>3. \A a \in EngBatches : a # b => engDone'[a].success = engDone[a].success
    BY <1>5, <1>0 DEF EngReport
  <2>4. engDone'[b].success = Imported(engImport[b]) + Cardinality(Handing(b)')
    <3>0. engDone[b].success = Imported(engImport[b]) + Cardinality(Handing(b))
          /\ engDone[b].success \in Nat /\ Imported(engImport[b]) \in Nat
      BY <1>0 DEF ArriveInv, Figures, Imported, Imports
    <3>1. CASE engWorker[w] = "success"
      <4>1. Handing(b)' = Handing(b) \cup {w} /\ w \notin Handing(b)
        BY <1>0, <2>1, <3>1 DEF Handing
      <4>2. Cardinality(Handing(b)') = Cardinality(Handing(b)) + 1
        BY <4>1, HandingFinite, FS_AddElement
      <4>3. engDone'[b].success = engDone[b].success + 1
        BY <1>5, <1>0, <3>1 DEF EngReport, Figures
      <4>4. QED
        BY <3>0, <4>2, <4>3, HandingFinite
    <3>2. CASE engWorker[w] # "success"
      <4>1. Handing(b)' = Handing(b)
        BY <1>0, <2>1, <3>2 DEF Handing
      <4>2. engDone'[b].success = engDone[b].success
        BY <1>5, <1>0, <3>2 DEF EngReport, Figures
      <4>3. QED
        BY <3>0, <4>1, <4>2
    <3>3. QED
      BY <3>1, <3>2
  <2>5. QED
    BY <2>1, <2>2, <2>3, <2>4 DEF ArriveInv
<1>6. ASSUME NEW b \in EngBatches, NEW w \in EngWorkers, EngResult(b, w)
      PROVE ArriveInv'
  <2>1. /\ engAt[b] = "batch" /\ engWorker[w] \in {"hand over", "hand back"}
        /\ UNCHANGED <<engAt, engDone>>
        /\ engWorker' = [engWorker EXCEPT ![w] = "idle"]
    BY <1>6 DEF EngResult, engRunVars
  <2>2. \A a \in EngBatches : a # b => /\ Handing(a)' = Handing(a)
                                       /\ engImport'[a] = engImport[a]
    <3>1. \A a \in EngBatches : a # b => Handing(a)' = Handing(a)
      BY <2>1, ActiveIsCurrent DEF Handing, EngActive
    <3>2. \A a \in EngBatches : a # b => engImport'[a] = engImport[a]
      BY <1>6, <1>0 DEF EngResult
    <3>3. QED
      BY <3>1, <3>2
  <2>3. Imported(engImport'[b]) + Cardinality(Handing(b)')
          = Imported(engImport[b]) + Cardinality(Handing(b))
    <3>0. engImport[b] \in Imports /\ Imported(engImport[b]) \in Nat
      BY <1>0 DEF Imported, Imports
    <3>1. CASE engWorker[w] = "hand over"
      <4>1. Handing(b)' = Handing(b) \ {w} /\ w \in Handing(b)
        BY <1>0, <2>1, <3>1 DEF Handing
      <4>2. Cardinality(Handing(b)') = Cardinality(Handing(b)) - 1
        BY <4>1, HandingFinite, FS_RemoveElement
      <4>3. engImport'[b] = [engImport[b] EXCEPT !.converting = @ + 1]
        BY <1>6, <1>0, <3>1 DEF EngResult
      <4>4. Imported(engImport'[b]) = Imported(engImport[b]) + 1
        BY <3>0, <4>3 DEF Imported, Imports
      <4>5. QED
        BY <3>0, <4>2, <4>4, HandingFinite
    <3>2. CASE engWorker[w] # "hand over"
      <4>1. Handing(b)' = Handing(b)
        BY <1>0, <2>1, <3>2 DEF Handing
      <4>2. engImport' = engImport
        BY <1>6, <3>2 DEF EngResult
      <4>3. QED
        BY <4>1, <4>2
    <3>3. QED
      BY <3>1, <3>2
  <2>4. QED
    BY <2>1, <2>2, <2>3 DEF ArriveInv
<1>7. ASSUME NEW b \in EngBatches, EngConvert(b) PROVE ArriveInv'
  <2>1. UNCHANGED <<engDone, engAt, engWorker>>
    BY <1>7 DEF EngConvert, engRunVars, engJobVars
  <2>2. engImport[b].converting > 0 /\ \E to \in {"saving", "removing"} :
          EngMove(b, "converting", to)
    BY <1>7 DEF EngConvert
  <2>3. QED
    BY <2>1, <2>2, MoveKeepsSum
<1>8. ASSUME NEW b \in EngBatches, EngSave(b) PROVE ArriveInv'
  <2>1. UNCHANGED <<engDone, engAt, engWorker>>
    BY <1>8 DEF EngSave, engRunVars, engJobVars
  <2>2. QED
    BY <1>8, <2>1, MoveKeepsSum DEF EngSave
<1>9. ASSUME NEW b \in EngBatches,
             \/ EngClose(b) \/ EngGiveUp(b) \/ EngStalled(b) \/ EngDiagnose(b)
             \/ EngSample(b)
      PROVE ArriveInv'
  BY <1>9, ArriveKept DEF EngClose, EngGiveUp, EngStalled, EngDiagnose, EngSample,
     engRunVars, engJobVars
<1>10. CASE EngStop \/ EngTick \/ UNCHANGED engVars
  BY <1>10, ArriveKept DEF EngStop, EngTick, engVars, engRunVars, engJobVars
<1>11. QED
  BY <1>1, <1>2, <1>3, <1>4, <1>5, <1>6, <1>7, <1>8, <1>9, <1>10
  DEF EngNext, EngBatchStep

\* Every success of a batch is about to be handed over, being imported, stored or
\* given up: none is lost when the batch ends, or another begins, before its import.
THEOREM SuccessesAlwaysArrive == EngSpec => []SuccessesArrive
<1>1. EngSpec => [](EngTypeInv /\ SettleInv /\ ArriveInv)
  BY TypesFirst, TypesStep, SettleFirst, SettleStep, ArriveFirst, ArriveStep, PTL
  DEF EngSpec
<1>2. ArriveInv => SuccessesArrive
  BY DEF ArriveInv, SuccessesArrive, Imported, Handing
<1>3. QED
  BY <1>1, <1>2, PTL

-----------------------------------------------------------------------------
(* The figures per minute                                                  *)

\* Between two reports the page may lag behind the batch, never be ahead of it: what
\* a report writes is at least what the status shows.  A batch without mailboxes
\* is written off as failed, and reports nothing.
RateInv ==
  /\ engBatch = 0 => engStatus.success = 0 /\ engStatus.fail = 0
  /\ ~ engLate /\ engBatch # 0 =>
       /\ engStatus.success <= engDone[engBatch].success
       /\ \/ engStatus.fail <= engDone[engBatch].fail
          \/ engAt[engBatch] \in {"end", "gone"} /\ engBatch \notin engStall
  /\ PerMinSound

\* Readings up to a figure are readings up to a higher one.
LEMMA GainsGrow ==
  ASSUME NEW s \in Seq(Minutes), NEW f, NEW top \in Nat, NEW high \in Nat,
         top <= high, Gains(s, f, top)
  PROVE  Gains(s, f, high)
<1>1. PICK r \in [0..Len(s) -> 0..top] :
        \A i \in 1..Len(s) : r[i - 1] <= r[i] /\ s[i][f] = r[i] - r[i - 1]
  BY DEF Gains
<1>2. r \in [0..Len(s) -> 0..high]
  OBVIOUS
<1>3. QED
  BY <1>1, <1>2 DEF Gains

\* One more minute, with what has come since the last reading.
LEMMA GainsAppend ==
  ASSUME NEW s \in Seq(Minutes), NEW m \in Minutes, NEW f, NEW top \in Nat,
         NEW high \in Nat, top <= high, m[f] = high - top, Gains(s, f, top)
  PROVE  Gains(Append(s, m), f, high)
<1> DEFINE M == Minutes
           t == Append(s, m)
<1>1. PICK r \in [0..Len(s) -> 0..top] :
        \A i \in 1..Len(s) : r[i - 1] <= r[i] /\ s[i][f] = r[i] - r[i - 1]
  BY DEF Gains
<1>2. /\ Len(s) \in Nat /\ Len(t) = Len(s) + 1
      /\ \A i \in 1..Len(s) : t[i] = s[i]
      /\ t[Len(s) + 1] = m
  <2>1. s \in Seq(M) /\ m \in M
    OBVIOUS
  <2> HIDE DEF M
  <2>2. QED
    BY <2>1, AppendProperties, LenProperties
<1> DEFINE q == [i \in 0..Len(t) |-> IF i <= Len(s) THEN r[i]
                                     ELSE r[Len(s)] + (high - top)]
<1> HIDE DEF t
<1>3. \A i \in 0..Len(s) : r[i] \in 0..top
  BY <1>1
<1>4. /\ \A i \in 0..Len(s) : q[i] = r[i]
      /\ q[Len(s) + 1] = r[Len(s)] + (high - top)
  BY <1>2
<1>5. q \in [0..Len(t) -> 0..high]
  BY <1>2, <1>3
<1> HIDE DEF q
<1>6. ASSUME NEW i \in 1..Len(t)
      PROVE  q[i - 1] <= q[i] /\ t[i][f] = q[i] - q[i - 1]
  <2>1. CASE i \in 1..Len(s)
    <3>1. i - 1 \in 0..Len(s) /\ i \in 0..Len(s)
      BY <1>2, <2>1
    <3>2. QED
      BY <1>1, <1>2, <1>4, <2>1, <3>1
  <2>2. CASE i = Len(s) + 1
    <3>1. Len(s) \in 0..Len(s) /\ i - 1 = Len(s)
      BY <1>2, <2>2
    <3>2. q[i - 1] = r[Len(s)] /\ q[i] = r[Len(s)] + (high - top) /\ t[i] = m
      BY <1>2, <1>4, <2>2, <3>1
    <3>3. r[Len(s)] \in Int
      BY <1>3, <3>1
    <3>4. QED
      BY <3>2, <3>3
  <2>3. QED
    BY <1>2, <2>1, <2>2
<1>7. QED
  BY <1>5, <1>6 DEF Gains, t

\* The first minute is dropped.
LEMMA GainsTail ==
  ASSUME NEW s \in Seq(Minutes), NEW f, NEW top \in Nat, Len(s) > 0,
         Gains(s, f, top)
  PROVE  Gains(SubSeq(s, 2, Len(s)), f, top)
<1> DEFINE M == Minutes
           t == SubSeq(s, 2, Len(s))
<1>1. PICK r \in [0..Len(s) -> 0..top] :
        \A i \in 1..Len(s) : r[i - 1] <= r[i] /\ s[i][f] = r[i] - r[i - 1]
  BY DEF Gains
<1>2. /\ Len(s) \in Nat /\ Len(t) = Len(s) - 1
      /\ \A i \in 1..Len(s) - 1 : t[i] = s[i + 1]
  <2>1. s \in Seq(M)
    OBVIOUS
  <2> HIDE DEF M
  <2>2. Len(s) \in Nat
    BY <2>1, LenProperties
  <2>3. \A k \in 2..Len(s) : s[k] \in M
    BY <2>1, <2>2, ElementOfSeq
  <2>4. QED
    BY <2>1, <2>2, <2>3
<1> DEFINE q == [i \in 0..Len(t) |-> r[i + 1]]
<1> HIDE DEF t
<1>3. \A i \in 0..Len(t) : i + 1 \in 0..Len(s) /\ q[i] = r[i + 1]
  BY <1>2
<1>4. q \in [0..Len(t) -> 0..top]
  BY <1>1, <1>3
<1> HIDE DEF q
<1>5. ASSUME NEW i \in 1..Len(t)
      PROVE  q[i - 1] <= q[i] /\ t[i][f] = q[i] - q[i - 1]
  <2>1. i - 1 \in 0..Len(t) /\ i \in 0..Len(t) /\ i + 1 \in 1..Len(s)
        /\ (i - 1) + 1 = i /\ (i + 1) - 1 = i /\ i \in 1..Len(s) - 1
    BY <1>2
  <2>2. q[i - 1] = r[i] /\ q[i] = r[i + 1] /\ t[i] = s[i + 1]
    BY <1>2, <1>3, <2>1
  <2>3. r[(i + 1) - 1] <= r[i + 1] /\ s[i + 1][f] = r[i + 1] - r[(i + 1) - 1]
    BY <1>1, <2>1
  <2>4. QED
    BY <2>1, <2>2, <2>3
<1>6. QED
  BY <1>4, <1>5 DEF Gains, t

LEMMA GainsNone ==
  ASSUME NEW f, NEW top \in Nat PROVE Gains(<<>>, f, top)
<1> DEFINE r == [i \in 0..Len(<<>>) |-> 0]
<1>1. 1..Len(<<>>) = {}
  OBVIOUS
<1>2. r \in [0..Len(<<>>) -> 0..top]
  OBVIOUS
<1> HIDE DEF r
<1>3. QED
  BY <1>1, <1>2, Zenon DEF Gains

\* A sample of the status keeps the figures gains of its counters.
LEMMA GainsFlush ==
  ASSUME EngTypeInv, Flush, NEW f \in {"success", "fail"},
         Gains(engPerMin, f, engBase[f]), engBase[f] <= engStatus[f]
  PROVE  Gains(engPerMin', f, engBase'[f]) /\ engBase'[f] <= engStatus[f]
<1> DEFINE M == Minutes
           m == [success |-> engStatus.success - engBase.success,
                 fail |-> engStatus.fail - engBase.fail]
           s == Append(engPerMin, m)
<1>1. engBase[f] \in Nat /\ engStatus[f] \in Nat
  BY DEF EngTypeInv, RateOK, Statuses
<1>2. m \in Minutes /\ m[f] = engStatus[f] - engBase[f]
  BY DEF EngTypeInv, RateOK, Statuses, Minutes
<1>3. engPerMin \in Seq(M)
  BY DEF EngTypeInv, RateOK
<1>4. engBase'[f] = engStatus[f]
  BY DEF Flush
<1>5. s \in Seq(M) /\ Len(s) \in Nat /\ Len(s) >= 1
  <2> HIDE DEF M, m
  <2>1. m \in M
    BY <1>2 DEF M
  <2>2. s \in Seq(M) /\ Len(s) = Len(engPerMin) + 1
    BY <1>3, <2>1, AppendProperties
  <2>3. QED
    BY <1>3, <2>2, LenProperties
<1>6. \/ engPerMin' = engPerMin
      \/ engPerMin' = SubSeq(s, 1, Len(s))
      \/ engPerMin' = SubSeq(s, 2, Len(s))
  BY DEF Flush
<1>7. SubSeq(s, 1, Len(s)) = s
  <2> HIDE DEF s, M
  <2>1. QED
    BY <1>5
<1> HIDE DEF m
<1>8. Gains(s, f, engStatus[f])
  BY <1>1, <1>2, <1>3, GainsAppend
<1> HIDE DEF s
<1>9. Gains(SubSeq(s, 2, Len(s)), f, engStatus[f])
  BY <1>1, <1>5, <1>8, GainsTail
<1>10. Gains(engPerMin, f, engStatus[f])
  BY <1>1, <1>3, GainsGrow
<1>11. Gains(engPerMin', f, engStatus[f])
  <2> DEFINE t == SubSeq(s, 1, Len(s))
             u == SubSeq(s, 2, Len(s))
  <2>1. /\ engPerMin' = engPerMin \/ engPerMin' = t \/ engPerMin' = u
        /\ t = s
    BY <1>6, <1>7
  <2>2. Gains(u, f, engStatus[f])
    BY <1>9
  <2> HIDE DEF t, u
  <2>3. QED
    BY <1>8, <1>10, <2>1, <2>2, Zenon
<1>12. QED
  BY <1>1, <1>4, <1>11

\* Steps that take no sample keep the figures as long as the status grows.
LEMMA RateKept ==
  ASSUME EngTypeInv, RateInv, EngTypeInv', UNCHANGED <<engPerMin, engBase, engLate>>,
         ~ engLate => engStatus.success <= engStatus'.success
                      /\ engStatus.fail <= engStatus'.fail
  PROVE  PerMinSound'
<1>1. SUFFICES ASSUME ~ engLate, NEW f \in {"success", "fail"}
               PROVE  Gains(engPerMin', f, engBase'[f]) /\ engBase'[f] <= engStatus'[f]
  BY DEF PerMinSound
<1>2. Gains(engPerMin, f, engBase[f]) /\ engBase[f] <= engStatus[f]
  BY <1>1 DEF RateInv, PerMinSound
<1>3. engBase[f] \in Nat /\ engStatus[f] \in Nat /\ engStatus'[f] \in Nat
  BY DEF EngTypeInv, RateOK, Statuses
<1>4. engStatus[f] <= engStatus'[f]
  BY <1>1
<1>5. QED
  BY <1>2, <1>3, <1>4

LEMMA RateSampled ==
  ASSUME EngTypeInv, RateInv, Flush, UNCHANGED engLate,
         engStatus'.success = engStatus.success, engStatus'.fail = engStatus.fail
  PROVE  PerMinSound'
<1>1. SUFFICES ASSUME ~ engLate, NEW f \in {"success", "fail"}
               PROVE  Gains(engPerMin', f, engBase'[f]) /\ engBase'[f] <= engStatus'[f]
  BY DEF PerMinSound
<1>2. Gains(engPerMin, f, engBase[f]) /\ engBase[f] <= engStatus[f]
  BY <1>1 DEF RateInv, PerMinSound
<1>3. Gains(engPerMin', f, engBase'[f]) /\ engBase'[f] <= engStatus[f]
  BY <1>2, GainsFlush
<1>4. QED
  BY <1>3

LEMMA CountsAreNat ==
  ASSUME EngTypeInv, EngTypeInv'
  PROVE  /\ engBatch # 0 => engBatch \in EngBatches
         /\ \A b \in EngBatches :
              /\ engDone[b].success \in Nat /\ engDone'[b].success \in Nat
              /\ engDone[b].fail \in Nat /\ engDone'[b].fail \in Nat
         /\ engStatus.success \in Nat /\ engStatus.fail \in Nat
         /\ engStatus'.success \in Nat /\ engStatus'.fail \in Nat
<1>1. /\ engDone \in [EngBatches -> Figures] /\ engDone' \in [EngBatches -> Figures]
      /\ engStatus \in Statuses /\ engStatus' \in Statuses
      /\ engBatch \in 0..MaxBatches
  BY DEF EngTypeInv, RunOK, JobOK
<1>2. engBatch # 0 => engBatch \in EngBatches
  BY <1>1, EngineAssumption DEF EngBatches
<1>3. \A b \in EngBatches :
        /\ engDone[b].success \in Nat /\ engDone'[b].success \in Nat
        /\ engDone[b].fail \in Nat /\ engDone'[b].fail \in Nat
  BY <1>1 DEF Figures
<1>4. QED
  BY <1>1, <1>2, <1>3 DEF Statuses

\* What the steps that leave the counters of the status alone keep.
LEMMA LagKept ==
  ASSUME EngTypeInv, RateInv, UNCHANGED <<engBatch, engLate>>,
         engStatus'.success = engStatus.success, engStatus'.fail = engStatus.fail,
         engStall' \subseteq engStall \/ engAt[engBatch] \notin {"end", "gone"},
         engAt[engBatch] \in {"end", "gone"} => engAt'[engBatch] \in {"end", "gone"},
         \A b \in EngBatches : /\ engDone[b].success <= engDone'[b].success
                               /\ engDone[b].fail <= engDone'[b].fail,
         EngTypeInv', PerMinSound'
  PROVE  RateInv'
<1>1. /\ engBatch # 0 => engBatch \in EngBatches
      /\ \A b \in EngBatches :
           /\ engDone[b].success \in Nat /\ engDone'[b].success \in Nat
           /\ engDone[b].fail \in Nat /\ engDone'[b].fail \in Nat
      /\ engStatus.success \in Nat /\ engStatus.fail \in Nat
  BY CountsAreNat
<1>2. SUFFICES ASSUME ~ engLate, engBatch # 0
               PROVE  /\ engStatus'.success <= engDone'[engBatch].success
                      /\ \/ engStatus'.fail <= engDone'[engBatch].fail
                         \/ /\ engAt'[engBatch] \in {"end", "gone"}
                            /\ engBatch \notin engStall'
  BY DEF RateInv
<1>3. /\ engStatus.success <= engDone[engBatch].success
      /\ \/ engStatus.fail <= engDone[engBatch].fail
         \/ engAt[engBatch] \in {"end", "gone"} /\ engBatch \notin engStall
  BY <1>2 DEF RateInv
<1>4. /\ engDone[engBatch].success <= engDone'[engBatch].success
      /\ engDone[engBatch].fail <= engDone'[engBatch].fail
  BY <1>1, <1>2
<1>5. engStatus'.success <= engDone'[engBatch].success
  BY <1>1, <1>2, <1>3, <1>4
<1>6. CASE engStatus.fail <= engDone[engBatch].fail
  BY <1>1, <1>2, <1>4, <1>5, <1>6
<1>7. CASE engAt[engBatch] \in {"end", "gone"} /\ engBatch \notin engStall
  BY <1>5, <1>7
<1>8. QED
  BY <1>3, <1>6, <1>7

\* What a report of the batch at work leaves behind.
LEMMA LagReported ==
  ASSUME EngTypeInv, EngTypeInv', RateInv, UNCHANGED <<engBatch, engLate>>,
         UNCHANGED <<engPerMin, engBase>>, engBatch # 0,
         engStatus'.success = engDone'[engBatch].success,
         engStatus'.fail = engDone'[engBatch].fail,
         engDone[engBatch].success <= engDone'[engBatch].success,
         engDone[engBatch].fail <= engDone'[engBatch].fail,
         engAt[engBatch] \in {"end", "gone"} => engBatch \in engStall
  PROVE  RateInv'
<1>1. /\ engBatch \in EngBatches
      /\ engDone[engBatch].success \in Nat /\ engDone'[engBatch].success \in Nat
      /\ engDone[engBatch].fail \in Nat /\ engDone'[engBatch].fail \in Nat
      /\ engStatus.success \in Nat /\ engStatus.fail \in Nat
      /\ engStatus'.success \in Nat /\ engStatus'.fail \in Nat
  BY CountsAreNat
<1>2. ~ engLate => /\ engStatus.success <= engDone[engBatch].success
                   /\ engStatus.fail <= engDone[engBatch].fail
  BY DEF RateInv
<1>3. ~ engLate => engStatus.success <= engStatus'.success
                   /\ engStatus.fail <= engStatus'.fail
  BY <1>1, <1>2
<1>4. PerMinSound'
  BY <1>3, RateKept
<1>5. QED
  BY <1>1, <1>4 DEF RateInv

LEMMA RateFirst == EngInit => RateInv
<1> SUFFICES ASSUME EngInit PROVE RateInv
  OBVIOUS
<1>1. /\ engPerMin = <<>> /\ engBase = [success |-> 0, fail |-> 0]
      /\ engStatus = [FreshStatus EXCEPT !.running = FALSE] /\ engBatch = 0
  BY DEF EngInit
<1>2. engStatus.success = 0 /\ engStatus.fail = 0
  BY <1>1 DEF FreshStatus
<1>3. ASSUME NEW f \in {"success", "fail"}
      PROVE  Gains(engPerMin, f, engBase[f]) /\ engBase[f] <= engStatus[f]
  <2>1. engBase[f] = 0 /\ engStatus[f] = 0
    <3>1. engBase.success = 0 /\ engBase.fail = 0
      BY <1>1
    <3>2. QED
      BY <1>2, <3>1, Zenon
  <2>2. QED
    BY <1>1, <2>1, GainsNone
<1>4. QED
  BY <1>1, <1>2, <1>3 DEF RateInv, PerMinSound

\* The counters that Reported shows are those of its batch.
LEMMA ReportedCounts ==
  ASSUME EngTypeInv, NEW d \in Figures, NEW b
  PROVE  /\ Reported(d, b).success = d.success /\ Reported(d, b).fail = d.fail
         /\ [Reported(d, b) EXCEPT !.running = FALSE].success = d.success
         /\ [Reported(d, b) EXCEPT !.running = FALSE].fail = d.fail
<1>1. engStatus \in Statuses /\ Reported(d, b) \in Statuses
  BY ReportType DEF EngTypeInv
<1> DEFINE open == d.completed < EngCount /\ b \notin engClosed
<1>2. Reported(d, b) = [engStatus EXCEPT
        !.completed = d.completed, !.success = d.success, !.fail = d.fail,
        !.running = open]
  BY DEF Reported
<1> HIDE DEF open
<1>3. Reported(d, b).success = d.success /\ Reported(d, b).fail = d.fail
  BY <1>1, <1>2 DEF Statuses
<1>4. QED
  BY <1>1, <1>3 DEF Statuses

LEMMA RateStep ==
  ASSUME EngTypeInv, SettleInv, EngTypeInv', RateInv, [EngNext]_engVars
  PROVE  RateInv'
<1>0. /\ engStatus \in Statuses
      /\ engAt \in [EngBatches -> EngPlaces]
      /\ engDone \in [EngBatches -> Figures]
      /\ engBatch \in 0..MaxBatches
      /\ \A b \in EngBatches : engDone[b].success \in Nat /\ engDone[b].fail \in Nat
  BY DEF EngTypeInv, RunOK, JobOK, Figures
<1> USE EngineAssumption
<1>1. CASE EngStart
  <2>1. /\ engPerMin' = <<>> /\ engBase' = [success |-> 0, fail |-> 0]
        /\ engStatus' = FreshStatus /\ engBatch' = engBatch + 1
        /\ engBatch' \in EngBatches
    BY <1>1 DEF EngStart
  <2>2. engStatus'.success = 0 /\ engStatus'.fail = 0
    BY <2>1 DEF FreshStatus
  <2>3. PerMinSound'
    BY <2>1, <2>2, GainsNone DEF PerMinSound
  <2>4. engDone'[engBatch'].success \in Nat /\ engDone'[engBatch'].fail \in Nat
        /\ engBatch' # 0
    BY <2>1, <1>0 DEF EngTypeInv, JobOK, Figures, EngBatches
  <2>5. QED
    BY <2>2, <2>3, <2>4 DEF RateInv
<1>2. CASE EngStop \/ EngTick \/ \E b \in EngBatches : EngClose(b) \/ EngGiveUp(b)
           \/ EngStalled(b) \/ EngConvert(b) \/ EngSave(b)
  <2>1. /\ UNCHANGED <<engBatch, engAt, engDone, engLate, engPerMin, engBase>>
        /\ engStatus' = engStatus \/ engStatus' = [engStatus EXCEPT !.stopping = TRUE]
        /\ engStall' = engStall
           \/ \E b \in EngBatches : engAt[b] = "batch" /\ engStall' = engStall \cup {b}
    BY <1>2 DEF EngStop, EngTick, EngClose, EngGiveUp, EngStalled, EngConvert, EngSave,
       engRunVars, engJobVars, engRateVars, engCancelVars
  <2>2. engStatus'.success = engStatus.success /\ engStatus'.fail = engStatus.fail
    BY <1>0, <2>1 DEF Statuses
  <2>3. engStall' \subseteq engStall \/ engAt[engBatch] \notin {"end", "gone"}
    BY <2>1, ActiveIsCurrent
  <2>4. PerMinSound'
    BY <1>0, <2>1, <2>2, RateKept DEF Statuses
  <2>5. QED
    BY <1>0, <2>1, <2>2, <2>3, <2>4, LagKept
<1>3. ASSUME NEW b \in EngBatches, NEW w \in EngWorkers, EngJob(b, w) \/ EngResult(b, w)
      PROVE RateInv'
  <2>1. /\ UNCHANGED <<engBatch, engAt, engStall, engLate, engPerMin, engBase, engStatus>>
        /\ engDone' = engDone \/ engDone' = [engDone EXCEPT ![b].completed = @ + 1]
    BY <1>3 DEF EngJob, EngResult, engRunVars, engRateVars, engCancelVars
  <2>2. \A a \in EngBatches : /\ engDone[a].success <= engDone'[a].success
                              /\ engDone[a].fail <= engDone'[a].fail
    BY <1>0, <2>1 DEF Figures
  <2>3. PerMinSound'
    BY <1>0, <2>1, RateKept DEF Statuses
  <2>4. QED
    BY <2>1, <2>2, <2>3, LagKept
<1>4. ASSUME NEW b \in EngBatches, EngSetup(b) PROVE RateInv'
  <2>1. /\ engAt[b] = "setup" /\ engBatch = b
        /\ UNCHANGED <<engBatch, engDone, engStall, engLate, engPerMin, engBase>>
    BY <1>4, ActiveIsCurrent DEF EngSetup, engRateVars
  <2>2. CASE /\ engAt' = [engAt EXCEPT ![b] = "end"]
             /\ engStatus' = [engStatus EXCEPT !.completed = EngCount, !.fail = EngCount]
    <3>1. engStatus'.success = engStatus.success /\ engStatus'.fail = EngCount
          /\ engAt'[b] = "end"
      BY <1>0, <2>2 DEF Statuses
    <3>2. b \notin engStall /\ engDone[b] = Zero
      BY <2>1 DEF SettleInv
    <3>3. ~ engLate => engStatus.success <= engDone[b].success
                       /\ engStatus.fail <= engDone[b].fail
      BY <2>1, <3>2 DEF RateInv, EngBatches
    <3>4. ~ engLate => engStatus.success <= engStatus'.success
                       /\ engStatus.fail <= engStatus'.fail
      BY <1>0, <3>1, <3>2, <3>3 DEF Zero, Statuses
    <3>5. PerMinSound'
      BY <2>1, <3>4, RateKept
    <3>6. QED
      BY <2>1, <3>1, <3>2, <3>3, <3>5 DEF RateInv, EngBatches
  <2>3. CASE \/ engStatus' = Reported(engDone[b], b)
             \/ engStatus' = [Reported(engDone[b], b) EXCEPT !.running = FALSE]
    <3>1. engDone'[b] = engDone[b] /\ engBatch # 0
      BY <2>1 DEF EngBatches
    <3>2. engStatus'.success = engDone'[b].success /\ engStatus'.fail = engDone'[b].fail
      <4>1. engDone[b] \in Figures
        BY <1>0
      <4>2. /\ Reported(engDone[b], b).success = engDone[b].success
            /\ Reported(engDone[b], b).fail = engDone[b].fail
            /\ [Reported(engDone[b], b) EXCEPT !.running = FALSE].success
                 = engDone[b].success
            /\ [Reported(engDone[b], b) EXCEPT !.running = FALSE].fail
                 = engDone[b].fail
        BY <4>1, ReportedCounts
      <4>3. QED
        BY <2>3, <3>1, <4>2, Zenon
    <3>3. QED
      BY <1>0, <2>1, <3>1, <3>2, LagReported
  <2>4. QED
    BY <1>4, <2>2, <2>3 DEF EngSetup, EngGoto
<1>5. ASSUME NEW b \in EngBatches, NEW w \in EngWorkers, EngReport(b, w)
      PROVE RateInv'
  <2>1. /\ engAt[b] = "batch" /\ engBatch = b /\ engBatch # 0
        /\ UNCHANGED <<engBatch, engStall, engLate, engPerMin, engBase>>
        /\ engStatus' = Reported(engDone'[b], b)
    <3>1. /\ engAt[b] = "batch"
          /\ UNCHANGED <<engBatch, engStall, engLate, engPerMin, engBase>>
          /\ engStatus' = Reported(engDone'[b], b)
      BY <1>5 DEF EngReport, engRunVars, engRateVars
    <3>2. engBatch = b /\ b # 0
      BY <3>1, ActiveIsCurrent DEF EngBatches
    <3>3. QED
      BY <3>1, <3>2
  <2>2. \/ engDone' = engDone \/ engDone' = [engDone EXCEPT ![b].success = @ + 1]
        \/ engDone' = [engDone EXCEPT ![b].fail = @ + 1]
    BY <1>5 DEF EngReport
  <2>3. /\ engDone[b].success <= engDone'[b].success
        /\ engDone[b].fail <= engDone'[b].fail
    BY <1>0, <2>2 DEF Figures
  <2>4. engDone'[b] \in Figures
    BY DEF EngTypeInv, JobOK
  <2>5. engStatus'.success = engDone'[b].success /\ engStatus'.fail = engDone'[b].fail
    BY <2>1, <2>4, ReportedCounts
  <2>6. QED
    BY <2>1, <2>3, <2>5, LagReported
<1>6. ASSUME NEW b \in EngBatches, EngFinish(b) \/ EngFinal(b) PROVE RateInv'
  <2>1. /\ engAt[b] \in {"batch", "final"} /\ engBatch = b /\ engBatch # 0
        /\ UNCHANGED <<engBatch, engDone, engStall, engLate, engPerMin, engBase>>
        /\ engStatus' = [Reported(engDone[b], b) EXCEPT !.running = FALSE]
    BY <1>6, ActiveIsCurrent DEF EngFinish, EngFinal, engRateVars, engJobVars, EngBatches
  <2>2. engStatus'.success = engDone'[b].success /\ engStatus'.fail = engDone'[b].fail
    BY <1>0, <2>1, ReportedCounts
  <2>3. QED
    BY <1>0, <2>1, <2>2, LagReported
<1>7. ASSUME NEW b \in EngBatches, EngEnd(b) PROVE RateInv'
  <2>1. /\ engAt[b] = "end" /\ engAt' = [engAt EXCEPT ![b] = "gone"] /\ Flush
        /\ UNCHANGED <<engBatch, engDone, engStall, engLate>>
        /\ engStatus' = [engStatus EXCEPT !.running = FALSE]
    BY <1>7 DEF EngEnd, EngGoto, engJobVars
  <2>2. engStatus'.success = engStatus.success /\ engStatus'.fail = engStatus.fail
    BY <1>0, <2>1 DEF Statuses
  <2>3. engAt[engBatch] \in {"end", "gone"} => engAt'[engBatch] \in {"end", "gone"}
    BY <1>0, <2>1, ActiveIsCurrent
  <2>4. PerMinSound'
    BY <2>1, <2>2, RateSampled
  <2>5. QED
    BY <1>0, <2>1, <2>2, <2>3, <2>4, LagKept
<1>8. ASSUME NEW b \in EngBatches, EngSample(b) PROVE RateInv'
  <2>1. Flush /\ UNCHANGED <<engBatch, engAt, engDone, engStall, engLate, engStatus>>
    BY <1>8 DEF EngSample, engRunVars, engJobVars
  <2>2. PerMinSound'
    BY <2>1, RateSampled
  <2>3. QED
    BY <1>0, <2>1, <2>2, LagKept
<1>9. ASSUME NEW b \in EngBatches, EngDiagnose(b) PROVE RateInv'
  <2>1. /\ b \in engStall /\ engStall' = engStall \ {b}
        /\ engStatus' = Reported(engDone[b], b)
        /\ engLate' = (engLate \/ engBatch # b)
        /\ UNCHANGED <<engBatch, engAt, engDone, engPerMin, engBase>>
    BY <1>9 DEF EngDiagnose, engRunVars, engJobVars, engRateVars
  <2>2. engStatus'.success = engDone'[b].success /\ engStatus'.fail = engDone'[b].fail
    BY <1>0, <2>1, ReportedCounts
  <2>3. CASE engBatch = b
    <3>1. UNCHANGED engLate
      BY <2>1, <2>3 DEF EngTypeInv, StallOK
    <3>2. QED
      BY <1>0, <2>1, <2>2, <2>3, <3>1, LagReported DEF EngBatches
  <2>4. CASE engBatch # b
    <3>1. engLate'
      BY <2>1, <2>4
    <3>2. engBatch # 0
      BY <1>0, <2>1 DEF SettleInv, EngBatches
    <3>3. QED
      BY <2>1, <3>1, <3>2 DEF RateInv, PerMinSound
  <2>5. QED
    BY <2>3, <2>4
<1>10. CASE UNCHANGED engVars
  BY <1>10 DEF engVars, engRunVars, engJobVars, engRateVars, RateInv, PerMinSound
<1>11. QED
  BY <1>1, <1>2, <1>3, <1>4, <1>5, <1>6, <1>7, <1>8, <1>9, <1>10
  DEF EngNext, EngBatchStep

\* The figures per minute are gains of the counters of the status, for any number of
\* batches, their samplers and any length of the list, until a diagnosis of an
\* earlier batch reports.
THEOREM FiguresAreSound == EngSpec => []PerMinSound
<1>1. EngSpec => [](EngTypeInv /\ SettleInv)
  BY TypesFirst, TypesStep, SettleFirst, SettleStep, PTL DEF EngSpec
<1>2. EngInit => RateInv
  BY RateFirst
<1>3. EngTypeInv /\ SettleInv /\ EngTypeInv' /\ RateInv /\ [EngNext]_engVars => RateInv'
  BY RateStep
<1>4. RateInv => PerMinSound
  BY DEF RateInv
<1>5. QED
  BY <1>1, <1>2, <1>3, <1>4, PTL DEF EngSpec

-----------------------------------------------------------------------------
(* Accounts: types, ids and gates                                          *)

LEMMA IdSetsFinite ==
  ASSUME NEW S \in SUBSET Ids
  PROVE  IsFiniteSet(S) /\ Cardinality(S) \in Nat
BY ImportAssumption, FS_Subset, FS_CardinalityType

LEMMA AskedIds == ASSUME NEW s \in Seq(Ids) PROVE Range(s) \subseteq Ids
BY DEF Range

LEMMA AfterTyped ==
  ASSUME NEW j \in JobTypes, NEW o \in Outcomes
  PROVE  /\ After(j, o) \in JobTypes
         /\ After(j, o) \in {Done(TRUE), Done(FALSE), Direct(j), Again(j)}
<1>0. MaxAttempts \in Nat \ {0}
  BY ImportAssumption
<1>1. Done(TRUE) \in JobTypes /\ Done(FALSE) \in JobTypes
  <2>1. NoJob \in JobTypes
    BY <1>0 DEF NoJob, JobTypes
  <2>2. \A k \in JobTypes, ok \in BOOLEAN :
          [k EXCEPT !.step = "done", !.ok = ok] \in JobTypes
    BY DEF JobTypes
  <2> QED
    BY <2>1, <2>2 DEF Done
<1>2. Direct(j) \in JobTypes
  BY DEF Direct, JobTypes
<1>3. ASSUME j.attempt < MaxAttempts
      PROVE  Again(j) \in JobTypes
  <2>1. j.attempt \in 0..MaxAttempts
    BY DEF JobTypes
  <2>2. j.attempt + 1 \in 0..MaxAttempts
    BY <1>0, <1>3, <2>1
  <2> QED
    BY <2>2 DEF JobTypes, Again
<1>4. \/ After(j, o) \in {Done(TRUE), Done(FALSE), Direct(j)}
      \/ j.attempt < MaxAttempts /\ After(j, o) = Again(j)
  BY DEF After
<1>5. QED
  BY <1>1, <1>2, <1>3, <1>4

LEMMA NewJobsTyped ==
  /\ NoJob \in JobTypes
  /\ \A p \in BOOLEAN : NewJob(p) \in JobTypes
BY ImportAssumption DEF NoJob, NewJob, JobTypes

LEMMA RenewedTyped ==
  ASSUME NEW r \in Results
  PROVE  /\ \A e \in Emails : Fresh(e, r) \in Accounts /\ Fresh(e, r).note = NoNote
         /\ \A b \in Accounts : Renewed(b, r) \in Accounts /\ Renewed(b, r).note = b.note
BY ImportAssumption DEF Fresh, Renewed, Accounts, Results

LEMMA ConvertedTyped ==
  ASSUME NEW b \in Accounts \cup {None}
  PROVE  /\ Converted(b) \in Accounts \cup {None}
         /\ Converted(b) = None <=> b = None
         /\ b # None => Converted(b).note = b.note
<1>1. None \notin Accounts
  BY ImportAssumption
<1>2. ASSUME b \in Accounts
      PROVE  /\ [b EXCEPT !.token = TRUE, !.imported = TRUE] \in Accounts
             /\ [b EXCEPT !.token = TRUE, !.imported = TRUE].note = b.note
  BY <1>2 DEF Accounts
<1> QED
  BY <1>1, <1>2 DEF Converted

-----------------------------------------------------------------------------
(* Type correctness                                                        *)

\* The conjuncts of TypeOK by the variables they are about.
BookOK ==
  /\ book \in [Ids -> Accounts \cup {None}]
  /\ used \subseteq Ids /\ Live \subseteq used
CallsOK ==
  /\ pc \in [Calls -> {"new", "begin", "split", "read", "convert", "end", "over"}]
  /\ kind \in [Calls -> {"import", "task", "refresh"}]
  /\ asked \in [Calls -> Seq(Ids)]
JobsOK ==
  /\ jobs \in [Calls -> [Ids -> JobTypes]]
  /\ \A c \in Calls : Cardinality(Steps(c, "running")) <= Gate

LEMMA StoreKeepsBook ==
  ASSUME BookOK, used' = used, NEW is, Store(is)
  PROVE  BookOK' /\ \A i \in Ids : book[i] = None => book'[i] = None
<1>1. \A i \in Ids : Converted(book[i]) \in Accounts \cup {None}
                   /\ (book[i] = None => Converted(book[i]) = None)
  BY ConvertedTyped DEF BookOK
<1> QED
  BY <1>1 DEF BookOK, Live, Store

LEMMA QueueKeepsJobs ==
  ASSUME JobsOK, NEW c \in Calls, NEW todo, NEW proxied, Queue(c, todo, proxied)
  PROVE  JobsOK'
<1>1. [i \in Ids |-> IF i \in todo THEN NewJob(i \in proxied) ELSE NoJob]
        \in [Ids -> JobTypes]
  <2>1. \A i \in Ids : NewJob(i \in proxied) \in JobTypes
    BY ImportAssumption DEF NewJob, JobTypes
  <2> QED
    BY <2>1, NewJobsTyped
<1>2. jobs' \in [Calls -> [Ids -> JobTypes]]
  BY <1>1 DEF JobsOK, Queue
<1>3. {i \in Ids : jobs'[c][i].step = "running"} = {}
  BY DEF Queue, NewJob, NoJob, JobsOK
<1>4. \A d \in Calls \ {c} : jobs'[d] = jobs[d]
  BY DEF Queue, JobsOK
<1>5. Cardinality({}) = 0 /\ Gate \in Nat
  BY FS_EmptySet, ImportAssumption
<1>6. \A d \in Calls : Cardinality({i \in Ids : jobs'[d][i].step = "running"}) <= Gate
  <2>1. Cardinality({i \in Ids : jobs'[c][i].step = "running"}) <= Gate
    <3>1. Cardinality({i \in Ids : jobs'[c][i].step = "running"}) = Cardinality({})
      BY <1>3
    <3> QED
      BY <3>1, <1>5
  <2>2. ASSUME NEW d \in Calls \ {c}
        PROVE  Cardinality({i \in Ids : jobs'[d][i].step = "running"}) <= Gate
    BY <1>4 DEF JobsOK, Steps
  <2> QED
    BY <2>1, <2>2
<1> QED
  BY <1>2, <1>6 DEF JobsOK, Steps

LEMMA GotoKeepsCalls ==
  ASSUME CallsOK, NEW c \in Calls,
         NEW where \in {"new", "begin", "split", "read", "convert", "end", "over"},
         Goto(c, where), UNCHANGED <<kind, asked>>
  PROVE  CallsOK'
BY DEF CallsOK, Goto

LEMMA TypeInit == Init => TypeOK
<1> SUFFICES ASSUME Init PROVE TypeOK
  OBVIOUS
<1>1. BookOK /\ written \in [Ids -> Notes]
  BY ImportAssumption DEF Init, BookOK, Live, Accounts
<1>2. CallsOK
  <2>1. <<>> \in Seq(Ids)
    OBVIOUS
  <2> QED
    BY <2>1 DEF Init, CallsOK
<1>3. JobsOK
  <2>1. jobs \in [Calls -> [Ids -> JobTypes]]
    BY NewJobsTyped DEF Init
  <2>2. Cardinality({}) = 0 /\ Gate \in Nat
    BY FS_EmptySet, ImportAssumption
  <2>3. ASSUME NEW c \in Calls
        PROVE  Cardinality(Steps(c, "running")) <= Gate
    <3>1. Steps(c, "running") = {}
      BY DEF Init, Steps, NoJob
    <3> QED
      BY <2>2, <3>1
  <2> QED
    BY <2>1, <2>3 DEF JobsOK
<1>4. /\ edits \in 0..MaxEdits
      /\ res \in [Calls -> Counts]
      /\ progress \in [running: BOOLEAN, total: Nat, done: Nat]
  BY ImportAssumption DEF Init, NoResult, Idle, Counts
<1> QED
  BY <1>1, <1>2, <1>3, <1>4 DEF TypeOK, BookOK, CallsOK, JobsOK

LEMMA TypeUpsert ==
  ASSUME TypeOK, NEW e \in Emails, Upsert(e)
  PROVE  TypeOK'
<1> PICK r \in Results :
     \/ \E i \in {i \in Live : book[i].email = e} :
           book' = [book EXCEPT ![i] = Renewed(@, r)] /\ UNCHANGED used
     \/ \E i \in Ids \ used :
           book' = [book EXCEPT ![i] = Fresh(e, r)] /\ used' = used \cup {i}
  BY DEF Upsert
<1>1. BookOK'
  <2>1. \A i \in Live : book[i] \in Accounts /\ Renewed(book[i], r) \in Accounts
    BY RenewedTyped DEF Live, TypeOK
  <2>2. Fresh(e, r) \in Accounts
    BY RenewedTyped
  <2>3. book' \in [Ids -> Accounts \cup {None}]
    <3>1. CASE \E i \in {i \in Live : book[i].email = e} :
                 book' = [book EXCEPT ![i] = Renewed(@, r)]
      <4> PICK i \in Live : book' = [book EXCEPT ![i] = Renewed(@, r)]
        BY <3>1
      <4>1. Renewed(book[i], r) \in Accounts /\ i \in Ids
        BY <2>1 DEF Live
      <4> QED
        BY <4>1 DEF TypeOK
    <3>2. CASE \E i \in Ids \ used : book' = [book EXCEPT ![i] = Fresh(e, r)]
      BY <3>2, <2>2 DEF TypeOK
    <3> QED
      BY <3>1, <3>2
  <2>4. \A i \in Ids : book'[i] # None => i \in used'
    BY DEF TypeOK, Live
  <2>5. used' \subseteq Ids
    BY DEF TypeOK
  <2> QED
    BY <2>3, <2>4, <2>5 DEF BookOK, Live
<1>2. edits' \in 0..MaxEdits
  BY ImportAssumption DEF Upsert, Edit, TypeOK
<1>3. UNCHANGED <<callVars, progress, written>>
  BY DEF Upsert, Edit
<1> QED
  BY <1>1, <1>2, <1>3 DEF TypeOK, BookOK, callVars, Steps

LEMMA TypeDelete ==
  ASSUME TypeOK, Delete
  PROVE  TypeOK'
<1> PICK is : book' = [i \in Ids |-> IF i \in is THEN None ELSE book[i]]
  BY DEF Delete
<1>1. BookOK'
  BY DEF Delete, TypeOK, BookOK, Live
<1>2. edits' \in 0..MaxEdits
  BY ImportAssumption DEF Delete, Edit, TypeOK
<1>3. UNCHANGED <<callVars, progress, written>>
  BY DEF Delete, Edit
<1> QED
  BY <1>1, <1>2, <1>3 DEF TypeOK, BookOK, callVars, Steps

LEMMA TypeMarkImported ==
  ASSUME TypeOK, MarkImported
  PROVE  TypeOK'
<1> PICK is \in SUBSET Live, b \in BOOLEAN :
     book' = [i \in Ids |-> IF i \in is THEN [book[i] EXCEPT !.imported = b] ELSE book[i]]
  BY DEF MarkImported
<1>1. BookOK'
  <2>1. \A a \in Accounts : [a EXCEPT !.imported = b] \in Accounts
    BY DEF Accounts
  <2> QED
    BY <2>1, ImportAssumption DEF MarkImported, TypeOK, BookOK, Live
<1>2. edits' \in 0..MaxEdits
  BY ImportAssumption DEF MarkImported, Edit, TypeOK
<1>3. UNCHANGED <<callVars, progress, written>>
  BY DEF MarkImported, Edit
<1> QED
  BY <1>1, <1>2, <1>3 DEF TypeOK, BookOK, callVars, Steps

LEMMA TypeUpdate ==
  ASSUME TypeOK, Update
  PROVE  TypeOK'
<1> PICK i \in Live, n \in Notes, b \in BOOLEAN :
     /\ book' = [book EXCEPT ![i] = [@ EXCEPT !.note = n, !.sso = b]]
     /\ written' = [written EXCEPT ![i] = n]
  BY DEF Update
<1>1. BookOK'
  <2>1. \A a \in Accounts : [a EXCEPT !.note = n, !.sso = b] \in Accounts
    BY DEF Accounts
  <2> QED
    BY <2>1, ImportAssumption DEF Update, TypeOK, BookOK, Live
<1>2. edits' \in 0..MaxEdits
  BY ImportAssumption DEF Update, Edit, TypeOK
<1>3. UNCHANGED <<callVars, progress>> /\ written' \in [Ids -> Notes]
  BY DEF Update, Edit, TypeOK
<1> QED
  BY <1>1, <1>2, <1>3 DEF TypeOK, BookOK, callVars, Steps

LEMMA TypeArrive ==
  ASSUME TypeOK, NEW c \in Calls, Arrive(c)
  PROVE  TypeOK'
<1> PICK k \in {"import", "task", "refresh"}, r \in Requests[c] :
     /\ kind' = [kind EXCEPT ![c] = k]
     /\ asked' = [asked EXCEPT ![c] = r]
     /\ Goto(c, CASE k = "import"  -> "split"
                  [] k = "task"    -> IF progress.running \/ r = <<>> THEN "over" ELSE "begin"
                  [] k = "refresh" -> "read")
  BY DEF Arrive
<1>1. r \in Seq(Ids)
  BY ImportAssumption
<1>2. CallsOK'
  BY <1>1 DEF CallsOK, Goto, TypeOK
<1>3. UNCHANGED <<bookVars, jobs, res, progress>>
  BY DEF Arrive
<1> QED
  BY <1>2, <1>3 DEF TypeOK, CallsOK, bookVars, Live, Steps

LEMMA TypeBegin ==
  ASSUME TypeOK, NEW c \in Calls, Begin(c)
  PROVE  TypeOK'
<1>1. CallsOK'
  BY GotoKeepsCalls DEF Begin, TypeOK, CallsOK
<1>2. progress' \in [running: BOOLEAN, total: Nat, done: Nat]
  <2>1. asked[c] \in Seq(Ids)
    BY DEF TypeOK
  <2>2. Len(asked[c]) \in Nat
    BY <2>1, LenProperties
  <2>3. \A p \in [running: BOOLEAN, total: Nat, done: Nat], n \in Nat :
          [p EXCEPT !.running = TRUE, !.total = n]
            \in [running: BOOLEAN, total: Nat, done: Nat]
    OBVIOUS
  <2>4. Idle \in [running: BOOLEAN, total: Nat, done: Nat]
    BY DEF Idle
  <2> QED
    BY <2>2, <2>3, <2>4 DEF Begin
<1>3. UNCHANGED <<bookVars, jobs, res>>
  BY DEF Begin
<1> QED
  BY <1>1, <1>2, <1>3 DEF TypeOK, CallsOK, bookVars, Live, Steps

\* A request goes on to where it returns to, or to its conversions.
LEMMA ReturnTyped == \A c \in Calls : Return(c) \in {"end", "over"}
BY DEF Return

LEMMA FinishedTyped ==
  ASSUME NEW p \in [running: BOOLEAN, total: Nat, done: Nat], NEW n \in Nat
  PROVE  Finished(p, n) \in [running: BOOLEAN, total: Nat, done: Nat]
<1>1. p.done + n \in Nat
  OBVIOUS
<1>2. \A m \in Nat : [p EXCEPT !.done = m] \in [running: BOOLEAN, total: Nat, done: Nat]
  OBVIOUS
<1> QED
  BY <1>1, <1>2 DEF Finished

LEMMA TypeSplit ==
  ASSUME TypeOK, NEW c \in Calls, Split(c)
  PROVE  TypeOK'
<1> DEFINE is   == Range(asked[c])
           had  == {i \in is \cap Live : book[i].token}
           todo == {i \in is \cap Live : ~ book[i].token /\ book[i].sso}
<1>1. had \in SUBSET Ids /\ is \ (had \cup todo) \in SUBSET Ids
  BY AskedIds DEF TypeOK, Live
<1>2. Cardinality(had) \in Nat /\ Cardinality(is \ (had \cup todo)) \in Nat
  BY <1>1, IdSetsFinite
<1>3. /\ book' = [i \in Ids |-> IF i \in had THEN [book[i] EXCEPT !.imported = TRUE] ELSE book[i]]
      /\ res' = [res EXCEPT ![c].updated = Cardinality(had),
                            ![c].skipped = Cardinality(is \ (had \cup todo))]
      /\ progress' = Finished(progress, Cardinality(had))
      /\ \E proxied \in SUBSET todo : Queue(c, todo, proxied)
      /\ Goto(c, IF todo = {} THEN Return(c) ELSE "convert")
      /\ UNCHANGED <<used, edits, written, kind, asked>>
  BY DEF Split
<1>4. BookOK'
  <2>1. \A a \in Accounts : [a EXCEPT !.imported = TRUE] \in Accounts
    BY DEF Accounts
  <2>2. \A i \in had : book[i] \in Accounts
    BY DEF TypeOK, Live
  <2> HIDE DEF had
  <2>3. \A i \in Ids : book'[i] \in Accounts \cup {None}
    BY <1>3, <2>1, <2>2 DEF TypeOK
  <2>4. \A i \in Ids : book[i] = None => book'[i] = None
    BY <1>3, <2>2, ImportAssumption DEF TypeOK
  <2>5. book' = [i \in Ids |-> book'[i]]
    BY <1>3
  <2> QED
    BY <1>3, <2>3, <2>4, <2>5 DEF TypeOK, BookOK, Live
<1>5. JobsOK'
  BY <1>3, QueueKeepsJobs DEF TypeOK, JobsOK
<1> HIDE DEF is, had, todo
<1>6. CallsOK'
  BY <1>3, ReturnTyped, GotoKeepsCalls DEF TypeOK, CallsOK
<1>7. res' \in [Calls -> Counts]
  <2>1. \A r \in Counts, m, n \in Nat : [r EXCEPT !.updated = m, !.skipped = n] \in Counts
    BY DEF Counts
  <2>2. [res[c] EXCEPT !.updated = Cardinality(had),
                       !.skipped = Cardinality(is \ (had \cup todo))] \in Counts
    BY <2>1, <1>2 DEF TypeOK
  <2>3. res' = [res EXCEPT ![c] = [res[c] EXCEPT !.updated = Cardinality(had),
                                     !.skipped = Cardinality(is \ (had \cup todo))]]
    BY <1>3 DEF TypeOK
  <2> QED
    BY <2>2, <2>3 DEF TypeOK
<1>8. progress' \in [running: BOOLEAN, total: Nat, done: Nat]
  BY <1>2, <1>3, FinishedTyped DEF TypeOK
<1> QED
  BY <1>3, <1>4, <1>5, <1>6, <1>7, <1>8 DEF TypeOK, BookOK, CallsOK, JobsOK

LEMMA TypeRead ==
  ASSUME TypeOK, NEW c \in Calls, Read(c)
  PROVE  TypeOK'
<1> DEFINE todo == {i \in Range(asked[c]) \cap Live : book[i].sso}
<1>1. JobsOK'
  BY QueueKeepsJobs DEF Read, TypeOK, JobsOK
<1>2. CallsOK'
  BY GotoKeepsCalls DEF Read, TypeOK, CallsOK
<1>3. UNCHANGED <<bookVars, kind, asked, res, progress>>
  BY DEF Read
<1> QED
  BY <1>1, <1>2, <1>3 DEF TypeOK, CallsOK, JobsOK, bookVars, Live

\* A conversion of one account goes on.
LEMMA JobSteps ==
  ASSUME TypeOK, NEW c \in Calls, NEW i \in Ids, NEW j \in JobTypes,
         jobs' = [jobs EXCEPT ![c][i] = j],
         \/ j.step # "running" \/ i \in Steps(c, "running")
         \/ Cardinality(Steps(c, "running")) < Gate
  PROVE  JobsOK'
<1> DEFINE R(d) == {k \in Ids : jobs'[d][k].step = "running"}
<1>1. jobs' \in [Calls -> [Ids -> JobTypes]]
  BY DEF TypeOK
<1>2. \A d \in Calls \ {c} : R(d) = Steps(d, "running")
  BY DEF TypeOK, Steps
<1>3. /\ Steps(c, "running") \in SUBSET Ids /\ IsFiniteSet(Steps(c, "running"))
      /\ Cardinality(Steps(c, "running")) \in Nat
      /\ Cardinality(Steps(c, "running")) <= Gate /\ Gate \in Nat
  BY IdSetsFinite, ImportAssumption DEF Steps, TypeOK
<1>4. Cardinality(R(c)) <= Gate
  <2>1. CASE j.step # "running" \/ i \in Steps(c, "running")
    <3>1. R(c) \subseteq Steps(c, "running")
      BY <2>1 DEF TypeOK, Steps
    <3>2. Cardinality(R(c)) \in Nat /\ Cardinality(R(c)) <= Cardinality(Steps(c, "running"))
      BY <1>3, <3>1, FS_Subset, FS_CardinalityType
    <3> QED
      BY <1>3, <3>2
  <2>2. CASE Cardinality(Steps(c, "running")) < Gate
    <3>1. R(c) \subseteq Steps(c, "running") \cup {i}
      BY DEF TypeOK, Steps
    <3>2. /\ IsFiniteSet(Steps(c, "running") \cup {i})
          /\ Cardinality(Steps(c, "running") \cup {i}) \in Nat
          /\ Cardinality(Steps(c, "running") \cup {i}) <= Cardinality(Steps(c, "running")) + 1
      <4> DEFINE S == Steps(c, "running")
      <4>1. IsFiniteSet(S \cup {i}) /\ Cardinality(S \cup {i}) \in {Cardinality(S), Cardinality(S) + 1}
        BY <1>3, FS_AddElement
      <4> HIDE DEF S
      <4>2. Cardinality(S) \in Nat
        BY <1>3 DEF S
      <4> QED
        BY <4>1, <4>2 DEF S
    <3>3. /\ Cardinality(R(c)) \in Nat
          /\ Cardinality(R(c)) <= Cardinality(Steps(c, "running") \cup {i})
      BY <3>1, <3>2, FS_Subset, FS_CardinalityType
    <3> HIDE DEF R
    <3> QED
      BY <1>3, <2>2, <3>2, <3>3
  <2> QED
    BY <2>1, <2>2
<1>5. \A d \in Calls : Cardinality(R(d)) <= Gate
  <2>1. \A d \in Calls \ {c} : Cardinality(R(d)) <= Gate
    BY <1>2 DEF TypeOK
  <2> QED
    BY <1>4, <2>1
<1> QED
  BY <1>1, <1>5 DEF JobsOK, Steps

LEMMA TypeStartJob ==
  ASSUME TypeOK, NEW c \in Calls, NEW i \in Ids, StartJob(c, i)
  PROVE  TypeOK'
<1> DEFINE j == [jobs[c][i] EXCEPT !.step = "running"]
<1>1. j \in JobTypes
  <2>1. \A k \in JobTypes : [k EXCEPT !.step = "running"] \in JobTypes
    BY DEF JobTypes
  <2> QED
    BY <2>1 DEF TypeOK
<1>2. jobs' = [jobs EXCEPT ![c][i] = j] /\ Cardinality(Steps(c, "running")) < Gate
  BY DEF StartJob
<1>3. JobsOK'
  <2> HIDE DEF j
  <2> QED
    BY <1>1, <1>2, JobSteps
<1> QED
  BY <1>3 DEF StartJob, TypeOK, JobsOK, bookVars, Live

LEMMA TypeAttempt ==
  ASSUME TypeOK, NEW c \in Calls, NEW i \in Ids, Attempt(c, i)
  PROVE  TypeOK'
<1> PICK o \in Outcomes :
     /\ jobs' = [jobs EXCEPT ![c][i] = After(jobs[c][i], o)]
     /\ progress' \in {progress, Finished(progress, 1)}
  BY DEF Attempt
<1>1. JobsOK'
  <2>1. After(jobs[c][i], o) \in JobTypes
    <3>1. jobs[c][i] \in JobTypes
      BY DEF TypeOK
    <3> QED
      BY <3>1, AfterTyped
  <2>2. i \in Steps(c, "running")
    BY DEF Attempt
  <2> QED
    BY <2>1, <2>2, JobSteps
<1>2. progress' \in [running: BOOLEAN, total: Nat, done: Nat]
  <2>1. progress \in [running: BOOLEAN, total: Nat, done: Nat] /\ 1 \in Nat
    BY DEF TypeOK
  <2>2. Finished(progress, 1) \in [running: BOOLEAN, total: Nat, done: Nat]
    BY <2>1, FinishedTyped
  <2> QED
    BY <2>1, <2>2
<1>3. UNCHANGED <<bookVars, pc, kind, asked, res>>
  BY DEF Attempt
<1> QED
  BY <1>1, <1>2, <1>3 DEF TypeOK, JobsOK, bookVars, Live

LEMMA TypeMerge ==
  ASSUME TypeOK, NEW c \in Calls, Merge(c)
  PROVE  TypeOK'
<1>1. BookOK'
  BY StoreKeepsBook DEF Merge, TypeOK, BookOK
<1>2. JobsOK'
  BY QueueKeepsJobs DEF Merge, TypeOK, JobsOK
<1>3. CallsOK'
  BY ReturnTyped, GotoKeepsCalls DEF Merge, TypeOK, CallsOK
<1>4. res' \in [Calls -> Counts]
  <2> DEFINE good == Good(c)
             gone == Ids \ Live
             bad  == Jobs(c) \ Good(c)
  <2>1. good \ gone \in SUBSET Ids /\ good \cap gone \in SUBSET Ids /\ bad \in SUBSET Ids
    BY DEF Good, Jobs
  <2>2. /\ Cardinality(good \ gone) \in Nat /\ Cardinality(good \cap gone) \in Nat
        /\ Cardinality(bad) \in Nat
    BY <2>1, IdSetsFinite
  <2>3. Tallied(res[c], good, gone, bad) \in Counts
    BY <2>2 DEF Tallied, Counts, TypeOK
  <2>4. res' = [res EXCEPT ![c] = Tallied(res[c], good, gone, bad)]
    BY DEF Merge
  <2> HIDE DEF good, gone, bad
  <2> QED
    BY <2>3, <2>4 DEF TypeOK
<1>5. UNCHANGED <<edits, written, progress>>
  BY DEF Merge
<1> QED
  BY <1>1, <1>2, <1>3, <1>4, <1>5 DEF TypeOK, BookOK, JobsOK, CallsOK

LEMMA TypeSaveRefreshed ==
  ASSUME TypeOK, NEW c \in Calls, SaveRefreshed(c)
  PROVE  TypeOK'
<1>1. BookOK'
  BY StoreKeepsBook DEF SaveRefreshed, TypeOK, BookOK
<1>2. JobsOK'
  BY QueueKeepsJobs DEF SaveRefreshed, TypeOK, JobsOK
<1>3. CallsOK'
  BY GotoKeepsCalls DEF SaveRefreshed, TypeOK, CallsOK
<1>4. UNCHANGED <<edits, written, progress, res>>
  BY DEF SaveRefreshed
<1> QED
  BY <1>1, <1>2, <1>3, <1>4 DEF TypeOK, BookOK, JobsOK, CallsOK

LEMMA TypeEnd ==
  ASSUME TypeOK, NEW c \in Calls, End(c)
  PROVE  TypeOK'
<1>1. CallsOK'
  BY GotoKeepsCalls DEF End, TypeOK, CallsOK
<1>2. progress' \in [running: BOOLEAN, total: Nat, done: Nat]
  BY DEF End, Settled, TypeOK, Counts
<1>3. UNCHANGED <<bookVars, jobs, res>>
  BY DEF End
<1> QED
  BY <1>1, <1>2, <1>3 DEF TypeOK, CallsOK, bookVars, Live, Steps

LEMMA TypeNext == TypeOK /\ [Next]_vars => TypeOK'
<1> SUFFICES ASSUME TypeOK, [Next]_vars PROVE TypeOK'
  OBVIOUS
<1>1. CASE \E e \in Emails : Upsert(e)
  BY <1>1, TypeUpsert
<1>2. CASE Delete \/ MarkImported \/ Update
  BY <1>2, TypeDelete, TypeMarkImported, TypeUpdate
<1>3. CASE \E c \in Calls : Arrive(c)
  BY <1>3, TypeArrive
<1>4. CASE \E c \in Calls : Begin(c) \/ Split(c) \/ Read(c)
  BY <1>4, TypeBegin, TypeSplit, TypeRead
<1>5. CASE \E c \in Calls, i \in Ids : StartJob(c, i) \/ Attempt(c, i)
  BY <1>5, TypeStartJob, TypeAttempt
<1>6. CASE \E c \in Calls : Merge(c) \/ SaveRefreshed(c) \/ End(c)
  BY <1>6, TypeMerge, TypeSaveRefreshed, TypeEnd
<1>7. CASE UNCHANGED vars
  BY <1>7 DEF TypeOK, vars, Live, Steps
<1> QED
  BY <1>1, <1>2, <1>3, <1>4, <1>5, <1>6, <1>7 DEF Next, Call

\* Types, ids given once, and the gates of the imports.
THEOREM TypeCorrect == Spec => []TypeOK
<1> QED
  BY TypeInit, TypeNext, PTL DEF Spec

-----------------------------------------------------------------------------
(* A deleted account stays deleted                                         *)

\* No step gives a used id an account anew: a registration takes an unused id or
\* renews an account that is there, and an import only writes into those.
THEOREM DeletedStaysDeleted == Spec => NeverRevived
<1> DEFINE Kept == \A i \in used : book[i] = None => book'[i] = None
<1>1. TypeOK /\ [Next]_vars => Kept
  <2> SUFFICES ASSUME TypeOK, [Next]_vars PROVE Kept
    OBVIOUS
  <2>1. ASSUME NEW e \in Emails, Upsert(e) PROVE Kept
    <3> PICK r \in Results :
         \/ \E i \in {i \in Live : book[i].email = e} :
               book' = [book EXCEPT ![i] = Renewed(@, r)]
         \/ \E i \in Ids \ used : book' = [book EXCEPT ![i] = Fresh(e, r)]
      BY <2>1 DEF Upsert
    <3> QED
      BY DEF TypeOK, Live
  <2>2. CASE Delete
    BY <2>2 DEF Delete, TypeOK
  <2>3. CASE MarkImported
    BY <2>3 DEF MarkImported, TypeOK, Live
  <2>4. CASE Update
    BY <2>4 DEF Update, TypeOK, Live
  <2>5. ASSUME NEW c \in Calls, Split(c) PROVE Kept
    <3>1. PICK had \in SUBSET Live :
            book' = [i \in Ids |-> IF i \in had THEN [book[i] EXCEPT !.imported = TRUE]
                                   ELSE book[i]]
      BY <2>5 DEF Split
    <3> QED
      BY <3>1 DEF TypeOK, Live
  <2>6. ASSUME NEW c \in Calls, Merge(c) \/ SaveRefreshed(c) PROVE Kept
    BY <2>6, StoreKeepsBook DEF Merge, SaveRefreshed, TypeOK, BookOK
  <2>7. ASSUME NEW c \in Calls, NEW i \in Ids, StartJob(c, i) \/ Attempt(c, i)
        PROVE  UNCHANGED book
    BY <2>7 DEF StartJob, Attempt, bookVars
  <2>8. ASSUME NEW c \in Calls, Arrive(c) \/ Begin(c) \/ Read(c) \/ End(c)
        PROVE  UNCHANGED book
    BY <2>8 DEF Arrive, Begin, Read, End, bookVars
  <2>9. CASE UNCHANGED vars
    BY <2>9 DEF vars
  <2> QED
    BY <2>1, <2>2, <2>3, <2>4, <2>5, <2>6, <2>7, <2>8, <2>9 DEF Next, Call
<1> QED
  BY <1>1, TypeCorrect, PTL DEF Spec, NeverRevived

-----------------------------------------------------------------------------
(* Edits survive                                                           *)

\* An id that is not given yet has no note: the account that takes it starts
\* without one.
NotesOK == EditsSurvive /\ \A i \in Ids \ used : written[i] = NoNote

\* A list whose accounts keep their notes, or are removed.
LEMMA NotesKept ==
  ASSUME TypeOK, NotesOK, UNCHANGED <<used, written>>,
         \A i \in Ids : book'[i] # None => book[i] # None /\ book'[i].note = book[i].note
  PROVE  NotesOK'
BY DEF NotesOK, EditsSurvive, Live

LEMMA StoreKeepsNotes ==
  ASSUME TypeOK, NotesOK, UNCHANGED <<used, written>>, NEW is, Store(is)
  PROVE  NotesOK'
<1>1. \A i \in Ids : Converted(book[i]) # None =>
                     book[i] # None /\ Converted(book[i]).note = book[i].note
  BY ConvertedTyped DEF TypeOK
<1>2. \A i \in Ids : book'[i] # None => book[i] # None /\ book'[i].note = book[i].note
  BY <1>1 DEF Store
<1> QED
  BY <1>2, NotesKept

LEMMA NotesUpsert ==
  ASSUME TypeOK, NotesOK, NEW e \in Emails, Upsert(e)
  PROVE  NotesOK'
<1> PICK r \in Results :
     \/ \E i \in {i \in Live : book[i].email = e} :
           book' = [book EXCEPT ![i] = Renewed(@, r)] /\ UNCHANGED used
     \/ \E i \in Ids \ used :
           book' = [book EXCEPT ![i] = Fresh(e, r)] /\ used' = used \cup {i}
  BY DEF Upsert
<1>1. UNCHANGED written
  BY DEF Upsert
<1>2. CASE \E i \in {i \in Live : book[i].email = e} :
             book' = [book EXCEPT ![i] = Renewed(@, r)] /\ UNCHANGED used
  <2> PICK i \in Live : book' = [book EXCEPT ![i] = Renewed(@, r)] /\ UNCHANGED used
    BY <1>2
  <2>1. i \in Ids /\ book[i] \in Accounts /\ book[i] # None
    BY DEF Live, TypeOK
  <2>2. Renewed(book[i], r).note = book[i].note
    BY <2>1, RenewedTyped
  <2>3. \A k \in Ids : book'[k] # None => book[k] # None /\ book'[k].note = book[k].note
    BY <2>1, <2>2 DEF TypeOK
  <2> QED
    BY <1>1, <2>3, NotesKept
<1>3. CASE \E i \in Ids \ used :
             book' = [book EXCEPT ![i] = Fresh(e, r)] /\ used' = used \cup {i}
  <2> PICK i \in Ids \ used :
       book' = [book EXCEPT ![i] = Fresh(e, r)] /\ used' = used \cup {i}
    BY <1>3
  <2>1. Fresh(e, r).note = NoNote /\ written[i] = NoNote
    BY RenewedTyped DEF NotesOK
  <2>2. \A k \in Ids : book'[k] = IF k = i THEN Fresh(e, r) ELSE book[k]
    BY DEF TypeOK
  <2> QED
    BY <1>1, <2>1, <2>2 DEF NotesOK, EditsSurvive, Live
<1> QED
  BY <1>2, <1>3

\* An import, a refresh or a registration does not undo what the user wrote.
THEOREM UserEditsSurvive == Spec => []EditsSurvive
<1>1. Init => NotesOK
  BY ImportAssumption DEF Init, NotesOK, EditsSurvive, Live
<1>2. TypeOK /\ NotesOK /\ [Next]_vars => NotesOK'
  <2> SUFFICES ASSUME TypeOK, NotesOK, [Next]_vars PROVE NotesOK'
    OBVIOUS
  <2>1. ASSUME NEW e \in Emails, Upsert(e) PROVE NotesOK'
    BY <2>1, NotesUpsert
  <2>2. CASE Delete
    <3>1. \A i \in Ids : book'[i] # None => book'[i] = book[i]
      BY <2>2 DEF Delete, TypeOK
    <3> QED
      BY <2>2, <3>1, NotesKept DEF Delete
  <2>3. CASE MarkImported
    <3> PICK is \in SUBSET Live, b \in BOOLEAN :
         book' = [i \in Ids |-> IF i \in is THEN [book[i] EXCEPT !.imported = b] ELSE book[i]]
      BY <2>3 DEF MarkImported
    <3>1. \A a \in Accounts : [a EXCEPT !.imported = b].note = a.note
      BY DEF Accounts
    <3>2. \A i \in Live : book[i] \in Accounts /\ book[i] # None
      BY DEF Live, TypeOK
    <3>3. \A i \in Ids : book'[i] # None => book[i] # None /\ book'[i].note = book[i].note
      BY <3>1, <3>2
    <3> QED
      BY <2>3, <3>3, NotesKept DEF MarkImported
  <2>4. CASE Update
    <3> PICK i \in Live, n \in Notes, b \in BOOLEAN :
         /\ book' = [book EXCEPT ![i] = [@ EXCEPT !.note = n, !.sso = b]]
         /\ written' = [written EXCEPT ![i] = n]
      BY <2>4 DEF Update
    <3>1. \A a \in Accounts : [a EXCEPT !.note = n, !.sso = b].note = n
      BY DEF Accounts
    <3>2. i \in Ids /\ i \in used /\ book[i] \in Accounts /\ used' = used
      BY <2>4 DEF Live, TypeOK, Update
    <3>3. /\ book'[i].note = n /\ written'[i] = n
          /\ \A k \in Ids \ {i} : book'[k] = book[k] /\ written'[k] = written[k]
      BY <3>1, <3>2 DEF TypeOK
    <3> QED
      BY <3>2, <3>3 DEF NotesOK, EditsSurvive, Live
  <2>5. ASSUME NEW c \in Calls, Split(c) PROVE NotesOK'
    <3>1. PICK had \in SUBSET Live :
            book' = [i \in Ids |-> IF i \in had THEN [book[i] EXCEPT !.imported = TRUE]
                                   ELSE book[i]]
      BY <2>5 DEF Split
    <3>2. \A a \in Accounts : [a EXCEPT !.imported = TRUE].note = a.note
      BY DEF Accounts
    <3>3. \A i \in Live : book[i] \in Accounts /\ book[i] # None
      BY DEF Live, TypeOK
    <3>4. \A i \in Ids : book'[i] # None => book[i] # None /\ book'[i].note = book[i].note
      BY <3>1, <3>2, <3>3
    <3> QED
      BY <2>5, <3>4, NotesKept DEF Split
  <2>6. ASSUME NEW c \in Calls, Merge(c) \/ SaveRefreshed(c) PROVE NotesOK'
    BY <2>6, StoreKeepsNotes DEF Merge, SaveRefreshed
  <2>7. ASSUME NEW c \in Calls, NEW i \in Ids, StartJob(c, i) \/ Attempt(c, i)
        PROVE  UNCHANGED <<book, used, written>>
    BY <2>7 DEF StartJob, Attempt, bookVars
  <2>8. ASSUME NEW c \in Calls, Arrive(c) \/ Begin(c) \/ Read(c) \/ End(c)
        PROVE  UNCHANGED <<book, used, written>>
    BY <2>8 DEF Arrive, Begin, Read, End, bookVars
  <2>9. CASE UNCHANGED vars
    BY <2>9, NotesKept DEF vars
  <2> QED
    BY <2>1, <2>2, <2>3, <2>4, <2>5, <2>6, <2>7, <2>8, <2>9, NotesKept DEF Next, Call
<1>3. NotesOK => EditsSurvive
  BY DEF NotesOK
<1> QED
  BY <1>1, <1>2, <1>3, TypeCorrect, PTL DEF Spec

-----------------------------------------------------------------------------
(* Conversions end                                                         *)

LEMMA LeftGoesDown ==
  ASSUME NEW j \in JobTypes, NEW o \in Outcomes, After(j, o).step = "running"
  PROVE  Left(After(j, o)) < Left(j)
<1>1. Done(TRUE).step = "done" /\ Done(FALSE).step = "done"
  BY DEF Done, NoJob
<1>2. \/ After(j, o) = Direct(j) /\ j.proxied
      \/ After(j, o) = Again(j)
  BY <1>1 DEF After
<1>3. j.attempt \in Nat /\ j.proxied \in BOOLEAN /\ MaxAttempts \in Nat
  BY ImportAssumption DEF JobTypes
<1>4. Direct(j).attempt = j.attempt /\ Direct(j).proxied = FALSE
  BY DEF Direct, JobTypes
<1>5. Again(j).attempt = j.attempt + 1 /\ Again(j).proxied = j.proxied
  BY DEF Again, JobTypes
<1> QED
  BY <1>2, <1>3, <1>4, <1>5 DEF Left

\* A conversion that goes on has fewer attempts, or the fallback to a direct
\* connection, left.
THEOREM ConversionsEnd == Spec => AttemptsRunOut
<1> DEFINE Fewer(c, i) ==
             jobs[c][i].step = "running" /\ jobs'[c][i] # jobs[c][i] /\ jobs'[c][i].step = "running"
               => Left(jobs'[c][i]) < Left(jobs[c][i])
<1>1. TypeOK /\ [Next]_vars => \A c \in Calls, i \in Ids : Fewer(c, i)
  <2> SUFFICES ASSUME TypeOK, [Next]_vars, NEW c \in Calls, NEW i \in Ids PROVE Fewer(c, i)
    OBVIOUS
  <2>1. ASSUME NEW d \in Calls, NEW todo, NEW proxied, Queue(d, todo, proxied)
        PROVE  Fewer(c, i)
    <3>1. CASE c = d
      <4>1. jobs'[c][i].step \in {"queued", "none"}
        BY <2>1, <3>1 DEF Queue, NewJob, NoJob, TypeOK
      <4> QED
        BY <4>1
    <3>2. CASE c # d
      BY <2>1, <3>2 DEF Queue, TypeOK
    <3> QED
      BY <3>1, <3>2
  <2>2. ASSUME NEW d \in Calls, NEW k \in Ids, StartJob(d, k) PROVE Fewer(c, i)
    <3>1. jobs[d][k].step # "running"
      BY <2>2 DEF StartJob, Steps
    <3>2. <<c, i>> # <<d, k>> => jobs'[c][i] = jobs[c][i]
      BY <2>2 DEF StartJob, TypeOK
    <3> QED
      BY <3>1, <3>2
  <2>3. ASSUME NEW d \in Calls, NEW k \in Ids, Attempt(d, k) PROVE Fewer(c, i)
    <3> PICK o \in Outcomes : jobs' = [jobs EXCEPT ![d][k] = After(jobs[d][k], o)]
      BY <2>3 DEF Attempt
    <3>1. CASE c = d /\ i = k
      <4>1. jobs'[c][i] = After(jobs[c][i], o) /\ jobs[c][i] \in JobTypes
        BY <3>1 DEF TypeOK
      <4> QED
        BY <4>1, LeftGoesDown
    <3>2. CASE ~ (c = d /\ i = k)
      BY <3>2 DEF TypeOK
    <3> QED
      BY <3>1, <3>2
  <2>4. CASE UNCHANGED jobs
    BY <2>4
  <2>5. CASE (\E e \in Emails : Upsert(e)) \/ Delete \/ MarkImported \/ Update
    BY <2>4, <2>5 DEF Upsert, Delete, MarkImported, Update, Edit, callVars
  <2>6. ASSUME NEW d \in Calls, Arrive(d) \/ Begin(d) \/ End(d) PROVE Fewer(c, i)
    BY <2>4, <2>6 DEF Arrive, Begin, End
  <2>7. ASSUME NEW d \in Calls, Split(d) \/ Read(d) \/ Merge(d) \/ SaveRefreshed(d)
        PROVE  Fewer(c, i)
    BY <2>1, <2>7 DEF Split, Read, Merge, SaveRefreshed
  <2>8. CASE UNCHANGED vars
    BY <2>4, <2>8 DEF vars
  <2> QED
    BY <2>2, <2>3, <2>5, <2>6, <2>7, <2>8 DEF Next, Call
<1> QED
  BY <1>1, TypeCorrect, PTL DEF Spec, AttemptsRunOut

-----------------------------------------------------------------------------
(* The progress is that of a task                                          *)

\* Only a task begins, and only a refresh reads its account.
KindsOK ==
  \A c \in Calls : /\ pc[c] = "begin" => kind[c] = "task"
                   /\ pc[c] = "read" => kind[c] = "refresh"

LEMMA KindsKept == Spec => [](KindsOK /\ RunningIsReal)
<1> DEFINE IInv == KindsOK /\ RunningIsReal
<1>1. Init => IInv
  BY DEF Init, KindsOK, RunningIsReal, Idle
<1>2. TypeOK /\ IInv /\ [Next]_vars => IInv'
  <2> SUFFICES ASSUME TypeOK, IInv, [Next]_vars PROVE IInv'
    OBVIOUS
  <2> USE DEF KindsOK, RunningIsReal
  <2>1. CASE UNCHANGED <<pc, kind, progress>>
    BY <2>1
  <2>2. CASE (\E e \in Emails : Upsert(e)) \/ Delete \/ MarkImported \/ Update
    BY <2>1, <2>2 DEF Upsert, Delete, MarkImported, Update, Edit, callVars
  <2>3. ASSUME NEW c \in Calls, Arrive(c) PROVE IInv'
    BY <2>3 DEF Arrive, Goto, TypeOK
  <2>4. ASSUME NEW c \in Calls, Begin(c) PROVE IInv'
    BY <2>4 DEF Begin, Goto, TypeOK
  <2>5. ASSUME NEW n, progress' = Finished(progress, n)
        PROVE  progress'.running = progress.running
    BY <2>5 DEF Finished, TypeOK
  <2>6. ASSUME NEW c \in Calls, Split(c) PROVE IInv'
    <3>1. progress'.running = progress.running
      BY <2>5, <2>6 DEF Split
    <3>2. pc' = [pc EXCEPT ![c] = pc'[c]] /\ pc'[c] \in {Return(c), "convert"}
      BY <2>6 DEF Split, Goto, TypeOK
    <3> QED
      BY <2>6, <3>1, <3>2 DEF Split, Return, TypeOK
  <2>7. ASSUME NEW c \in Calls, Read(c) PROVE IInv'
    <3>1. kind[c] = "refresh" /\ UNCHANGED <<kind, progress>>
      BY <2>7 DEF Read
    <3>2. pc' = [pc EXCEPT ![c] = pc'[c]] /\ pc'[c] \in {"over", "convert"}
      BY <2>7 DEF Read, Goto, TypeOK
    <3> QED
      BY <3>1, <3>2 DEF TypeOK
  <2>8. ASSUME NEW c \in Calls, NEW i \in Ids, StartJob(c, i) \/ Attempt(c, i) PROVE IInv'
    <3>1. UNCHANGED <<pc, kind>> /\ progress' \in {progress, Finished(progress, 1)}
      BY <2>8 DEF StartJob, Attempt
    <3>2. progress'.running = progress.running
      BY <2>5, <2>8, <3>1
    <3> QED
      BY <3>1, <3>2
  <2>9. ASSUME NEW c \in Calls, Merge(c) PROVE IInv'
    BY <2>9 DEF Merge, AllDone, Goto, Return, TypeOK
  <2>10. ASSUME NEW c \in Calls, SaveRefreshed(c) PROVE IInv'
    BY <2>10 DEF SaveRefreshed, Goto, TypeOK
  <2>11. ASSUME NEW c \in Calls, End(c) PROVE IInv'
    BY <2>11 DEF End, Settled, Goto, TypeOK
  <2>12. CASE UNCHANGED vars
    BY <2>1, <2>12 DEF vars
  <2> QED
    BY <2>2, <2>3, <2>4, <2>6, <2>7, <2>8, <2>9, <2>10, <2>11, <2>12 DEF Next, Call
<1> QED
  BY <1>1, <1>2, TypeCorrect, PTL DEF Spec

\* The last task to end clears the mark: each one that is under way ends.
THEOREM ProgressIsReal == Spec => []RunningIsReal
<1> QED
  BY KindsKept, PTL

-----------------------------------------------------------------------------
(* Results add up                                                          *)

LEMMA ThreeParts ==
  ASSUME NEW S \in SUBSET Ids, NEW A \in SUBSET S, NEW B \in SUBSET S, A \cap B = {}
  PROVE  Cardinality(A) + Cardinality(B) + Cardinality(S \ (A \cup B)) = Cardinality(S)
<1> DEFINE C == S \ (A \cup B)
<1>1. /\ IsFiniteSet(A) /\ IsFiniteSet(B) /\ IsFiniteSet(C) /\ IsFiniteSet(A \cup B)
      /\ Cardinality(A) \in Nat /\ Cardinality(B) \in Nat /\ Cardinality(C) \in Nat
  <2>1. A \in SUBSET Ids /\ B \in SUBSET Ids /\ C \in SUBSET Ids /\ A \cup B \in SUBSET Ids
    OBVIOUS
  <2> HIDE DEF C
  <2> QED
    BY <2>1, IdSetsFinite
<1>2. Cardinality({}) = 0
  BY FS_EmptySet
<1>3. Cardinality(A \cup B) = Cardinality(A) + Cardinality(B) - Cardinality(A \cap B)
  BY <1>1, FS_Union
<1>4. Cardinality((A \cup B) \cup C)
        = Cardinality(A \cup B) + Cardinality(C) - Cardinality((A \cup B) \cap C)
  <2> HIDE DEF C
  <2> QED
    BY <1>1, FS_Union
<1>5. (A \cup B) \cup C = S /\ (A \cup B) \cap C = {}
  OBVIOUS
<1>6. Cardinality(A \cup B) = Cardinality(A) + Cardinality(B)
  <2>1. Cardinality(A \cap B) = 0
    BY <1>2
  <2> QED
    BY <1>1, <1>3, <2>1
<1>7. Cardinality(S) = Cardinality(A \cup B) + Cardinality(C)
  <2>1. Cardinality((A \cup B) \cap C) = 0 /\ Cardinality((A \cup B) \cup C) = Cardinality(S)
    BY <1>2, <1>5
  <2> HIDE DEF C
  <2> QED
    BY <1>1, <1>4, <1>6, <2>1
<1> HIDE DEF C
<1>8. Cardinality(S) = Cardinality(A) + Cardinality(B) + Cardinality(C)
  BY <1>1, <1>6, <1>7
<1> QED
  BY <1>1, <1>8 DEF C

\* What the result and the conversions of a request account for.
Wanted(c) == Cardinality(Range(asked[c]))
Summed(c) == res[c].updated + res[c].failed + res[c].skipped = Wanted(c)
Pending(c) ==
  res[c].failed = 0 /\ res[c].updated + res[c].skipped + Cardinality(Jobs(c)) = Wanted(c)

\* A result is empty until the list is split, then complete but for the accounts
\* that are being converted.
TallyOK ==
  \A c \in Calls :
    /\ pc[c] \in {"new", "begin", "split"} => res[c].failed = 0
    /\ pc[c] = "convert" /\ kind[c] # "refresh" => Pending(c)
    /\ pc[c] = "end" \/ (pc[c] = "over" /\ kind[c] = "import") => Summed(c)

\* A request that takes no step, or whose conversions go on.
Same(c) ==
  /\ pc'[c] = pc[c] /\ kind'[c] = kind[c] /\ asked'[c] = asked[c] /\ res'[c] = res[c]
  /\ Jobs(c)' = Jobs(c)

LEMMA SameTally ==
  ASSUME TallyOK, NEW c \in Calls, \A d \in Calls \ {c} : Same(d),
         /\ pc'[c] \in {"new", "begin", "split"} => res'[c].failed = 0
         /\ pc'[c] = "convert" /\ kind'[c] # "refresh" => Pending(c)'
         /\ pc'[c] = "end" \/ (pc'[c] = "over" /\ kind'[c] = "import") => Summed(c)'
  PROVE  TallyOK'
<1>1. ASSUME NEW d \in Calls \ {c}
      PROVE  /\ pc'[d] \in {"new", "begin", "split"} => res'[d].failed = 0
             /\ pc'[d] = "convert" /\ kind'[d] # "refresh" => Pending(d)'
             /\ pc'[d] = "end" \/ (pc'[d] = "over" /\ kind'[d] = "import") => Summed(d)'
  BY DEF TallyOK, Same, Pending, Summed, Wanted
<1> QED
  BY <1>1 DEF TallyOK

\* The other requests keep their place, result and conversions.
LEMMA OthersSame ==
  ASSUME TypeOK, NEW c \in Calls,
         kind' = kind, asked' = asked,
         pc' = pc \/ \E where : Goto(c, where),
         res' = res \/ \E r : res' = [res EXCEPT ![c] = r],
         jobs' = jobs \/ \E f : jobs' = [jobs EXCEPT ![c] = f]
  PROVE  \A d \in Calls \ {c} : Same(d)
BY DEF TypeOK, Goto, Same, Jobs

LEMMA TallySplit ==
  ASSUME TypeOK, KindsOK, TallyOK, NEW c \in Calls, Split(c)
  PROVE  TallyOK'
<1> DEFINE is   == Range(asked[c])
           had  == {i \in is \cap Live : book[i].token}
           todo == {i \in is \cap Live : ~ book[i].token /\ book[i].sso}
           rest == is \ (had \cup todo)
<1>1. PICK proxied \in SUBSET todo :
      /\ res' = [res EXCEPT ![c].updated = Cardinality(had), ![c].skipped = Cardinality(rest)]
      /\ Queue(c, todo, proxied)
      /\ Goto(c, IF todo = {} THEN Return(c) ELSE "convert")
      /\ UNCHANGED <<kind, asked>> /\ pc[c] = "split"
  BY DEF Split
<1>2. /\ is \in SUBSET Ids /\ had \in SUBSET is /\ todo \in SUBSET is /\ had \cap todo = {}
      /\ todo \in SUBSET Ids
  BY AskedIds DEF TypeOK
<1> HIDE DEF is, had, todo
<1>3. Cardinality(had) + Cardinality(todo) + Cardinality(rest) = Cardinality(is)
  BY <1>2, ThreeParts
<1>4. /\ Cardinality(had) \in Nat /\ Cardinality(todo) \in Nat /\ Cardinality(rest) \in Nat
      /\ Cardinality({}) = 0
  BY <1>2, IdSetsFinite, FS_EmptySet
<1>5. /\ res'[c].updated = Cardinality(had) /\ res'[c].skipped = Cardinality(rest)
      /\ res'[c].failed = 0
  <2>1. res[c].failed = 0 /\ res[c] \in Counts
    BY <1>1 DEF TallyOK, TypeOK
  <2>2. \A r \in Counts, m, n \in Nat :
          LET q == [r EXCEPT !.updated = m, !.skipped = n]
          IN  q.updated = m /\ q.skipped = n /\ q.failed = r.failed
    BY DEF Counts
  <2>3. res'[c] = [res[c] EXCEPT !.updated = Cardinality(had), !.skipped = Cardinality(rest)]
    BY <1>1 DEF TypeOK
  <2> HIDE DEF rest
  <2> QED
    BY <1>4, <2>1, <2>2, <2>3
<1>6. Jobs(c)' = todo
  BY <1>1, <1>2 DEF Jobs, Queue, NewJob, NoJob, TypeOK
<1>7. Wanted(c)' = Cardinality(is)
  BY <1>1 DEF Wanted, is
<1>8. \A d \in Calls \ {c} : Same(d)
  <2>1. res' = [res EXCEPT ![c] = res'[c]]
    BY <1>1 DEF TypeOK
  <2>2. \E f : jobs' = [jobs EXCEPT ![c] = f]
    BY <1>1 DEF Queue
  <2> QED
    BY <1>1, <2>1, <2>2, OthersSame
<1>9. Cardinality(Jobs(c))' = Cardinality(todo)
  BY <1>6
<1>10. pc'[c] = (IF todo = {} THEN Return(c) ELSE "convert") /\ kind'[c] = kind[c]
  BY <1>1 DEF Goto, TypeOK
<1> HIDE DEF rest
<1>11. Pending(c)'
  BY <1>3, <1>4, <1>5, <1>7, <1>9 DEF Pending
<1>12. todo = {} => Summed(c)'
  <2>1. todo = {} => Cardinality(todo) = 0
    BY <1>4
  <2> QED
    BY <1>3, <1>4, <1>5, <1>7, <2>1 DEF Summed
<1>13. pc'[c] \in {"end", "over", "convert"} /\ (pc'[c] # "convert" => todo = {})
  BY <1>10 DEF Return
<1> QED
  BY <1>5, <1>8, <1>11, <1>12, <1>13, SameTally

LEMMA TallyMerge ==
  ASSUME TypeOK, KindsOK, TallyOK, NEW c \in Calls, Merge(c)
  PROVE  TallyOK'
<1> DEFINE good == Good(c)
           gone == Ids \ Live
           all  == Jobs(c)
<1>1. /\ pc[c] = "convert" /\ kind[c] # "refresh"
      /\ res' = [res EXCEPT ![c] = Tallied(res[c], good, gone, all \ good)]
      /\ Queue(c, {}, {})
      /\ Goto(c, Return(c))
      /\ UNCHANGED <<kind, asked>>
  BY DEF Merge, AllDone
<1>2. all \in SUBSET Ids /\ good \in SUBSET all
  BY DEF Good, Jobs
<1> HIDE DEF good, gone, all
<1>3. /\ good \ gone \in SUBSET all /\ good \cap gone \in SUBSET all
      /\ (good \ gone) \cap (good \cap gone) = {}
      /\ all \ ((good \ gone) \cup (good \cap gone)) = all \ good
  BY <1>2
<1>4. Cardinality(good \ gone) + Cardinality(good \cap gone) + Cardinality(all \ good)
        = Cardinality(all)
  <2> DEFINE A == good \ gone
             B == good \cap gone
  <2>1. A \in SUBSET all /\ B \in SUBSET all /\ A \cap B = {}
    BY <1>3
  <2>2. all \ (A \cup B) = all \ good
    BY <1>3
  <2> HIDE DEF A, B
  <2>3. Cardinality(A) + Cardinality(B) + Cardinality(all \ (A \cup B)) = Cardinality(all)
    BY <1>2, <2>1, ThreeParts
  <2>4. Cardinality(A) + Cardinality(B) + Cardinality(all \ good) = Cardinality(all)
    BY <2>2, <2>3
  <2> QED
    BY <2>4 DEF A, B
<1>5. /\ Cardinality(good \ gone) \in Nat /\ Cardinality(good \cap gone) \in Nat
      /\ Cardinality(all \ good) \in Nat /\ Cardinality(all) \in Nat
  <2>1. /\ good \ gone \in SUBSET Ids /\ good \cap gone \in SUBSET Ids
        /\ all \ good \in SUBSET Ids
    BY <1>2
  <2> QED
    BY <1>2, <2>1, IdSetsFinite
<1>6. /\ res'[c].updated = res[c].updated + Cardinality(good \ gone)
      /\ res'[c].skipped = res[c].skipped + Cardinality(good \cap gone)
      /\ res'[c].failed = Cardinality(all \ good)
  BY <1>1 DEF Tallied, TypeOK
<1>7. res[c].updated + res[c].skipped + Cardinality(all) = Wanted(c)
  BY <1>1 DEF TallyOK, Pending, all
<1>8. Wanted(c)' = Wanted(c)
  BY <1>1 DEF Wanted
<1>9. Summed(c)'
  <2>1. res[c].updated \in Nat /\ res[c].skipped \in Nat
    BY DEF TypeOK, Counts
  <2> QED
    BY <1>4, <1>5, <1>6, <1>7, <1>8, <2>1 DEF Summed
<1>10. \A d \in Calls \ {c} : Same(d)
  <2>1. \E f : jobs' = [jobs EXCEPT ![c] = f]
    BY <1>1 DEF Queue
  <2> QED
    BY <1>1, <2>1, OthersSame
<1>11. pc'[c] \in {"end", "over"}
  BY <1>1 DEF Goto, Return, TypeOK
<1> QED
  BY <1>9, <1>10, <1>11, SameTally

\* What an import returns, or ends its task with, accounts for every id it was
\* asked for exactly once.
THEOREM ResultsAreComplete == Spec => []ResultsAddUp
<1>1. Init => KindsOK /\ TallyOK
  BY DEF Init, KindsOK, TallyOK, NoResult
<1>2. TypeOK /\ KindsOK /\ TallyOK /\ [Next]_vars => TallyOK'
  <2> SUFFICES ASSUME TypeOK, KindsOK, TallyOK, [Next]_vars PROVE TallyOK'
    OBVIOUS
  <2>1. CASE UNCHANGED <<pc, kind, asked, jobs, res>>
    BY <2>1 DEF TallyOK, Pending, Summed, Wanted, Jobs
  <2>2. CASE (\E e \in Emails : Upsert(e)) \/ Delete \/ MarkImported \/ Update
    BY <2>1, <2>2 DEF Upsert, Delete, MarkImported, Update, Edit, callVars
  <2>3. ASSUME NEW c \in Calls, Arrive(c) PROVE TallyOK'
    <3> PICK k \in {"import", "task", "refresh"} :
         /\ kind' = [kind EXCEPT ![c] = k]
         /\ pc' = [pc EXCEPT ![c] = pc'[c]]
         /\ pc'[c] \in {"split", "begin", "over", "read"}
         /\ pc'[c] = "over" => k = "task"
      BY <2>3 DEF Arrive, Goto, TypeOK
    <3>1. UNCHANGED <<res, jobs>> /\ pc[c] = "new"
      BY <2>3 DEF Arrive
    <3>2. \A d \in Calls \ {c} : Same(d)
      BY <2>3, <3>1 DEF Arrive, Same, Jobs, TypeOK
    <3>3. res'[c].failed = 0
      BY <3>1 DEF TallyOK
    <3>4. kind'[c] = k
      BY DEF TypeOK
    <3> QED
      BY <3>2, <3>3, <3>4, SameTally
  <2>4. ASSUME NEW c \in Calls, Begin(c) PROVE TallyOK'
    <3>1. \A d \in Calls \ {c} : Same(d)
      BY <2>4 DEF Begin, Goto, Same, Jobs, TypeOK
    <3>2. pc'[c] = "split" /\ res'[c].failed = 0
      BY <2>4 DEF Begin, Goto, TypeOK, TallyOK
    <3> QED
      BY <3>1, <3>2, SameTally
  <2>5. ASSUME NEW c \in Calls, Split(c) PROVE TallyOK'
    BY <2>5, TallySplit
  <2>6. ASSUME NEW c \in Calls, Read(c) \/ SaveRefreshed(c) PROVE TallyOK'
    <3>1. /\ kind[c] = "refresh" /\ UNCHANGED <<kind, asked, res>>
          /\ \E todo, proxied : Queue(c, todo, proxied)
          /\ \E where \in {"over", "convert"} : Goto(c, where)
      BY <2>6 DEF Read, SaveRefreshed, KindsOK
    <3>2. \A d \in Calls \ {c} : Same(d)
      <4>1. \E f : jobs' = [jobs EXCEPT ![c] = f]
        BY <3>1 DEF Queue
      <4> QED
        BY <3>1, <4>1, OthersSame
    <3>3. pc'[c] \in {"over", "convert"} /\ kind'[c] = "refresh"
      BY <3>1 DEF Goto, TypeOK
    <3> QED
      BY <3>2, <3>3, SameTally
  <2>7. ASSUME NEW c \in Calls, NEW i \in Ids, StartJob(c, i) \/ Attempt(c, i) PROVE TallyOK'
    <3>1. UNCHANGED <<pc, kind, asked, res>>
      BY <2>7 DEF StartJob, Attempt
    <3>2. \A d \in Calls, k \in Ids :
            jobs'[d][k].step = "none" <=> jobs[d][k].step = "none"
      <4>1. CASE StartJob(c, i)
        <5>1. jobs[c][i].step = "queued"
          BY <4>1 DEF StartJob, Steps
        <5>2. jobs'[c][i].step = "running"
          BY <4>1 DEF StartJob, TypeOK, JobTypes
        <5> QED
          BY <4>1, <5>1, <5>2 DEF StartJob, TypeOK
      <4>2. CASE Attempt(c, i)
        <5> PICK o \in Outcomes : jobs' = [jobs EXCEPT ![c][i] = After(jobs[c][i], o)]
          BY <4>2 DEF Attempt
        <5>1. jobs[c][i].step = "running" /\ jobs[c][i] \in JobTypes
          BY <4>2 DEF Attempt, Steps, TypeOK
        <5>2. Done(TRUE).step = "done" /\ Done(FALSE).step = "done"
          BY DEF Done, NoJob
        <5>3. Direct(jobs[c][i]).step = "running" /\ Again(jobs[c][i]).step = "running"
          BY <5>1 DEF Direct, Again, JobTypes
        <5>4. After(jobs[c][i], o).step \in {"done", "running"}
          BY <5>1, <5>2, <5>3, AfterTyped
        <5> QED
          BY <5>1, <5>4 DEF TypeOK
      <4> QED
        BY <2>7, <4>1, <4>2
    <3>3. \A d \in Calls : Jobs(d)' = Jobs(d)
      BY <3>2 DEF Jobs
    <3>4. \A d \in Calls : Pending(d)' <=> Pending(d)
      BY <3>1, <3>3 DEF Pending, Wanted
    <3>5. \A d \in Calls : Summed(d)' <=> Summed(d)
      BY <3>1 DEF Summed, Wanted
    <3> QED
      BY <3>1, <3>4, <3>5 DEF TallyOK
  <2>8. ASSUME NEW c \in Calls, Merge(c) PROVE TallyOK'
    BY <2>8, TallyMerge
  <2>9. ASSUME NEW c \in Calls, End(c) PROVE TallyOK'
    <3>1. \A d \in Calls \ {c} : Same(d)
      BY <2>9 DEF End, Goto, Same, Jobs, TypeOK
    <3>2. pc'[c] = "over" /\ Summed(c) /\ UNCHANGED <<res, asked>>
      BY <2>9 DEF End, Goto, TypeOK, TallyOK
    <3>3. Summed(c)'
      BY <3>2 DEF Summed, Wanted
    <3> QED
      BY <3>1, <3>2, <3>3, SameTally
  <2>10. CASE UNCHANGED vars
    BY <2>1, <2>10 DEF vars
  <2> QED
    BY <2>2, <2>3, <2>4, <2>5, <2>6, <2>7, <2>8, <2>9, <2>10 DEF Next, Call
<1>3. TallyOK => ResultsAddUp
  BY DEF TallyOK, ResultsAddUp, Summed, Wanted
<1> QED
  BY <1>1, <1>2, <1>3, KindsKept, TypeCorrect, PTL DEF Spec
=============================================================================
