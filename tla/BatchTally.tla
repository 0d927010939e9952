----------------------------- MODULE BatchTally -----------------------------
(***************************************************************************)
(* What RunBatch (pkg/grokregister/batch.go) promises to its caller, the   *)
(* register engine: every job is counted at most once, as completed first  *)
(* and then as a success or a failure; the counters never go back; the     *)
(* batch ends with every job completed unless it was cancelled, and after  *)
(* its end nothing is counted any more.                                    *)
(***************************************************************************)
EXTENDS Naturals

CONSTANT Total

VARIABLES completed, success, fail, cancelled, ended

tally == <<completed, success, fail, cancelled, ended>>

Init ==
  /\ completed = 0 /\ success = 0 /\ fail = 0
  /\ cancelled = FALSE /\ ended = FALSE

Complete ==
  /\ ~ ended /\ completed < Total
  /\ completed' = completed + 1
  /\ UNCHANGED <<success, fail, cancelled, ended>>

Succeed ==
  /\ ~ ended /\ success + fail < completed
  /\ success' = success + 1
  /\ UNCHANGED <<completed, fail, cancelled, ended>>

Fail ==
  /\ ~ ended /\ success + fail < completed
  /\ fail' = fail + 1
  /\ UNCHANGED <<completed, success, cancelled, ended>>

Cancel == cancelled' = TRUE /\ UNCHANGED <<completed, success, fail, ended>>

\* A batch none of whose proxies answers ends before it begins.
End ==
  /\ ~ ended
  /\ cancelled \/ completed \in {0, Total}
  /\ ended' = TRUE
  /\ UNCHANGED <<completed, success, fail, cancelled>>

Next == Complete \/ Succeed \/ Fail \/ Cancel \/ End

Spec == Init /\ [][Next]_tally
=============================================================================
