-------------------------- MODULE MailPool_proofs --------------------------
(***************************************************************************)
(* Theorems about what a job of the registration goes through: MailPool,   *)
(* for any number of addresses, workers, jobs and synchronisations, and    *)
(* RegisterAttempt, for any number of workers, jobs, tokens and tries.     *)
(***************************************************************************)
EXTENDS MailPool, RegisterAttempt, TLAPS

States == {"absent", "available", "used"}
MailPlaces == {"idle", "claim", "claim again", "create", "sync", "fallback",
               "using", "public", "failed"}

\* The types, by the groups of variables that steps leave alone together.
PoolOK    == mailPool \in [MailAddrs -> States]
WorldOK   == mailLive \subseteq mailMade /\ mailMade \subseteq MailAddrs
WorkersOK == /\ mailNext \in 0..MailJobs
             /\ mailAt \in [MailWorkers -> MailPlaces]
             /\ mailAddr \in [MailWorkers -> MailAddrs \cup {NoAddr}]
             /\ mailTry \in [MailWorkers -> 0..MailTries]
SyncOK    == /\ mailSync \in [Syncers -> {"idle", "list", "read", "write"}]
             /\ mailList \in [Syncers -> SUBSET MailAddrs]
             /\ mailRead \in [Syncers -> [MailAddrs -> States]]
TasksOK   == mailTasks \subseteq ({"release", "delete", "forget"} \X MailAddrs)
PastOK    == /\ mailUndone \subseteq MailAddrs /\ mailOutside \subseteq MailAddrs
             /\ mailLeft \subseteq MailAddrs
\* A worker holds an address exactly while it uses it, and waits for a
\* synchronisation of its own.
PlacesOK  == \A w \in MailWorkers :
               /\ mailAt[w] = "using" <=> mailAddr[w] # NoAddr
               /\ mailSync[w] # "idle" => mailAt[w] = "sync"
MailTypeInv == /\ PoolOK /\ WorldOK /\ WorkersOK /\ SyncOK /\ TasksOK /\ PastOK
               /\ PlacesOK /\ mailOps \in 0..MailPageOps

LEMMA MailTypesOfInv == MailTypeInv => MailTypeOK
BY DEF MailTypeInv, MailTypeOK, PoolOK, WorldOK, WorkersOK, SyncOK, TasksOK, PastOK,
       States, MailPlaces

LEMMA MailTypesKept ==
  ASSUME MailTypeInv
  PROVE  /\ UNCHANGED mailPool => PoolOK'
         /\ UNCHANGED <<mailLive, mailMade>> => WorldOK'
         /\ UNCHANGED mailJobVars => WorkersOK'
         /\ UNCHANGED mailSyncVars => SyncOK'
         /\ UNCHANGED <<mailJobVars, mailSyncVars>> => PlacesOK'
         /\ UNCHANGED mailTasks => TasksOK'
         /\ UNCHANGED mailHistory => PastOK'
         /\ UNCHANGED mailOps => mailOps' \in 0..MailPageOps
BY DEF MailTypeInv, PoolOK, WorldOK, WorkersOK, SyncOK, TasksOK, PastOK, PlacesOK,
       mailJobVars, mailSyncVars, mailHistory

LEMMA MailTypesFirst == MailInit => MailTypeInv
<1> SUFFICES ASSUME MailInit PROVE MailTypeInv
  OBVIOUS
<1> USE MailAssumption
<1>1. PoolOK /\ WorldOK /\ TasksOK /\ PastOK /\ mailOps \in 0..MailPageOps
  BY DEF MailInit, PoolOK, WorldOK, TasksOK, PastOK, States
<1>2. WorkersOK
  BY DEF MailInit, WorkersOK, MailPlaces
<1>3. SyncOK
  BY DEF MailInit, SyncOK, Empty, States
<1>4. PlacesOK
  BY DEF MailInit, PlacesOK, Syncers
<1>5. QED
  BY <1>1, <1>2, <1>3, <1>4 DEF MailTypeInv

\* A worker goes somewhere, with some address and some attempt.
LEMMA WorkerMoves ==
  ASSUME MailTypeInv, NEW w \in MailWorkers, mailNext' \in 0..MailJobs,
         NEW p \in MailPlaces, mailAt' = [mailAt EXCEPT ![w] = p],
         NEW a \in MailAddrs \cup {NoAddr},
         mailAddr' = [mailAddr EXCEPT ![w] = a], p = "using" <=> a # NoAddr,
         NEW n \in 0..MailTries, mailTry' \in {mailTry, [mailTry EXCEPT ![w] = n]},
         mailSync' = mailSync, mailAt[w] # "sync"
  PROVE  WorkersOK' /\ PlacesOK'
<1>1. WorkersOK'
  BY DEF MailTypeInv, WorkersOK
<1>2. PlacesOK'
  BY DEF MailTypeInv, WorkersOK, PlacesOK
<1>3. QED
  BY <1>1, <1>2

\* A worker's own steps, apart from creating an address.
LEMMA MailTypesWorker ==
  ASSUME MailTypeInv, NEW w \in MailWorkers,
         \/ MailTake(w) \/ MailClaim(w) \/ MailFallback(w) \/ MailRetry(w) \/ MailEnd(w)
  PROVE  MailTypeInv'
<1> USE MailAssumption, MailTypesKept DEF MailTypeInv
<1>0. /\ mailNext \in 0..MailJobs /\ mailTry[w] \in 0..MailTries
      /\ mailAddr[w] \in MailAddrs \cup {NoAddr} /\ 0 \in 0..MailTries
      /\ 1 \in 0..MailTries
      /\ mailAt[w] = "using" <=> mailAddr[w] # NoAddr
      /\ mailAddr \in [MailWorkers -> MailAddrs \cup {NoAddr}]
      /\ mailAddr = [mailAddr EXCEPT ![w] = mailAddr[w]]
  BY DEF WorkersOK, PlacesOK
<1>1. CASE MailTake(w)
  <2>1. /\ mailTry' = [mailTry EXCEPT ![w] = 1] /\ mailAddr' = mailAddr
        /\ mailAt[w] = "idle" /\ mailSync' = mailSync
        /\ \E p \in {"claim", "public"} : mailAt' = [mailAt EXCEPT ![w] = p]
    BY <1>1 DEF MailTake, MailGoto, mailSyncVars
  <2>2. mailNext' = mailNext + 1 /\ mailNext < MailJobs
    BY <1>1 DEF MailTake
  <2>3. mailNext' \in 0..MailJobs
    BY <1>0, <2>2
  <2>4. WorkersOK' /\ PlacesOK'
    BY <1>0, <2>1, <2>3, WorkerMoves DEF MailPlaces
  <2>5. QED
    BY <1>1, <2>4 DEF MailTake
<1>2. CASE MailClaim(w)
  <2>1. /\ mailNext' = mailNext /\ mailTry' = mailTry /\ mailSync' = mailSync
        /\ mailAt[w] \in {"claim", "claim again"}
    BY <1>2 DEF MailClaim, mailSyncVars
  <2>2. \/ \E a \in MailAddrs : /\ mailAt' = [mailAt EXCEPT ![w] = "using"]
                                /\ mailAddr' = [mailAddr EXCEPT ![w] = a]
                                /\ mailPool' = [mailPool EXCEPT ![a] = "used"]
        \/ /\ \E p \in {"create", "fallback"} : mailAt' = [mailAt EXCEPT ![w] = p]
           /\ mailAddr' = mailAddr /\ mailPool' = mailPool
    BY <1>2 DEF MailClaim, MailGoto, Free
  <2>3. WorkersOK' /\ PlacesOK'
    BY <1>0, <2>1, <2>2, WorkerMoves DEF MailPlaces
  <2>4. PoolOK'
    BY <2>2 DEF PoolOK, States
  <2>5. QED
    BY <1>2, <2>3, <2>4 DEF MailClaim
<1>3. CASE MailFallback(w)
  <2>1. /\ mailNext' = mailNext /\ mailTry' = mailTry /\ mailSync' = mailSync
        /\ mailAt[w] = "fallback"
    BY <1>3 DEF MailFallback, mailSyncVars
  <2>2. \/ \E a \in mailLive : /\ mailAt' = [mailAt EXCEPT ![w] = "using"]
                               /\ mailAddr' = [mailAddr EXCEPT ![w] = a]
                               /\ mailOutside' = mailOutside \cup {a}
        \/ /\ mailAt' = [mailAt EXCEPT ![w] = "failed"]
           /\ mailAddr' = mailAddr /\ mailOutside' = mailOutside
    BY <1>3 DEF MailFallback, MailGoto
  <2>3. mailLive \subseteq MailAddrs
    BY DEF WorldOK
  <2>4. WorkersOK' /\ PlacesOK'
    BY <1>0, <2>1, <2>2, <2>3, WorkerMoves DEF MailPlaces
  <2>5. PastOK'
    BY <1>3, <2>2, <2>3 DEF MailFallback, PastOK
  <2>6. QED
    BY <1>3, <2>4, <2>5 DEF MailFallback
<1>4. CASE MailRetry(w)
  <2>1. /\ mailNext' = mailNext /\ mailTry[w] < MailTries
        /\ mailTry' = [mailTry EXCEPT ![w] = mailTry[w] + 1]
        /\ mailAt' = [mailAt EXCEPT ![w] = "claim"]
        /\ mailAddr' = [mailAddr EXCEPT ![w] = NoAddr]
        /\ mailAt[w] \in {"using", "failed"} /\ mailSync' = mailSync
    BY <1>4 DEF MailRetry, MailGoto, mailSyncVars
  <2>2. mailTry[w] + 1 \in 0..MailTries
    BY <1>0, <2>1
  <2>3. WorkersOK' /\ PlacesOK'
    BY <1>0, <2>1, <2>2, WorkerMoves DEF MailPlaces
  <2>4. PastOK'
    BY <1>0, <1>4 DEF MailRetry, PastOK
  <2>5. QED
    BY <1>4, <2>3, <2>4 DEF MailRetry
<1>5. CASE MailEnd(w)
  <2>1. /\ mailNext' = mailNext
        /\ mailTry' = [mailTry EXCEPT ![w] = 0]
        /\ mailAt' = [mailAt EXCEPT ![w] = "idle"]
        /\ mailAddr' = [mailAddr EXCEPT ![w] = NoAddr]
        /\ mailAt[w] \in {"using", "failed", "public"} /\ mailSync' = mailSync
    BY <1>5 DEF MailEnd, MailGoto, mailSyncVars
  <2>2. WorkersOK' /\ PlacesOK'
    BY <1>0, <2>1, WorkerMoves DEF MailPlaces
  <2>3. TasksOK'
    BY <1>0, <1>5 DEF MailEnd, TasksOK
  <2>4. QED
    BY <1>5, <2>2, <2>3 DEF MailEnd
<1>6. QED
  BY <1>1, <1>2, <1>3, <1>4, <1>5

\* A synchronisation writes an address it has read, or one it has seen listed.
LEMMA MergedType ==
  ASSUME MailTypeInv, NEW s \in Syncers
  PROVE  Merged(s) \in [MailAddrs -> States]
BY DEF MailTypeInv, SyncOK, Merged, States

LEMMA MailTypesStep == MailTypeInv /\ [MailNext]_mailVars => MailTypeInv'
<1> SUFFICES ASSUME MailTypeInv, [MailNext]_mailVars PROVE MailTypeInv'
  OBVIOUS
<1> USE MailAssumption, MailTypesKept DEF MailTypeInv
<1>1. ASSUME NEW w \in MailWorkers, MailCreate(w) PROVE MailTypeInv'
  <2>1. /\ mailAt[w] = "create" /\ UNCHANGED <<mailNext, mailAddr, mailTry>>
        /\ UNCHANGED <<mailList, mailRead>>
        /\ \/ /\ mailAt' = [mailAt EXCEPT ![w] = "sync"]
              /\ mailSync' = [mailSync EXCEPT ![w] = "list"]
           \/ /\ \E p \in {"failed", "fallback"} : mailAt' = [mailAt EXCEPT ![w] = p]
              /\ mailSync' = mailSync
    BY <1>1 DEF MailCreate, MailGoto
  <2>2. WorkersOK'
    BY <2>1 DEF WorkersOK, MailPlaces
  <2>3. SyncOK'
    BY <2>1 DEF SyncOK
  <2>4. PlacesOK'
    BY <2>1 DEF WorkersOK, PlacesOK, SyncOK, Syncers
  <2>5. WorldOK'
    BY <1>1 DEF MailCreate, WorldOK
  <2>6. QED
    BY <1>1, <2>2, <2>3, <2>4, <2>5 DEF MailCreate, mailHistory
<1>2. ASSUME NEW w \in MailWorkers,
             \/ MailTake(w) \/ MailClaim(w) \/ MailFallback(w) \/ MailRetry(w)
             \/ MailEnd(w)
      PROVE  MailTypeInv'
  BY <1>2, MailTypesWorker
<1>3. ASSUME NEW a \in MailAddrs, MailRelease(a) \/ MailDelete(a) \/ MailForget(a)
      PROVE  MailTypeInv'
  <2>1. PoolOK'
    BY <1>3 DEF MailRelease, MailDelete, MailForget, PoolOK, States
  <2>2. TasksOK'
    BY <1>3 DEF MailRelease, MailDelete, MailForget, TasksOK
  <2>3. WorldOK'
    BY <1>3 DEF MailRelease, MailDelete, MailForget, WorldOK
  <2>4. PastOK'
    BY <1>3 DEF MailRelease, MailDelete, MailForget, PastOK, mailHistory
  <2>5. QED
    BY <1>3, <2>1, <2>2, <2>3, <2>4 DEF MailRelease, MailDelete, MailForget
<1>4. ASSUME NEW s \in Syncers, SyncList(s) \/ SyncRead(s) \/ SyncWrite(s)
      PROVE  MailTypeInv'
  <2>0. mailLive \subseteq MailAddrs /\ Empty \in [MailAddrs -> States]
    BY DEF WorldOK, Empty, States
  <2>1. SyncOK'
    <3>1. CASE SyncList(s)
      BY <2>0, <3>1 DEF SyncList, SyncGoto, SyncOK
    <3>2. CASE SyncRead(s)
      BY <3>2 DEF SyncRead, SyncGoto, SyncOK, PoolOK
    <3>3. CASE SyncWrite(s)
      BY <2>0, <3>3 DEF SyncWrite, SyncGoto, SyncOK
    <3>4. QED
      BY <1>4, <3>1, <3>2, <3>3
  <2>2. PoolOK' /\ PastOK'
    <3>1. Merged(s) \in [MailAddrs -> States]
      BY MergedType
    <3>2. QED
      BY <1>4, <3>1 DEF SyncList, SyncRead, SyncWrite, PoolOK, PastOK, mailHistory
  <2>3. /\ mailSync[s] # "idle" /\ UNCHANGED <<mailNext, mailAddr, mailTry>>
        /\ \E p \in {"idle", "read", "write"} : mailSync' = [mailSync EXCEPT ![s] = p]
        /\ \/ mailAt' = mailAt /\ (s # Page => mailSync'[s] # "idle")
           \/ /\ s # Page /\ mailSync' = [mailSync EXCEPT ![s] = "idle"]
              /\ \E p \in {"fallback", "claim again"} : mailAt' = [mailAt EXCEPT ![s] = p]
    BY <1>4 DEF SyncList, SyncRead, SyncWrite, SyncGoto, mailJobVars, SyncOK
  <2>4. s # Page => s \in MailWorkers
    BY DEF Syncers
  <2>5. WorkersOK'
    BY <2>3, <2>4 DEF WorkersOK, MailPlaces
  <2>6. PlacesOK'
    BY <2>3, <2>4 DEF WorkersOK, PlacesOK, SyncOK, Syncers
  <2>7. QED
    BY <1>4, <2>1, <2>2, <2>5, <2>6 DEF SyncList, SyncRead, SyncWrite
<1>5. CASE PageSync
  <2>1. mailOps' \in 0..MailPageOps
    BY <1>5 DEF PageSync
  <2>2. SyncOK' /\ PlacesOK'
    BY <1>5 DEF PageSync, SyncGoto, SyncOK, PlacesOK, Syncers, mailJobVars
  <2>3. QED
    BY <1>5, <2>1, <2>2 DEF PageSync
<1>6. CASE ResetPool
  <2>1. mailOps' \in 0..MailPageOps
    BY <1>6 DEF ResetPool
  <2>2. PoolOK' /\ PastOK'
    BY <1>6 DEF ResetPool, PoolOK, PastOK, Empty, States
  <2>3. QED
    BY <1>6, <2>1, <2>2 DEF ResetPool
<1>7. CASE UNCHANGED mailVars
  BY <1>7 DEF mailVars
<1>8. QED
  BY <1>1, <1>2, <1>3, <1>4, <1>5, <1>6, <1>7 DEF MailNext

\* Type correctness: whatever overlaps, the pool, the workers and what is left to do
\* (icloud.go, icloud_email.go) keep their types, and a worker holds an address
\* only while it uses one.
THEOREM MailTypeCorrect == MailSpec => []MailTypeOK
<1>1. MailSpec => []MailTypeInv
  BY MailTypesFirst, MailTypesStep, PTL DEF MailSpec
<1>2. QED
  BY <1>1, MailTypesOfInv, PTL

-----------------------------------------------------------------------------
(* Whose an address is                                                     *)

Excused == mailUndone \cup mailOutside

\* What is free belongs to nobody, and at most one goroutine is to deal with an
\* address, unless a history excuses it.
FreeIsNobodys ==
  \A a \in MailHeld \cup MailWaiting : mailPool[a] = "available" => a \in Excused
OneTaskEach ==
  \A t, u \in mailTasks : t # u /\ t[2] = u[2] => t[2] \in Excused

\* Addresses are one's own and none is lost, while free ones are nobody's and
\* no address waits for two tasks.
MailOwned == MailboxesAreOwn /\ UsedIsAccounted
MailInv == MailTypeInv /\ MailOwned /\ FreeIsNobodys /\ OneTaskEach

LEMMA MailSoundFirst == MailInit => MailInv
<1> SUFFICES ASSUME MailInit PROVE MailInv
  OBVIOUS
<1>1. MailTypeInv
  BY MailTypesFirst
<1>2. MailHeld = {} /\ MailWaiting = {}
  BY DEF MailInit, MailHeld, MailWaiting
<1>3. MailOwned /\ FreeIsNobodys /\ OneTaskEach
  BY <1>2, MailAssumption DEF MailInit, MailOwned, MailboxesAreOwn, UsedIsAccounted,
     FreeIsNobodys, OneTaskEach
<1>4. QED
  BY <1>1, <1>3 DEF MailInv

\* Steps that give no address to a worker.
LEMMA HeldBy ==
  ASSUME MailTypeInv, NEW w \in MailWorkers,
         NEW a \in MailAddrs \cup {NoAddr}, mailAddr' = [mailAddr EXCEPT ![w] = a]
  PROVE  /\ MailHeld' \subseteq (MailHeld \cup {a}) \ {NoAddr}
         /\ MailHeld \ {mailAddr[w]} \subseteq MailHeld'
         /\ a # NoAddr => a \in MailHeld'
         /\ MailHeld \subseteq MailAddrs
BY DEF MailTypeInv, WorkersOK, MailHeld

\* A worker gets a free address, or one from the platform.
LEMMA MailSoundTakes ==
  ASSUME MailInv, NEW w \in MailWorkers, MailClaim(w) \/ MailFallback(w)
  PROVE  MailOwned' /\ FreeIsNobodys' /\ OneTaskEach'
<1> USE DEF MailInv
<1>0. /\ mailAddr \in [MailWorkers -> MailAddrs \cup {NoAddr}]
      /\ mailPool \in [MailAddrs -> States] /\ mailLive \subseteq MailAddrs
      /\ mailTasks' = mailTasks /\ MailWaiting' = MailWaiting
      /\ MailWaiting \subseteq MailAddrs
      /\ mailAt[w] # "using" /\ mailAddr[w] = NoAddr
  BY DEF MailTypeInv, WorkersOK, PoolOK, WorldOK, TasksOK, PlacesOK, MailWaiting,
         MailClaim, MailFallback, States
<1>1. CASE mailAddr' = mailAddr
  <2>1. mailPool' = mailPool /\ Excused' = Excused /\ mailLeft' = mailLeft
        /\ MailHeld' = MailHeld
    BY <1>0, <1>1, MailAssumption DEF MailClaim, MailFallback, Free, Excused, MailHeld,
       mailHistory
  <2>2. QED
    BY <1>0, <1>1, <2>1 DEF MailOwned, MailboxesAreOwn, UsedIsAccounted, FreeIsNobodys,
       OneTaskEach, Excused
<1>2. CASE mailAddr' # mailAddr
  <2>1. PICK a \in MailAddrs :
          /\ mailAddr' = [mailAddr EXCEPT ![w] = a]
          /\ \/ /\ mailPool[a] = "available" /\ mailPool' = [mailPool EXCEPT ![a] = "used"]
                /\ Excused' = Excused
             \/ mailPool' = mailPool /\ Excused' = Excused \cup {a}
          /\ mailLeft' = mailLeft
    BY <1>0, <1>2 DEF MailClaim, MailFallback, Free, Excused, mailHistory
  <2>2. a # NoAddr /\ Excused \subseteq Excused'
    BY <2>1, MailAssumption
  <2>3. a \in MailHeld \cup MailWaiting => a \in Excused'
    BY <2>1 DEF FreeIsNobodys
  <2>4. /\ MailHeld' \subseteq MailHeld \cup {a} /\ MailHeld \subseteq MailHeld'
        /\ a \in MailHeld'
    BY <1>0, <2>1, <2>2, HeldBy DEF MailHeld
  <2>5. MailboxesAreOwn'
    <3>1. ASSUME NEW u \in MailWorkers, NEW v \in MailWorkers, u # v,
                 mailAddr'[u] = mailAddr'[v], mailAddr'[u] # NoAddr
          PROVE  mailAddr'[u] \in Excused'
      <4>1. CASE u # w /\ v # w
        BY <1>0, <2>1, <2>2, <3>1, <4>1 DEF MailOwned, MailboxesAreOwn, Excused
      <4>2. CASE u = w \/ v = w
        <5>1. mailAddr'[u] = a /\ a \in MailHeld
          BY <1>0, <2>1, <2>2, <3>1, <4>2 DEF MailHeld
        <5>2. QED
          BY <2>3, <5>1
      <4>3. QED
        BY <4>1, <4>2
    <3>2. MailHeld' \cap MailWaiting' \subseteq Excused'
      BY <1>0, <2>2, <2>3, <2>4 DEF MailOwned, MailboxesAreOwn, Excused
    <3>3. QED
      BY <3>1, <3>2 DEF MailboxesAreOwn, Excused
  <2>6. UsedIsAccounted'
    BY <1>0, <2>1, <2>4 DEF MailOwned, UsedIsAccounted
  <2>7. FreeIsNobodys'
    <3>1. MailHeld \subseteq MailAddrs
      BY <1>0 DEF MailHeld
    <3>2. ASSUME NEW b \in MailHeld' \cup MailWaiting', mailPool'[b] = "available"
          PROVE  b \in Excused'
      <4>1. CASE b = a
        BY <1>0, <2>1, <3>2, <4>1
      <4>2. CASE b # a
        <5>1. b \in MailHeld \cup MailWaiting /\ mailPool[b] = "available"
          BY <1>0, <2>1, <2>4, <3>1, <3>2, <4>2
        <5>2. QED
          BY <2>2, <5>1 DEF FreeIsNobodys
      <4>3. QED
        BY <4>1, <4>2
    <3>3. QED
      BY <3>2 DEF FreeIsNobodys
  <2>8. OneTaskEach'
    BY <1>0, <2>2 DEF OneTaskEach
  <2>9. QED
    BY <2>5, <2>6, <2>7, <2>8 DEF MailOwned
<1>3. QED
  BY <1>1, <1>2

\* An attempt ends, by another one or by the end of the job.
LEMMA MailSoundEnds ==
  ASSUME MailInv, NEW w \in MailWorkers, MailRetry(w) \/ MailEnd(w)
  PROVE  MailOwned' /\ FreeIsNobodys' /\ OneTaskEach'
<1> USE DEF MailInv
<1>0. /\ mailAddr \in [MailWorkers -> MailAddrs \cup {NoAddr}]
      /\ mailTasks \subseteq ({"release", "delete", "forget"} \X MailAddrs)
      /\ mailAt[w] = "using" <=> mailAddr[w] # NoAddr
      /\ mailAddr' = [mailAddr EXCEPT ![w] = NoAddr]
      /\ mailPool' = mailPool /\ Excused' = Excused
  BY DEF MailTypeInv, WorkersOK, TasksOK, PlacesOK, MailRetry, MailEnd, Excused,
         mailHistory
<1>1. /\ MailHeld' \subseteq MailHeld /\ MailHeld \ {mailAddr[w]} \subseteq MailHeld'
      /\ mailAddr[w] # NoAddr => mailAddr[w] \in MailHeld
  BY <1>0, HeldBy DEF MailHeld
<1>2. mailAddr[w] \in MailHeld' => mailAddr[w] \in Excused
  BY <1>0, MailAssumption DEF MailHeld, MailOwned, MailboxesAreOwn, Excused
<1>3. \A u, v \in MailWorkers :
        u # v /\ mailAddr'[u] = mailAddr'[v] /\ mailAddr'[u] # NoAddr
          => mailAddr'[u] \in Excused'
  BY <1>0 DEF MailOwned, MailboxesAreOwn, Excused
<1>4. CASE MailRetry(w)
  <2>1. mailTasks' = mailTasks /\ MailWaiting' = MailWaiting
        /\ mailLeft' = mailLeft \cup ({mailAddr[w]} \ {NoAddr})
    BY <1>4 DEF MailRetry, MailWaiting
  <2>2. MailHeld \subseteq MailHeld' \cup mailLeft'
    BY <1>0, <1>1, <2>1 DEF MailHeld
  <2>3. QED
    BY <1>0, <1>1, <1>3, <2>1, <2>2 DEF MailOwned, MailboxesAreOwn, UsedIsAccounted,
       FreeIsNobodys, OneTaskEach, Excused
<1>5. CASE MailEnd(w)
  <2>1. mailLeft' = mailLeft
    BY <1>5 DEF MailEnd, mailHistory
  <2>2. CASE mailAddr[w] = NoAddr
    <3>1. mailTasks' = mailTasks /\ MailWaiting' = MailWaiting /\ MailHeld' = MailHeld
      BY <1>0, <1>1, <1>5, <2>2 DEF MailEnd, MailWaiting, MailHeld
    <3>2. QED
      BY <1>0, <1>3, <2>1, <3>1 DEF MailOwned, MailboxesAreOwn, UsedIsAccounted,
         FreeIsNobodys, OneTaskEach, Excused
  <2>3. CASE mailAddr[w] # NoAddr
    <3>1. PICK what \in {"release", "delete"} :
            mailTasks' = mailTasks \cup {<<what, mailAddr[w]>>}
      BY <1>0, <1>5, <2>3 DEF MailEnd
    <3>2. MailWaiting' = MailWaiting \cup {mailAddr[w]}
      <4>1. <<what, mailAddr[w]>>[2] = mailAddr[w]
        OBVIOUS
      <4>2. QED
        BY <3>1, <4>1 DEF MailWaiting
    <3>3. mailAddr[w] \in MailWaiting => mailAddr[w] \in Excused
      BY <1>1, <2>3 DEF MailOwned, MailboxesAreOwn, Excused
    <3>4. MailboxesAreOwn'
      BY <1>0, <1>1, <1>2, <1>3, <3>2 DEF MailOwned, MailboxesAreOwn, Excused
    <3>5. UsedIsAccounted'
      BY <1>0, <1>1, <2>1, <3>2 DEF MailOwned, UsedIsAccounted
    <3>6. FreeIsNobodys'
      BY <1>0, <1>1, <2>3, <3>2 DEF FreeIsNobodys
    <3>7. OneTaskEach'
      <4>1. ASSUME NEW t \in mailTasks', NEW u \in mailTasks', t # u, t[2] = u[2]
            PROVE  t[2] \in Excused
        <5>1. CASE t \in mailTasks /\ u \in mailTasks
          BY <4>1, <5>1 DEF OneTaskEach
        <5>2. CASE ~(t \in mailTasks /\ u \in mailTasks)
          <6>1. t[2] = mailAddr[w] /\ t[2] \in MailWaiting
            BY <3>1, <4>1, <5>2 DEF MailWaiting
          <6>2. QED
            BY <3>3, <6>1
        <5>3. QED
          BY <5>1, <5>2
      <4>2. QED
        BY <1>0, <4>1 DEF OneTaskEach
    <3>8. QED
      BY <3>4, <3>5, <3>6, <3>7 DEF MailOwned
  <2>4. QED
    BY <2>2, <2>3
<1>6. QED
  BY <1>4, <1>5

\* A goroutine deals with the address of a result: its task t is done, with more
\* to do or not.
TaskDone(a, t, more) ==
  /\ t[2] = a /\ mailTasks' = (mailTasks \ {t}) \cup more
  /\ \/ mailPool' = mailPool /\ more # {} /\ mailLeft' = mailLeft
     \/ mailPool' = mailPool /\ mailLeft' = mailLeft \cup {a}
     \/ /\ mailPool' = [mailPool EXCEPT ![a] = "available"] /\ mailLeft' = mailLeft
        /\ more = {}
     \/ mailPool' = [mailPool EXCEPT ![a] = "absent"] /\ mailLeft' = mailLeft
     \/ mailPool' = mailPool /\ mailPool[a] = "absent" /\ mailLeft' = mailLeft

LEMMA MailSoundTasks ==
  ASSUME MailInv, NEW a \in MailAddrs, MailRelease(a) \/ MailDelete(a) \/ MailForget(a)
  PROVE  MailOwned' /\ FreeIsNobodys' /\ OneTaskEach'
<1> USE DEF MailInv
<1>0. /\ mailPool \in [MailAddrs -> States] /\ mailAddr' = mailAddr
      /\ mailTasks \subseteq ({"release", "delete", "forget"} \X MailAddrs)
      /\ MailHeld' = MailHeld /\ Excused' = Excused /\ MailHeld \subseteq MailAddrs
      /\ mailAddr \in [MailWorkers -> MailAddrs \cup {NoAddr}]
  BY DEF MailTypeInv, PoolOK, TasksOK, MailRelease, MailDelete, MailForget, MailHeld,
         mailJobVars, mailHistory, Excused, WorkersOK
<1>1. \E t \in mailTasks, more \in SUBSET {<<"forget", a>>} : TaskDone(a, t, more)
  <2>0. /\ \A what : <<what, a>>[2] = a /\ {} \in SUBSET {<<"forget", a>>}
        /\ {<<"forget", a>>} \in SUBSET {<<"forget", a>>} /\ {<<"forget", a>>} # {}
        /\ \A t : (mailTasks \ {t}) \cup {} = mailTasks \ {t}
    OBVIOUS
  <2>1. CASE MailRelease(a)
    <3>1. /\ <<"release", a>> \in mailTasks /\ mailLeft' = mailLeft
          /\ mailTasks' = mailTasks \ {<<"release", a>>}
          /\ \/ mailPool' = mailPool /\ mailPool[a] = "absent"
             \/ mailPool' = [mailPool EXCEPT ![a] = "available"]
      BY <2>1 DEF MailRelease, mailHistory
    <3>2. QED
      BY <2>0, <3>1, Zenon DEF TaskDone
  <2>2. CASE MailDelete(a)
    <3>1. /\ <<"delete", a>> \in mailTasks /\ mailPool' = mailPool
          /\ \/ /\ mailTasks' = mailTasks \ {<<"delete", a>>}
                /\ mailLeft' = mailLeft \cup {a}
             \/ /\ mailTasks' = (mailTasks \ {<<"delete", a>>}) \cup {<<"forget", a>>}
                /\ mailLeft' = mailLeft
      BY <2>2 DEF MailDelete
    <3>2. QED
      BY <2>0, <3>1, Zenon DEF TaskDone
  <2>3. CASE MailForget(a)
    <3>1. /\ <<"forget", a>> \in mailTasks /\ mailLeft' = mailLeft
          /\ mailTasks' = mailTasks \ {<<"forget", a>>}
          /\ mailPool' = [mailPool EXCEPT ![a] = "absent"]
      BY <2>3 DEF MailForget, mailHistory
    <3>2. QED
      BY <2>0, <3>1, Zenon DEF TaskDone
  <2>4. QED
    BY <2>1, <2>2, <2>3
<1>2. PICK t \in mailTasks, more \in SUBSET {<<"forget", a>>} : TaskDone(a, t, more)
  BY <1>1
<1>3. /\ a \in MailWaiting /\ MailWaiting' \subseteq MailWaiting
      /\ MailWaiting \ {a} \subseteq MailWaiting' /\ (more # {} => a \in MailWaiting')
  BY <1>2 DEF MailWaiting, TaskDone
<1>4. a \in MailHeld => a \in Excused
  BY <1>3 DEF MailOwned, MailboxesAreOwn, Excused
<1>5. more = {} /\ a \in MailWaiting' => a \in Excused
  BY <1>2 DEF MailWaiting, OneTaskEach, TaskDone
<1>6. MailboxesAreOwn'
  BY <1>0, <1>3 DEF MailOwned, MailboxesAreOwn, Excused
<1>7. UsedIsAccounted'
  <2>1. ASSUME NEW b \in MailAddrs, mailPool'[b] = "used"
        PROVE  b \in MailHeld \cup MailWaiting' \cup mailLeft'
    <3>1. mailPool[b] = "used" /\ (b = a => more # {} \/ a \in mailLeft')
      BY <1>0, <1>2, <2>1 DEF States, TaskDone
    <3>2. b \in MailHeld \cup MailWaiting \cup mailLeft
      BY <3>1 DEF MailOwned, UsedIsAccounted
    <3>3. QED
      BY <1>2, <1>3, <3>1, <3>2 DEF TaskDone
  <2>2. QED
    BY <1>0, <2>1 DEF UsedIsAccounted
<1>8. FreeIsNobodys'
  <2>1. MailWaiting \subseteq MailAddrs
    BY <1>0 DEF MailWaiting
  <2>2. ASSUME NEW b \in MailHeld \cup MailWaiting', mailPool'[b] = "available"
        PROVE  b \in Excused
    <3>1. CASE mailPool[b] = "available"
      BY <1>3, <2>2, <3>1 DEF FreeIsNobodys
    <3>2. CASE mailPool[b] # "available"
      <4>1. b = a /\ more = {}
        BY <1>0, <1>2, <1>3, <2>1, <2>2, <3>2 DEF States, TaskDone
      <4>2. QED
        BY <1>4, <1>5, <2>2, <4>1
    <3>3. QED
      BY <3>1, <3>2
  <2>3. QED
    BY <1>0, <2>2 DEF FreeIsNobodys
<1>9. OneTaskEach'
  <2>1. ASSUME NEW u \in mailTasks', NEW v \in mailTasks', u # v, u[2] = v[2]
        PROVE  u[2] \in Excused
    <3>1. CASE u \in mailTasks /\ v \in mailTasks
      BY <2>1, <3>1 DEF OneTaskEach
    <3>2. CASE ~(u \in mailTasks /\ v \in mailTasks)
      <4>1. u[2] = a /\ \E x \in mailTasks : x # t /\ x[2] = a
        BY <1>2, <2>1, <3>2 DEF TaskDone
      <4>2. QED
        BY <1>2, <4>1 DEF OneTaskEach, TaskDone
    <3>3. QED
      BY <3>1, <3>2
  <2>2. QED
    BY <1>0, <2>1 DEF OneTaskEach
<1>10. QED
  BY <1>6, <1>7, <1>8, <1>9 DEF MailOwned

\* The whole pool is written, by a synchronisation or a reset.
LEMMA MailSoundWrites ==
  ASSUME MailInv, (\E s \in Syncers : SyncWrite(s)) \/ ResetPool
  PROVE  MailOwned' /\ FreeIsNobodys' /\ OneTaskEach'
<1> USE DEF MailInv
<1>0. /\ mailAddr' = mailAddr /\ mailTasks' = mailTasks
      /\ MailHeld' = MailHeld /\ MailWaiting' = MailWaiting
      /\ MailHeld \cup MailWaiting \subseteq MailAddrs
      /\ Excused \subseteq Excused' /\ mailLeft \subseteq mailLeft'
  BY DEF MailTypeInv, WorkersOK, TasksOK, SyncWrite, ResetPool, mailJobVars,
         MailHeld, MailWaiting, Excused
<1>1. \A a \in MailAddrs :
        /\ mailPool'[a] = "available" => mailPool[a] = "available" \/ a \in Excused'
        /\ mailPool'[a] = "used" => mailPool[a] = "used" \/ a \in mailLeft'
  <2>1. ASSUME NEW s \in Syncers, SyncWrite(s), NEW a \in MailAddrs
        PROVE  /\ mailPool'[a] = "available" => mailPool[a] = "available" \/ a \in Excused'
               /\ mailPool'[a] = "used" => mailPool[a] = "used" \/ a \in mailLeft'
    BY <2>1 DEF SyncWrite, Excused
  <2>2. ASSUME ResetPool, NEW a \in MailAddrs PROVE mailPool'[a] = "absent"
    BY <2>2 DEF ResetPool, Empty
  <2>3. QED
    BY <2>1, <2>2
<1>2. MailboxesAreOwn' /\ UsedIsAccounted'
  BY <1>0, <1>1 DEF MailOwned, MailboxesAreOwn, UsedIsAccounted, Excused
<1>3. FreeIsNobodys' /\ OneTaskEach'
  BY <1>0, <1>1 DEF FreeIsNobodys, OneTaskEach
<1>4. QED
  BY <1>2, <1>3 DEF MailOwned

\* The other steps change neither the pool nor who holds what.
LEMMA MailSoundElse ==
  ASSUME MailInv, UNCHANGED <<mailPool, mailAddr, mailTasks, mailHistory>>
  PROVE  MailOwned' /\ FreeIsNobodys' /\ OneTaskEach'
BY DEF MailInv, MailOwned, MailboxesAreOwn, UsedIsAccounted, FreeIsNobodys, OneTaskEach,
       MailHeld, MailWaiting, Excused, mailHistory

LEMMA MailSoundStep == MailInv /\ [MailNext]_mailVars => MailInv'
<1> SUFFICES ASSUME MailInv, [MailNext]_mailVars PROVE MailInv'
  OBVIOUS
<1>1. MailTypeInv'
  BY MailTypesStep DEF MailInv
<1>2. MailOwned' /\ FreeIsNobodys' /\ OneTaskEach'
  <2>1. ASSUME NEW w \in MailWorkers, MailTake(w) \/ MailCreate(w)
        PROVE  MailOwned' /\ FreeIsNobodys' /\ OneTaskEach'
    BY <2>1, MailSoundElse DEF MailTake, MailCreate
  <2>2. ASSUME NEW s \in Syncers, SyncList(s) \/ SyncRead(s)
        PROVE  MailOwned' /\ FreeIsNobodys' /\ OneTaskEach'
    BY <2>2, MailSoundElse DEF SyncList, SyncRead, mailJobVars
  <2>3. CASE PageSync
    BY <2>3, MailSoundElse DEF PageSync, mailJobVars
  <2>4. CASE UNCHANGED mailVars
    BY <2>4, MailSoundElse DEF mailVars, mailJobVars
  <2>5. QED
    BY <2>1, <2>2, <2>3, <2>4, MailSoundTakes, MailSoundEnds, MailSoundTasks,
       MailSoundWrites DEF MailNext
<1>3. QED
  BY <1>1, <1>2 DEF MailInv

\* Whatever jobs, goroutines, synchronisations and resets overlap, no address is
\* shared but those an overlapping write or the platform handed out twice, and no
\* address is lost but those that were left behind (icloud.go, icloud_email.go).
THEOREM MailboxesAreSound == MailSpec => []MailSound
<1>1. MailSpec => []MailInv
  BY MailSoundFirst, MailSoundStep, PTL DEF MailSpec
<1>2. MailInv => MailSound
  BY MailTypesOfInv DEF MailInv, MailOwned, MailSound
<1>3. QED
  BY <1>1, <1>2, PTL

-----------------------------------------------------------------------------
(* The attempts of the workers (RegisterAttempt): the invariant            *)

AttUses == [proxy : AttProxies \cup {"none"}, page : Nat, action : Nat,
            try : 0..AttTries, solves : Nat, token : 0..AttTokens,
            verified : BOOLEAN, captchaErr : BOOLEAN, session : BOOLEAN]
AttWaits == [from : {"none", "solver", "prefetch", "ready"}, token : 0..AttTokens]
AttSlots == [proxy : AttProxies \cup {"none"}, active : BOOLEAN]
AttPres == [at : {"none", "running", "sent", "read"}, token : 0..AttTokens,
            proxy : AttProxies \cup {"none"}]
AttResults == {"none", "success", "failed", "cancelled"}

\* What belongs to one worker has its type.
AttOwnOK(w) ==
  /\ attAt[w] \in AttPlaces /\ attJob[w] \in 0..AttJobs /\ attUse[w] \in AttUses
  /\ attWait[w] \in AttWaits /\ attSlot[w] \in AttSlots /\ attPre[w] \in AttPres
  /\ attAccount[w] \in BOOLEAN /\ attResult[w] \in AttResults

\* The variables that map the workers.
AttMaps ==
  /\ attAt = [w \in AttWorkers |-> attAt[w]] /\ attJob = [w \in AttWorkers |-> attJob[w]]
  /\ attUse = [w \in AttWorkers |-> attUse[w]]
  /\ attWait = [w \in AttWorkers |-> attWait[w]]
  /\ attSlot = [w \in AttWorkers |-> attSlot[w]]
  /\ attPre = [w \in AttWorkers |-> attPre[w]]
  /\ attAccount = [w \in AttWorkers |-> attAccount[w]]
  /\ attResult = [w \in AttWorkers |-> attResult[w]]

\* What the workers share.
AttSharedOK ==
  /\ attCache \in Nat /\ attLoader \subseteq AttWorkers /\ attSite \in Nat
  /\ attMade \in 0..AttTokens /\ attPosted \in [1..AttTokens -> Nat]
  /\ attCancelled \in BOOLEAN

\* Before its submissions a job has tried nothing, and each of them leaves a try;
\* without captchas there are no tokens.
Tries(w) ==
  /\ attUse[w].solves <= AttTries
  /\ attAt[w] \in {"solving", "slot", "post", "redirect"} => attUse[w].try < AttTries
  /\ attAt[w] \in {"idle", "init", "page", "cold", "scan", "email", "captcha", "send",
                   "otp", "verify", "collect"} => attUse[w].try = 0
  /\ ~ AttCaptcha => attUse[w].token = 0 /\ attAt[w] # "solving"

\* Who waits for a prefetched captcha took it from the slot, and its goroutine,
\* solving for the same proxy, has not been read; an active slot has such a goroutine.
Served(w) ==
  /\ AttCaptcha /\ attAt[w] \in {"send", "otp", "verify", "collect"} =>
       attWait[w].from # "none"
  /\ ~ AttCaptcha => attWait[w].from = "none"
  /\ attWait[w].from = "prefetch" =>
       /\ attAt[w] \in {"send", "otp", "verify", "collect"} /\ ~ attSlot[w].active
       /\ attPre[w].at \in {"running", "sent"} /\ attPre[w].proxy = attUse[w].proxy
  /\ attSlot[w].active =>
       attPre[w].at \in {"running", "sent"} /\ attPre[w].proxy = attSlot[w].proxy

\* From the answer of the site on, account and verified address are there.
Registered(w) ==
  /\ attAt[w] \in {"redirect", "session"} => attAccount[w] /\ attUse[w].verified
  /\ attAt[w] = "session" => attUse[w].session
  /\ attResult[w] # "none" => attAt[w] = "idle"
  /\ attResult[w] = "success" =>
       attAccount[w] /\ attUse[w].verified /\ attUse[w].session

\* The token a job is about to submit, or 0, and those on their way to it.
Fresh(w) == \/ attAt[w] \in {"slot", "post"}
            \/ attAt[w] = "try" /\ attUse[w].try = 0
InHand(w) == IF Fresh(w) THEN attUse[w].token ELSE 0
Held(w) == {InHand(w), attWait[w].token, attPre[w].token}
Apart(w) == /\ InHand(w) # 0 => InHand(w) # attWait[w].token /\ InHand(w) # attPre[w].token
            /\ attWait[w].token # 0 => attWait[w].token # attPre[w].token

\* A token is held once, and has not been submitted while it is held.
TokensApart ==
  /\ \A w \in AttWorkers :
       /\ Apart(w)
       /\ \A t \in Held(w) : t <= attMade /\ (t # 0 => attPosted[t] = 0)
       /\ \A v \in AttWorkers \ {w} : Held(v) \cap Held(w) \subseteq {0}
  /\ \A t \in 1..AttTokens : attPosted[t] <= 1 /\ (t > attMade => attPosted[t] = 0)

AttOwn(w) == AttOwnOK(w) /\ Tries(w) /\ Served(w) /\ Registered(w)
AttInv == /\ AttMaps /\ AttSharedOK /\ LoaderWorks /\ TokensApart
          /\ \A w \in AttWorkers : AttOwn(w)

LEMMA AttTypesOfInv == AttInv => AttTypeOK
<1> SUFFICES ASSUME AttInv PROVE AttTypeOK
  OBVIOUS
<1>1. /\ attAt \in [AttWorkers -> AttPlaces] /\ attJob \in [AttWorkers -> 0..AttJobs]
      /\ attUse \in [AttWorkers -> AttUses] /\ attWait \in [AttWorkers -> AttWaits]
      /\ attSlot \in [AttWorkers -> AttSlots] /\ attPre \in [AttWorkers -> AttPres]
      /\ attAccount \in [AttWorkers -> BOOLEAN]
      /\ attResult \in [AttWorkers -> AttResults]
  BY DEF AttInv, AttMaps, AttOwn, AttOwnOK
<1>2. AttSharedOK
  BY DEF AttInv
<1>3. QED
  BY <1>1, <1>2, Zenon DEF AttTypeOK, AttSharedOK, AttUses, AttWaits, AttSlots, AttPres,
     AttResults

LEMMA AttSoundOfInv == AttInv => AttemptSound
<1> SUFFICES ASSUME AttInv PROVE AttemptSound
  OBVIOUS
<1>1. TokensOnce
  BY DEF AttInv, TokensApart, TokensOnce
<1>2. SolveBudget
  BY DEF AttInv, AttOwn, Tries, SolveBudget
<1>3. WaitersServed
  <2>1. \A w \in AttWorkers : attWait[w] \in AttWaits /\ Served(w)
    BY DEF AttInv, AttOwn, AttOwnOK
  <2>2. \A w \in AttWorkers : attWait[w].from \in {"none", "solver", "prefetch", "ready"}
    BY <2>1 DEF AttWaits
  <2>3. QED
    BY <2>1, <2>2 DEF Served, WaitersServed
<1>4. SuccessIsReal
  BY DEF AttInv, AttOwn, Registered, SuccessIsReal
<1>5. QED
  BY <1>1, <1>2, <1>3, <1>4, AttTypesOfInv DEF AttInv, AttemptSound

LEMMA AttFirst == AttInit => AttInv
<1> SUFFICES ASSUME AttInit PROVE AttInv
  OBVIOUS
<1> USE AttemptAssumption
<1>1. AttMaps
  BY DEF AttInit, AttMaps
<1>2. AttSharedOK
  <2>1. /\ 0 \in Nat /\ {} \subseteq AttWorkers /\ 1 \in Nat /\ 0 \in 0..AttTokens
        /\ [t \in 1..AttTokens |-> 0] \in [1..AttTokens -> Nat]
    OBVIOUS
  <2>2. QED
    BY <2>1, Zenon DEF AttInit, AttSharedOK
<1>3. ASSUME NEW w \in AttWorkers
      PROVE  /\ attAt[w] = "idle" /\ attJob[w] = 0 /\ attUse[w] = NoUse
             /\ attWait[w] = NoWait /\ attSlot[w] = NoSlot /\ attPre[w] = NoPre
             /\ attAccount[w] = FALSE /\ attResult[w] = "none"
  BY DEF AttInit
<1>4. /\ NoUse \in AttUses /\ NoWait \in AttWaits /\ NoSlot \in AttSlots
      /\ NoPre \in AttPres
  BY DEF NoUse, NoWait, NoSlot, NoPre, AttUses, AttWaits, AttSlots, AttPres
<1>5. /\ NoUse.solves = 0 /\ NoUse.try = 0 /\ NoUse.token = 0 /\ NoWait.token = 0
      /\ NoWait.from = "none" /\ NoSlot.active = FALSE /\ NoPre.token = 0
  BY DEF NoUse, NoWait, NoSlot, NoPre
<1>6. ASSUME NEW w \in AttWorkers PROVE AttOwn(w)
  <2>1. AttOwnOK(w)
    <3>1. 0 \in 0..AttJobs
      OBVIOUS
    <3>2. QED
      BY <1>3, <1>4, <3>1, Zenon DEF AttOwnOK, AttPlaces, AttResults
  <2>2. Tries(w)
    <3>1. /\ attUse[w].solves = 0 /\ attUse[w].try = 0 /\ attUse[w].token = 0
          /\ attAt[w] = "idle" /\ AttTries \in Nat
      BY <1>3, <1>5
    <3>2. QED
      BY <3>1 DEF Tries
  <2>3. Served(w)
    BY <1>3, <1>5, Zenon DEF Served
  <2>4. Registered(w)
    BY <1>3 DEF Registered
  <2>5. QED
    BY <2>1, <2>2, <2>3, <2>4 DEF AttOwn
<1>7. LoaderWorks
  BY <1>3 DEF AttInit, LoaderWorks
<1>8. TokensApart
  <2>1. \A w \in AttWorkers : Held(w) = {0} /\ Apart(w)
    BY <1>3, <1>5 DEF Held, Apart, InHand, Fresh
  <2>2. attMade = 0 /\ attPosted = [t \in 1..AttTokens |-> 0]
    BY DEF AttInit
  <2>3. QED
    BY <2>1, <2>2 DEF TokensApart
<1>9. QED
  BY <1>1, <1>2, <1>6, <1>7, <1>8 DEF AttInv

-----------------------------------------------------------------------------
(* The attempts: what a step of one worker leaves to the others            *)

\* Nothing changes for the workers other than w.
Alone(w) ==
  /\ AttMaps'
  /\ \A v \in AttWorkers \ {w} :
       /\ attAt'[v] = attAt[v] /\ attJob'[v] = attJob[v] /\ attUse'[v] = attUse[v]
       /\ attWait'[v] = attWait[v] /\ attSlot'[v] = attSlot[v] /\ attPre'[v] = attPre[v]
       /\ attAccount'[v] = attAccount[v] /\ attResult'[v] = attResult[v]

\* The steps of a worker write their maps at that worker, if at all.
LEMMA WritesAlone ==
  ASSUME AttMaps, NEW w \in AttWorkers,
         UNCHANGED attAt \/ \E x : attAt' = [attAt EXCEPT ![w] = x],
         UNCHANGED attJob \/ \E x : attJob' = [attJob EXCEPT ![w] = x],
         UNCHANGED attUse \/ \E x : attUse' = [attUse EXCEPT ![w] = x],
         UNCHANGED attWait \/ \E x : attWait' = [attWait EXCEPT ![w] = x],
         UNCHANGED attSlot \/ \E x : attSlot' = [attSlot EXCEPT ![w] = x],
         UNCHANGED attPre \/ \E x : attPre' = [attPre EXCEPT ![w] = x],
         UNCHANGED attAccount \/ \E x : attAccount' = [attAccount EXCEPT ![w] = x],
         UNCHANGED attResult \/ \E x : attResult' = [attResult EXCEPT ![w] = x]
  PROVE  Alone(w)
<1>1. ASSUME NEW f, NEW g, f = [v \in AttWorkers |-> f[v]],
             g = f \/ \E x : g = [f EXCEPT ![w] = x]
      PROVE  /\ g = [v \in AttWorkers |-> g[v]]
             /\ \A v \in AttWorkers \ {w} : g[v] = f[v]
  <2>1. CASE g = f
    BY <1>1, <2>1
  <2>2. CASE \E x : g = [f EXCEPT ![w] = x]
    BY <1>1, <2>2
  <2>3. QED
    BY <1>1, <2>1, <2>2
<1>2. /\ attAt' = [v \in AttWorkers |-> attAt'[v]]
      /\ \A v \in AttWorkers \ {w} : attAt'[v] = attAt[v]
  BY <1>1 DEF AttMaps
<1>3. /\ attJob' = [v \in AttWorkers |-> attJob'[v]]
      /\ \A v \in AttWorkers \ {w} : attJob'[v] = attJob[v]
  BY <1>1 DEF AttMaps
<1>4. /\ attUse' = [v \in AttWorkers |-> attUse'[v]]
      /\ \A v \in AttWorkers \ {w} : attUse'[v] = attUse[v]
  BY <1>1 DEF AttMaps
<1>5. /\ attWait' = [v \in AttWorkers |-> attWait'[v]]
      /\ \A v \in AttWorkers \ {w} : attWait'[v] = attWait[v]
  BY <1>1 DEF AttMaps
<1>6. /\ attSlot' = [v \in AttWorkers |-> attSlot'[v]]
      /\ \A v \in AttWorkers \ {w} : attSlot'[v] = attSlot[v]
  BY <1>1 DEF AttMaps
<1>7. /\ attPre' = [v \in AttWorkers |-> attPre'[v]]
      /\ \A v \in AttWorkers \ {w} : attPre'[v] = attPre[v]
  BY <1>1 DEF AttMaps
<1>8. /\ attAccount' = [v \in AttWorkers |-> attAccount'[v]]
      /\ \A v \in AttWorkers \ {w} : attAccount'[v] = attAccount[v]
  BY <1>1 DEF AttMaps
<1>9. /\ attResult' = [v \in AttWorkers |-> attResult'[v]]
      /\ \A v \in AttWorkers \ {w} : attResult'[v] = attResult[v]
  BY <1>1 DEF AttMaps
<1>10. QED
  BY <1>2, <1>3, <1>4, <1>5, <1>6, <1>7, <1>8, <1>9 DEF Alone, AttMaps

\* What is apart stays so if w drops or passes on its tokens, or gets the new
\* one, and submits one it held.
LEMMA TokensStep ==
  ASSUME AttInv, NEW w \in AttWorkers, Alone(w), AttOwnOK(w)', AttSharedOK',
         attMade' \in {attMade, attMade + 1}, Apart(w)',
         Held(w)' \subseteq Held(w) \cup {0}
                    \cup (IF attMade' = attMade + 1 THEN {attMade + 1} ELSE {}),
         \A t \in 1..AttTokens :
           \/ attPosted'[t] = attPosted[t]
           \/ t \in Held(w) /\ t \notin Held(w)' /\ attPosted'[t] = attPosted[t] + 1
  PROVE  TokensApart'
<1>1. /\ attMade \in Nat /\ attMade' \in Nat /\ attMade <= attMade'
      /\ \A t \in 1..AttTokens : attPosted[t] \in Nat /\ attPosted'[t] \in Nat
  BY AttemptAssumption DEF AttInv, AttSharedOK
<1>2. ASSUME NEW v \in AttWorkers \ {w} PROVE Held(v)' = Held(v) /\ (Apart(v) => Apart(v)')
  BY <1>2 DEF Alone, Held, Apart, InHand, Fresh
<1>3. ASSUME NEW v \in AttWorkers, NEW t \in Held(v)
      PROVE  t \in 0..AttTokens /\ t <= attMade
  <2>1. AttOwnOK(v)
    BY DEF AttInv, AttOwn
  <2>2. t \in 0..AttTokens
    BY <2>1, <1>3, AttemptAssumption DEF Held, InHand, AttOwnOK, AttUses, AttWaits, AttPres
  <2>3. QED
    BY <2>2, <1>3 DEF AttInv, TokensApart
<1>4. ASSUME NEW t \in Held(w)', t # 0
      PROVE  /\ t <= attMade' /\ attPosted'[t] = 0
             /\ \A v \in AttWorkers \ {w} : t \notin Held(v)
  <2>1. t \in 0..AttTokens
    BY AttemptAssumption
    DEF Held, InHand, AttOwnOK, AttUses, AttWaits, AttPres
  <2>2. t \in 1..AttTokens /\ attPosted'[t] = attPosted[t]
    BY <1>4, <2>1
  <2>3. CASE t \in Held(w)
    <3>1. t <= attMade /\ attPosted[t] = 0
      BY <1>4, <2>3 DEF AttInv, TokensApart
    <3>2. \A v \in AttWorkers \ {w} : t \notin Held(v)
      BY <1>4, <2>3 DEF AttInv, TokensApart
    <3>3. QED
      BY <1>1, <2>2, <3>1, <3>2
  <2>4. CASE t = attMade + 1 /\ attMade' = attMade + 1
    <3>1. attPosted[t] = 0
      BY <1>1, <2>2, <2>4 DEF AttInv, TokensApart
    <3>2. \A v \in AttWorkers : t \notin Held(v)
      BY <1>1, <1>3, <2>4
    <3>3. QED
      BY <1>1, <2>2, <2>4, <3>1, <3>2
  <2>5. QED
    BY <1>4, <2>3, <2>4
<1>5. ASSUME NEW v \in AttWorkers \ {w}, NEW t \in Held(v), t # 0
      PROVE  t <= attMade' /\ attPosted'[t] = 0
  <2>1. t <= attMade /\ attPosted[t] = 0 /\ t \notin Held(w) /\ t \in 1..AttTokens
    BY <1>3, <1>5 DEF AttInv, TokensApart
  <2>2. QED
    BY <1>1, <2>1
<1>6. ASSUME NEW t \in 1..AttTokens
      PROVE  attPosted'[t] <= 1 /\ (t > attMade' => attPosted'[t] = 0)
  <2>1. attPosted[t] <= 1 /\ (t > attMade => attPosted[t] = 0)
    BY DEF AttInv, TokensApart
  <2>2. CASE attPosted'[t] = attPosted[t]
    BY <1>1, <2>1, <2>2
  <2>3. CASE t \in Held(w) /\ attPosted'[t] = attPosted[t] + 1
    <3>1. attPosted[t] = 0 /\ t <= attMade
      BY <2>3 DEF AttInv, TokensApart
    <3>2. QED
      BY <1>1, <2>3, <3>1
  <2>4. QED
    BY <2>2, <2>3
<1>7. ASSUME NEW v \in AttWorkers PROVE Apart(v)'
  BY <1>2 DEF AttInv, TokensApart
<1>8. ASSUME NEW v \in AttWorkers, NEW t \in Held(v)'
      PROVE  t <= attMade' /\ (t # 0 => attPosted'[t] = 0)
  <2>1. CASE t = 0
    BY <1>1, <2>1
  <2>2. CASE t # 0 /\ v = w
    BY <1>4, <1>8, <2>2
  <2>3. CASE t # 0 /\ v # w
    BY <1>2, <1>5, <1>8, <2>3
  <2>4. QED
    BY <2>1, <2>2, <2>3
<1>9. ASSUME NEW u \in AttWorkers, NEW v \in AttWorkers \ {u}
      PROVE  Held(v)' \cap Held(u)' \subseteq {0}
  <2>1. CASE u = w
    BY <1>2, <1>4, <2>1
  <2>2. CASE v = w
    BY <1>2, <1>4, <2>2
  <2>3. CASE u # w /\ v # w
    BY <1>2, <2>3 DEF AttInv, TokensApart
  <2>4. QED
    BY <2>1, <2>2, <2>3
<1>10. QED
  BY <1>6, <1>7, <1>8, <1>9 DEF TokensApart

\* A step of w keeps the invariant if it keeps what belongs to w.
LEMMA StepOfOne ==
  ASSUME AttInv, NEW w \in AttWorkers, Alone(w), AttOwn(w)', AttSharedOK', TokensApart',
         \/ attLoader' = attLoader /\ (attAt[w] = "scan" <=> attAt'[w] = "scan")
         \/ attLoader = {} /\ attLoader' = {w} /\ attAt'[w] = "scan"
         \/ attLoader' = attLoader \ {w} /\ attAt'[w] # "scan"
  PROVE  AttInv'
<1>1. ASSUME NEW v \in AttWorkers \ {w} PROVE AttOwn(v)'
  <2>1. AttOwn(v)
    BY DEF AttInv
  <2>2. /\ attAt'[v] = attAt[v] /\ attJob'[v] = attJob[v] /\ attUse'[v] = attUse[v]
        /\ attWait'[v] = attWait[v] /\ attSlot'[v] = attSlot[v] /\ attPre'[v] = attPre[v]
        /\ attAccount'[v] = attAccount[v] /\ attResult'[v] = attResult[v]
    BY <1>1 DEF Alone
  <2>3. QED
    BY <2>1, <2>2 DEF AttOwn, AttOwnOK, Tries, Served, Registered
<1>2. LoaderWorks'
  <2>1. attLoader = {v \in AttWorkers : attAt[v] = "scan"}
    BY DEF AttInv, LoaderWorks
  <2>2. \A v \in AttWorkers \ {w} : attAt'[v] = attAt[v]
    BY DEF Alone
  <2>3. QED
    BY <2>1, <2>2 DEF LoaderWorks
<1>3. QED
  BY <1>1, <1>2 DEF AttInv, Alone

-----------------------------------------------------------------------------
(* The attempts: the steps                                                 *)

\* The ways in which a step rewrites what a job knows.
LEMMA UsesKept ==
  ASSUME NEW u \in AttUses, NEW n \in Nat, NEW t \in 0..AttTokens, NEW p \in AttProxies
  PROVE  /\ [NoUse EXCEPT !.proxy = p] \in AttUses
         /\ [NoUse EXCEPT !.verified = u.verified, !.session = u.session] \in AttUses
         /\ [u EXCEPT !.action = n] \in AttUses /\ [u EXCEPT !.page = n] \in AttUses
         /\ [u EXCEPT !.action = n, !.page = 0] \in AttUses
         /\ [u EXCEPT !.verified = TRUE] \in AttUses
         /\ [u EXCEPT !.session = TRUE] \in AttUses
         /\ [u EXCEPT !.captchaErr = TRUE] \in AttUses
         /\ [u EXCEPT !.solves = @ + 1] \in AttUses
         /\ [u EXCEPT !.solves = 1, !.token = t, !.captchaErr = t = 0] \in AttUses
         /\ [u EXCEPT !.token = t, !.captchaErr = FALSE] \in AttUses
         /\ u.try < AttTries => /\ [u EXCEPT !.try = @ + 1] \in AttUses
                                /\ [u EXCEPT !.try = @ + 1, !.captchaErr = TRUE] \in AttUses
<1> USE AttemptAssumption
<1>1. NoUse \in AttUses
  BY DEF NoUse, AttUses
<1> DEFINE bad == t = 0
<1>2. bad \in BOOLEAN
  OBVIOUS
<1> HIDE DEF bad
<1>3. [u EXCEPT !.solves = 1, !.token = t, !.captchaErr = bad] \in AttUses
  BY <1>2 DEF AttUses
<1>4. u.try < AttTries => u.try + 1 \in 0..AttTries
  BY DEF AttUses
<1>5. u.try < AttTries => /\ [u EXCEPT !.try = @ + 1] \in AttUses
                          /\ [u EXCEPT !.try = @ + 1, !.captchaErr = TRUE] \in AttUses
  BY <1>4 DEF AttUses
<1>6. /\ [NoUse EXCEPT !.proxy = p] \in AttUses
      /\ [NoUse EXCEPT !.verified = u.verified, !.session = u.session] \in AttUses
  <2>1. u.verified \in BOOLEAN /\ u.session \in BOOLEAN
    BY DEF AttUses
  <2>2. [NoUse EXCEPT !.proxy = p] \in AttUses
    BY <1>1 DEF AttUses
  <2>3. [NoUse EXCEPT !.verified = u.verified, !.session = u.session] \in AttUses
    BY <1>1, <2>1 DEF AttUses
  <2>4. QED
    BY <2>2, <2>3
<1>7. /\ [u EXCEPT !.action = n] \in AttUses /\ [u EXCEPT !.page = n] \in AttUses
      /\ [u EXCEPT !.action = n, !.page = 0] \in AttUses
      /\ [u EXCEPT !.verified = TRUE] \in AttUses
      /\ [u EXCEPT !.session = TRUE] \in AttUses
      /\ [u EXCEPT !.captchaErr = TRUE] \in AttUses
      /\ [u EXCEPT !.solves = @ + 1] \in AttUses
      /\ [u EXCEPT !.token = t, !.captchaErr = FALSE] \in AttUses
  <2>1. /\ [u EXCEPT !.action = n] \in AttUses /\ [u EXCEPT !.page = n] \in AttUses
        /\ [u EXCEPT !.action = n, !.page = 0] \in AttUses
    BY DEF AttUses
  <2>2. [u EXCEPT !.verified = TRUE] \in AttUses
    BY DEF AttUses
  <2>3. [u EXCEPT !.session = TRUE] \in AttUses
    BY DEF AttUses
  <2>4. [u EXCEPT !.captchaErr = TRUE] \in AttUses
    BY DEF AttUses
  <2>5. [u EXCEPT !.solves = @ + 1] \in AttUses
    BY DEF AttUses
  <2>6. [u EXCEPT !.token = t, !.captchaErr = FALSE] \in AttUses
    BY DEF AttUses
  <2>7. QED
    BY <2>1, <2>2, <2>3, <2>4, <2>5, <2>6
<1>8. QED
  BY <1>3, <1>5, <1>6, <1>7 DEF bad

\* The end of a job: its result is right, and it holds nothing more.
LEMMA EndOwn ==
  ASSUME AttInv, NEW w \in AttWorkers, NEW result \in AttResults, AttEnd(w, result),
         UNCHANGED <<attSlot, attPre, attAccount>>,
         result = "success" => attAt[w] = "session"
  PROVE  /\ Alone(w) /\ AttOwn(w)' /\ Apart(w)' /\ Held(w)' \subseteq Held(w) \cup {0}
         /\ attAt'[w] = "idle" /\ InHand(w)' = 0
<1>1. AttMaps /\ AttOwnOK(w) /\ Served(w) /\ Registered(w) /\ Apart(w) /\ Tries(w)
  BY DEF AttInv, AttOwn, TokensApart
<1>2. Alone(w)
  BY <1>1, WritesAlone DEF AttEnd, AttGoto, AttSet
<1>3. attUse[w] \in AttUses /\ [NoUse EXCEPT !.verified = attUse[w].verified,
                                             !.session = attUse[w].session] \in AttUses
  <2>1. attUse[w] \in AttUses
    BY <1>1 DEF AttOwnOK
  <2>2. NoUse \in AttUses
    BY AttemptAssumption DEF NoUse, AttUses
  <2>3. QED
    BY <2>1, <2>2 DEF AttUses
<1> DEFINE u == attUse'[w]
<1>4. /\ u \in AttUses /\ u.solves = 0 /\ u.try = 0 /\ u.token = 0
      /\ u.verified = attUse[w].verified /\ u.session = attUse[w].session
  <2>1. u = [NoUse EXCEPT !.verified = attUse[w].verified,
                          !.session = attUse[w].session]
    BY <1>1 DEF AttEnd, AttSet, AttMaps
  <2>2. QED
    BY <1>3, <2>1 DEF NoUse
<1> HIDE DEF u
<1>5. /\ attAt'[w] = "idle" /\ attWait'[w] = NoWait /\ attResult'[w] = result
      /\ UNCHANGED <<attJob, attSlot, attPre, attAccount>>
  BY <1>1 DEF AttEnd, AttGoto, AttMaps
<1>6. NoWait \in AttWaits /\ NoWait.from = "none" /\ NoWait.token = 0
  BY AttemptAssumption DEF NoWait, AttWaits
<1>7. AttOwnOK(w)'
  BY <1>1, <1>4, <1>5, <1>6 DEF AttOwnOK, AttPlaces, u
<1>8. Tries(w)'
  BY <1>4, <1>5, AttemptAssumption DEF Tries, u
<1>9. Served(w)'
  BY <1>1, <1>5, <1>6 DEF Served
<1>10. Registered(w)'
  BY <1>1, <1>4, <1>5 DEF Registered, u
<1>11. /\ InHand(w)' = 0 /\ attWait'[w].token = 0 /\ attPre' = attPre
  BY <1>5, <1>6 DEF InHand, Fresh
<1>12. QED
  BY <1>2, <1>5, <1>7, <1>8, <1>9, <1>10, <1>11 DEF AttOwn, Apart, Held

\* Steps that end the job.
LEMMA EndSteps ==
  ASSUME AttInv, NEW w \in AttWorkers,
         \/ AttCancelSeen(w) \/ AttStepFails(w) \/ AttFinish(w) \/ AttSession(w)
         \/ AttScan(w) /\ AttEnd(w, "failed") /\ UNCHANGED attCache
  PROVE  AttInv'
<1>1. PICK result \in AttResults :
        /\ AttEnd(w, result) /\ (result = "success" => attAt[w] = "session")
        /\ UNCHANGED <<attSlot, attPre, attMade, attSite, attPosted, attAccount,
                       attCancelled>>
        /\ attCache' \in {attCache, 0}
        /\ \/ attLoader' = attLoader /\ attAt[w] # "scan"
           \/ attLoader' = attLoader \ {w}
  BY DEF AttCancelSeen, AttStepFails, AttFinish, AttSession, AttScan, AttEnds,
     attSiteVars, attCacheVars, AttResults
<1>2. /\ Alone(w) /\ AttOwn(w)' /\ Apart(w)' /\ Held(w)' \subseteq Held(w) \cup {0}
      /\ attAt'[w] = "idle"
  BY <1>1, EndOwn
<1>3. AttSharedOK'
  BY <1>1 DEF AttInv, AttSharedOK
<1>4. TokensApart'
  BY <1>1, <1>2, <1>3, TokensStep DEF AttOwn
<1>5. QED
  BY <1>1, <1>2, <1>3, <1>4, StepOfOne

\* A step without tokens, before the submissions or after them.
LEMMA StepWithoutTokens ==
  ASSUME AttInv, NEW w \in AttWorkers, Alone(w), AttOwn(w)',
         attAt'[w] \notin {"try", "slot", "post"},
         attWait'[w].token = attWait[w].token, attPre'[w].token = attPre[w].token,
         UNCHANGED <<attMade, attPosted, attSite, attCancelled>>, attCache' \in Nat,
         \/ attLoader' = attLoader /\ (attAt[w] = "scan" <=> attAt'[w] = "scan")
         \/ attLoader = {} /\ attLoader' = {w} /\ attAt'[w] = "scan"
         \/ attLoader' = attLoader \ {w} /\ attAt'[w] # "scan"
  PROVE  AttInv'
<1>1. InHand(w)' = 0
  BY DEF InHand, Fresh
<1>2. Apart(w)' /\ Held(w)' \subseteq Held(w) \cup {0}
  BY <1>1 DEF AttInv, TokensApart, Apart, Held
<1>3. AttSharedOK'
  BY DEF AttInv, AttSharedOK
<1>4. TokensApart'
  BY <1>2, <1>3, TokensStep DEF AttOwn
<1>5. QED
  BY <1>3, <1>4, StepOfOne

Early == {"init", "page", "cold", "scan", "email", "captcha", "send", "otp", "verify",
          "collect"}

LEMMA EarlyOwn ==
  ASSUME AttInv, NEW w \in AttWorkers, attAt[w] \in Early, attAt'[w] \in Early,
         attUse'[w] \in AttUses, attUse'[w].try = attUse[w].try,
         attUse'[w].solves = attUse[w].solves, attUse'[w].token = attUse[w].token,
         attJob'[w] = attJob[w], attAccount'[w] = attAccount[w],
         attResult'[w] = attResult[w], attPre'[w] = attPre[w],
         attWait'[w] \in AttWaits, attSlot'[w] \in AttSlots, Served(w)'
  PROVE  AttOwn(w)'
<1>0. AttOwnOK(w) /\ Tries(w) /\ Registered(w)
  BY DEF AttInv, AttOwn
<1>1. AttOwnOK(w)'
  BY <1>0 DEF AttOwnOK, Early, AttPlaces
<1>2. Tries(w)'
  BY <1>0 DEF Tries, Early
<1>3. Registered(w)'
  BY <1>0 DEF Registered, Early
<1>4. QED
  BY <1>1, <1>2, <1>3 DEF AttOwn

\* The steps from the start of a job to its verified address.
LEMMA EarlySteps ==
  ASSUME AttInv, NEW w \in AttWorkers,
         \/ \E proxy \in AttProxies : AttStart(w, proxy)
         \/ AttInitConfig(w) \/ AttPage(w) \/ AttCold(w)
         \/ AttScan(w) /\ AttGoto(w, "email")
         \/ AttEmail(w) \/ AttCaptchaStart(w) \/ AttSend(w) \/ AttOTP(w) \/ AttVerify(w)
  PROVE  AttInv'
<1> DEFINE u == attUse[w]
<1>0. /\ AttMaps /\ AttSharedOK /\ AttOwnOK(w) /\ Tries(w) /\ Served(w) /\ Registered(w)
      /\ u \in AttUses
  BY DEF AttInv, AttOwn, AttOwnOK
<1>1. ASSUME NEW proxy \in AttProxies, AttStart(w, proxy) PROVE AttInv'
  <2>1. Alone(w)
    BY <1>0, <1>1, WritesAlone DEF AttStart, AttGoto, AttSet, attTokenVars
  <2>2. /\ attAt[w] = "idle" /\ attAt'[w] = "init" /\ attJob'[w] = attJob[w] + 1
        /\ attJob[w] < AttJobs /\ attUse'[w] = [NoUse EXCEPT !.proxy = proxy]
        /\ attResult'[w] = "none" /\ attAccount'[w] = FALSE
        /\ UNCHANGED <<attWait, attSlot, attPre, attMade, attSite, attPosted, attCache,
                       attLoader, attCancelled>>
    BY <1>0, <1>1 DEF AttStart, AttGoto, AttSet, attTokenVars, attCacheVars, AttMaps
  <2>3. attUse'[w] \in AttUses /\ attUse'[w].solves = 0 /\ attUse'[w].try = 0
        /\ attUse'[w].token = 0
    <3>1. /\ [NoUse EXCEPT !.proxy = proxy].solves = 0
          /\ [NoUse EXCEPT !.proxy = proxy].try = 0
          /\ [NoUse EXCEPT !.proxy = proxy].token = 0
      BY DEF NoUse
    <3>2. [NoUse EXCEPT !.proxy = proxy] \in AttUses
      <4>1. 0 \in Nat /\ 0 \in 0..AttTokens /\ u \in AttUses
        BY <1>0, AttemptAssumption
      <4>2. QED
        BY <4>1, UsesKept
    <3>3. QED
      BY <2>2, <3>1, <3>2
  <2>4. AttOwnOK(w)'
    <3>1. attJob'[w] \in 0..AttJobs
      BY <1>0, <2>2, AttemptAssumption DEF AttOwnOK
    <3>2. QED
      BY <1>0, <2>2, <2>3, <3>1, Zenon DEF AttOwnOK, AttPlaces, AttResults
  <2>5. Tries(w)' /\ Registered(w)'
    BY <2>2, <2>3, AttemptAssumption DEF Tries, Registered
  <2>6. Served(w)'
    BY <1>0, <2>2 DEF Served
  <2>7. QED
    BY <1>0, <2>1, <2>2, <2>4, <2>5, <2>6, StepWithoutTokens DEF AttOwn, AttSharedOK
<1>2. ASSUME \/ AttInitConfig(w) \/ AttPage(w) \/ AttCold(w)
             \/ AttScan(w) /\ AttGoto(w, "email")
      PROVE  AttInv'
  <2> DEFINE n == attUse'[w]
  <2>1. Alone(w)
    BY <1>0, <1>2, WritesAlone
    DEF AttInitConfig, AttPage, AttCold, AttScan, AttEnd, AttGoto, AttSet, attTokenVars,
        attSiteVars
  <2>2. /\ attAt[w] \in Early \ {"send", "otp", "verify", "collect"}
        /\ attAt'[w] \in Early \ {"send", "otp", "verify", "collect"}
        /\ UNCHANGED <<attWait, attSlot, attPre, attJob, attAccount, attResult, attMade,
                       attPosted, attSite, attCancelled>>
        /\ attCache' \in Nat
        /\ n \in {u, [u EXCEPT !.action = attCache], [u EXCEPT !.page = attSite],
                  [u EXCEPT !.action = attCache, !.page = 0],
                  [u EXCEPT !.action = u.page, !.page = 0]}
        /\ \/ attLoader' = attLoader /\ attAt[w] # "scan" /\ attAt'[w] # "scan"
           \/ attLoader = {} /\ attLoader' = {w} /\ attAt'[w] = "scan"
           \/ attLoader' = attLoader \ {w} /\ attAt'[w] # "scan"
    <3>1. CASE AttInitConfig(w)
      BY <1>0, <3>1 DEF AttInitConfig, AttGoto, AttSet, attTokenVars, attSiteVars,
         attCacheVars, AttMaps, Early, AttSharedOK
    <3>2. CASE AttPage(w)
      <4>1. u.action \in Nat
        BY <1>0 DEF AttUses
      <4>2. QED
        BY <1>0, <3>2, <4>1 DEF AttPage, AttGoto, AttSet, attTokenVars, attSiteVars,
           AttMaps, Early, AttSharedOK
    <3>3. CASE AttCold(w)
      BY <1>0, <3>3 DEF AttCold, AttGoto, AttSet, attTokenVars, attSiteVars,
         AttMaps, Early, AttSharedOK
    <3>4. CASE AttScan(w) /\ AttGoto(w, "email")
      <4>1. u.page \in Nat
        BY <1>0 DEF AttUses
      <4>2. attAt'[w] = "email"
        BY <1>0, <3>4 DEF AttGoto, AttMaps
      <4>3. ~ AttEnd(w, "failed")
        BY <1>0, <4>2 DEF AttEnd, AttGoto, AttMaps
      <4>4. QED
        BY <1>0, <3>4, <4>1, <4>2, <4>3 DEF AttScan, AttSet, attTokenVars, attSiteVars,
           AttMaps, Early, AttSharedOK
    <3>5. QED
      BY <1>2, <3>1, <3>2, <3>3, <3>4
  <2>3. attCache \in Nat /\ attSite \in Nat /\ u.page \in Nat /\ u.action \in Nat
    BY <1>0 DEF AttSharedOK, AttUses
  <2>4. /\ n \in AttUses /\ n.try = u.try /\ n.solves = u.solves /\ n.token = u.token
        /\ n.proxy = u.proxy
    <3>1. PICK x \in Nat, y \in Nat :
            n \in {u, [u EXCEPT !.action = x], [u EXCEPT !.page = x],
                   [u EXCEPT !.action = x, !.page = y]}
      <4> DEFINE r(x, y) == {u, [u EXCEPT !.action = x], [u EXCEPT !.page = x],
                             [u EXCEPT !.action = x, !.page = y]}
      <4>1. n \in r(attCache, 0) \/ n \in r(attSite, 0) \/ n \in r(u.page, 0)
        BY <2>2
      <4>2. 0 \in Nat
        OBVIOUS
      <4> HIDE DEF r, n, u
      <4>3. \E x \in Nat, y \in Nat : n \in r(x, y)
        BY <2>3, <4>1, <4>2, Zenon
      <4>4. QED
        BY <4>3 DEF r
    <3> DEFINE r == [u EXCEPT !.action = x]
               s == [u EXCEPT !.page = x]
               t == [u EXCEPT !.action = x, !.page = y]
               Good(q) == /\ q \in AttUses /\ q.try = u.try /\ q.solves = u.solves
                          /\ q.token = u.token /\ q.proxy = u.proxy
    <3>2. Good(u) /\ Good(r) /\ Good(s) /\ Good(t)
      <4> HIDE DEF u
      <4>1. Good(u)
        BY <1>0
      <4>2. Good(r)
        BY <1>0 DEF AttUses
      <4>3. Good(s)
        BY <1>0 DEF AttUses
      <4>4. Good(t)
        BY <1>0 DEF AttUses
      <4>5. QED
        BY <4>1, <4>2, <4>3, <4>4
    <3>3. n \in {u, r, s, t}
      BY <3>1
    <3> HIDE DEF n, r, s, t, u
    <3>4. QED
      BY <3>2, <3>3
  <2>5. Served(w)'
    BY <1>0, <2>2 DEF Served
  <2>6. AttOwn(w)'
    BY <1>0, <2>2, <2>4, <2>5, EarlyOwn DEF AttOwnOK
  <2>7. QED
    BY <2>1, <2>2, <2>6, StepWithoutTokens DEF Early
<1>3. ASSUME AttEmail(w) \/ AttSend(w) \/ AttOTP(w) \/ AttVerify(w) PROVE AttInv'
  <2> DEFINE n == attUse'[w]
  <2>1. Alone(w)
    BY <1>0, <1>3, WritesAlone
    DEF AttEmail, AttSend, AttOTP, AttVerify, AttStep, AttGoto, AttSet, attTokenVars,
        attSiteVars
  <2>2. /\ attAt[w] \in Early /\ attAt'[w] \in Early
        /\ attAt[w] # "scan" /\ attAt'[w] # "scan"
        /\ attAt'[w] \in {"send", "otp", "verify", "collect"} =>
             attAt[w] \in {"send", "otp", "verify", "collect"}
        /\ attAt[w] \in {"send", "otp", "verify", "collect"} =>
             attAt'[w] \in {"send", "otp", "verify", "collect"}
        /\ UNCHANGED <<attWait, attSlot, attPre, attJob, attAccount, attResult, attMade,
                       attPosted, attSite, attCancelled, attCache, attLoader>>
        /\ n \in {u, [u EXCEPT !.verified = TRUE]}
    BY <1>0, <1>3
    DEF AttEmail, AttSend, AttOTP, AttVerify, AttStep, AttGoto, AttSet, attTokenVars,
        attSiteVars, attCacheVars, AttMaps, Early
  <2>3. /\ n \in AttUses /\ n.try = u.try /\ n.solves = u.solves /\ n.token = u.token
        /\ n.proxy = u.proxy
    <3>1. ASSUME NEW r, r = [u EXCEPT !.verified = TRUE]
          PROVE  /\ r \in AttUses /\ r.try = u.try /\ r.solves = u.solves
                 /\ r.token = u.token /\ r.proxy = u.proxy
      <4> HIDE DEF u
      <4>1. r \in AttUses
        BY <1>0, <3>1 DEF AttUses
      <4>2. QED
        BY <1>0, <3>1 DEF AttUses
    <3> HIDE DEF n, u
    <3>2. n = u \/ n = [u EXCEPT !.verified = TRUE]
      BY <2>2
    <3>3. QED
      BY <1>0, <3>1, <3>2
  <2>4. Served(w)'
    BY <1>0, <2>2, <2>3 DEF Served
  <2>5. AttOwn(w)'
    BY <1>0, <2>2, <2>3, <2>4, EarlyOwn DEF AttOwnOK
  <2>6. QED
    BY <1>0, <2>1, <2>2, <2>5, StepWithoutTokens DEF Early, AttSharedOK
<1>4. ASSUME AttCaptchaStart(w) PROVE AttInv'
  <2> DEFINE wait == attWait'[w]
             slot == attSlot'[w]
  <2>1. Alone(w)
    BY <1>0, <1>4, WritesAlone
    DEF AttCaptchaStart, AttStep, AttGoto, AttSet, attSiteVars
  <2>2. /\ attAt[w] = "captcha" /\ attAt'[w] = "send"
        /\ UNCHANGED <<attUse, attPre, attJob, attAccount, attResult, attMade,
                       attPosted, attSite, attCancelled, attCache, attLoader>>
    BY <1>0, <1>4 DEF AttCaptchaStart, AttStep, AttGoto, attSiteVars, attCacheVars,
       AttMaps
  <2>3. \/ ~ AttCaptcha /\ wait = attWait[w] /\ slot = attSlot[w]
        \/ /\ AttCaptcha /\ MayTake(w)
           /\ slot = [attSlot[w] EXCEPT !.active = FALSE]
           /\ wait = [attWait[w] EXCEPT !.from = "prefetch"]
        \/ /\ AttCaptcha /\ slot = attSlot[w]
           /\ wait = [attWait[w] EXCEPT !.from = "solver"]
    BY <1>0, <1>4 DEF AttCaptchaStart, AttMaps
  <2>4. attWait[w] \in AttWaits /\ attSlot[w] \in AttSlots /\ attWait[w].from # "prefetch"
    BY <1>0, <2>2 DEF AttOwnOK, Served
  <2>5. wait \in AttWaits /\ slot \in AttSlots /\ wait.token = attWait[w].token
    BY <2>3, <2>4 DEF AttWaits, AttSlots
  <2>6. Served(w)'
    <3>1. CASE ~ AttCaptcha /\ wait = attWait[w] /\ slot = attSlot[w]
      BY <1>0, <2>2, <2>4, <3>1 DEF Served
    <3>2. CASE /\ AttCaptcha /\ MayTake(w)
               /\ slot = [attSlot[w] EXCEPT !.active = FALSE]
               /\ wait = [attWait[w] EXCEPT !.from = "prefetch"]
      <4>1. wait.from = "prefetch" /\ ~ slot.active
        BY <2>4, <3>2 DEF AttWaits, AttSlots
      <4>2. attPre[w].at \in {"running", "sent"} /\ attPre[w].proxy = attUse[w].proxy
        BY <1>0, <3>2 DEF Served, MayTake
      <4>3. QED
        BY <2>2, <3>2, <4>1, <4>2 DEF Served
    <3>3. CASE /\ AttCaptcha /\ slot = attSlot[w]
               /\ wait = [attWait[w] EXCEPT !.from = "solver"]
      <4>1. wait.from = "solver"
        BY <2>4, <3>3 DEF AttWaits
      <4>2. QED
        BY <1>0, <2>2, <3>3, <4>1 DEF Served
    <3>4. QED
      BY <2>3, <3>1, <3>2, <3>3
  <2>7. AttOwn(w)'
    BY <1>0, <2>2, <2>5, <2>6, EarlyOwn DEF Early
  <2>8. QED
    BY <1>0, <2>1, <2>2, <2>5, <2>7, StepWithoutTokens DEF AttSharedOK
<1>5. QED
  BY <1>1, <1>2, <1>3, <1>4

-----------------------------------------------------------------------------
(* The attempts: tokens, submissions and the session                       *)

\* A solve fails, or makes the next token.
LEMMA SolvedToken ==
  ASSUME AttSharedOK, NEW t \in 0..AttTokens, Solved(t)
  PROVE  /\ attMade' \in 0..AttTokens
         /\ \/ t = 0 /\ attMade' = attMade
            \/ t = attMade + 1 /\ attMade' = attMade + 1
BY AttemptAssumption DEF Solved, AttSharedOK

\* The goroutines that solve, forward and end.
LEMMA GoroutineSteps ==
  ASSUME AttInv, NEW w \in AttWorkers,
         \/ AttForward(w) \/ PreEnds(w)
         \/ \E t \in 0..AttTokens : AttSolver(w, t) \/ PreSolved(w, t)
  PROVE  AttInv'
<1> USE AttemptAssumption
<1> DEFINE wait == attWait'[w]
           slot == attSlot'[w]
           pre == attPre'[w]
<1>0. /\ AttMaps /\ AttSharedOK /\ AttOwnOK(w) /\ Tries(w) /\ Served(w) /\ Registered(w)
      /\ attWait[w] \in AttWaits /\ attSlot[w] \in AttSlots /\ attPre[w] \in AttPres
      /\ Apart(w) /\ \A t \in Held(w) : t <= attMade
  BY DEF AttInv, AttOwn, AttOwnOK, TokensApart
<1>1. Alone(w)
  BY <1>0, WritesAlone
  DEF AttForward, PreEnds, AttSolver, PreSolved, attJobVars, attSiteVars
<1>2. UNCHANGED <<attAt, attJob, attUse, attAccount, attResult, attSite, attPosted,
                  attCache, attLoader, attCancelled>>
  BY DEF AttForward, PreEnds, AttSolver, PreSolved, attJobVars, attSiteVars, attCacheVars
<1>3. SUFFICES /\ wait \in AttWaits /\ slot \in AttSlots /\ pre \in AttPres /\ Served(w)'
               /\ Apart(w)' /\ attMade' \in 0..AttTokens
               /\ attMade' \in {attMade, attMade + 1}
               /\ Held(w)' \subseteq Held(w) \cup {0}
                    \cup (IF attMade' = attMade + 1 THEN {attMade + 1} ELSE {})
  <2> HIDE DEF wait, slot, pre
  <2>1. AttOwnOK(w)'
    BY <1>0, <1>2, <1>3 DEF AttOwnOK, wait, slot, pre
  <2>2. Tries(w)' /\ Registered(w)'
    BY <1>0, <1>2 DEF Tries, Registered
  <2>3. AttSharedOK'
    BY <1>0, <1>2, <1>3 DEF AttSharedOK
  <2>4. TokensApart'
    BY <1>1, <1>2, <1>3, <2>1, <2>3, TokensStep
  <2>5. AttOwn(w)'
    BY <1>3, <2>1, <2>2 DEF AttOwn
  <2>6. QED
    BY <1>1, <1>2, <2>3, <2>4, <2>5, StepOfOne
<1>4. InHand(w)' = InHand(w) /\ InHand(w) \in Nat /\ attMade \in Nat /\ InHand(w) <= attMade
  <2>1. InHand(w)' = InHand(w)
    BY <1>2 DEF InHand, Fresh
  <2>2. InHand(w) \in Nat /\ attMade \in Nat
    BY <1>0 DEF InHand, AttOwnOK, AttUses, AttSharedOK
  <2>3. QED
    BY <1>0, <2>1, <2>2 DEF Held
<1>5. /\ attWait[w].token \in 0..AttTokens /\ attPre[w].token \in 0..AttTokens
      /\ attWait[w].token <= attMade /\ attPre[w].token <= attMade
  BY <1>0 DEF Held, AttWaits, AttPres
<1>6. CASE AttForward(w)
  <2>1. /\ attWait[w].from = "prefetch" /\ attPre[w].at = "sent"
        /\ wait = [from |-> "ready", token |-> attPre[w].token]
        /\ pre = [attPre[w] EXCEPT !.at = "read", !.token = 0]
        /\ slot = attSlot[w] /\ attMade' = attMade
    BY <1>0, <1>6 DEF AttForward, AttMaps
  <2>2. wait \in AttWaits /\ pre \in AttPres /\ wait.from = "ready"
        /\ wait.token = attPre[w].token /\ pre.token = 0
    <3>1. wait \in AttWaits /\ wait.from = "ready" /\ wait.token = attPre[w].token
      BY <1>5, <2>1 DEF AttWaits
    <3>2. pre \in AttPres /\ pre.token = 0
      <4> DEFINE old == attPre[w]
      <4>1. old \in AttPres /\ pre = [old EXCEPT !.at = "read", !.token = 0]
        BY <1>0, <2>1
      <4> HIDE DEF old, pre
      <4>2. pre \in AttPres
        <5>1. 0 \in 0..AttTokens
          OBVIOUS
        <5>2. QED
          BY <4>1, <5>1 DEF AttPres
      <4>3. pre.token = 0
        BY <4>1 DEF AttPres
      <4>4. QED
        BY <4>2, <4>3
    <3>3. QED
      BY <3>1, <3>2
  <2>3. Served(w)'
    BY <1>0, <1>2, <2>1, <2>2 DEF Served
  <2>4. Apart(w)'
    BY <1>0, <1>4, <2>2 DEF Apart
  <2>5. Held(w)' \subseteq Held(w) \cup {0}
    BY <1>4, <2>2 DEF Held
  <2>6. QED
    BY <1>0, <2>1, <2>2, <2>3, <2>4, <2>5 DEF AttSharedOK
<1>7. CASE PreEnds(w)
  <2>1. /\ slot = [attSlot[w] EXCEPT !.active = FALSE] /\ wait = attWait[w]
        /\ pre = attPre[w] /\ attMade' = attMade
    BY <1>0, <1>7 DEF PreEnds, AttMaps
  <2>2. slot \in AttSlots /\ ~ slot.active
    BY <1>0, <2>1 DEF AttSlots
  <2>3. Served(w)'
    BY <1>0, <1>2, <2>1, <2>2 DEF Served
  <2>4. Apart(w)' /\ Held(w)' \subseteq Held(w) \cup {0}
    BY <1>0, <1>4, <2>1 DEF Apart, Held
  <2>5. QED
    BY <1>0, <2>1, <2>2, <2>3, <2>4 DEF AttSharedOK
<1>8. ASSUME NEW t \in 0..AttTokens, AttSolver(w, t)
      PROVE  /\ wait \in AttWaits /\ slot \in AttSlots /\ pre \in AttPres /\ Served(w)'
             /\ Apart(w)' /\ attMade' \in 0..AttTokens
             /\ attMade' \in {attMade, attMade + 1}
             /\ Held(w)' \subseteq Held(w) \cup {0}
                  \cup (IF attMade' = attMade + 1 THEN {attMade + 1} ELSE {})
  <2>1. /\ wait = [from |-> "ready", token |-> t] /\ slot = attSlot[w] /\ pre = attPre[w]
        /\ attWait[w].from = "solver"
    BY <1>0, <1>8 DEF AttSolver, AttMaps
  <2>2. /\ attMade' \in 0..AttTokens
        /\ \/ t = 0 /\ attMade' = attMade
           \/ t = attMade + 1 /\ attMade' = attMade + 1
    BY <1>0, <1>8, SolvedToken DEF AttSolver
  <2>3. wait \in AttWaits /\ wait.from = "ready" /\ wait.token = t
    BY <2>1 DEF AttWaits
  <2>4. Served(w)'
    BY <1>0, <1>2, <2>1, <2>3 DEF Served
  <2>5. Apart(w)'
    BY <1>0, <1>4, <1>5, <2>1, <2>2, <2>3 DEF Apart
  <2>6. Held(w)' \subseteq Held(w) \cup {t}
    BY <1>4, <2>1, <2>3 DEF Held
  <2>7. QED
    BY <1>0, <2>1, <2>2, <2>3, <2>4, <2>5, <2>6
<1>9. ASSUME NEW t \in 0..AttTokens, PreSolved(w, t)
      PROVE  /\ wait \in AttWaits /\ slot \in AttSlots /\ pre \in AttPres /\ Served(w)'
             /\ Apart(w)' /\ attMade' \in 0..AttTokens
             /\ attMade' \in {attMade, attMade + 1}
             /\ Held(w)' \subseteq Held(w) \cup {0}
                  \cup (IF attMade' = attMade + 1 THEN {attMade + 1} ELSE {})
  <2>1. /\ pre = [attPre[w] EXCEPT !.at = "sent", !.token = t] /\ slot = attSlot[w]
        /\ wait = attWait[w] /\ attPre[w].at = "running"
    BY <1>0, <1>9 DEF PreSolved, AttMaps
  <2>2. /\ attMade' \in 0..AttTokens
        /\ \/ t = 0 /\ attMade' = attMade
           \/ t = attMade + 1 /\ attMade' = attMade + 1
    BY <1>0, <1>9, SolvedToken DEF PreSolved
  <2>3. /\ pre \in AttPres /\ pre.at = "sent" /\ pre.token = t
        /\ pre.proxy = attPre[w].proxy
    BY <1>0, <2>1 DEF AttPres
  <2>4. Served(w)'
    BY <1>0, <1>2, <2>1, <2>3 DEF Served
  <2>5. Apart(w)'
    BY <1>0, <1>4, <1>5, <2>1, <2>2, <2>3 DEF Apart
  <2>6. Held(w)' \subseteq Held(w) \cup {t}
    BY <1>4, <2>1, <2>3 DEF Held
  <2>7. QED
    BY <1>0, <2>1, <2>2, <2>3, <2>4, <2>5, <2>6
<1>10. QED
  BY <1>6, <1>7, <1>8, <1>9

\* What the late steps have to show of the worker they move.
LEMMA LateStep ==
  ASSUME AttInv, NEW w \in AttWorkers, Alone(w), AttOwn(w)', Apart(w)',
         attMade' \in {attMade, attMade + 1}, attMade' \in 0..AttTokens,
         Held(w)' \subseteq Held(w) \cup {0}
                    \cup (IF attMade' = attMade + 1 THEN {attMade + 1} ELSE {}),
         attAt[w] # "scan", attAt'[w] # "scan",
         UNCHANGED <<attPosted, attSite, attCache, attLoader, attCancelled>>
  PROVE  AttInv'
<1>1. AttSharedOK'
  BY DEF AttInv, AttSharedOK
<1>2. TokensApart'
  BY <1>1, TokensStep DEF AttOwn
<1>3. QED
  BY <1>1, <1>2, StepOfOne

\* The captcha that was awaited becomes the token of the job; the next one is asked for.
LEMMA CollectStep ==
  ASSUME AttInv, NEW w \in AttWorkers, AttCollect(w)
  PROVE  AttInv'
<1> USE AttemptAssumption
<1> DEFINE u == attUse[w]
           n == attUse'[w]
           wait == attWait'[w]
           slot == attSlot'[w]
           pre == attPre'[w]
<1>0. /\ AttMaps /\ AttSharedOK /\ AttOwnOK(w) /\ Tries(w) /\ Served(w) /\ Registered(w)
      /\ u \in AttUses
      /\ attWait[w] \in AttWaits /\ attSlot[w] \in AttSlots /\ attPre[w] \in AttPres
      /\ Apart(w) /\ attWait[w].token \in 0..AttTokens /\ attAt[w] = "collect"
      /\ u.try = 0
  BY DEF AttInv, AttOwn, AttOwnOK, TokensApart, AttWaits, AttCollect, Tries
<1>1. Alone(w)
  <2>1. attSlot' = attSlot \/ \E x : attSlot' = [attSlot EXCEPT ![w] = x]
    BY DEF AttCollect, StartPrefetch, attTokenVars
  <2>2. attPre' = attPre \/ \E x : attPre' = [attPre EXCEPT ![w] = x]
    BY DEF AttCollect, StartPrefetch, attTokenVars
  <2>3. QED
    BY <1>0, <2>1, <2>2, WritesAlone
    DEF AttCollect, AttGoto, AttSet, attTokenVars, attSiteVars
<1>2. /\ attAt'[w] = "try"
      /\ UNCHANGED <<attJob, attAccount, attResult, attMade, attPosted, attSite, attCache,
                     attLoader, attCancelled>>
  BY <1>0 DEF AttCollect, AttGoto, attTokenVars, attSiteVars, attCacheVars, AttMaps
<1>3. SUFFICES /\ n \in AttUses /\ n.try = 0 /\ n.solves <= AttTries
               /\ ~ AttCaptcha => n.token = 0
               /\ wait \in AttWaits /\ slot \in AttSlots /\ pre \in AttPres
               /\ wait.from # "prefetch" /\ (~ AttCaptcha => wait.from = "none")
               /\ slot.active => pre.at \in {"running", "sent"} /\ pre.proxy = slot.proxy
               /\ \/ n.token = 0 /\ wait.token = attWait[w].token
                  \/ n.token = attWait[w].token /\ wait.token = 0
               /\ pre.token \in {0, attPre[w].token}
  <2> HIDE DEF n, wait, slot, pre, u
  <2>1. AttOwnOK(w)'
    BY <1>0, <1>2, <1>3 DEF AttOwnOK, AttPlaces, n, wait, slot, pre
  <2>2. Tries(w)'
    BY <1>2, <1>3 DEF Tries, n
  <2>3. Served(w)'
    BY <1>2, <1>3 DEF Served, wait, slot, pre
  <2>4. Registered(w)'
    BY <1>0, <1>2 DEF Registered
  <2>5. InHand(w)' = n.token
    BY <1>2, <1>3 DEF InHand, Fresh, n
  <2>6. Apart(w)' /\ Held(w)' \subseteq Held(w) \cup {0}
    BY <1>0, <1>3, <2>5 DEF Apart, Held, wait, pre
  <2>7. QED
    BY <1>0, <1>1, <1>2, <2>1, <2>2, <2>3, <2>4, <2>6, LateStep DEF AttOwn, AttSharedOK
<1>4. CASE ~ AttCaptcha
  <2>1. n = u /\ wait = attWait[w] /\ slot = attSlot[w] /\ pre = attPre[w]
    BY <1>4 DEF AttCollect, attTokenVars
  <2>2. attWait[w].from = "none"
    BY <1>0, <1>4 DEF Served
  <2>3. QED
    BY <1>0, <1>4, <2>1, <2>2 DEF Tries, Served
<1>5. CASE AttCaptcha
  <2>1. /\ attWait[w].from = "ready" /\ wait = NoWait
        /\ n = [u EXCEPT !.solves = 1, !.token = attWait[w].token,
                         !.captchaErr = attWait[w].token = 0]
        /\ \/ slot = attSlot[w] /\ pre = attPre[w]
           \/ \E proxy \in AttProxies :
                /\ slot = [proxy |-> proxy, active |-> TRUE]
                /\ pre = [at |-> "running", token |-> 0, proxy |-> proxy]
    BY <1>0, <1>5 DEF AttCollect, AttSet, StartPrefetch, AttMaps
  <2>2. NoWait \in AttWaits /\ NoWait.from = "none" /\ NoWait.token = 0
    BY DEF NoWait, AttWaits
  <2>3. n \in AttUses /\ n.try = u.try /\ n.solves = 1 /\ n.token = attWait[w].token
    <3> DEFINE bad == attWait[w].token = 0
    <3>1. bad \in BOOLEAN
      OBVIOUS
    <3> HIDE DEF bad, u
    <3>2. n = [u EXCEPT !.solves = 1, !.token = attWait[w].token, !.captchaErr = bad]
      BY <2>1 DEF bad
    <3> HIDE DEF n
    <3>3. QED
      BY <1>0, <3>1, <3>2 DEF AttUses
  <2>4. /\ slot \in AttSlots /\ pre \in AttPres /\ pre.token \in {0, attPre[w].token}
        /\ slot.active => pre.at \in {"running", "sent"} /\ pre.proxy = slot.proxy
    <3>1. CASE slot = attSlot[w] /\ pre = attPre[w]
      BY <1>0, <3>1 DEF Served
    <3>2. CASE \E proxy \in AttProxies :
                 /\ slot = [proxy |-> proxy, active |-> TRUE]
                 /\ pre = [at |-> "running", token |-> 0, proxy |-> proxy]
      BY <3>2 DEF AttSlots, AttPres
    <3>3. QED
      BY <2>1, <3>1, <3>2
  <2> HIDE DEF n, wait, slot, pre, u
  <2>5. QED
    BY <1>0, <1>5, <2>1, <2>2, <2>3, <2>4
<1>6. QED
  BY <1>4, <1>5

\* One turn of the loop of submissions, up to the post.
LEMMA TurnSteps ==
  ASSUME AttInv, NEW w \in AttWorkers,
         \/ AttTry(w) \/ AttSlot(w) \/ AttRedirect(w)
         \/ \E t \in 0..AttTokens : AttSolve(w, t)
  PROVE  AttInv'
<1> USE AttemptAssumption
<1> DEFINE u == attUse[w]
           n == attUse'[w]
<1>0. /\ AttMaps /\ AttSharedOK /\ AttOwnOK(w) /\ Tries(w) /\ Served(w) /\ Registered(w)
      /\ u \in AttUses /\ u.try \in 0..AttTries /\ u.solves \in Nat
      /\ Apart(w) /\ \A t \in Held(w) : t <= attMade
  BY DEF AttInv, AttOwn, AttOwnOK, TokensApart, AttUses
<1>1. Alone(w)
  BY <1>0, WritesAlone
  DEF AttTry, AttSlot, AttRedirect, AttSolve, AttGoto, AttSet, attTokenVars, attSiteVars
<1>2. /\ attAt[w] \in {"try", "slot", "redirect", "solving"}
      /\ attAt'[w] \in {"try", "slot", "solving", "post", "session", "finish"}
      /\ UNCHANGED <<attJob, attAccount, attResult, attWait, attSlot, attPre, attPosted,
                     attSite, attCache, attLoader, attCancelled>>
  BY <1>0 DEF AttTry, AttSlot, AttRedirect, AttSolve, AttGoto, attTokenVars, attSiteVars,
     attCacheVars, AttMaps
<1>3. SUFFICES /\ n \in AttUses /\ Tries(w)' /\ Registered(w)'
               /\ n.proxy = u.proxy
               /\ attMade' \in {attMade, attMade + 1} /\ attMade' \in 0..AttTokens
               /\ \/ InHand(w)' \in {0, InHand(w)}
                  \/ attMade' = attMade + 1 /\ InHand(w)' = attMade + 1
  <2> HIDE DEF n, u
  <2>1. AttOwnOK(w)'
    BY <1>0, <1>2, <1>3 DEF AttOwnOK, AttPlaces, n
  <2>2. Served(w)'
    BY <1>0, <1>2, <1>3 DEF Served, n, u
  <2>3. /\ attWait[w].token \in 0..AttTokens /\ attPre[w].token \in 0..AttTokens
        /\ attWait[w].token <= attMade /\ attPre[w].token <= attMade /\ attMade \in Nat
    BY <1>0 DEF Held, AttWaits, AttPres, AttOwnOK, AttSharedOK
  <2>4. Apart(w)'
    BY <1>0, <1>2, <1>3, <2>3 DEF Apart
  <2>5. Held(w)' \subseteq Held(w) \cup {0}
                    \cup (IF attMade' = attMade + 1 THEN {attMade + 1} ELSE {})
    BY <1>2, <1>3 DEF Held
  <2>6. QED
    BY <1>1, <1>2, <1>3, <2>1, <2>2, <2>4, <2>5, LateStep DEF AttOwn
<1>4. CASE AttTry(w)
  <2>1. /\ attAt[w] = "try" /\ attMade' = attMade
        /\ \/ n = u /\ attAt'[w] = "finish"
           \/ n = u /\ attAt'[w] = "slot" /\ Ready(w) /\ ~ Spent(w)
           \/ /\ n = [u EXCEPT !.solves = @ + 1] /\ attAt'[w] = "solving"
              /\ ~ Ready(w) /\ ~ Spent(w)
    BY <1>0, <1>4 DEF AttTry, AttGoto, AttSet, attTokenVars, AttMaps
  <2>2. CASE n = u /\ attAt'[w] = "finish"
    <3>1. InHand(w)' = 0
      BY <2>2 DEF InHand, Fresh
    <3>2. QED
      BY <1>0, <1>2, <2>1, <2>2, <3>1 DEF Tries, Registered, AttSharedOK
  <2>3. CASE n = u /\ attAt'[w] = "slot" /\ Ready(w) /\ ~ Spent(w)
    <3>1. u.try < AttTries
      BY <1>0, <2>3 DEF Spent
    <3>2. InHand(w)' = InHand(w)
      BY <1>0, <2>1, <2>3 DEF InHand, Fresh, Ready, Tries
    <3>3. Tries(w)' /\ Registered(w)'
      BY <1>0, <1>2, <2>1, <2>3, <3>1 DEF Tries, Registered
    <3>4. QED
      BY <1>0, <2>1, <2>3, <3>2, <3>3 DEF AttSharedOK
  <2>4. CASE /\ n = [u EXCEPT !.solves = @ + 1] /\ attAt'[w] = "solving"
             /\ ~ Ready(w) /\ ~ Spent(w)
    <3>1. u.try < AttTries /\ u.solves < AttTries /\ AttCaptcha
      BY <1>0, <2>4 DEF Spent, Ready
    <3>2. /\ n \in AttUses /\ n.try = u.try /\ n.solves = u.solves + 1
          /\ n.proxy = u.proxy
      <4> HIDE DEF u
      <4>1. QED
        BY <1>0, <2>4 DEF AttUses
    <3>3. InHand(w)' = 0
      BY <2>4 DEF InHand, Fresh
    <3>4. Tries(w)'
      BY <1>0, <2>4, <3>1, <3>2 DEF Tries
    <3>5. Registered(w)'
      BY <1>0, <1>2, <2>1, <2>4 DEF Registered
    <3>6. QED
      BY <1>0, <2>1, <3>2, <3>3, <3>4, <3>5 DEF AttSharedOK
  <2>5. QED
    BY <2>1, <2>2, <2>3, <2>4
<1>5. CASE AttSlot(w)
  <2>1. attAt[w] = "slot" /\ attAt'[w] = "post" /\ n = u /\ attMade' = attMade
    BY <1>0, <1>5 DEF AttSlot, AttGoto, attTokenVars, AttMaps
  <2>2. InHand(w)' = InHand(w)
    BY <2>1 DEF InHand, Fresh
  <2>3. Tries(w)' /\ Registered(w)'
    BY <1>0, <1>2, <2>1 DEF Tries, Registered
  <2>4. QED
    BY <1>0, <2>1, <2>2, <2>3 DEF AttSharedOK
<1>6. CASE AttRedirect(w)
  <2>1. /\ attAt[w] = "redirect" /\ attMade' = attMade
        /\ \/ attAt'[w] = "session" /\ n = [u EXCEPT !.session = TRUE]
           \/ attAt'[w] = "try" /\ n = [u EXCEPT !.try = @ + 1]
    BY <1>0, <1>6 DEF AttRedirect, AttGoto, AttSet, attTokenVars, AttMaps
  <2>2. u.try < AttTries /\ attAccount[w] /\ u.verified
    BY <1>0, <2>1 DEF Tries, Registered
  <2>3. CASE attAt'[w] = "session" /\ n = [u EXCEPT !.session = TRUE]
    <3>1. /\ n \in AttUses /\ n.solves = u.solves /\ n.proxy = u.proxy /\ n.token = u.token
          /\ n.try = u.try
      <4> HIDE DEF u
      <4>1. QED
        BY <1>0, <2>3 DEF AttUses
    <3>2. n.session /\ n.verified = u.verified
      <4> HIDE DEF u
      <4>1. QED
        BY <1>0, <2>3 DEF AttUses
    <3>3. InHand(w)' = 0
      BY <2>3 DEF InHand, Fresh
    <3>4. Tries(w)'
      BY <1>0, <2>3, <3>1 DEF Tries
    <3>5. Registered(w)'
      BY <1>0, <1>2, <2>1, <2>2, <2>3, <3>2 DEF Registered
    <3>6. QED
      BY <1>0, <2>1, <3>1, <3>3, <3>4, <3>5 DEF AttSharedOK
  <2>4. CASE attAt'[w] = "try" /\ n = [u EXCEPT !.try = @ + 1]
    <3>1. /\ n \in AttUses /\ n.solves = u.solves /\ n.proxy = u.proxy /\ n.token = u.token
          /\ n.try = u.try + 1
      <4> HIDE DEF u
      <4>0. u.try + 1 \in 0..AttTries
        BY <1>0, <2>2
      <4>1. QED
        BY <1>0, <2>4, <4>0 DEF AttUses
    <3>2. InHand(w)' = 0
      BY <1>0, <2>4, <3>1 DEF InHand, Fresh
    <3>3. Tries(w)'
      BY <1>0, <2>4, <3>1 DEF Tries
    <3>4. Registered(w)'
      BY <1>0, <1>2, <2>1, <2>4 DEF Registered
    <3>5. QED
      BY <1>0, <2>1, <3>1, <3>2, <3>3, <3>4 DEF AttSharedOK
  <2>5. QED
    BY <2>1, <2>3, <2>4
<1>7. ASSUME NEW t \in 0..AttTokens, AttSolve(w, t)
      PROVE  /\ n \in AttUses /\ Tries(w)' /\ Registered(w)'
             /\ n.proxy = u.proxy
             /\ attMade' \in {attMade, attMade + 1} /\ attMade' \in 0..AttTokens
             /\ \/ InHand(w)' \in {0, InHand(w)}
                \/ attMade' = attMade + 1 /\ InHand(w)' = attMade + 1
  <2>1. /\ attAt[w] = "solving" /\ Solved(t)
        /\ \/ /\ t # 0 /\ attAt'[w] = "slot"
              /\ n = [u EXCEPT !.token = t, !.captchaErr = FALSE]
           \/ /\ t = 0 /\ attAt'[w] = "try"
              /\ n = [u EXCEPT !.try = @ + 1, !.captchaErr = TRUE]
           \/ /\ t = 0 /\ attAt'[w] = "finish" /\ n = [u EXCEPT !.captchaErr = TRUE]
    BY <1>0, <1>7 DEF AttSolve, AttGoto, AttSet, AttMaps
  <2>2. /\ attMade' \in 0..AttTokens
        /\ \/ t = 0 /\ attMade' = attMade
           \/ t = attMade + 1 /\ attMade' = attMade + 1
    BY <1>0, <2>1, SolvedToken
  <2>3. u.try < AttTries /\ AttCaptcha /\ u.try + 1 \in 0..AttTries
    BY <1>0, <2>1 DEF Tries
  <2>4. Registered(w)'
    BY <1>0, <1>2, <2>1 DEF Registered
  <2>5. CASE /\ t # 0 /\ attAt'[w] = "slot"
             /\ n = [u EXCEPT !.token = t, !.captchaErr = FALSE]
    <3>1. /\ n \in AttUses /\ n.solves = u.solves /\ n.proxy = u.proxy /\ n.token = t
          /\ n.try = u.try
      <4> HIDE DEF u
      <4>1. QED
        BY <1>0, <2>5 DEF AttUses
    <3>2. InHand(w)' = t
      BY <2>5, <3>1 DEF InHand, Fresh
    <3>3. Tries(w)'
      BY <1>0, <2>3, <2>5, <3>1 DEF Tries
    <3>4. QED
      BY <2>2, <2>4, <2>5, <3>1, <3>2, <3>3
  <2>6. CASE /\ t = 0 /\ attAt'[w] = "try"
             /\ n = [u EXCEPT !.try = @ + 1, !.captchaErr = TRUE]
    <3>1. /\ n \in AttUses /\ n.solves = u.solves /\ n.proxy = u.proxy /\ n.token = u.token
          /\ n.try = u.try + 1
      <4> HIDE DEF u
      <4>1. QED
        BY <1>0, <2>3, <2>6 DEF AttUses
    <3>2. InHand(w)' = 0
      BY <1>0, <2>6, <3>1 DEF InHand, Fresh
    <3>3. Tries(w)'
      BY <1>0, <2>3, <2>6, <3>1 DEF Tries
    <3>4. QED
      BY <2>2, <2>4, <2>6, <3>1, <3>2, <3>3
  <2>7. CASE t = 0 /\ attAt'[w] = "finish" /\ n = [u EXCEPT !.captchaErr = TRUE]
    <3>1. /\ n \in AttUses /\ n.solves = u.solves /\ n.proxy = u.proxy /\ n.token = u.token
          /\ n.try = u.try
      <4> HIDE DEF u
      <4>1. QED
        BY <1>0, <2>7 DEF AttUses
    <3>2. InHand(w)' = 0
      BY <2>7 DEF InHand, Fresh
    <3>3. Tries(w)'
      BY <1>0, <2>3, <2>7, <3>1 DEF Tries
    <3>4. QED
      BY <2>2, <2>4, <2>7, <3>1, <3>2, <3>3
  <2>8. QED
    BY <2>1, <2>5, <2>6, <2>7
<1>8. QED
  BY <1>4, <1>5, <1>6, <1>7

\* The submission of a token, which the job holds no more.
LEMMA PostStep ==
  ASSUME AttInv, NEW w \in AttWorkers, AttPost(w)
  PROVE  AttInv'
<1> USE AttemptAssumption
<1> DEFINE u == attUse[w]
           n == attUse'[w]
           tok == u.token
<1>0. /\ AttMaps /\ AttSharedOK /\ AttOwnOK(w) /\ Tries(w) /\ Served(w) /\ Registered(w)
      /\ u \in AttUses /\ u.try \in 0..AttTries /\ tok \in 0..AttTokens
      /\ Apart(w) /\ attAt[w] = "post" /\ attAccount[w] \in BOOLEAN
  BY DEF AttInv, AttOwn, AttOwnOK, TokensApart, AttUses, AttPost
<1>1. Alone(w)
  BY <1>0, WritesAlone
  DEF AttPost, AttGoto, AttSet, attTokenVars
<1>2. /\ UNCHANGED <<attJob, attResult, attWait, attSlot, attPre, attMade, attSite,
                     attCache, attLoader, attCancelled>>
      /\ \/ /\ attAt'[w] \in {"redirect", "finish"} /\ n = u /\ attAccount'[w] = TRUE
            /\ u.verified
         \/ attAt'[w] = "finish" /\ n = u /\ attAccount'[w] = attAccount[w]
         \/ /\ attAt'[w] = "try" /\ n = [u EXCEPT !.try = @ + 1]
            /\ attAccount'[w] = attAccount[w] /\ u.try + 1 < AttTries
  BY <1>0 DEF AttPost, Accepted, AttGoto, AttSet, attTokenVars, attCacheVars, AttMaps
<1>3. /\ n \in AttUses /\ n.solves = u.solves /\ n.proxy = u.proxy /\ n.token = u.token
      /\ attAt'[w] = "try" => n.try = u.try + 1
      /\ attAt'[w] # "try" => n = u
  <2>1. CASE n = u /\ attAt'[w] # "try"
    BY <1>0, <2>1
  <2>2. CASE n = [u EXCEPT !.try = @ + 1] /\ u.try + 1 < AttTries /\ attAt'[w] = "try"
    <3> HIDE DEF u
    <3>1. u.try + 1 \in 0..AttTries
      BY <1>0, <2>2
    <3>2. QED
      BY <1>0, <2>2, <3>1 DEF AttUses
  <2>3. QED
    BY <1>2, <2>1, <2>2
<1>4. AttOwnOK(w)'
  <2>1. attAccount'[w] \in BOOLEAN
    BY <1>0, <1>2
  <2> HIDE DEF n, u, tok
  <2>2. attAt'[w] \in AttPlaces
    BY <1>2 DEF AttPlaces
  <2>3. QED
    BY <1>0, <1>2, <1>3, <2>1, <2>2, Zenon DEF AttOwnOK, n
<1>5. Tries(w)'
  <2>1. u.try < AttTries
    BY <1>0 DEF Tries
  <2>2. QED
    BY <1>0, <1>2, <1>3, <2>1 DEF Tries
<1>6. Served(w)'
  BY <1>0, <1>2, <1>3 DEF Served
<1>7. Registered(w)'
  BY <1>0, <1>2, <1>3 DEF Registered
<1>8. InHand(w)' = 0 /\ InHand(w) = tok
  <2>1. attAt'[w] = "try" => n.try # 0
    BY <1>0, <1>3
  <2>2. attAt'[w] \notin {"slot", "post"}
    BY <1>2
  <2>3. InHand(w)' = 0
    BY <2>1, <2>2 DEF InHand, Fresh
  <2>4. QED
    BY <1>0, <2>3 DEF InHand, Fresh
<1>9. AttSharedOK'
  <2>1. attPosted' \in [1..AttTokens -> Nat]
    <3>1. \/ attPosted' = attPosted
          \/ tok # 0 /\ attPosted' = [attPosted EXCEPT ![tok] = @ + 1]
      BY DEF AttPost, Posted
    <3>2. attPosted \in [1..AttTokens -> Nat]
      BY <1>0 DEF AttSharedOK
    <3> HIDE DEF tok
    <3>3. QED
      BY <1>0, <3>1, <3>2
  <2>2. QED
    BY <1>0, <1>2, <2>1 DEF AttSharedOK
<1>10. Apart(w)' /\ Held(w)' \subseteq Held(w) \cup {0}
  BY <1>0, <1>2, <1>8 DEF Apart, Held
<1>11. ASSUME NEW t \in 1..AttTokens
       PROVE  \/ attPosted'[t] = attPosted[t]
              \/ t \in Held(w) /\ t \notin Held(w)' /\ attPosted'[t] = attPosted[t] + 1
  <2>1. \/ attPosted' = attPosted
        \/ tok # 0 /\ attPosted' = [attPosted EXCEPT ![tok] = @ + 1]
    BY DEF AttPost, Posted
  <2>2. CASE attPosted' = attPosted \/ t # tok
    BY <1>0, <2>1, <2>2 DEF AttSharedOK
  <2>3. CASE tok # 0 /\ attPosted' = [attPosted EXCEPT ![tok] = @ + 1] /\ t = tok
    <3>1. attPosted'[t] = attPosted[t] + 1
      BY <1>0, <2>3 DEF AttSharedOK
    <3>2. t \in Held(w) /\ t \notin Held(w)'
      BY <1>0, <1>2, <1>8, <2>3 DEF Held, Apart
    <3>3. QED
      BY <3>1, <3>2
  <2>4. QED
    BY <2>1, <2>2, <2>3
<1>12. TokensApart'
  <2>1. attMade' \in {attMade, attMade + 1}
    BY <1>2
  <2> HIDE DEF n, u, tok
  <2>2. Held(w)' \subseteq Held(w) \cup {0}
                    \cup (IF attMade' = attMade + 1 THEN {attMade + 1} ELSE {})
    BY <1>10
  <2>3. QED
    BY <1>1, <1>4, <1>9, <1>10, <1>11, <2>1, <2>2, TokensStep
<1>13. attAt[w] # "scan" /\ attAt'[w] # "scan" /\ attLoader' = attLoader
  BY <1>0, <1>2
<1>14. QED
  BY <1>1, <1>4, <1>5, <1>6, <1>7, <1>9, <1>12, <1>13, StepOfOne DEF AttOwn

\* What no worker does leaves the workers alone.
LEMMA SharedSteps ==
  ASSUME AttInv,
         \/ AttCacheExpires \/ AttCancel \/ SiteRotates \/ UNCHANGED attVars
  PROVE  AttInv'
<1>1. /\ UNCHANGED <<attJobVars, attTokenVars, attPosted, attAccount, attLoader,
                     attResult>>
      /\ attCache' \in {attCache, 0} /\ attSite' \in {attSite, attSite + 1}
      /\ attCancelled' = attCancelled \/ attCancelled' = TRUE
  BY DEF AttCacheExpires, AttCancel, SiteRotates, attVars, attSiteVars, attCacheVars
<1>2. AttSharedOK'
  <2>1. AttSharedOK /\ attMade' = attMade
    BY <1>1 DEF AttInv, attTokenVars
  <2>2. attCache' \in Nat /\ attSite' \in Nat
    BY <1>1, <2>1 DEF AttSharedOK
  <2>3. attCancelled' \in BOOLEAN
    BY <1>1, <2>1, Zenon DEF AttSharedOK
  <2>4. QED
    BY <1>1, <2>1, <2>2, <2>3 DEF AttSharedOK
<1>3. AttMaps' /\ LoaderWorks'
  BY <1>1 DEF AttInv, AttMaps, LoaderWorks, attJobVars, attTokenVars
<1>4. ASSUME NEW w \in AttWorkers PROVE AttOwn(w)'
  BY <1>1 DEF AttInv, AttOwn, AttOwnOK, Tries, Served, Registered, attJobVars,
     attTokenVars
<1>5. TokensApart'
  BY <1>1 DEF AttInv, TokensApart, Held, Apart, InHand, Fresh, attJobVars, attTokenVars
<1>6. QED
  BY <1>2, <1>3, <1>4, <1>5 DEF AttInv

LEMMA AttStepKeeps == AttInv /\ [AttNext]_attVars => AttInv'
<1> SUFFICES ASSUME AttInv, [AttNext]_attVars PROVE AttInv'
  OBVIOUS
<1>1. CASE AttCacheExpires \/ AttCancel \/ SiteRotates \/ UNCHANGED attVars
  BY <1>1, SharedSteps
<1>2. ASSUME NEW w \in AttWorkers, AttWorkerStep(w) PROVE AttInv'
  <2>1. CASE \/ AttCancelSeen(w) \/ AttStepFails(w) \/ AttFinish(w) \/ AttSession(w)
             \/ AttScan(w) /\ AttEnd(w, "failed") /\ UNCHANGED attCache
    BY <2>1, EndSteps
  <2>2. CASE \/ \E proxy \in AttProxies : AttStart(w, proxy)
             \/ AttInitConfig(w) \/ AttPage(w) \/ AttCold(w)
             \/ AttScan(w) /\ AttGoto(w, "email")
             \/ AttEmail(w) \/ AttCaptchaStart(w) \/ AttSend(w) \/ AttOTP(w)
             \/ AttVerify(w)
    BY <2>2, EarlySteps
  <2>3. CASE \/ AttForward(w) \/ PreEnds(w)
             \/ \E t \in 0..AttTokens : AttSolver(w, t) \/ PreSolved(w, t)
    BY <2>3, GoroutineSteps
  <2>4. CASE AttCollect(w)
    BY <2>4, CollectStep
  <2>5. CASE \/ AttTry(w) \/ AttSlot(w) \/ AttRedirect(w)
             \/ \E t \in 0..AttTokens : AttSolve(w, t)
    BY <2>5, TurnSteps
  <2>6. CASE AttPost(w)
    BY <2>6, PostStep
  <2>7. AttScan(w) => \/ AttScan(w) /\ AttGoto(w, "email")
                      \/ AttScan(w) /\ AttEnd(w, "failed") /\ UNCHANGED attCache
    BY DEF AttScan
  <2>8. QED
    BY <1>2, <2>1, <2>2, <2>3, <2>4, <2>5, <2>6, <2>7 DEF AttWorkerStep
<1>3. QED
  BY <1>1, <1>2 DEF AttNext

\* Type correctness: every variable of the attempts (register.go Run,
\* captcha_prefetch.go) keeps its type; no job tries more often than it may.
THEOREM AttTypeCorrect == AttSpec => []AttTypeOK
<1>1. AttSpec => []AttInv
  BY AttFirst, AttStepKeeps, PTL DEF AttSpec
<1>2. QED
  BY <1>1, AttTypesOfInv, PTL

\* For any workers, jobs, proxies, tokens and tries, with captchas prefetched or not: a
\* token is submitted once at most, the solves of a job keep to its budget, whoever
\* waits for a captcha is answered, and a success has account, address and session.
THEOREM AttemptsAreSound == AttSpec => []AttemptSound
<1>1. AttSpec => []AttInv
  BY AttFirst, AttStepKeeps, PTL DEF AttSpec
<1>2. QED
  BY <1>1, AttSoundOfInv, PTL
=============================================================================
