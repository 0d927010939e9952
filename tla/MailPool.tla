------------------------------ MODULE MailPool ------------------------------
(***************************************************************************)
(* The iCloud mailboxes of a registration batch (engine/icloud.go,         *)
(* engine/icloud_email.go, pkg/grokregister/batch.go).  A job claims an    *)
(* address of the stored pool, has one made when the pool is empty, and    *)
(* after its last attempt the address goes back or is deleted.             *)
(*                                                                         *)
(* Claims, releases and deletions hold the lock of the gateway; SyncPool,  *)
(* which merges the platform's list into the pool, does not.  The platform *)
(* is external: it makes addresses, lists and deletes them, and hands out  *)
(* one of its own to whoever has its key.  Which account an address is of, *)
(* and the code that arrives there, are left out.                          *)
(***************************************************************************)
EXTENDS Naturals, FiniteSets

CONSTANTS
  MailAddrs,     \* addresses the platform can make
  MailWorkers,   \* workers of the batch
  MailJobs,      \* Count
  MailSlots,     \* mailboxes the engine constructs: Concurrency
  MailTries,     \* maxJobAttempts
  MailKey,       \* a key of the platform is configured
  MailAtFirst,   \* addresses made earlier
  NoAddr,
  Page,          \* the page's own synchronisation
  MailPageOps    \* bound: synchronisations and resets of the page

ASSUME MailAssumption ==
  /\ MailJobs \in Nat /\ MailSlots \in Nat /\ MailTries \in Nat \ {0}
  /\ MailKey \in BOOLEAN /\ MailPageOps \in Nat
  /\ MailAtFirst \subseteq MailAddrs /\ NoAddr \notin MailAddrs
  /\ Page \notin MailWorkers

VARIABLES
  mailPool,     \* the stored pool: "absent", "available" or "used"
  mailLive,     \* addresses that exist on the platform
  mailMade,     \* addresses that have ever existed
  mailNext,     \* index of the next job
  mailAt,       \* where each worker is
  mailAddr,     \* the address of its attempt
  mailTry,      \* attempts it has begun
  mailSync,     \* where each synchronisation is
  mailList, mailRead,   \* what it has fetched and what it has read
  mailTasks,    \* <<what, address>>: goroutines of finished jobs
  mailOps,      \* operations of the page so far
  mailUndone,   \* history: addresses whose claim an overlapping write undid
  mailOutside,  \* history: addresses taken from the platform itself
  mailLeft      \* history: addresses a retried attempt left behind

mailJobVars  == <<mailNext, mailAt, mailAddr, mailTry>>
mailSyncVars == <<mailSync, mailList, mailRead>>
mailHistory  == <<mailUndone, mailOutside, mailLeft>>
mailVars == <<mailPool, mailLive, mailMade, mailJobVars, mailSyncVars,
              mailTasks, mailOps, mailHistory>>

Syncers == MailWorkers \cup {Page}
Empty == [a \in MailAddrs |-> "absent"]

MailInit ==
  /\ mailPool = [a \in MailAddrs |->
                   IF a \in MailAtFirst THEN "available" ELSE "absent"]
  /\ mailLive = MailAtFirst /\ mailMade = MailAtFirst
  /\ mailNext = 0
  /\ mailAt = [w \in MailWorkers |-> "idle"]
  /\ mailAddr = [w \in MailWorkers |-> NoAddr]
  /\ mailTry = [w \in MailWorkers |-> 0]
  /\ mailSync = [s \in Syncers |-> "idle"]
  /\ mailList = [s \in Syncers |-> {}]
  /\ mailRead = [s \in Syncers |-> Empty]
  /\ mailTasks = {} /\ mailOps = 0
  /\ mailUndone = {} /\ mailOutside = {} /\ mailLeft = {}

MailGoto(w, where) == mailAt' = [mailAt EXCEPT ![w] = where]

\* Addresses some attempt is using, and those that wait for a goroutine.
MailHeld == {mailAddr[w] : w \in MailWorkers} \ {NoAddr}
MailWaiting == {t[2] : t \in mailTasks}
Free == {a \in MailAddrs : mailPool[a] = "available"}

-----------------------------------------------------------------------------
(* A job                                                                   *)

\* pickEmailSvc: the mailboxes are indexed by the job; a job without one makes
\* do with a public temporary mailbox.
MailTake(w) ==
  /\ mailAt[w] = "idle" /\ mailNext < MailJobs
  /\ mailNext' = mailNext + 1
  /\ mailTry' = [mailTry EXCEPT ![w] = 1]
  /\ MailGoto(w, IF mailNext < MailSlots THEN "claim" ELSE "public")
  /\ UNCHANGED <<mailPool, mailLive, mailMade, mailAddr, mailSyncVars,
                 mailTasks, mailOps, mailHistory>>

\* Variants of definitions of the model, each with a plausible slip, are named
\* after them; the model uses none of them.
MailClaimCopy(w) ==
  /\ mailAt[w] \in {"claim", "claim again"}
  /\ \/ \E a \in Free :
          /\ mailAddr' = [mailAddr EXCEPT ![w] = a]
          /\ MailGoto(w, "using")
          /\ UNCHANGED mailPool
     \/ /\ Free = {}
        /\ MailGoto(w, IF mailAt[w] = "claim" THEN "create" ELSE "fallback")
        /\ UNCHANGED <<mailPool, mailAddr>>
  /\ UNCHANGED <<mailLive, mailMade, mailNext, mailTry, mailSyncVars, mailTasks,
                 mailOps, mailHistory>>

\* ClaimFromPool, first and again after an address has been made.
MailClaim(w) ==
  /\ mailAt[w] \in {"claim", "claim again"}
  /\ \/ \E a \in Free :
          /\ mailPool' = [mailPool EXCEPT ![a] = "used"]
          /\ mailAddr' = [mailAddr EXCEPT ![w] = a]
          /\ MailGoto(w, "using")
     \/ /\ Free = {}
        /\ MailGoto(w, IF mailAt[w] = "claim" THEN "create" ELSE "fallback")
        /\ UNCHANGED <<mailPool, mailAddr>>
  /\ UNCHANGED <<mailLive, mailMade, mailNext, mailTry, mailSyncVars, mailTasks,
                 mailOps, mailHistory>>

\* CreateMailboxes: one more address, which is synchronised, or an error.
MailCreate(w) ==
  /\ mailAt[w] = "create"
  /\ \/ \E a \in MailAddrs \ mailMade :
          /\ mailMade' = mailMade \cup {a} /\ mailLive' = mailLive \cup {a}
          /\ MailGoto(w, "sync")
          /\ mailSync' = [mailSync EXCEPT ![w] = "list"]
     \/ \E where \in {"failed"} \cup (IF MailKey THEN {"fallback"} ELSE {}) :
          /\ MailGoto(w, where) /\ UNCHANGED <<mailMade, mailLive, mailSync>>
  /\ UNCHANGED <<mailPool, mailNext, mailAddr, mailTry, mailList, mailRead,
                 mailTasks, mailOps, mailHistory>>

\* claimFallback: the platform knows nothing of the pool.
MailFallback(w) ==
  /\ mailAt[w] = "fallback"
  /\ \/ \E a \in mailLive :
          /\ MailKey
          /\ mailAddr' = [mailAddr EXCEPT ![w] = a]
          /\ mailOutside' = mailOutside \cup {a}
          /\ MailGoto(w, "using")
     \/ MailGoto(w, "failed") /\ UNCHANGED <<mailAddr, mailOutside>>
  /\ UNCHANGED <<mailPool, mailLive, mailMade, mailNext, mailTry, mailSyncVars,
                 mailTasks, mailOps, mailUndone, mailLeft>>

\* An attempt that another proxy may help begins again, and forgets its address.
MailRetry(w) ==
  /\ mailAt[w] \in {"using", "failed"} /\ mailTry[w] < MailTries
  /\ mailTry' = [mailTry EXCEPT ![w] = @ + 1]
  /\ mailAddr' = [mailAddr EXCEPT ![w] = NoAddr]
  /\ mailLeft' = mailLeft \cup ({mailAddr[w]} \ {NoAddr})
  /\ MailGoto(w, "claim")
  /\ UNCHANGED <<mailPool, mailLive, mailMade, mailNext, mailSyncVars,
                 mailTasks, mailOps, mailUndone, mailOutside>>

\* OnResult: the address of the last attempt goes back, or a success deletes it.
MailEnd(w) ==
  /\ mailAt[w] \in {"using", "failed", "public"}
  /\ \E what \in {"release", "delete"} :
       mailTasks' = mailTasks \cup
         (IF mailAt[w] = "using" THEN {<<what, mailAddr[w]>>} ELSE {})
  /\ mailAddr' = [mailAddr EXCEPT ![w] = NoAddr]
  /\ mailTry' = [mailTry EXCEPT ![w] = 0]
  /\ MailGoto(w, "idle")
  /\ UNCHANGED <<mailPool, mailLive, mailMade, mailNext, mailSyncVars, mailOps,
                 mailHistory>>

-----------------------------------------------------------------------------
(* The goroutines of a result                                              *)

MailRelease(a) ==
  /\ <<"release", a>> \in mailTasks
  /\ mailTasks' = mailTasks \ {<<"release", a>>}
  /\ mailPool' = IF mailPool[a] = "absent" THEN mailPool
                 ELSE [mailPool EXCEPT ![a] = "available"]
  /\ UNCHANGED <<mailLive, mailMade, mailJobVars, mailSyncVars, mailOps,
                 mailHistory>>

\* deleteIcloudMailboxAfterSuccess: unknown addresses are left alone, and what
\* the platform refuses to delete stays used.
MailDelete(a) ==
  /\ <<"delete", a>> \in mailTasks
  /\ \/ mailTasks' = mailTasks \ {<<"delete", a>>} /\ UNCHANGED mailLive
     \/ /\ mailPool[a] # "absent" /\ a \in mailLive
        /\ mailTasks' = (mailTasks \ {<<"delete", a>>}) \cup {<<"forget", a>>}
        /\ mailLive' = mailLive \ {a}
  /\ mailLeft' = IF mailLive' = mailLive THEN mailLeft \cup {a} ELSE mailLeft
  /\ UNCHANGED <<mailPool, mailMade, mailJobVars, mailSyncVars, mailOps,
                 mailUndone, mailOutside>>

MailForget(a) ==
  /\ <<"forget", a>> \in mailTasks
  /\ mailTasks' = mailTasks \ {<<"forget", a>>}
  /\ mailPool' = [mailPool EXCEPT ![a] = "absent"]
  /\ UNCHANGED <<mailLive, mailMade, mailJobVars, mailSyncVars, mailOps,
                 mailHistory>>

-----------------------------------------------------------------------------
(* SyncPool                                                                *)

SyncGoto(s, where) == mailSync' = [mailSync EXCEPT ![s] = where]

\* Mailboxes: the platform's list, or an error.
SyncList(s) ==
  /\ mailSync[s] = "list"
  /\ \/ SyncGoto(s, "read") /\ mailList' = [mailList EXCEPT ![s] = mailLive]
        /\ UNCHANGED mailAt
     \/ SyncGoto(s, "idle") /\ UNCHANGED mailList
        /\ mailAt' = IF s = Page THEN mailAt
                     ELSE [mailAt EXCEPT ![s] = "fallback"]
  /\ UNCHANGED <<mailPool, mailLive, mailMade, mailNext, mailAddr, mailTry,
                 mailRead, mailTasks, mailOps, mailHistory>>

SyncRead(s) ==
  /\ mailSync[s] = "read"
  /\ SyncGoto(s, "write")
  /\ mailRead' = [mailRead EXCEPT ![s] = mailPool]
  /\ UNCHANGED <<mailPool, mailLive, mailMade, mailJobVars, mailList, mailTasks,
                 mailOps, mailHistory>>

\* What is missing of the list is added to the pool as it was read.
Merged(s) ==
  [a \in MailAddrs |->
     IF mailRead[s][a] = "absent" /\ a \in mailList[s] THEN "available"
     ELSE mailRead[s][a]]

SyncWrite(s) ==
  /\ mailSync[s] = "write"
  /\ mailPool' = Merged(s)
  /\ mailUndone' = mailUndone \cup
       {a \in MailAddrs : mailPool[a] # "available" /\ Merged(s)[a] = "available"}
  /\ mailLeft' = mailLeft \cup
       {a \in MailAddrs : mailPool[a] # "used" /\ Merged(s)[a] = "used"}
  /\ SyncGoto(s, "idle")
  /\ mailList' = [mailList EXCEPT ![s] = {}]
  /\ mailRead' = [mailRead EXCEPT ![s] = Empty]
  /\ mailAt' = IF s = Page THEN mailAt
               ELSE [mailAt EXCEPT ![s] = "claim again"]
  /\ UNCHANGED <<mailLive, mailMade, mailNext, mailAddr, mailTry, mailTasks,
                 mailOps, mailOutside>>

\* The page synchronises or clears the pool.
PageSync ==
  /\ mailOps < MailPageOps /\ mailSync[Page] = "idle"
  /\ mailOps' = mailOps + 1
  /\ SyncGoto(Page, "list")
  /\ UNCHANGED <<mailPool, mailLive, mailMade, mailJobVars, mailList, mailRead,
                 mailTasks, mailHistory>>

ResetPool ==
  /\ mailOps < MailPageOps
  /\ mailOps' = mailOps + 1
  /\ mailPool' = Empty
  /\ mailUndone' = mailUndone \cup {a \in MailAddrs : mailPool[a] = "used"}
  /\ UNCHANGED <<mailLive, mailMade, mailJobVars, mailSyncVars, mailTasks,
                 mailOutside, mailLeft>>

MailNext ==
  \/ PageSync \/ ResetPool
  \/ \E w \in MailWorkers :
       \/ MailTake(w) \/ MailClaim(w) \/ MailCreate(w) \/ MailFallback(w)
       \/ MailRetry(w) \/ MailEnd(w)
  \/ \E a \in MailAddrs : MailRelease(a) \/ MailDelete(a) \/ MailForget(a)
  \/ \E s \in Syncers : SyncList(s) \/ SyncRead(s) \/ SyncWrite(s)

MailSpec == MailInit /\ [][MailNext]_mailVars

-----------------------------------------------------------------------------
(* Properties                                                              *)

MailTypeOK ==
  /\ mailPool \in [MailAddrs -> {"absent", "available", "used"}]
  /\ mailLive \subseteq mailMade /\ mailMade \subseteq MailAddrs
  /\ mailNext \in 0..MailJobs /\ mailOps \in 0..MailPageOps
  /\ mailAt \in [MailWorkers -> {"idle", "claim", "claim again", "create",
                                 "sync", "fallback", "using", "public", "failed"}]
  /\ mailAddr \in [MailWorkers -> MailAddrs \cup {NoAddr}]
  /\ mailTry \in [MailWorkers -> 0..MailTries]
  /\ mailSync \in [Syncers -> {"idle", "list", "read", "write"}]
  /\ mailList \in [Syncers -> SUBSET MailAddrs]
  /\ mailRead \in [Syncers -> [MailAddrs -> {"absent", "available", "used"}]]
  /\ mailTasks \subseteq ({"release", "delete", "forget"} \X MailAddrs)
  /\ mailUndone \subseteq MailAddrs /\ mailOutside \subseteq MailAddrs
  /\ mailLeft \subseteq MailAddrs

\* Only what overlaps a synchronisation, a reset or the platform's own choice is
\* ever shared: no two attempts use one address otherwise, and none uses an
\* address that waits to be released or deleted.
MailboxesAreOwn ==
  /\ \A v, w \in MailWorkers :
       v # w /\ mailAddr[v] = mailAddr[w] /\ mailAddr[v] # NoAddr
         => mailAddr[v] \in mailUndone \cup mailOutside
  /\ MailHeld \cap MailWaiting \subseteq mailUndone \cup mailOutside

\* A used address is in use, or on its way back or out, or one of those that a
\* retried attempt, a refused deletion or an overlapping write has left behind:
\* a job that ends loses none.
UsedIsAccounted ==
  {a \in MailAddrs : mailPool[a] = "used"} \subseteq
     MailHeld \cup MailWaiting \cup mailLeft

\* The two together: what a batch and the page do to the pool at the same time
\* costs no more than the addresses that the histories name.
MailSound == MailTypeOK /\ MailboxesAreOwn /\ UsedIsAccounted
=============================================================================
