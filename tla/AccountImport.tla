--------------------------- MODULE AccountImport ---------------------------
(***************************************************************************)
(* The account list (engine/accounts.go) and the import that turns an SSO  *)
(* cookie into OAuth credentials: ConvertToOAuth for many accounts, called *)
(* directly or as the background task of import_progress.go, and           *)
(* RefreshOAuth for one.                                                   *)
(*                                                                         *)
(* AccountService.mu guards the list: each locked section is one action.   *)
(* An import holds it twice, to read its jobs and to merge their outcomes; *)
(* the conversions in between take minutes, on the network, without it, so *)
(* that registrations, edits and deletions come in between.                *)
(***************************************************************************)
EXTENDS Naturals, Sequences, FiniteSets, Functions

CONSTANTS
  Ids,          \* account ids, each given once
  None,         \* no account under this id
  Emails,
  Notes, NoNote,
  Stored,       \* lists the application may start with
  Calls,        \* HTTP requests that convert, each made once
  Requests,     \* the id lists each of them may carry
  Gate,         \* conversions at a time in one import, 4 in the code
  MaxAttempts,  \* convertMaxAttempts
  Outcomes,     \* how one ConvertSSOToOAuth may end
  MaxEdits      \* bound: registrations, edits and deletions

\* What the message of a failed conversion is taken for (convert_retry.go): the
\* proxy is at fault, waiting may help, or the account is refused for good.
\* "broken" is none of them, "expired" the end of SSOConversionTimeout.
ProxyFailures == {"proxy", "busy"}
Transient     == {"busy", "limited"}

Accounts == [email: Emails, sso: BOOLEAN, token: BOOLEAN, imported: BOOLEAN, note: Notes]

ASSUME ImportAssumption ==
  /\ IsFiniteSet(Ids)
  /\ NoNote \in Notes
  /\ None \notin Accounts
  /\ Stored \subseteq [Ids -> Accounts \cup {None}]
  /\ Requests \in [Calls -> SUBSET Seq(Ids)]
  /\ Gate \in Nat \ {0} /\ MaxAttempts \in Nat \ {0} /\ MaxEdits \in Nat
  /\ Outcomes \subseteq {"ok", "denied", "broken", "expired"} \cup ProxyFailures \cup Transient

VARIABLES
  book,      \* the account under each id
  used,      \* ids given so far
  pc,        \* of each call
  kind,      \* "import", "task" (in the background) or "refresh"
  asked,     \* ids of the request
  jobs,      \* per call and id: the conversion, or NoJob
  res,       \* ConvertResult
  progress,  \* importProg
  edits,
  written    \* history: the note the user last wrote

bookVars == <<book, used, edits, written>>
callVars == <<pc, kind, asked, jobs, res>>
vars == <<book, used, pc, kind, asked, jobs, res, progress, edits, written>>

Live == {i \in Ids : book[i] # None}

NoJob == [step |-> "none", attempt |-> 0, proxied |-> FALSE, ok |-> FALSE]
NewJob(p) == [step |-> "queued", attempt |-> 1, proxied |-> p, ok |-> FALSE]
Done(ok) == [NoJob EXCEPT !.step = "done", !.ok = ok]
Jobs(c) == {i \in Ids : jobs[c][i].step # "none"}
Steps(c, step) == {i \in Ids : jobs[c][i].step = step}

NoResult == [updated |-> 0, failed |-> 0, skipped |-> 0]
Idle == [running |-> FALSE, total |-> 0, done |-> 0]

Init ==
  /\ book \in Stored
  /\ used = Live /\ edits = 0
  /\ written = [i \in Ids |-> IF book[i] = None THEN NoNote ELSE book[i].note]
  /\ pc = [c \in Calls |-> "new"]
  /\ kind = [c \in Calls |-> "import"]
  /\ asked = [c \in Calls |-> <<>>]
  /\ jobs = [c \in Calls |-> [i \in Ids |-> NoJob]]
  /\ res = [c \in Calls |-> NoResult]
  /\ progress = Idle

-----------------------------------------------------------------------------
\* Variants of definitions below, the traces of plausible slips; the
\* model does not use them.
ConvertedAnew(b) ==
  IF b = None THEN None
  ELSE [email |-> b.email, sso |-> TRUE, token |-> TRUE, imported |-> TRUE, note |-> NoNote]
StartJobUngated(c, i) ==
  /\ pc[c] = "convert" /\ i \in Steps(c, "queued")
  /\ jobs' = [jobs EXCEPT ![c][i].step = "running"]
  /\ UNCHANGED <<bookVars, pc, kind, asked, res, progress>>
DirectAnew(j) == [j EXCEPT !.proxied = FALSE, !.attempt = 1]
ConvertedBack(b) ==
  IF b # None THEN [b EXCEPT !.token = TRUE, !.imported = TRUE]
  ELSE [email |-> CHOOSE e \in Emails : TRUE, sso |-> TRUE, token |-> TRUE,
        imported |-> TRUE, note |-> NoNote]
TalliedSeen(r, good, gone, bad) ==
  [updated |-> r.updated + Cardinality(good \ gone), failed |-> Cardinality(bad),
   skipped |-> r.skipped]
SettledIfDone(p, r) == [p EXCEPT !.running = @ /\ p.done < p.total]

-----------------------------------------------------------------------------
(* The list                                                                *)

\* One edit; the calls of the next section go on.
Edit == edits < MaxEdits /\ edits' = edits + 1 /\ UNCHANGED <<callVars, progress>>

\* What a registration hands over: with credentials, imported; without, either
\* marked as failed or not marked at all.  Each registration has an SSO cookie.
Results == [token: {TRUE}, flag: {"yes"}] \cup [token: {FALSE}, flag: {"no", "absent"}]

Fresh(e, r) ==
  [email |-> e, sso |-> TRUE, token |-> r.token, imported |-> r.flag = "yes", note |-> NoNote]

\* A registration of a known address replaces its account but for the id, the
\* note and, if it says nothing of it, the imported mark.
Renewed(old, r) ==
  [Fresh(old.email, r) EXCEPT
     !.imported = IF r.flag = "absent" THEN old.imported ELSE r.flag = "yes",
     !.note = old.note]

\* UpsertFromResult.  An address stands for the SSO cookie it came with.
Upsert(e) ==
  /\ Edit
  /\ \E r \in Results :
       LET known == {i \in Live : book[i].email = e} IN
       \/ \E i \in known :
            /\ book' = [book EXCEPT ![i] = Renewed(@, r)]
            /\ UNCHANGED used
       \/ /\ known = {}
          /\ \E i \in Ids \ used :
               book' = [book EXCEPT ![i] = Fresh(e, r)] /\ used' = used \cup {i}
  /\ UNCHANGED written

\* Delete, DeleteByEmail and Clear.
Delete ==
  /\ Edit
  /\ \E is \in {{i} : i \in Live} \cup {Live} :
       book' = [i \in Ids |-> IF i \in is THEN None ELSE book[i]]
  /\ UNCHANGED <<used, written>>

\* MarkImported, for some or, without ids, for all.
MarkImported ==
  /\ Edit
  /\ \E is \in {{i} : i \in Live} \cup {Live}, b \in BOOLEAN :
       book' = [i \in Ids |-> IF i \in is THEN [book[i] EXCEPT !.imported = b] ELSE book[i]]
  /\ UNCHANGED <<used, written>>

\* Update, of the note and the cookie.
Update ==
  /\ Edit
  /\ \E i \in Live, n \in Notes, s \in BOOLEAN :
       /\ book' = [book EXCEPT ![i] = [@ EXCEPT !.note = n, !.sso = s]]
       /\ written' = [written EXCEPT ![i] = n]
  /\ UNCHANGED used

-----------------------------------------------------------------------------
(* A request                                                               *)

Goto(c, where) == pc' = [pc EXCEPT ![c] = where]

\* ConvertToOAuthAsync looks at the progress, and begins in a second section.
Arrive(c) ==
  /\ pc[c] = "new"
  /\ \E k \in {"import", "task", "refresh"}, r \in Requests[c] :
       /\ k = "refresh" => Len(r) = 1
       /\ kind' = [kind EXCEPT ![c] = k]
       /\ asked' = [asked EXCEPT ![c] = r]
       /\ Goto(c, CASE k = "import"  -> "split"
                    [] k = "task"    -> IF progress.running \/ r = <<>> THEN "over" ELSE "begin"
                    [] k = "refresh" -> "read")
  /\ UNCHANGED <<bookVars, jobs, res, progress>>

Begin(c) ==
  /\ pc[c] = "begin"
  /\ progress' = [Idle EXCEPT !.running = TRUE, !.total = Len(asked[c])]
  /\ Goto(c, "split")
  /\ UNCHANGED <<bookVars, kind, asked, jobs, res>>

\* Where ConvertToOAuth returns to.
Return(c) == IF kind[c] = "task" THEN "end" ELSE "over"

\* finishOne, for a number of accounts at once.  (Successes and failures, which the
\* progress shows too, are those of the result.)
Finished(p, n) == [p EXCEPT !.done = @ + n]

Queue(c, todo, proxied) ==
  jobs' = [jobs EXCEPT ![c] = [i \in Ids |-> IF i \in todo THEN NewJob(i \in proxied) ELSE NoJob]]

\* The first section of ConvertToOAuth: an id asked for twice counts once, an
\* account with credentials is imported as it is, one without a cookie skipped.
Split(c) ==
  /\ pc[c] = "split"
  /\ LET is   == Range(asked[c])
         had  == {i \in is \cap Live : book[i].token}
         todo == {i \in is \cap Live : ~ book[i].token /\ book[i].sso}
     IN /\ book' = [i \in Ids |-> IF i \in had THEN [book[i] EXCEPT !.imported = TRUE] ELSE book[i]]
        /\ res' = [res EXCEPT ![c].updated = Cardinality(had),
                              ![c].skipped = Cardinality(is \ (had \cup todo))]
        /\ progress' = Finished(progress, Cardinality(had))
        /\ \E proxied \in SUBSET todo : Queue(c, todo, proxied)
        /\ Goto(c, IF todo = {} THEN Return(c) ELSE "convert")
  /\ UNCHANGED <<used, edits, written, kind, asked>>

\* RefreshOAuth reads its account; without a cookie it returns an error.
Read(c) ==
  /\ pc[c] = "read"
  /\ LET todo == {i \in Range(asked[c]) \cap Live : book[i].sso}
     IN /\ \E proxied \in SUBSET todo : Queue(c, todo, proxied)
        /\ Goto(c, IF todo = {} THEN "over" ELSE "convert")
  /\ UNCHANGED <<bookVars, kind, asked, res, progress>>

-----------------------------------------------------------------------------
(* The conversions, outside of the lock                                    *)

StartJob(c, i) ==
  /\ pc[c] = "convert" /\ i \in Steps(c, "queued")
  /\ Cardinality(Steps(c, "running")) < Gate
  /\ jobs' = [jobs EXCEPT ![c][i].step = "running"]
  /\ UNCHANGED <<bookVars, pc, kind, asked, res, progress>>

\* After a failure through the proxy: directly, without counting the attempt.
Direct(j) == [j EXCEPT !.proxied = FALSE]
Again(j)  == [j EXCEPT !.attempt = @ + 1]

\* convertOnce: what one ConvertSSOToOAuth makes of a job.
After(j, o) ==
  IF o = "ok" THEN Done(TRUE)
  ELSE IF j.proxied /\ o \in ProxyFailures THEN Direct(j)
  ELSE IF o \in Transient /\ j.attempt < MaxAttempts THEN Again(j)
  ELSE Done(FALSE)

\* One conversion; the last of a job is counted in the progress of the imports.
Attempt(c, i) ==
  /\ pc[c] = "convert" /\ i \in Steps(c, "running")
  /\ \E o \in Outcomes :
       LET j == After(jobs[c][i], o) IN
          /\ jobs' = [jobs EXCEPT ![c][i] = j]
          /\ progress' = IF j.step = "done" /\ kind[c] # "refresh"
                         THEN Finished(progress, 1) ELSE progress
  /\ UNCHANGED <<bookVars, pc, kind, asked, res>>

-----------------------------------------------------------------------------
(* The outcomes                                                            *)

\* An account deleted meanwhile stays deleted.  (A failure leaves its trace in the
\* account too, for the user to see; nothing depends on it.)
Converted(b) == IF b = None THEN None ELSE [b EXCEPT !.token = TRUE, !.imported = TRUE]

Store(is) == book' = [i \in Ids |-> IF i \in is THEN Converted(book[i]) ELSE book[i]]

AllDone(c) == pc[c] = "convert" /\ Jobs(c) = Steps(c, "done")
Good(c) == {i \in Jobs(c) : jobs[c][i].ok}

\* The tally of an import: conversions of accounts that are gone are skipped.
Tallied(r, good, gone, bad) ==
  [updated |-> r.updated + Cardinality(good \ gone),
   failed  |-> Cardinality(bad),
   skipped |-> r.skipped + Cardinality(good \cap gone)]

\* The last section of ConvertToOAuth, on the list as it is by now.
Merge(c) ==
  /\ AllDone(c) /\ kind[c] # "refresh"
  /\ Store(Good(c))
  /\ res' = [res EXCEPT ![c] = Tallied(@, Good(c), Ids \ Live, Jobs(c) \ Good(c))]
  /\ Queue(c, {}, {})
  /\ Goto(c, Return(c))
  /\ UNCHANGED <<used, edits, written, kind, asked, progress>>

\* RefreshOAuth writes what it got, if it got something.
SaveRefreshed(c) ==
  /\ AllDone(c) /\ kind[c] = "refresh"
  /\ Store(Good(c))
  /\ Queue(c, {}, {})
  /\ Goto(c, "over")
  /\ UNCHANGED <<used, edits, written, kind, asked, res, progress>>

\* importProgressTracker.end: skipped accounts count as done.
Settled(p, r) ==
  LET all  == r.updated + r.failed + r.skipped
      done == IF all > p.done THEN all ELSE p.done
  IN [running |-> FALSE, total |-> p.total,
      done |-> IF done > p.total THEN p.total ELSE done]

End(c) ==
  /\ pc[c] = "end"
  /\ progress' = Settled(progress, res[c])
  /\ Goto(c, "over")
  /\ UNCHANGED <<bookVars, kind, asked, jobs, res>>

Call(c) ==
  \/ Begin(c) \/ Split(c) \/ Read(c)
  \/ \E i \in Ids : StartJob(c, i) \/ Attempt(c, i)
  \/ Merge(c) \/ SaveRefreshed(c) \/ End(c)

Next ==
  \/ \E e \in Emails : Upsert(e)
  \/ Delete \/ MarkImported \/ Update
  \/ \E c \in Calls : Arrive(c) \/ Call(c)

Spec == Init /\ [][Next]_vars

-----------------------------------------------------------------------------
(* Properties                                                              *)

Counts == [updated: Nat, failed: Nat, skipped: Nat]
JobTypes == [step: {"none", "queued", "running", "done"}, attempt: 0..MaxAttempts,
             proxied: BOOLEAN, ok: BOOLEAN]

\* Types; no id is given twice, no import runs more conversions at a time than its
\* gate lets through ("小并发 4，避免打爆上游", accounts.go:1617), and no conversion
\* tries more often than convertMaxAttempts.
TypeOK ==
  /\ book \in [Ids -> Accounts \cup {None}]
  /\ used \subseteq Ids /\ Live \subseteq used
  /\ edits \in 0..MaxEdits
  /\ written \in [Ids -> Notes]
  /\ pc \in [Calls -> {"new", "begin", "split", "read", "convert", "end", "over"}]
  /\ kind \in [Calls -> {"import", "task", "refresh"}]
  /\ asked \in [Calls -> Seq(Ids)]
  /\ jobs \in [Calls -> [Ids -> JobTypes]]
  /\ res \in [Calls -> Counts]
  /\ progress \in [running: BOOLEAN, total: Nat, done: Nat]
  /\ \A c \in Calls : Cardinality(Steps(c, "running")) <= Gate

\* An import, a refresh or a registration that was under way while the user edited
\* an account does not undo the edit: each writes into the list as it is by
\* then, not as it was when it began (UpsertFromResult, Merge, RefreshOAuth).
EditsSurvive == \A i \in Live : book[i].note = written[i]

\* "转换期间账号被删了：不复活它" (accounts.go:1680): an account deleted while it was
\* being converted does not come back, and no later registration takes its id.
NeverRevived == [][\A i \in used : book[i] = None => book'[i] = None]_vars

\* What an import returns accounts for each id it was asked for exactly once,
\* whatever was deleted, edited or imported by others meanwhile.
ResultsAddUp ==
  \A c \in Calls :
    pc[c] = "end" \/ (pc[c] = "over" /\ kind[c] = "import") =>
      res[c].updated + res[c].failed + res[c].skipped = Cardinality(Range(asked[c]))

\* A conversion ends after at most MaxAttempts + 1 tries: the fallback to a direct
\* connection, which does not count as an attempt ("不消耗重试次数",
\* accounts.go:1454), happens once.
Left(j) == MaxAttempts - j.attempt + (IF j.proxied THEN 1 ELSE 0)

AttemptsRunOut ==
  [][\A c \in Calls, i \in Ids :
       LET j == jobs[c][i] IN
       j.step = "running" /\ jobs'[c][i] # j /\ jobs'[c][i].step = "running" =>
         Left(jobs'[c][i]) < Left(j)]_vars

\* The progress the import page polls does not stay on "running" when no import
\* task is left to end it.
RunningIsReal ==
  progress.running => \E c \in Calls : kind[c] = "task" /\ pc[c] \in {"split", "convert", "end"}
=============================================================================
