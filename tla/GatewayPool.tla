---------------------------- MODULE GatewayPool ----------------------------
(***************************************************************************)
(* The account pool of the local gateway: AccountPicker (gateway/picker.go)*)
(* together with the request handlers that take accounts from it and give  *)
(* them back (gateway/http.go, anthropic.go, chat.go) and the health fields*)
(* the picker reads from, and writes to, the account store                 *)
(* (engine/accounts.go).                                                   *)
(*                                                                         *)
(* Every critical section of AccountPicker.mu is one action; the account   *)
(* list is read (AccountService.List) outside that lock, in an action of   *)
(* its own, so a choice may be made from a stale list.  Deadlines are kept *)
(* as the number of ticks left; Tick is the passage of a few minutes.      *)
(***************************************************************************)
EXTENDS Naturals, FiniteSets

CONSTANTS
  Accounts,              \* account ids
  Groups,                \* groups an account can be in ("" for none among them)
  AllAccounts,           \* the pseudo group "__all__"
  Sessions,              \* conversation ids sent by clients
  NoSession,             \* a request without a conversation header
  NoAccount,             \* the zero AccountEntry
  Requests,              \* handler goroutines
  Arrivals,              \* Arrivals[r]: the jobs handler r may be given
  Outcomes,              \* what the upstream may do to one forward
  MaxAccountConcurrency,
  RateLimitCooldown,     \* in ticks
  NetworkCooldown,       \* in ticks
  StickySessionTTL,      \* in ticks
  SweepEvery,            \* sticky bindings are swept every SweepEvery misses
  ModelRounds,           \* handleModels asks at most this many accounts
  ChatTurns,             \* HandleChat's tool loop bound
  Admin                  \* the account-store operations of this instance

Jobs == [kind: {"forward"}, group: Groups \cup {AllAccounts},
         session: Sessions \cup {NoSession}]
        \cup [kind: {"chat"}, group: {AllAccounts}, session: {NoSession}]
        \cup [kind: {"models", "test"}, group: Groups \cup {AllAccounts},
              session: {NoSession}]

\* Handlers that give back each account before they take another or answer.
Brief == {"models", "test"}

NoJob == [kind |-> "none", group |-> AllAccounts, session |-> NoSession]

\* A transport error is an error of http.Client.Do; its text may contain
\* "forbidden" (a proxy refusing CONNECT) or "rate limit".
TransportErrors == {"neterr", "neterr_forbidden", "neterr_limited"}
HTTPErrors      == {"forbidden", "limited", "failed"}
AdminOps == {"ban", "unban", "clearlimit", "usage", "upsert", "move",
             "usable", "restart"}

ASSUME PoolAssumption ==
  /\ IsFiniteSet(Accounts) /\ IsFiniteSet(Requests)
  /\ NoAccount \notin Accounts
  /\ NoSession \notin Sessions
  /\ AllAccounts \notin Groups
  /\ Arrivals \in [Requests -> SUBSET Jobs]
  /\ Outcomes \subseteq {"ok"} \cup TransportErrors \cup HTTPErrors
  /\ MaxAccountConcurrency \in Nat \ {0}
  /\ RateLimitCooldown \in Nat \ {0}
  /\ NetworkCooldown \in Nat \ {0}
  /\ StickySessionTTL \in Nat
  /\ SweepEvery \in Nat \ {0}
  /\ ModelRounds \in Nat \ {0} /\ ChatTurns \in Nat \ {0}
  /\ Admin \subseteq AdminOps

VARIABLES
  groupID,    \* stored: the group of each account
  usable,     \* stored: it exists, has a token and its quota is not spent
  bannedAt,   \* stored: the banned accounts
  resetAt,    \* stored: RateLimitResetAt, ticks left
  unsched,    \* stored: TempUnschedulable, ticks left
  running,    \* AccountPicker.running
  cooldown,   \* AccountPicker.cooldown, ticks left
  forbidden,  \* AccountPicker.forbidden
  sticky,     \* AccountPicker.sticky: account and idle ticks
  stickyN,    \* AccountPicker.stickyN modulo SweepEvery
  pc,         \* where each handler is
  job,        \* what it serves
  list,       \* the accounts its last List found schedulable
  entry,      \* the account its deferred Release gives back
  cur,        \* the account whose slot it holds now
  attempt,    \* forward attempt, model round or chat turn
  answer,     \* what the upstream did last
  condemned,  \* history: accounts with a recorded 403 nobody has lifted
  limited     \* history: ticks left of the last recorded 429

storeVars   == <<groupID, usable, bannedAt, resetAt, unsched>>
pickVars    == <<running, cooldown, forbidden, sticky, stickyN>>
handlerVars == <<pc, job, list, entry, cur, attempt, answer>>
historyVars == <<condemned, limited>>
vars == <<groupID, usable, bannedAt, resetAt, unsched, running, cooldown,
          forbidden, sticky, stickyN, pc, job, list, entry, cur, attempt,
          answer, condemned, limited>>

Unbound == [acc |-> NoAccount, idle |-> 0]

MaxTicks == IF RateLimitCooldown > NetworkCooldown
              THEN RateLimitCooldown ELSE NetworkCooldown

Init ==
  /\ groupID \in [Accounts -> Groups]
  /\ usable = Accounts
  /\ bannedAt = {}
  /\ resetAt = [a \in Accounts |-> 0]
  /\ unsched = [a \in Accounts |-> 0]
  /\ running = [a \in Accounts |-> 0]
  /\ cooldown = [a \in Accounts |-> 0]
  /\ forbidden = {}
  /\ sticky = [s \in Sessions |-> Unbound]
  /\ stickyN = 0
  /\ pc = [r \in Requests |-> "idle"]
  /\ job = [r \in Requests |-> NoJob]
  /\ list = [r \in Requests |-> {}]
  /\ entry = [r \in Requests |-> NoAccount]
  /\ cur = [r \in Requests |-> NoAccount]
  /\ attempt = [r \in Requests |-> 0]
  /\ answer = [r \in Requests |-> "ok"]
  /\ condemned = {}
  /\ limited = [a \in Accounts |-> 0]

-----------------------------------------------------------------------------
(* accountHealthy: a stored half read from the list, a half kept in memory *)

\* Variants of single definitions, each the trace of a plausible slip; the
\* model does not use them.
StoredHealthyNoBan(a) ==
  a \in usable /\ resetAt[a] = 0 /\ unsched[a] = 0
StoredHealthyNoLimit(a) ==
  a \in usable \ bannedAt /\ unsched[a] = 0
PoolHealthyNoCap(a) == a \notin forbidden /\ cooldown[a] = 0
ReleaseNothing(a) == running' = running
ExpiredEarly(b) == b.idle >= StickySessionTTL
RetryInPlace(r, o) == IF o = "limited" THEN "upstream" ELSE "finish"
NothingIgnored(r) ==
  /\ pc[r] = "choose"
  /\ Cardinality(list[r]) = 0
  /\ pc' = [pc EXCEPT ![r] = "upstream"]
  /\ UNCHANGED <<job, list, entry, cur, attempt, answer, storeVars, pickVars,
                 historyVars>>

StoredHealthy(a) ==
  /\ a \in usable
  /\ a \notin bannedAt
  /\ resetAt[a] = 0
  /\ unsched[a] = 0

PoolHealthy(a) ==
  /\ a \notin forbidden
  /\ cooldown[a] = 0
  /\ running[a] < MaxAccountConcurrency

AccountHealthy(a) == StoredHealthy(a) /\ PoolHealthy(a)

\* A binding the sweep removes.
Expired(b) == b.idle > StickySessionTTL

\* Release: never below zero, and nothing for the zero entry.
ReleaseSlot(a) ==
  running' = IF a \in Accounts /\ running[a] > 0
               THEN [running EXCEPT ![a] = @ - 1] ELSE running

\* A write to a map of deadlines; the zero entry's is never read.
Set(f, a, n) == IF a \in Accounts THEN [f EXCEPT ![a] = n] ELSE f

\* The three cases of RecordFailure, and the calls that do not make one.
Verdict(r, o) ==
  IF job[r].kind = "models" \/ (job[r].kind = "chat" /\ o \in TransportErrors)
    THEN "none"
    ELSE CASE o \in {"forbidden", "neterr_forbidden"} -> "ban"
           [] o \in {"limited", "neterr_limited"}     -> "limit"
           [] o = "neterr"                            -> "cool"
           [] OTHER                                   -> "none"

\* RecordFailure under the lock: a 403 forgets the cooldown, the others
\* overwrite it, a longer one included.
Remember(a, v) ==
  /\ forbidden' = forbidden \cup (IF v = "ban" THEN {a} \cap Accounts ELSE {})
  /\ cooldown' = CASE v = "ban"   -> Set(cooldown, a, 0)
                   [] v = "limit" -> Set(cooldown, a, RateLimitCooldown)
                   [] v = "cool"  -> Set(cooldown, a, NetworkCooldown)
                   [] OTHER       -> cooldown

-----------------------------------------------------------------------------
(* One request                                                             *)

Goto(r, where) == pc' = [pc EXCEPT ![r] = where]

\* Back to the pool of goroutines; the handler's locals are gone.
Return(r) ==
  /\ Goto(r, "idle")
  /\ job' = [job EXCEPT ![r] = NoJob]
  /\ list' = [list EXCEPT ![r] = {}]
  /\ entry' = [entry EXCEPT ![r] = NoAccount]
  /\ cur' = [cur EXCEPT ![r] = NoAccount]
  /\ attempt' = [attempt EXCEPT ![r] = 0]
  /\ answer' = [answer EXCEPT ![r] = "ok"]

\* A request passes auth() and resolveTarget has found its group and service;
\* or the interface asks for a chat or a connectivity test.
Arrive(r) ==
  /\ pc[r] = "idle"
  /\ \E j \in Arrivals[r] :
       /\ job' = [job EXCEPT ![r] = j]
       /\ Goto(r, IF j.session = NoSession THEN "list" ELSE "sticky")
  /\ UNCHANGED <<list, entry, cur, attempt, answer, storeVars, pickVars,
                 historyVars>>

\* PickWithSession, first critical section, bound account still schedulable.
StickyReuse(r) ==
  LET s == job[r].session
      a == sticky[s].acc IN
  /\ pc[r] = "sticky"
  /\ a # NoAccount /\ AccountHealthy(a)
  /\ running' = [running EXCEPT ![a] = @ + 1]
  /\ sticky' = [sticky EXCEPT ![s].idle = 0]
  /\ entry' = [entry EXCEPT ![r] = a]
  /\ cur' = [cur EXCEPT ![r] = a]
  /\ Goto(r, "upstream")
  /\ UNCHANGED <<job, list, attempt, answer, storeVars, cooldown, forbidden,
                 stickyN, historyVars>>

\* ... no binding, or one that is dropped; every SweepEvery misses the expired
\* bindings are swept.
StickyMiss(r) ==
  LET s == job[r].session
      a == sticky[s].acc
      dropped == [sticky EXCEPT ![s] = Unbound]
      count == (stickyN + 1) % SweepEvery IN
  /\ pc[r] = "sticky"
  /\ a # NoAccount => ~ AccountHealthy(a)
  /\ stickyN' = count
  /\ sticky' = IF count # 0 THEN dropped
               ELSE [t \in Sessions |-> IF Expired(dropped[t])
                                          THEN Unbound ELSE dropped[t]]
  /\ Goto(r, "list")
  /\ UNCHANGED <<job, list, entry, cur, attempt, answer, storeVars, running,
                 cooldown, forbidden, historyVars>>

\* Pick reads the account list before it takes the lock.
ReadList(r) ==
  /\ pc[r] = "list"
  /\ list' = [list EXCEPT ![r] =
                {a \in Accounts : StoredHealthy(a)
                    /\ job[r].group \in {AllAccounts, groupID[a]}}]
  /\ Goto(r, "choose")
  /\ UNCHANGED <<job, entry, cur, attempt, answer, storeVars, pickVars,
                 historyVars>>

Candidates(r) == {a \in list[r] : PoolHealthy(a)}

\* The least loaded candidate; the round robin counter only breaks ties.
Choose(r) ==
  /\ pc[r] = "choose"
  /\ \E a \in Candidates(r) :
       /\ \A b \in Candidates(r) : running[a] <= running[b]
       /\ running' = [running EXCEPT ![a] = @ + 1]
       /\ cur' = [cur EXCEPT ![r] = a]
       /\ entry' = [entry EXCEPT ![r] = IF attempt[r] = 0 THEN a ELSE @]
  /\ Goto(r, CASE job[r].kind = "test" -> "release"
               [] attempt[r] = 0 /\ job[r].session # NoSession -> "bind"
               [] OTHER -> "upstream")
  /\ list' = [list EXCEPT ![r] = {}]
  /\ UNCHANGED <<job, attempt, answer, storeVars, cooldown, forbidden, sticky,
                 stickyN, historyVars>>

\* Nothing to pick.  A first pick without a session is answered 503 (models
\* answer with the built-in list); a retry gives up; with a session the error
\* of Pick is dropped and the zero entry is forwarded.
NothingToPick(r) ==
  LET first == attempt[r] = 0
      plain == job[r].session = NoSession IN
  /\ pc[r] = "choose"
  /\ Candidates(r) = {}
  /\ \/ /\ job[r].kind \in Brief \/ (first /\ plain)
        /\ Return(r)
     \/ /\ job[r].kind \notin Brief /\ ~ (first /\ plain)
        /\ Goto(r, IF first THEN "upstream" ELSE "finish")
        /\ list' = [list EXCEPT ![r] = {}]
        /\ UNCHANGED <<job, entry, cur, attempt, answer>>
  /\ UNCHANGED <<storeVars, pickVars, historyVars>>

\* PickWithSession, last critical section.
Bind(r) ==
  /\ pc[r] = "bind"
  /\ sticky' = [sticky EXCEPT ![job[r].session] = [acc |-> cur[r], idle |-> 0]]
  /\ Goto(r, "upstream")
  /\ UNCHANGED <<job, list, entry, cur, attempt, answer, storeVars, running,
                 cooldown, forbidden, stickyN, historyVars>>

\* Where a handler goes once the upstream has answered o.
AfterAnswer(r, o) ==
  CASE Verdict(r, o) # "none"                        -> "persist"
    [] job[r].kind = "models"                        -> "release"
    [] OTHER                                         -> "finish"

\* forwardUpstream returns and RecordFailure updates the pool's memory.
Upstream(r) ==
  /\ pc[r] = "upstream"
  /\ \E o \in Outcomes :
       /\ answer' = [answer EXCEPT ![r] =
                       IF AfterAnswer(r, o) = "finish" THEN "ok" ELSE o]
       /\ Remember(cur[r], Verdict(r, o))
       /\ Goto(r, AfterAnswer(r, o))
  /\ UNCHANGED <<job, list, entry, cur, attempt, storeVars, running, sticky,
                 stickyN, historyVars>>

\* HandleChat executed the model's tool call and asks again on the same account.
NextTurn(r) ==
  /\ pc[r] = "upstream" /\ job[r].kind = "chat"
  /\ "ok" \in Outcomes
  /\ attempt[r] + 1 < ChatTurns
  /\ attempt' = [attempt EXCEPT ![r] = @ + 1]
  /\ UNCHANGED <<pc, job, list, entry, cur, answer, storeVars, pickVars,
                 historyVars>>

\* RecordFailure, after the lock: AccountService.Update writes the verdict.
Persist(r) ==
  LET a == cur[r]
      v == Verdict(r, answer[r]) IN
  /\ pc[r] = "persist"
  /\ bannedAt' = bannedAt \cup (IF v = "ban" THEN {a} \cap Accounts ELSE {})
  /\ condemned' = condemned \cup (IF v = "ban" THEN {a} \cap Accounts ELSE {})
  /\ resetAt' = IF v # "limit" THEN resetAt
                ELSE Set(resetAt, a, RateLimitCooldown)
  /\ limited' = IF v # "limit" THEN limited
                ELSE Set(limited, a, RateLimitCooldown)
  /\ unsched' = IF v = "cool" THEN Set(unsched, a, NetworkCooldown) ELSE unsched
  /\ Goto(r, IF answer[r] \in TransportErrors THEN "release" ELSE "finish")
  /\ UNCHANGED <<job, list, entry, cur, attempt, answer, groupID, usable,
                 pickVars>>

\* forwardWithRetry gives back the failed account and tries once more;
\* handleModels gives back every account before it reads the answer, the
\* connectivity test has nothing else to do.
ReleaseCurrent(r) ==
  /\ pc[r] = "release"
  /\ ReleaseSlot(cur[r])
  /\ \/ /\ job[r].kind = "forward"
        /\ cur' = [cur EXCEPT ![r] = NoAccount]
        /\ \/ attempt[r] = 0 /\ Goto(r, "list")
              /\ attempt' = [attempt EXCEPT ![r] = 1]
           \/ attempt[r] = 1 /\ Goto(r, "finish") /\ UNCHANGED attempt
        /\ UNCHANGED <<job, list, entry, answer>>
     \/ /\ job[r].kind = "models" /\ attempt[r] + 1 < ModelRounds
        /\ cur' = [cur EXCEPT ![r] = NoAccount]
        /\ entry' = [entry EXCEPT ![r] = NoAccount]
        /\ attempt' = [attempt EXCEPT ![r] = @ + 1]
        /\ Goto(r, "list")
        /\ UNCHANGED <<job, list, answer>>
     \/ /\ \/ job[r].kind = "test"
           \/ /\ job[r].kind = "models"
              /\ attempt[r] + 1 = ModelRounds \/ answer[r] = "ok"
        /\ Return(r)
  /\ UNCHANGED <<storeVars, cooldown, forbidden, sticky, stickyN, historyVars>>

\* The response has been copied to the client; the deferred Release runs.
Finish(r) ==
  /\ pc[r] = "finish"
  /\ ReleaseSlot(entry[r])
  /\ Return(r)
  /\ UNCHANGED <<storeVars, cooldown, forbidden, sticky, stickyN, historyVars>>

-----------------------------------------------------------------------------
(* The account store under the picker, the clock and the process           *)

\* POST /accounts/:id/ban
Ban(a) ==
  /\ "ban" \in Admin
  /\ bannedAt' = bannedAt \cup {a}
  /\ UNCHANGED <<groupID, usable, resetAt, unsched, pickVars, handlerVars,
                 historyVars>>

\* POST /accounts/:id/ban {unban: true}: only the stored field is cleared.
Unban(a) ==
  /\ "unban" \in Admin
  /\ bannedAt' = bannedAt \ {a}
  /\ condemned' = condemned \ {a}
  /\ UNCHANGED <<groupID, usable, resetAt, unsched, pickVars, handlerVars,
                 limited>>

\* Update with empty health timestamps.
ClearLimit(a) ==
  /\ "clearlimit" \in Admin
  /\ resetAt' = [resetAt EXCEPT ![a] = 0]
  /\ unsched' = [unsched EXCEPT ![a] = 0]
  /\ limited' = [limited EXCEPT ![a] = 0]
  /\ UNCHANGED <<groupID, usable, bannedAt, pickVars, handlerVars, condemned>>

\* FetchAccountUsage: the quota decides whether tokens are left, and the
\* upstream's own retry-after, when it gives one, replaces the deadline.
FetchUsage(a) ==
  /\ "usage" \in Admin
  /\ usable' \in {usable \cup {a}, usable \ {a}}
  /\ \/ UNCHANGED <<resetAt, limited>>
     \/ \E t \in 1..RateLimitCooldown :
          /\ resetAt' = [resetAt EXCEPT ![a] = t]
          /\ limited' = [limited EXCEPT ![a] = IF @ > t THEN t ELSE @]
  /\ UNCHANGED <<groupID, bannedAt, unsched, pickVars, handlerVars, condemned>>

\* UpsertFromResult finds the e-mail or the SSO again: the record is replaced
\* and only id, dates, note and test trace are carried over.
Upsert(a) ==
  /\ "upsert" \in Admin
  /\ \E g \in Groups : groupID' = [groupID EXCEPT ![a] = g]
  /\ usable' \in {usable \cup {a}, usable \ {a}}
  /\ bannedAt' = bannedAt \ {a}
  /\ resetAt' = [resetAt EXCEPT ![a] = 0]
  /\ unsched' = [unsched EXCEPT ![a] = 0]
  /\ UNCHANGED <<pickVars, handlerVars, historyVars>>

MoveAccount(a) ==
  /\ "move" \in Admin
  /\ \E g \in Groups : groupID' = [groupID EXCEPT ![a] = g]
  /\ UNCHANGED <<usable, bannedAt, resetAt, unsched, pickVars, handlerVars,
                 historyVars>>

\* RefreshOAuth and imports give an account its token; a deletion is for good.
ChangeUsable(a) ==
  /\ "usable" \in Admin
  /\ usable' = IF a \in usable THEN usable \ {a} ELSE usable \cup {a}
  /\ UNCHANGED <<groupID, bannedAt, resetAt, unsched, pickVars, handlerVars,
                 historyVars>>

\* Reading a list, choosing from it and writing a verdict take milliseconds.
Instant == {"choose", "bind", "persist"}
Less(n) == IF n = 0 THEN 0 ELSE n - 1

Tick ==
  /\ \A r \in Requests : pc[r] \notin Instant
  /\ resetAt' = [a \in Accounts |-> Less(resetAt[a])]
  /\ unsched' = [a \in Accounts |-> Less(unsched[a])]
  /\ cooldown' = [a \in Accounts |-> Less(cooldown[a])]
  /\ limited' = [a \in Accounts |-> Less(limited[a])]
  /\ sticky' = [s \in Sessions |->
                  IF sticky[s].acc = NoAccount \/ sticky[s].idle > StickySessionTTL
                    THEN sticky[s] ELSE [sticky[s] EXCEPT !.idle = @ + 1]]
  /\ UNCHANGED <<groupID, usable, bannedAt, running, forbidden, stickyN,
                 handlerVars, condemned>>

\* The application is closed or dies: the picker and the handlers are memory.
Restart ==
  /\ "restart" \in Admin
  /\ running' = [a \in Accounts |-> 0]
  /\ cooldown' = [a \in Accounts |-> 0]
  /\ forbidden' = {}
  /\ sticky' = [s \in Sessions |-> Unbound]
  /\ stickyN' = 0
  /\ pc' = [r \in Requests |-> "idle"]
  /\ job' = [r \in Requests |-> NoJob]
  /\ list' = [r \in Requests |-> {}]
  /\ entry' = [r \in Requests |-> NoAccount]
  /\ cur' = [r \in Requests |-> NoAccount]
  /\ attempt' = [r \in Requests |-> 0]
  /\ answer' = [r \in Requests |-> "ok"]
  /\ UNCHANGED <<storeVars, historyVars>>

Handler(r) ==
  \/ StickyReuse(r) \/ StickyMiss(r) \/ ReadList(r) \/ Choose(r)
  \/ NothingToPick(r) \/ Bind(r) \/ Upstream(r) \/ NextTurn(r) \/ Persist(r)
  \/ ReleaseCurrent(r) \/ Finish(r)

Store(a) ==
  \/ Ban(a) \/ Unban(a) \/ ClearLimit(a) \/ FetchUsage(a) \/ Upsert(a)
  \/ MoveAccount(a) \/ ChangeUsable(a)

Next ==
  \/ \E r \in Requests : Arrive(r) \/ Handler(r)
  \/ \E a \in Accounts : Store(a)
  \/ Tick
  \/ Restart

Spec == Init /\ [][Next]_vars

\* Handlers run, and the upstream answers or the connection breaks.
FairSpec == Spec /\ \A r \in Requests : WF_vars(Handler(r))

-----------------------------------------------------------------------------
(* Properties                                                              *)

Points == {"idle", "sticky", "list", "choose", "bind", "upstream", "persist",
           "release", "finish"}

TypeOK ==
  /\ groupID \in [Accounts -> Groups]
  /\ usable \subseteq Accounts
  /\ bannedAt \subseteq Accounts
  /\ resetAt \in [Accounts -> 0..RateLimitCooldown]
  /\ unsched \in [Accounts -> 0..NetworkCooldown]
  /\ running \in [Accounts -> 0..MaxAccountConcurrency]
  /\ cooldown \in [Accounts -> 0..MaxTicks]
  /\ forbidden \subseteq Accounts
  /\ sticky \in [Sessions -> [acc: Accounts \cup {NoAccount},
                              idle: 0..StickySessionTTL + 1]]
  /\ stickyN \in 0..SweepEvery - 1
  /\ pc \in [Requests -> Points]
  /\ job \in [Requests -> Jobs \cup {NoJob}]
  /\ list \in [Requests -> SUBSET Accounts]
  /\ entry \in [Requests -> Accounts \cup {NoAccount}]
  /\ cur \in [Requests -> Accounts \cup {NoAccount}]
  /\ attempt \in [Requests -> Nat]
  /\ answer \in [Requests -> {"ok"} \cup Outcomes]
  /\ condemned \subseteq Accounts
  /\ limited \in [Accounts -> 0..RateLimitCooldown]

Holders(a) == {r \in Requests : cur[r] = a}

\* Every slot counted in running belongs to exactly one request that still has
\* to give it back: no slot is lost and none is given back twice.
SlotsExact == \A a \in Accounts : running[a] = Cardinality(Holders(a))

\* README and picker.go: an account serves at most MaxAccountConcurrency
\* requests at a time.
CapRespected ==
  \A a \in Accounts : Cardinality(Holders(a)) <= MaxAccountConcurrency

\* picker.go, Release: "请求结束释放账号并发槽" - when no request is in progress
\* every slot is free.
SlotsReturned ==
  (\A r \in Requests : pc[r] = "idle") => \A a \in Accounts : running[a] = 0

Acquires(r, a) == cur[r] # a /\ cur'[r] = a

\* A 403 verdict that reached the store keeps the account out of every later
\* pick, over restarts, until somebody lifts the ban.
BanHonoured ==
  [][\A r \in Requests, a \in Accounts : Acquires(r, a) => a \notin condemned]_vars

\* A recorded 429 keeps the account out for the whole rate-limit cooldown, even
\* when a concurrent network failure shortens the cooldown kept in memory.
RateLimitHonoured ==
  [][\A r \in Requests, a \in Accounts : Acquires(r, a) => limited[a] = 0]_vars

\* A conversation changes accounts only when its account cannot be scheduled or
\* the binding has expired.
StickyStable ==
  [][\A s \in Sessions :
       sticky[s].acc # NoAccount /\ sticky'[s].acc # sticky[s].acc
         => \/ ~ AccountHealthy(sticky[s].acc)
            \/ sticky[s].idle > StickySessionTTL]_vars

\* resolveTarget: "分组 -> 服务 -> 可用账号" - what is forwarded carries an
\* account of the pool, and the one its handler gives back; only a conversation
\* for which there was nothing to pick goes out with the zero entry.
ForwardHasAccount ==
  \A r \in Requests : pc[r] = "upstream" /\ cur[r] = NoAccount =>
    attempt[r] = 0 /\ entry[r] = NoAccount /\ job[r].session # NoSession

\* Every request that arrives ends.
RequestEnds == \A r \in Requests : (pc[r] # "idle") ~> (pc[r] = "idle")

\* The pool implements the lease contract.
Lease == INSTANCE SlotLease WITH
  Clients <- Requests, Pool <- Accounts, Limit <- MaxAccountConcurrency,
  Nobody <- NoAccount, lease <- cur
LeaseSpec == Lease!Spec
=============================================================================
