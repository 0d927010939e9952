------------------------- MODULE GatewayPool_proofs -------------------------
(***************************************************************************)
(* Theorems about GatewayPool, for every value of its constants.           *)
(***************************************************************************)
EXTENDS GatewayPool, FiniteSetTheorems, TLAPS

-----------------------------------------------------------------------------
(* Type correctness                                                        *)

\* A handler inside the sticky critical section serves a conversation.
StickyTyped == \A r \in Requests : pc[r] = "sticky" => job[r].session \in Sessions

TypeInv == TypeOK /\ StickyTyped

\* The slots counted for an account stay within the bound when one is given back.
LEMMA ReleaseSlotType ==
  ASSUME running \in [Accounts -> 0..MaxAccountConcurrency], NEW a, ReleaseSlot(a)
  PROVE  running' \in [Accounts -> 0..MaxAccountConcurrency]
  BY PoolAssumption DEF ReleaseSlot

\* RecordFailure leaves the memory of the pool well typed.
LEMMA RememberType ==
  ASSUME forbidden \subseteq Accounts, cooldown \in [Accounts -> 0..MaxTicks],
         NEW a, NEW v, Remember(a, v)
  PROVE  forbidden' \subseteq Accounts /\ cooldown' \in [Accounts -> 0..MaxTicks]
  BY PoolAssumption DEF Remember, Set, MaxTicks

\* A job taken from Arrivals is a job.
LEMMA ArrivalType ==
  ASSUME NEW r \in Requests, NEW j \in Arrivals[r]
  PROVE  /\ j \in Jobs
         /\ j.session \in Sessions \cup {NoSession}
  BY PoolAssumption DEF Jobs

\* A handler that returns leaves its locals well typed.
HandlerTyped ==
  /\ pc \in [Requests -> Points]
  /\ job \in [Requests -> Jobs \cup {NoJob}]
  /\ list \in [Requests -> SUBSET Accounts]
  /\ entry \in [Requests -> Accounts \cup {NoAccount}]
  /\ cur \in [Requests -> Accounts \cup {NoAccount}]
  /\ attempt \in [Requests -> Nat]
  /\ answer \in [Requests -> {"ok"} \cup Outcomes]
  /\ StickyTyped

LEMMA ReturnType ==
  ASSUME HandlerTyped, NEW r \in Requests, Return(r)
  PROVE  HandlerTyped'
  BY DEF HandlerTyped, StickyTyped, Return, Goto, Points

\* A deadline stays below its cooldown as it runs down.
LEMMA LessType ==
  ASSUME NEW k \in Nat, NEW n \in 0..k
  PROVE  Less(n) \in 0..k
  BY DEF Less

\* Every reachable state is well typed.
LEMMA TypeInvInit == Init => TypeInv
<1> SUFFICES ASSUME Init PROVE TypeInv
  OBVIOUS
<1>1. /\ groupID \in [Accounts -> Groups]
      /\ usable \subseteq Accounts
      /\ bannedAt \subseteq Accounts
      /\ resetAt \in [Accounts -> 0..RateLimitCooldown]
      /\ unsched \in [Accounts -> 0..NetworkCooldown]
  BY PoolAssumption DEF Init
<1>2. /\ running \in [Accounts -> 0..MaxAccountConcurrency]
      /\ cooldown \in [Accounts -> 0..MaxTicks]
      /\ limited \in [Accounts -> 0..RateLimitCooldown]
      /\ forbidden \subseteq Accounts /\ condemned \subseteq Accounts
  BY PoolAssumption DEF Init, MaxTicks
<1>3. sticky \in [Sessions -> [acc: Accounts \cup {NoAccount},
                              idle: 0..StickySessionTTL + 1]]
  BY PoolAssumption DEF Init, Unbound
<1>4. stickyN \in 0..SweepEvery - 1
  BY PoolAssumption DEF Init
<1>5. /\ pc \in [Requests -> Points]
      /\ job \in [Requests -> Jobs \cup {NoJob}]
      /\ list \in [Requests -> SUBSET Accounts]
      /\ entry \in [Requests -> Accounts \cup {NoAccount}]
      /\ cur \in [Requests -> Accounts \cup {NoAccount}]
      /\ attempt \in [Requests -> Nat]
      /\ answer \in [Requests -> {"ok"} \cup Outcomes]
      /\ StickyTyped
  BY DEF Init, Points, StickyTyped
<1>6. QED
  BY <1>1, <1>2, <1>3, <1>4, <1>5 DEF TypeInv, TypeOK

\* A step of a handler keeps the types.
LEMMA TypeInvHandler ==
  ASSUME TypeInv, NEW r \in Requests, Arrive(r) \/ Handler(r)
  PROVE  TypeInv'
<1> USE PoolAssumption
<1> USE DEF TypeInv, TypeOK, StickyTyped, Points, Goto, storeVars, pickVars, historyVars
<1>1. CASE Arrive(r)
  BY <1>1, ArrivalType DEF Arrive
<1>2. CASE StickyReuse(r)
  BY <1>2 DEF StickyReuse, AccountHealthy, PoolHealthy
<1>3. CASE StickyMiss(r)
  BY <1>3 DEF StickyMiss, Unbound
<1>4. CASE ReadList(r)
  BY <1>4 DEF ReadList
<1>5. CASE Choose(r)
  BY <1>5 DEF Choose, Candidates, PoolHealthy
<1>6. CASE NothingToPick(r)
  <2>1. CASE Return(r)
    BY <1>6, <2>1, ReturnType DEF NothingToPick, HandlerTyped
  <2>2. CASE ~ Return(r)
    BY <1>6, <2>2 DEF NothingToPick
  <2>3. QED
    BY <2>1, <2>2
<1>7. CASE Bind(r)
  <2>1. [acc |-> cur[r], idle |-> 0] \in [acc: Accounts \cup {NoAccount},
                                       idle: 0..StickySessionTTL + 1]
    OBVIOUS
  <2>2. sticky' \in [Sessions -> [acc: Accounts \cup {NoAccount},
                                 idle: 0..StickySessionTTL + 1]]
    BY <1>7, <2>1 DEF Bind
  <2>3. QED
    BY <1>7, <2>2 DEF Bind
<1>8. CASE Upstream(r)
  BY <1>8, RememberType DEF Upstream, AfterAnswer
<1>9. CASE NextTurn(r)
  BY <1>9 DEF NextTurn
<1>10. CASE Persist(r)
  BY <1>10 DEF Persist, Set
<1>11. CASE ReleaseCurrent(r)
  <2>1. running' \in [Accounts -> 0..MaxAccountConcurrency]
    BY <1>11, ReleaseSlotType DEF ReleaseCurrent
  <2>2. HandlerTyped
    BY DEF HandlerTyped
  <2>3. HandlerTyped'
    <3>1. CASE Return(r)
      BY <2>2, <3>1, ReturnType
    <3>2. CASE job[r].kind = "forward" /\ cur' = [cur EXCEPT ![r] = NoAccount]
               /\ UNCHANGED <<job, list, entry, answer>>
      <4>1. /\ pc' \in {[pc EXCEPT ![r] = "list"], [pc EXCEPT ![r] = "finish"]}
            /\ attempt' \in {attempt, [attempt EXCEPT ![r] = 1]}
        BY <1>11, <3>2 DEF ReleaseCurrent, Return
      <4>2. QED
        BY <3>2, <4>1 DEF HandlerTyped
    <3>3. CASE /\ cur' = [cur EXCEPT ![r] = NoAccount]
               /\ entry' = [entry EXCEPT ![r] = NoAccount]
               /\ attempt' = [attempt EXCEPT ![r] = @ + 1]
               /\ Goto(r, "list")
               /\ UNCHANGED <<job, list, answer>>
      BY <3>3 DEF HandlerTyped
    <3>4. QED
      BY <1>11, <3>1, <3>2, <3>3 DEF ReleaseCurrent
  <2>4. UNCHANGED <<storeVars, cooldown, forbidden, sticky, stickyN, historyVars>>
    BY <1>11 DEF ReleaseCurrent
  <2>5. QED
    BY <2>1, <2>3, <2>4 DEF HandlerTyped
<1>12. CASE Finish(r)
  BY <1>12, ReleaseSlotType DEF Finish, Return
<1>13. QED
  BY <1>1, <1>2, <1>3, <1>4, <1>5, <1>6, <1>7, <1>8, <1>9, <1>10, <1>11, <1>12
     DEF Handler

\* So does an operation of the account store.
LEMMA TypeInvStore ==
  ASSUME TypeInv, NEW a \in Accounts, Store(a)
  PROVE  TypeInv'
<1> USE PoolAssumption
<1> USE DEF TypeInv, TypeOK, StickyTyped, pickVars, handlerVars, historyVars
<1>1. CASE Ban(a)
  BY <1>1 DEF Ban
<1>2. CASE Unban(a)
  BY <1>2 DEF Unban
<1>3. CASE ClearLimit(a)
  BY <1>3 DEF ClearLimit
<1>4. CASE FetchUsage(a)
  BY <1>4 DEF FetchUsage
<1>5. CASE Upsert(a)
  BY <1>5 DEF Upsert
<1>6. CASE MoveAccount(a)
  BY <1>6 DEF MoveAccount
<1>7. CASE ChangeUsable(a)
  BY <1>7 DEF ChangeUsable
<1>8. QED
  BY <1>1, <1>2, <1>3, <1>4, <1>5, <1>6, <1>7 DEF Store

\* ... the clock and a restart.
LEMMA TypeInvTick == TypeInv /\ Tick => TypeInv'
<1> SUFFICES ASSUME TypeInv, Tick PROVE TypeInv'
  OBVIOUS
<1> USE PoolAssumption DEF TypeInv, TypeOK, Tick
<1>1. /\ resetAt' \in [Accounts -> 0..RateLimitCooldown]
      /\ limited' \in [Accounts -> 0..RateLimitCooldown]
      /\ unsched' \in [Accounts -> 0..NetworkCooldown]
      /\ cooldown' \in [Accounts -> 0..MaxTicks]
  <2>1. MaxTicks \in Nat
    BY DEF MaxTicks
  <2>2. QED
    BY <2>1, LessType
<1>2. sticky' \in [Sessions -> [acc: Accounts \cup {NoAccount},
                               idle: 0..StickySessionTTL + 1]]
  <2> DEFINE B == [acc: Accounts \cup {NoAccount}, idle: 0..StickySessionTTL + 1]
  <2>1. ASSUME NEW b \in B, b.idle <= StickySessionTTL
        PROVE  [b EXCEPT !.idle = @ + 1] \in B
    BY <2>1
  <2>2. ASSUME NEW s \in Sessions
        PROVE  sticky'[s] \in B
    <3>1. sticky[s] \in B
      OBVIOUS
    <3>2. CASE sticky[s].acc = NoAccount \/ sticky[s].idle > StickySessionTTL
      BY <3>1, <3>2
    <3>3. CASE ~ (sticky[s].acc = NoAccount \/ sticky[s].idle > StickySessionTTL)
      <4>1. sticky'[s] = [sticky[s] EXCEPT !.idle = @ + 1]
        BY <3>3
      <4>2. sticky[s].idle <= StickySessionTTL
        BY <3>1, <3>3
      <4>3. QED
        BY <2>1, <3>1, <4>1, <4>2
    <3>4. QED
      BY <3>2, <3>3
  <2>3. QED
    BY <2>2
<1>3. QED
  BY <1>1, <1>2 DEF StickyTyped, handlerVars

LEMMA TypeInvRestart == TypeInv /\ Restart => TypeInv'
  BY PoolAssumption
     DEF TypeInv, TypeOK, StickyTyped, Restart, storeVars, historyVars, Points,
         MaxTicks, Unbound

LEMMA TypeInvNext == TypeInv /\ [Next]_vars => TypeInv'
<1> SUFFICES ASSUME TypeInv, [Next]_vars PROVE TypeInv'
  OBVIOUS
<1>1. CASE \E r \in Requests : Arrive(r) \/ Handler(r)
  BY <1>1, TypeInvHandler
<1>2. CASE \E a \in Accounts : Store(a)
  BY <1>2, TypeInvStore
<1>3. CASE Tick
  BY <1>3, TypeInvTick
<1>4. CASE Restart
  BY <1>4, TypeInvRestart
<1>5. CASE UNCHANGED vars
  BY <1>5 DEF vars, TypeInv, TypeOK, StickyTyped
<1>6. QED
  BY <1>1, <1>2, <1>3, <1>4, <1>5 DEF Next

\* Every variable of the pool keeps its range in every reachable state: slots
\* between 0 and the bound, deadlines within their cooldown, bindings and
\* handlers on accounts of the pool.
THEOREM TypeCorrect == Spec => []TypeOK
<1>1. TypeInv => TypeOK
  BY DEF TypeInv
<1>2. QED
  BY <1>1, TypeInvInit, TypeInvNext, PTL DEF Spec

-----------------------------------------------------------------------------
(* Slots                                                                   *)

\* While no forward ends in a transport error, the account a handler's deferred
\* Release names is the account it holds; only handleModels, which gives back
\* each account before it takes the next one, is at the release point.
LeasePosition(r) ==
  /\ pc[r] \in {"idle", "sticky", "list", "choose"} => cur[r] = NoAccount
  /\ pc[r] = "idle" => job[r].kind = "none" /\ attempt[r] = 0
  /\ job[r].kind \notin Brief => entry[r] = cur[r]
  /\ job[r].kind \notin Brief /\ pc[r] \in {"sticky", "list", "choose"}
       => attempt[r] = 0
  /\ pc[r] = "release" => job[r].kind \in Brief
  /\ pc[r] = "upstream" => job[r].kind # "test"
  /\ pc[r] \in {"persist", "finish", "bind"} => job[r].kind \notin Brief

LeaseInv ==
  /\ TypeInv
  /\ \A r \in Requests : LeasePosition(r)
  /\ SlotsExact


\* What a step does to the slots: it takes one, gives one back, leaves them
\* alone or, at a restart, drops them all.
Take(r, a) ==
  /\ cur[r] = NoAccount
  /\ running[a] < MaxAccountConcurrency
  /\ cur' = [cur EXCEPT ![r] = a]
  /\ running' = [running EXCEPT ![a] = @ + 1]

GiveBack(r) ==
  /\ ReleaseSlot(cur[r])
  /\ cur' = [cur EXCEPT ![r] = NoAccount]

KeepSlots == UNCHANGED <<running, cur>>

DropSlots ==
  /\ running' = [a \in Accounts |-> 0]
  /\ cur' = [r \in Requests |-> NoAccount]

\* The holders of an account are finitely many.
LEMMA HoldersFinite == ASSUME NEW a PROVE IsFiniteSet(Holders(a))
<1>1. IsFiniteSet(Requests) /\ Holders(a) \subseteq Requests
  BY PoolAssumption DEF Holders
<1>2. QED
  BY <1>1, FS_Subset

\* Taking a free slot adds one holder to that account and to no other.
LEMMA TakeExact ==
  ASSUME TypeInv, SlotsExact, NEW r \in Requests, NEW a \in Accounts, Take(r, a)
  PROVE  SlotsExact'
<1> SUFFICES ASSUME NEW b \in Accounts
             PROVE  running'[b] = Cardinality(Holders(b)')
  BY DEF SlotsExact
<1>1. cur \in [Requests -> Accounts \cup {NoAccount}] /\ NoAccount \notin Accounts
  BY PoolAssumption DEF TypeInv, TypeOK
<1>2. running \in [Accounts -> Nat]
  BY PoolAssumption DEF TypeInv, TypeOK
<1>3. CASE b = a
  <2>1. Holders(a)' = Holders(a) \cup {r}
    BY <1>1 DEF Holders, Take
  <2>2. r \notin Holders(a)
    BY <1>1 DEF Holders, Take
  <2>3. Cardinality(Holders(a) \cup {r}) = Cardinality(Holders(a)) + 1
    BY <2>2, HoldersFinite, FS_AddElement
  <2>4. running'[a] = running[a] + 1
    BY <1>2 DEF Take
  <2>5. QED
    BY <1>3, <2>1, <2>3, <2>4 DEF SlotsExact
<1>4. CASE b # a
  <2>1. Holders(b)' = Holders(b)
    BY <1>1, <1>4 DEF Holders, Take
  <2>2. running'[b] = running[b]
    BY <1>2, <1>4 DEF Take
  <2>3. QED
    BY <2>1, <2>2 DEF SlotsExact
<1>5. QED
  BY <1>3, <1>4

\* Giving one back removes one.
LEMMA GiveBackExact ==
  ASSUME TypeInv, SlotsExact, NEW r \in Requests, GiveBack(r)
  PROVE  SlotsExact'
<1> SUFFICES ASSUME NEW b \in Accounts
             PROVE  running'[b] = Cardinality(Holders(b)')
  BY DEF SlotsExact
<1>1. cur \in [Requests -> Accounts \cup {NoAccount}] /\ NoAccount \notin Accounts
  BY PoolAssumption DEF TypeInv, TypeOK
<1>2. running \in [Accounts -> Nat]
  BY PoolAssumption DEF TypeInv, TypeOK
<1>3. CASE b = cur[r]
  <2>1. r \in Holders(b) /\ Holders(b)' = Holders(b) \ {r}
    BY <1>1, <1>3 DEF Holders, GiveBack
  <2>2. Cardinality(Holders(b) \ {r}) = Cardinality(Holders(b)) - 1
    BY <2>1, HoldersFinite, FS_RemoveElement
  <2>3. Cardinality(Holders(b)) \in Nat /\ Cardinality(Holders(b)) # 0
    BY <2>1, HoldersFinite, FS_CardinalityType, FS_EmptySet
  <2>4. running[b] = Cardinality(Holders(b))
    BY DEF SlotsExact
  <2>5. running' = [running EXCEPT ![b] = @ - 1]
    BY <1>2, <1>3, <2>3, <2>4 DEF GiveBack, ReleaseSlot
  <2>6. running'[b] = running[b] - 1
    BY <1>2, <2>5
  <2>7. QED
    BY <2>1, <2>2, <2>4, <2>6
<1>4. CASE b # cur[r]
  <2>1. Holders(b)' = Holders(b)
    BY <1>1, <1>4 DEF Holders, GiveBack
  <2>2. running'[b] = running[b]
    BY <1>2, <1>4 DEF GiveBack, ReleaseSlot
  <2>3. QED
    BY <2>1, <2>2 DEF SlotsExact
<1>5. QED
  BY <1>3, <1>4

\* With no request there is no holder.
LEMMA DropExact == ASSUME DropSlots PROVE SlotsExact'
<1> SUFFICES ASSUME NEW b \in Accounts
             PROVE  running'[b] = Cardinality(Holders(b)')
  BY DEF SlotsExact
<1>1. Holders(b)' = {}
  BY PoolAssumption DEF Holders, DropSlots
<1>2. QED
  BY <1>1, FS_EmptySet DEF DropSlots

\* No other shape of step exists as long as no forward ends in a transport
\* error; and the handlers stay in the positions LeasePosition describes.
LEMMA LeaseHandler ==
  ASSUME Outcomes \cap TransportErrors = {}, LeaseInv,
         NEW r \in Requests, Arrive(r) \/ Handler(r)
  PROVE  /\ KeepSlots \/ GiveBack(r) \/ \E a \in Accounts : Take(r, a)
         /\ \A q \in Requests : LeasePosition(q)'
<1> DEFINE Slots == KeepSlots \/ GiveBack(r) \/ \E a \in Accounts : Take(r, a)
<1>1. LeasePosition(r)
  BY DEF LeaseInv
<1>2. /\ pc \in [Requests -> Points]
      /\ job \in [Requests -> Jobs \cup {NoJob}]
      /\ entry \in [Requests -> Accounts \cup {NoAccount}]
      /\ cur \in [Requests -> Accounts \cup {NoAccount}]
      /\ attempt \in [Requests -> Nat]
  BY DEF LeaseInv, TypeInv, TypeOK
<1>3. answer[r] \notin TransportErrors
  BY DEF LeaseInv, TypeInv, TypeOK, TransportErrors
<1>4. job[r].kind \in Brief => job[r].session = NoSession
  BY <1>2 DEF Jobs, NoJob, Brief
<1>5. list[r] \subseteq Accounts
  BY DEF LeaseInv, TypeInv, TypeOK
<1>6. \A s \in Sessions : sticky[s].acc \in Accounts \cup {NoAccount}
  BY DEF LeaseInv, TypeInv, TypeOK
<1>7. pc[r] = "sticky" => job[r].session \in Sessions
  BY DEF LeaseInv, TypeInv, StickyTyped
<1> HIDE DEF Slots
<1>8. ASSUME Arrive(r) PROVE Slots /\ LeasePosition(r)'
  <2>1. Slots
    BY <1>1, <1>2, <1>5, <1>6, <1>7, <1>8
       DEF Slots, LeasePosition, Arrive, KeepSlots, pickVars
  <2>2. LeasePosition(r)'
    BY <1>1, <1>2, <1>3, <1>4, <1>8
       DEF LeasePosition, Goto, Brief, Arrive
  <2>3. QED
    BY <2>1, <2>2
<1>9. ASSUME StickyReuse(r) PROVE Slots /\ LeasePosition(r)'
  <2>1. Slots
    BY <1>1, <1>2, <1>5, <1>6, <1>7, <1>9
       DEF Slots, LeasePosition, StickyReuse, Take, AccountHealthy, PoolHealthy
  <2>2. LeasePosition(r)'
    BY <1>1, <1>2, <1>3, <1>4, <1>7, <1>9, PoolAssumption
       DEF LeasePosition, Goto, Brief, StickyReuse
  <2>3. QED
    BY <2>1, <2>2
<1>10. ASSUME StickyMiss(r) PROVE Slots /\ LeasePosition(r)'
  <2>1. Slots
    BY <1>1, <1>2, <1>5, <1>6, <1>7, <1>10
       DEF Slots, LeasePosition, StickyMiss, KeepSlots
  <2>2. LeasePosition(r)'
    BY <1>1, <1>2, <1>3, <1>4, <1>10
       DEF LeasePosition, Goto, Brief, StickyMiss
  <2>3. QED
    BY <2>1, <2>2
<1>11. ASSUME ReadList(r) PROVE Slots /\ LeasePosition(r)'
  <2>1. Slots
    BY <1>1, <1>2, <1>5, <1>6, <1>7, <1>11
       DEF Slots, LeasePosition, ReadList, KeepSlots, pickVars
  <2>2. LeasePosition(r)'
    BY <1>1, <1>2, <1>3, <1>4, <1>11
       DEF LeasePosition, Goto, Brief, ReadList
  <2>3. QED
    BY <2>1, <2>2
<1>12. ASSUME Choose(r) PROVE Slots /\ LeasePosition(r)'
  <2>1. Slots
    BY <1>1, <1>2, <1>5, <1>6, <1>7, <1>12
       DEF Slots, LeasePosition, Choose, Take, Candidates, PoolHealthy
  <2>2. LeasePosition(r)'
    BY <1>1, <1>2, <1>3, <1>4, <1>12
       DEF LeasePosition, Goto, Brief, Choose
  <2>3. QED
    BY <2>1, <2>2
<1>13. ASSUME NothingToPick(r) PROVE Slots /\ LeasePosition(r)'
  <2>1. Slots
    BY <1>1, <1>2, <1>5, <1>6, <1>7, <1>13
       DEF Slots, LeasePosition, NothingToPick, KeepSlots, pickVars, Return
  <2>2. LeasePosition(r)'
    BY <1>1, <1>2, <1>3, <1>4, <1>13
       DEF LeasePosition, Goto, Brief, NothingToPick, Return, NoJob
  <2>3. QED
    BY <2>1, <2>2
<1>14. ASSUME Bind(r) PROVE Slots /\ LeasePosition(r)'
  <2>1. Slots
    BY <1>1, <1>2, <1>5, <1>6, <1>7, <1>14
       DEF Slots, LeasePosition, Bind, KeepSlots
  <2>2. LeasePosition(r)'
    BY <1>1, <1>2, <1>3, <1>4, <1>14
       DEF LeasePosition, Goto, Brief, Bind
  <2>3. QED
    BY <2>1, <2>2
<1>15. ASSUME Upstream(r) PROVE Slots /\ LeasePosition(r)'
  <2>1. Slots
    BY <1>1, <1>2, <1>5, <1>6, <1>7, <1>15
       DEF Slots, LeasePosition, Upstream, KeepSlots
  <2>2. LeasePosition(r)'
    BY <1>1, <1>2, <1>3, <1>4, <1>15
       DEF LeasePosition, Goto, Brief, Upstream, AfterAnswer, Verdict
  <2>3. QED
    BY <2>1, <2>2
<1>16. ASSUME NextTurn(r) PROVE Slots /\ LeasePosition(r)'
  <2>1. Slots
    BY <1>1, <1>2, <1>5, <1>6, <1>7, <1>16
       DEF Slots, LeasePosition, NextTurn, KeepSlots, pickVars
  <2>2. LeasePosition(r)'
    BY <1>1, <1>2, <1>3, <1>4, <1>16
       DEF LeasePosition, Goto, Brief, NextTurn
  <2>3. QED
    BY <2>1, <2>2
<1>17. ASSUME Persist(r) PROVE Slots /\ LeasePosition(r)'
  <2>1. Slots
    BY <1>1, <1>2, <1>5, <1>6, <1>7, <1>17
       DEF Slots, LeasePosition, Persist, KeepSlots, pickVars
  <2>2. LeasePosition(r)'
    BY <1>1, <1>2, <1>3, <1>4, <1>17
       DEF LeasePosition, Goto, Brief, Persist
  <2>3. QED
    BY <2>1, <2>2
<1>18. ASSUME ReleaseCurrent(r) PROVE Slots /\ LeasePosition(r)'
  <2>1. Slots
    BY <1>1, <1>2, <1>5, <1>6, <1>7, <1>18
       DEF Slots, LeasePosition, ReleaseCurrent, GiveBack, Return
  <2>2. LeasePosition(r)'
    BY <1>1, <1>2, <1>3, <1>4, <1>18
       DEF LeasePosition, Goto, Brief, ReleaseCurrent, Return, NoJob
  <2>3. QED
    BY <2>1, <2>2
<1>19. ASSUME Finish(r) PROVE Slots /\ LeasePosition(r)'
  <2>1. Slots
    BY <1>1, <1>2, <1>5, <1>6, <1>7, <1>19
       DEF Slots, LeasePosition, Finish, GiveBack, Return
  <2>2. LeasePosition(r)'
    BY <1>1, <1>2, <1>3, <1>4, <1>19
       DEF LeasePosition, Goto, Brief, Finish, Return, NoJob
  <2>3. QED
    BY <2>1, <2>2
<1>20. Slots /\ LeasePosition(r)'
  BY <1>8, <1>9, <1>10, <1>11, <1>12, <1>13,
     <1>14, <1>15, <1>16, <1>17, <1>18, <1>19 DEF Handler
<1>21. ASSUME NEW q \in Requests, q # r PROVE LeasePosition(q)'
  <2>1. UNCHANGED <<pc[q], job[q], entry[q], cur[q], attempt[q]>>
    BY <1>2, <1>21 DEF Handler, Goto, Return, Arrive, StickyReuse, StickyMiss,
       ReadList, Choose, NothingToPick, Bind, Upstream, NextTurn, Persist,
       ReleaseCurrent, Finish
  <2>2. LeasePosition(q)
    BY DEF LeaseInv
  <2>3. QED
    BY <2>1, <2>2 DEF LeasePosition
<1>22. QED
  BY <1>20, <1>21 DEF Slots

\* A step that is no handler's keeps the slots, or drops them all.
LEMMA LeaseOther ==
  ASSUME LeaseInv,
         \/ \E a \in Accounts : Store(a)
         \/ Tick
         \/ Restart
         \/ UNCHANGED vars
  PROVE  /\ KeepSlots \/ DropSlots
         /\ \A q \in Requests : LeasePosition(q)'
<1>1. CASE (\E a \in Accounts : Store(a)) \/ Tick \/ UNCHANGED vars
  <2>1. UNCHANGED <<running, handlerVars>>
    BY <1>1 DEF Store, Ban, Unban, ClearLimit, FetchUsage, Upsert, MoveAccount,
       ChangeUsable, Tick, vars, pickVars, handlerVars
  <2>2. QED
    BY <2>1 DEF KeepSlots, handlerVars, LeaseInv, LeasePosition
<1>2. CASE Restart
  BY <1>2 DEF Restart, DropSlots, LeasePosition, NoJob
<1>3. QED
  BY <1>1, <1>2

\* Every step moves at most one slot, between nobody and one handler, or drops
\* them all.
LEMMA SlotStep ==
  ASSUME Outcomes \cap TransportErrors = {}, LeaseInv, [Next]_vars
  PROVE  /\ \/ KeepSlots
            \/ \E r \in Requests : GiveBack(r)
            \/ \E r \in Requests, a \in Accounts : Take(r, a)
            \/ DropSlots
         /\ \A q \in Requests : LeasePosition(q)'
<1>1. CASE \E r \in Requests : Arrive(r) \/ Handler(r)
  BY <1>1, LeaseHandler
<1>2. CASE ~ \E r \in Requests : Arrive(r) \/ Handler(r)
  BY <1>2, LeaseOther DEF Next
<1>3. QED
  BY <1>1, <1>2

LEMMA LeaseInvInit == Init => LeaseInv
<1> SUFFICES ASSUME Init PROVE LeaseInv
  OBVIOUS
<1>1. \A r \in Requests : LeasePosition(r)
  BY DEF Init, LeasePosition, NoJob
<1>2. \A a \in Accounts : Holders(a) = {}
  BY PoolAssumption DEF Init, Holders
<1>3. SlotsExact
  BY <1>2, FS_EmptySet DEF Init, SlotsExact
<1>4. QED
  BY <1>1, <1>3, TypeInvInit DEF LeaseInv

LEMMA LeaseInvNext ==
  ASSUME Outcomes \cap TransportErrors = {}
  PROVE  LeaseInv /\ [Next]_vars => LeaseInv'
<1> SUFFICES ASSUME LeaseInv, [Next]_vars PROVE LeaseInv'
  OBVIOUS
<1>1. TypeInv /\ SlotsExact
  BY DEF LeaseInv
<1>2. SlotsExact'
  <2>1. CASE KeepSlots
    BY <1>1, <2>1 DEF KeepSlots, SlotsExact, Holders
  <2>2. CASE \E r \in Requests : GiveBack(r)
    BY <1>1, <2>2, GiveBackExact
  <2>3. CASE \E r \in Requests, a \in Accounts : Take(r, a)
    BY <1>1, <2>3, TakeExact
  <2>4. CASE DropSlots
    BY <2>4, DropExact
  <2>5. QED
    BY <2>1, <2>2, <2>3, <2>4, SlotStep
<1>3. QED
  BY <1>1, <1>2, TypeInvNext, SlotStep DEF LeaseInv

\* As long as no forward ends in a transport error, every slot the picker counts
\* is held by exactly one request that will give it back.
THEOREM SlotsAreExact ==
  ASSUME Outcomes \cap TransportErrors = {}
  PROVE  Spec => []SlotsExact
<1>1. LeaseInv => SlotsExact
  BY DEF LeaseInv
<1>2. QED
  BY <1>1, LeaseInvInit, LeaseInvNext, PTL DEF Spec

\* Then no account serves more than MaxAccountConcurrency requests at a time.
THEOREM CapIsRespected ==
  ASSUME Outcomes \cap TransportErrors = {}
  PROVE  Spec => []CapRespected
<1>1. LeaseInv => CapRespected
  BY PoolAssumption DEF LeaseInv, SlotsExact, CapRespected, TypeInv, TypeOK
<1>2. QED
  BY <1>1, LeaseInvInit, LeaseInvNext, PTL DEF Spec

\* And when the handlers have returned no slot is left counted.
THEOREM SlotsAreReturned ==
  ASSUME Outcomes \cap TransportErrors = {}
  PROVE  Spec => []SlotsReturned
<1>1. LeaseInv => SlotsReturned
  <2> SUFFICES ASSUME LeaseInv, \A r \in Requests : pc[r] = "idle",
                      NEW a \in Accounts
               PROVE  running[a] = 0
    BY DEF SlotsReturned
  <2>1. \A r \in Requests : cur[r] = NoAccount
    BY DEF LeaseInv, LeasePosition
  <2>2. Holders(a) = {}
    BY <2>1, PoolAssumption DEF Holders
  <2>3. QED
    BY <2>2, FS_EmptySet DEF LeaseInv, SlotsExact
<1>2. QED
  BY <1>1, LeaseInvInit, LeaseInvNext, PTL DEF Spec

\* The pool then implements the lease contract of SlotLease: what a handler
\* holds is a lease, taken only below the limit and given back once.
THEOREM PoolImplementsLease ==
  ASSUME Outcomes \cap TransportErrors = {}
  PROVE  Spec => LeaseSpec
<1>1. Init => Lease!Init
  BY DEF Init, Lease!Init
<1>2. LeaseInv /\ [Next]_vars => [Lease!Next]_cur
  <2> SUFFICES ASSUME LeaseInv, [Next]_vars PROVE [Lease!Next]_cur
    OBVIOUS
  <2>1. CASE KeepSlots
    BY <2>1 DEF KeepSlots
  <2>2. ASSUME NEW r \in Requests, GiveBack(r)
        PROVE  [Lease!Next]_cur
    <3> SUFFICES [\E q \in Requests : Lease!Return(q)]_cur
      BY DEF Lease!Next
    <3>1. CASE cur[r] = NoAccount
      <4>1. cur \in [Requests -> Accounts \cup {NoAccount}]
        BY DEF LeaseInv, TypeInv, TypeOK
      <4>2. cur' = [cur EXCEPT ![r] = NoAccount]
        BY <2>2 DEF GiveBack
      <4>3. cur' = cur
        BY <3>1, <4>1, <4>2
      <4>4. QED
        BY <4>3
    <3>2. CASE cur[r] # NoAccount
      BY <2>2, <3>2 DEF GiveBack, Lease!Return
    <3>3. QED
      BY <3>1, <3>2
  <2>3. ASSUME NEW r \in Requests, NEW a \in Accounts, Take(r, a)
        PROVE  [Lease!Next]_cur
    <3>1. Cardinality(Lease!Holders(a)) < MaxAccountConcurrency
      BY <2>3 DEF Take, LeaseInv, SlotsExact, Holders, Lease!Holders
    \* The instance has its own copy of FiniteSets.
    <3>2. Lease!Cardinality(Lease!Holders(a)) = Cardinality(Lease!Holders(a))
      BY DEF Lease!Cardinality, Cardinality
    <3>3. Lease!Acquire(r, a)
      BY <2>3, <3>1, <3>2 DEF Take, Lease!Acquire
    <3>4. QED
      BY <3>3 DEF Lease!Next
  <2>4. CASE DropSlots
    BY <2>4 DEF DropSlots, Lease!Next, Lease!DropAll
  <2>5. QED
    BY <2>1, <2>2, <2>3, <2>4, SlotStep
<1>3. QED
  BY <1>1, <1>2, LeaseInvInit, LeaseInvNext, PTL DEF Spec, LeaseSpec, Lease!Spec

-----------------------------------------------------------------------------
(* Verdicts                                                                *)

\* The memory of the picker alone keeps the account out.
Warned(a) == a \in forbidden \/ cooldown[a] > 0

\* What handler r has read may be older than a verdict, but then the picker's
\* memory knows the verdict.
ListKnows(r) ==
  /\ list[r] # {} => pc[r] = "choose"
  /\ \A a \in list[r] :
       /\ a \in condemned => a \in forbidden
       /\ limited[a] > 0 => Warned(a)

\* So it does while the verdict is on its way to the store.
PersistKnows(r) ==
  pc[r] = "persist" /\ cur[r] \in Accounts =>
    /\ Verdict(r, answer[r]) = "ban" => cur[r] \in forbidden
    /\ Verdict(r, answer[r]) = "limit" => Warned(cur[r])

VerdictInv ==
  /\ condemned \subseteq bannedAt
  /\ \A a \in Accounts : limited[a] <= resetAt[a]
  /\ \A r \in Requests : ListKnows(r) /\ PersistKnows(r)

\* What a verdict under the picker's lock warns of, it warns of until the
\* process ends or time passes.
LEMMA RememberWarns ==
  ASSUME TypeInv, NEW a \in Accounts, NEW b, NEW v, Remember(b, v)
  PROVE  /\ a \in forbidden => a \in forbidden'
         /\ Warned(a) => Warned(a)'
         /\ b = a /\ v = "ban" => a \in forbidden'
         /\ b = a /\ v = "limit" => Warned(a)'
<1>1. cooldown \in [Accounts -> 0..MaxTicks]
  BY DEF TypeInv, TypeOK
<1>2. QED
  BY <1>1, PoolAssumption DEF Remember, Set, Warned

\* A handler's step keeps the invariant.
LEMMA VerdictHandler ==
  ASSUME TypeInv, VerdictInv, NEW r \in Requests, Arrive(r) \/ Handler(r)
  PROVE  VerdictInv'
<1>1. /\ pc \in [Requests -> Points]
      /\ list \in [Requests -> SUBSET Accounts]
      /\ cur \in [Requests -> Accounts \cup {NoAccount}]
      /\ answer \in [Requests -> {"ok"} \cup Outcomes]
      /\ job \in [Requests -> Jobs \cup {NoJob}]
  BY DEF TypeInv, TypeOK
<1>2. resetAt \in [Accounts -> Nat] /\ limited \in [Accounts -> Nat]
  BY PoolAssumption DEF TypeInv, TypeOK
<1>3. ListKnows(r) /\ PersistKnows(r)
  BY DEF VerdictInv
<1>4. \/ /\ Upstream(r)
         /\ UNCHANGED <<storeVars, historyVars>>
      \/ /\ Persist(r)
         /\ UNCHANGED <<forbidden, cooldown>>
      \/ /\ ~ Upstream(r) /\ ~ Persist(r)
         /\ UNCHANGED <<storeVars, historyVars, forbidden, cooldown>>
  BY DEF Handler, Arrive, StickyReuse, StickyMiss, ReadList, Choose, NothingToPick,
     Bind, Upstream, NextTurn, Persist, ReleaseCurrent, Finish, pickVars
<1>5. ASSUME NEW a \in Accounts
      PROVE  (a \in forbidden => a \in forbidden') /\ (Warned(a) => Warned(a)')
  <2>1. CASE Upstream(r)
    BY <2>1, RememberWarns DEF Upstream
  <2>2. CASE ~ Upstream(r)
    BY <1>4, <2>2 DEF Warned
  <2>3. QED
    BY <2>1, <2>2
<1>6. ASSUME NEW a \in Accounts
      PROVE  /\ a \in condemned' => a \in condemned \/ a \in forbidden
             /\ limited'[a] > 0 => limited[a] > 0 \/ Warned(a)
  <2>1. CASE Persist(r)
    BY <1>2, <1>3, <2>1 DEF Persist, PersistKnows, Set
  <2>2. CASE ~ Persist(r)
    BY <1>4, <2>2 DEF historyVars
  <2>3. QED
    BY <2>1, <2>2
<1>7. condemned' \subseteq bannedAt' /\ \A a \in Accounts : limited'[a] <= resetAt'[a]
  <2>1. CASE Persist(r)
    BY <1>2, <2>1, PoolAssumption DEF Persist, VerdictInv, Set
  <2>2. CASE ~ Persist(r)
    BY <1>4, <2>2 DEF historyVars, storeVars, VerdictInv
  <2>3. QED
    BY <2>1, <2>2
<1>8. ListKnows(r)'
  <2>1. CASE ReadList(r)
    <3>1. \A a \in list'[r] : a \in Accounts /\ a \notin bannedAt /\ resetAt[a] = 0
      BY <1>1, <2>1 DEF ReadList, StoredHealthy
    <3>2. \A a \in list'[r] : a \notin condemned' /\ limited'[a] = 0
      BY <1>2, <2>1, <3>1 DEF ReadList, VerdictInv, historyVars
    <3>3. pc'[r] = "choose"
      BY <1>1, <2>1 DEF ReadList, Goto
    <3>4. QED
      BY <3>2, <3>3 DEF ListKnows
  <2>2. CASE ~ ReadList(r)
    <3>1. list'[r] = {}
      BY <1>1, <1>3, <2>2 DEF ListKnows, Handler, Arrive, StickyReuse, StickyMiss,
         Choose, NothingToPick, Bind, Upstream, NextTurn, Persist, ReleaseCurrent,
         Finish, Return
    <3>2. QED
      BY <3>1 DEF ListKnows
  <2>3. QED
    BY <2>1, <2>2
<1>9. PersistKnows(r)'
  <2>1. CASE Upstream(r)
    <3> SUFFICES ASSUME pc'[r] = "persist", cur'[r] \in Accounts
                 PROVE  /\ Verdict(r, answer[r])' = "ban" => cur'[r] \in forbidden'
                        /\ Verdict(r, answer[r])' = "limit" => Warned(cur[r])'
      BY DEF PersistKnows
    <3>1. PICK o \in Outcomes :
            /\ answer' = [answer EXCEPT ![r] =
                            IF AfterAnswer(r, o) = "finish" THEN "ok" ELSE o]
            /\ Remember(cur[r], Verdict(r, o))
            /\ Goto(r, AfterAnswer(r, o))
      BY <2>1 DEF Upstream
    <3>2. answer'[r] = o
      BY <1>1, <3>1 DEF Goto
    <3>3. Verdict(r, answer[r])' = Verdict(r, o) /\ cur'[r] = cur[r]
      BY <2>1, <3>2 DEF Upstream, Verdict
    <3>4. QED
      BY <3>1, <3>3, RememberWarns
  <2>2. CASE ~ Upstream(r)
    <3>1. pc'[r] # "persist"
      BY <1>1, <2>2 DEF Handler, Arrive, StickyReuse, StickyMiss, ReadList, Choose,
         NothingToPick, Bind, NextTurn, Persist, ReleaseCurrent, Finish, Return, Goto
    <3>2. QED
      BY <3>1 DEF PersistKnows
  <2>3. QED
    BY <2>1, <2>2
<1>10. ASSUME NEW q \in Requests, q # r
       PROVE  ListKnows(q)' /\ PersistKnows(q)'
  <2>1. UNCHANGED <<pc[q], list[q], cur[q], answer[q], job[q]>>
    BY <1>1, <1>10 DEF Handler, Arrive, StickyReuse, StickyMiss, ReadList, Choose,
       NothingToPick, Bind, Upstream, NextTurn, Persist, ReleaseCurrent, Finish,
       Return, Goto
  <2>2. ListKnows(q) /\ PersistKnows(q)
    BY DEF VerdictInv
  <2>3. list[q] \subseteq Accounts
    BY <1>1
  <2>4. ListKnows(q)'
    BY <1>5, <1>6, <2>1, <2>2, <2>3 DEF ListKnows
  <2>5. PersistKnows(q)'
    BY <1>5, <2>1, <2>2 DEF PersistKnows, Verdict
  <2>6. QED
    BY <2>4, <2>5
<1>11. QED
  BY <1>7, <1>8, <1>9, <1>10 DEF VerdictInv

\* So do the operations on the store, but for UpsertFromResult, which forgets
\* the verdicts of the record it replaces.
LEMMA VerdictStore ==
  ASSUME "upsert" \notin Admin, TypeInv, VerdictInv, NEW a \in Accounts, Store(a)
  PROVE  VerdictInv'
<1>1. resetAt \in [Accounts -> Nat] /\ limited \in [Accounts -> Nat]
  BY PoolAssumption DEF TypeInv, TypeOK
<1>2. list \in [Requests -> SUBSET Accounts]
  BY DEF TypeInv, TypeOK
<1>3. UNCHANGED <<forbidden, cooldown, pc, list, cur, answer, job>>
  BY DEF Store, Ban, Unban, ClearLimit, FetchUsage, Upsert, MoveAccount,
     ChangeUsable, pickVars, handlerVars
<1>4. condemned' \subseteq condemned
  BY DEF Store, Ban, Unban, ClearLimit, FetchUsage, Upsert, MoveAccount,
     ChangeUsable, historyVars
<1>5. \A b \in Accounts : limited'[b] \in Nat /\ limited'[b] <= limited[b]
  BY <1>1, PoolAssumption
     DEF Store, Ban, Unban, ClearLimit, FetchUsage, Upsert, MoveAccount,
     ChangeUsable, historyVars
<1>6. condemned' \subseteq bannedAt'
  BY DEF VerdictInv, Store, Ban, Unban, ClearLimit, FetchUsage, Upsert,
     MoveAccount, ChangeUsable, historyVars
<1>7. \A b \in Accounts : limited'[b] <= resetAt'[b]
  BY <1>1, PoolAssumption
     DEF VerdictInv, Store, Ban, Unban, ClearLimit, FetchUsage, Upsert,
     MoveAccount, ChangeUsable, historyVars
<1>8. ASSUME NEW r \in Requests
      PROVE  ListKnows(r)' /\ PersistKnows(r)'
  <2>1. ListKnows(r) /\ PersistKnows(r)
    BY DEF VerdictInv
  <2>2. \A b \in Accounts : limited'[b] > 0 => limited[b] > 0
    BY <1>1, <1>5
  <2>3. QED
    BY <1>2, <1>3, <1>4, <2>1, <2>2
       DEF ListKnows, PersistKnows, Warned, Verdict
<1>9. QED
  BY <1>6, <1>7, <1>8 DEF VerdictInv

\* Time runs only while nobody is between a list and a choice, or between a
\* verdict and the store.
LEMMA VerdictTick == TypeInv /\ VerdictInv /\ Tick => VerdictInv'
<1> SUFFICES ASSUME TypeInv, VerdictInv, Tick PROVE VerdictInv'
  OBVIOUS
<1>1. resetAt \in [Accounts -> Nat] /\ limited \in [Accounts -> Nat]
  BY PoolAssumption DEF TypeInv, TypeOK
<1>2. condemned' \subseteq bannedAt'
  BY DEF Tick, VerdictInv
<1>3. \A a \in Accounts : limited'[a] <= resetAt'[a]
  <2>1. \A a \in Accounts : limited[a] <= resetAt[a]
    BY DEF VerdictInv
  <2>2. QED
    BY <1>1, <2>1 DEF Tick, Less
<1>4. ASSUME NEW r \in Requests
      PROVE  ListKnows(r)' /\ PersistKnows(r)'
  <2>1. pc[r] \notin {"choose", "persist"}
    BY DEF Tick, Instant
  <2>2. list[r] = {}
    BY <2>1 DEF VerdictInv, ListKnows
  <2>3. pc' = pc /\ list' = list
    BY DEF Tick, handlerVars
  <2>4. QED
    BY <2>1, <2>2, <2>3 DEF ListKnows, PersistKnows
<1>5. QED
  BY <1>2, <1>3, <1>4 DEF VerdictInv

LEMMA VerdictRestart == VerdictInv /\ Restart => VerdictInv'
  BY DEF VerdictInv, ListKnows, PersistKnows, Restart, storeVars, historyVars

LEMMA VerdictInvInit == Init => VerdictInv
  BY DEF Init, VerdictInv, ListKnows, PersistKnows

LEMMA VerdictInvNext ==
  ASSUME "upsert" \notin Admin
  PROVE  TypeInv /\ VerdictInv /\ [Next]_vars => VerdictInv'
<1> SUFFICES ASSUME TypeInv, VerdictInv, [Next]_vars PROVE VerdictInv'
  OBVIOUS
<1>1. CASE \E r \in Requests : Arrive(r) \/ Handler(r)
  BY <1>1, VerdictHandler
<1>2. CASE \E a \in Accounts : Store(a)
  BY <1>2, VerdictStore
<1>3. CASE Tick
  BY <1>3, VerdictTick
<1>4. CASE Restart
  BY <1>4, VerdictRestart
<1>5. CASE UNCHANGED vars
  BY <1>5 DEF vars, VerdictInv, ListKnows, PersistKnows, Warned, Verdict
<1>6. QED
  BY <1>1, <1>2, <1>3, <1>4, <1>5 DEF Next

\* A slot is only taken of an account that carries no verdict.
LEMMA AcquiresHealthy ==
  ASSUME TypeInv, VerdictInv, [Next]_vars, NEW r \in Requests, NEW a \in Accounts,
         Acquires(r, a)
  PROVE  a \notin condemned /\ limited[a] = 0
<1>1. /\ cur \in [Requests -> Accounts \cup {NoAccount}]
      /\ cooldown \in [Accounts -> Nat]
      /\ list \in [Requests -> SUBSET Accounts]
      /\ resetAt \in [Accounts -> Nat] /\ limited \in [Accounts -> Nat]
  BY PoolAssumption DEF TypeInv, TypeOK, MaxTicks
<1>2. \/ StickyReuse(r)
      \/ Choose(r)
  <2>1. cur'[r] # cur[r] /\ cur'[r] # NoAccount
    BY PoolAssumption DEF Acquires
  <2>2. PICK q \in Requests : Arrive(q) \/ Handler(q)
    BY <2>1, PoolAssumption DEF Next, Store, Ban, Unban, ClearLimit, FetchUsage,
       Upsert, MoveAccount, ChangeUsable, Tick, Restart, vars, handlerVars
  <2>3. StickyReuse(q) \/ Choose(q)
    BY <1>1, <2>1, <2>2 DEF Handler, Arrive, StickyMiss, ReadList, NothingToPick,
       Bind, Upstream, NextTurn, Persist, ReleaseCurrent, Finish, Return
  <2>4. q = r
    BY <1>1, <2>1, <2>3 DEF StickyReuse, Choose
  <2>5. QED
    BY <2>3, <2>4
<1>3. CASE StickyReuse(r)
  <2>1. a = sticky[job[r].session].acc
    BY <1>1, <1>3 DEF StickyReuse, Acquires
  <2>2. a \notin bannedAt /\ resetAt[a] = 0
    BY <1>3, <2>1 DEF StickyReuse, AccountHealthy, StoredHealthy
  <2>3. QED
    BY <1>1, <2>2 DEF VerdictInv
<1>4. CASE Choose(r)
  <2>1. a \in list[r] /\ PoolHealthy(a)
    BY <1>1, <1>4 DEF Choose, Acquires, Candidates
  <2>2. a \notin forbidden /\ cooldown[a] = 0
    BY <2>1 DEF PoolHealthy
  <2>3. (a \in condemned => a \in forbidden) /\ (limited[a] > 0 => Warned(a))
    BY <2>1 DEF VerdictInv, ListKnows
  <2>4. QED
    BY <1>1, <2>2, <2>3 DEF Warned
<1>5. QED
  BY <1>2, <1>3, <1>4

\* As long as no import replaces a record, an account with a recorded 403 is
\* never picked again, whatever the order of picks, verdicts and restarts.
THEOREM BansAreHonoured ==
  ASSUME "upsert" \notin Admin
  PROVE  Spec => BanHonoured
<1>1. TypeInv /\ VerdictInv /\ [Next]_vars
        => [\A r \in Requests, a \in Accounts :
              Acquires(r, a) => a \notin condemned]_vars
  BY AcquiresHealthy
<1>2. QED
  BY <1>1, TypeInvInit, TypeInvNext, VerdictInvInit, VerdictInvNext, PTL
     DEF Spec, BanHonoured

\* And one with a recorded 429 not before its cooldown is over.
THEOREM RateLimitsAreHonoured ==
  ASSUME "upsert" \notin Admin
  PROVE  Spec => RateLimitHonoured
<1>1. TypeInv /\ VerdictInv /\ [Next]_vars
        => [\A r \in Requests, a \in Accounts :
              Acquires(r, a) => limited[a] = 0]_vars
  BY AcquiresHealthy
<1>2. QED
  BY <1>1, TypeInvInit, TypeInvNext, VerdictInvInit, VerdictInvNext, PTL
     DEF Spec, RateLimitHonoured

-----------------------------------------------------------------------------
(* What is forwarded                                                       *)

\* A handler that has yet to pick holds nothing, and on its first attempt has nothing
\* to give back.
EntryPosition(r) ==
  /\ pc[r] \in {"idle", "sticky", "list", "choose"} =>
       cur[r] = NoAccount /\ (attempt[r] = 0 => entry[r] = NoAccount)
  /\ pc[r] \in {"idle", "sticky"} => attempt[r] = 0
  /\ pc[r] = "bind" => cur[r] # NoAccount
  /\ pc[r] = "upstream" /\ cur[r] = NoAccount =>
       attempt[r] = 0 /\ entry[r] = NoAccount /\ job[r].session # NoSession

LEMMA EntryHandler ==
  ASSUME TypeInv, NEW r \in Requests, EntryPosition(r), Arrive(r) \/ Handler(r)
  PROVE  EntryPosition(r)'
<1> USE DEF EntryPosition, Goto
<1>1. /\ DOMAIN pc = Requests /\ DOMAIN job = Requests /\ DOMAIN entry = Requests
      /\ DOMAIN cur = Requests /\ DOMAIN attempt = Requests
      /\ attempt[r] \in Nat /\ list[r] \subseteq Accounts /\ NoAccount \notin Accounts
      /\ job[r].session # NoSession => job[r].kind = "forward"
  BY PoolAssumption DEF TypeInv, TypeOK, Jobs, NoJob
<1>2. CASE Arrive(r)
  BY <1>1, <1>2 DEF Arrive
<1>3. CASE StickyReuse(r)
  BY <1>1, <1>3 DEF StickyReuse
<1>4. CASE StickyMiss(r) \/ ReadList(r)
  BY <1>1, <1>4 DEF StickyMiss, ReadList
<1>5. CASE Choose(r)
  BY <1>1, <1>5 DEF Choose, Candidates
<1>6. CASE NothingToPick(r)
  <2>1. CASE Return(r)
    BY <1>1, <2>1 DEF Return
  <2>2. CASE ~ Return(r)
    BY <1>1, <1>6, <2>2 DEF NothingToPick
  <2>3. QED
    BY <2>1, <2>2
<1>7. CASE Bind(r) \/ Persist(r)
  BY <1>1, <1>7 DEF Bind, Persist
<1>8. CASE Upstream(r)
  <2>1. PICK o \in Outcomes : Goto(r, AfterAnswer(r, o))
    BY <1>8 DEF Upstream
  <2>2. AfterAnswer(r, o) \in {"persist", "release", "finish"}
    BY DEF AfterAnswer
  <2>3. QED
    BY <1>1, <2>1, <2>2
<1>9. CASE NextTurn(r)
  BY <1>1, <1>9 DEF NextTurn
<1>10. CASE ReleaseCurrent(r)
  <2>1. CASE Return(r)
    BY <1>1, <2>1 DEF Return
  <2>2. CASE ~ Return(r)
    BY <1>1, <1>10, <2>2 DEF ReleaseCurrent
  <2>3. QED
    BY <2>1, <2>2
<1>11. CASE Finish(r)
  BY <1>1, <1>11 DEF Finish, Return
<1>12. QED
  BY <1>2, <1>3, <1>4, <1>5, <1>6, <1>7, <1>8, <1>9, <1>10, <1>11 DEF Handler

\* A step of one handler leaves the others where they are.
LEMMA EntryOthers ==
  ASSUME TypeInv, NEW r \in Requests, Arrive(r) \/ Handler(r), NEW q \in Requests, q # r
  PROVE  /\ pc'[q] = pc[q] /\ job'[q] = job[q] /\ entry'[q] = entry[q]
         /\ cur'[q] = cur[q] /\ attempt'[q] = attempt[q]
<1>1. /\ DOMAIN pc = Requests /\ DOMAIN job = Requests /\ DOMAIN entry = Requests
      /\ DOMAIN cur = Requests /\ DOMAIN attempt = Requests
  BY DEF TypeInv, TypeOK
<1> USE <1>1 DEF Goto, Return
<1>2. CASE Arrive(r) \/ StickyReuse(r) \/ StickyMiss(r) \/ ReadList(r)
  BY <1>2 DEF Arrive, StickyReuse, StickyMiss, ReadList
<1>3. CASE Choose(r) \/ Bind(r) \/ Upstream(r) \/ NextTurn(r) \/ Persist(r)
  BY <1>3 DEF Choose, Bind, Upstream, NextTurn, Persist
<1>4. CASE NothingToPick(r)
  BY <1>4 DEF NothingToPick
<1>5. CASE ReleaseCurrent(r)
  BY <1>5 DEF ReleaseCurrent
<1>6. CASE Finish(r)
  BY <1>6 DEF Finish
<1>7. QED
  BY <1>2, <1>3, <1>4, <1>5, <1>6 DEF Handler

\* What is forwarded carries an account, and after a failure another one; only a
\* conversation for which there was nothing to pick goes out with the zero entry, on
\* its first attempt (resolveTarget, PickWithSession).
THEOREM ForwardedHaveAccounts == Spec => []ForwardHasAccount
<1> DEFINE EntryInv == \A r \in Requests : EntryPosition(r)
<1>1. Init => EntryInv
  BY DEF Init, EntryPosition
<1>2. TypeInv /\ EntryInv /\ [Next]_vars => EntryInv'
  <2> SUFFICES ASSUME TypeInv, EntryInv, [Next]_vars, NEW q \in Requests
               PROVE  EntryPosition(q)'
    OBVIOUS
  <2>1. ASSUME NEW r \in Requests, Arrive(r) \/ Handler(r) PROVE EntryPosition(q)'
    <3>1. CASE q = r
      BY <2>1, <3>1, EntryHandler
    <3>2. CASE q # r
      BY <2>1, <3>2, EntryOthers DEF EntryPosition
    <3>3. QED
      BY <3>1, <3>2
  <2>2. CASE \E a \in Accounts : Store(a)
    <3>1. UNCHANGED handlerVars
      BY <2>2 DEF Store, Ban, Unban, ClearLimit, FetchUsage, Upsert, MoveAccount,
         ChangeUsable
    <3>2. QED
      BY <3>1 DEF handlerVars, EntryPosition
  <2>3. CASE Tick \/ UNCHANGED vars
    BY <2>3 DEF Tick, handlerVars, vars, EntryPosition
  <2>4. CASE Restart
    BY <2>4 DEF Restart, EntryPosition
  <2>5. QED
    BY <2>1, <2>2, <2>3, <2>4 DEF Next
<1>3. EntryInv => ForwardHasAccount
  BY DEF EntryPosition, ForwardHasAccount
<1>4. QED
  BY <1>1, <1>2, <1>3, TypeInvInit, TypeInvNext, PTL DEF Spec

-----------------------------------------------------------------------------
(* Conversations                                                           *)

\* A client that waits for its answer before it asks again: no two handlers may
\* be given requests of the same conversation.
OneTurnAtATime ==
  \A q, r \in Requests : \A j \in Arrivals[q], k \in Arrivals[r] :
    j.session = k.session /\ j.session # NoSession => q = r

\* A handler that has not bound its conversation yet finds it unbound.
TurnPosition(r) ==
  /\ job[r].session # NoSession => job[r] \in Arrivals[r]
  /\ pc[r] = "bind" => attempt[r] = 0 /\ job[r].session # NoSession
  /\ pc[r] \in {"list", "choose", "bind"} /\ attempt[r] = 0 /\ job[r].session # NoSession
       => sticky[job[r].session].acc = NoAccount

\* The types the lemmas below need.
LEMMA TurnTypes ==
  ASSUME TypeInv
  PROVE  /\ DOMAIN pc = Requests /\ DOMAIN job = Requests /\ DOMAIN attempt = Requests
         /\ \A r \in Requests :
              /\ attempt[r] \in Nat
              /\ job[r].session # NoSession => job[r].session \in Sessions
              /\ pc[r] = "sticky" => job[r].session \in Sessions
         /\ DOMAIN sticky = Sessions
         /\ sticky \in [Sessions -> [acc: Accounts \cup {NoAccount},
                                     idle: 0..StickySessionTTL + 1]]
  BY PoolAssumption DEF TypeInv, TypeOK, StickyTyped, Jobs, NoJob

\* What a step may do to the bindings: nothing, a binding used again or let idle,
\* bindings dropped, and a binding made.
BindingsKept == \A s \in Sessions : sticky'[s].acc = sticky[s].acc
BindingsDropped ==
  \A s \in Sessions :
    \/ sticky'[s] = sticky[s]
    \/ /\ sticky'[s].acc = NoAccount
       /\ sticky[s].acc # NoAccount =>
            ~ AccountHealthy(sticky[s].acc) \/ sticky[s].idle > StickySessionTTL
BindingMade(r) ==
  /\ pc[r] = "bind"
  /\ \A s \in Sessions : s # job[r].session => sticky'[s] = sticky[s]

\* StickyMiss drops its own binding, because its account cannot be scheduled, and
\* those that have expired.
LEMMA MissDrops ==
  ASSUME TypeInv, NEW r \in Requests, StickyMiss(r)
  PROVE  BindingsDropped
<1> SUFFICES ASSUME NEW t \in Sessions
             PROVE  \/ sticky'[t] = sticky[t]
                    \/ /\ sticky'[t].acc = NoAccount
                       /\ sticky[t].acc # NoAccount =>
                            \/ ~ AccountHealthy(sticky[t].acc)
                            \/ sticky[t].idle > StickySessionTTL
  BY DEF BindingsDropped
<1> DEFINE s == job[r].session
           dropped == [sticky EXCEPT ![s] = Unbound]
<1>1. DOMAIN sticky = Sessions /\ s \in Sessions
  BY TurnTypes DEF StickyMiss
<1>2. Unbound.acc = NoAccount
  BY DEF Unbound
<1>3. sticky[s].acc # NoAccount => ~ AccountHealthy(sticky[s].acc)
  BY DEF StickyMiss
<1>4. \/ sticky' = dropped
      \/ sticky' = [u \in Sessions |-> IF Expired(dropped[u]) THEN Unbound ELSE dropped[u]]
  BY DEF StickyMiss
<1>5. CASE t = s
  <2>1. dropped[t] = Unbound
    BY <1>1, <1>5
  <2>2. sticky'[t] = Unbound
    BY <1>4, <2>1
  <2>3. QED
    BY <1>2, <1>3, <1>5, <2>2
<1>6. CASE t # s
  <2>1. dropped[t] = sticky[t]
    BY <1>1, <1>6
  <2>2. sticky'[t] = sticky[t] \/ (Expired(sticky[t]) /\ sticky'[t] = Unbound)
    BY <1>4, <2>1
  <2>3. QED
    BY <1>2, <2>2 DEF Expired
<1>7. QED
  BY <1>5, <1>6

\* Every step does one of these.
LEMMA BindingStep ==
  ASSUME "restart" \notin Admin, TypeInv, [Next]_vars
  PROVE  BindingsKept \/ BindingsDropped \/ \E r \in Requests : BindingMade(r) /\ Bind(r)
<1>1. CASE UNCHANGED vars
  BY <1>1 DEF vars, BindingsKept
<1>2. ASSUME NEW r \in Requests, Arrive(r) \/ Handler(r)
      PROVE  BindingsKept \/ BindingsDropped \/ (BindingMade(r) /\ Bind(r))
  <2>1. CASE StickyReuse(r)
    BY <2>1, TurnTypes DEF StickyReuse, BindingsKept
  <2>2. CASE StickyMiss(r)
    BY <2>2, MissDrops
  <2>3. CASE Bind(r)
    BY <2>3, TurnTypes DEF Bind, BindingMade
  <2>4. CASE \/ Arrive(r) \/ ReadList(r) \/ Choose(r) \/ NothingToPick(r) \/ Upstream(r)
             \/ NextTurn(r) \/ Persist(r) \/ ReleaseCurrent(r) \/ Finish(r)
    <3>1. sticky' = sticky
      BY <2>4 DEF Arrive, ReadList, Choose, NothingToPick, Upstream, NextTurn, Persist,
         ReleaseCurrent, Finish, pickVars
    <3>2. QED
      BY <3>1 DEF BindingsKept
  <2>5. QED
    BY <1>2, <2>1, <2>2, <2>3, <2>4 DEF Handler
<1>3. ASSUME NEW a \in Accounts, Store(a)
      PROVE  BindingsKept
  BY <1>3 DEF Store, Ban, Unban, ClearLimit, FetchUsage, Upsert, MoveAccount, ChangeUsable,
     pickVars, BindingsKept
<1>4. CASE Tick
  <2>1. ASSUME NEW s \in Sessions PROVE sticky'[s].acc = sticky[s].acc
    <3>1. \/ sticky'[s] = sticky[s]
          \/ sticky'[s] = [sticky[s] EXCEPT !.idle = @ + 1]
      BY <1>4 DEF Tick
    <3>2. sticky[s] \in [acc: Accounts \cup {NoAccount}, idle: 0..StickySessionTTL + 1]
      BY TurnTypes
    <3>3. QED
      BY <3>1, <3>2
  <2>2. QED
    BY <2>1 DEF BindingsKept
<1>5. ~ Restart
  BY DEF Restart
<1>6. QED
  BY <1>1, <1>2, <1>3, <1>4, <1>5 DEF Next

\* A step of a handler keeps its own position ...
LEMMA TurnOwn ==
  ASSUME TypeInv, NEW r \in Requests, TurnPosition(r), Arrive(r) \/ Handler(r)
  PROVE  TurnPosition(r)'
<1> USE DEF TurnPosition, Goto
<1>1. /\ DOMAIN pc = Requests /\ DOMAIN job = Requests /\ DOMAIN attempt = Requests
      /\ DOMAIN sticky = Sessions
      /\ attempt[r] \in Nat
      /\ pc[r] = "sticky" => job[r].session \in Sessions
  BY TurnTypes
<1>2. CASE Arrive(r)
  BY <1>1, <1>2 DEF Arrive
<1>3. CASE StickyReuse(r)
  BY <1>1, <1>3 DEF StickyReuse
<1>4. CASE StickyMiss(r)
  <2>1. Unbound.acc = NoAccount
    BY DEF Unbound
  <2>2. sticky'[job[r].session] = Unbound
    BY <1>1, <1>4 DEF StickyMiss
  <2>3. pc'[r] = "list" /\ job' = job /\ attempt' = attempt
    BY <1>1, <1>4 DEF StickyMiss
  <2>4. QED
    BY <2>1, <2>2, <2>3
<1>5. CASE ReadList(r)
  BY <1>1, <1>5 DEF ReadList, pickVars
<1>6. CASE Choose(r)
  BY <1>1, <1>6 DEF Choose
<1>7. CASE NothingToPick(r)
  BY <1>1, <1>7 DEF NothingToPick, Return, NoJob
<1>8. CASE Bind(r)
  BY <1>1, <1>8 DEF Bind
<1>9. CASE Upstream(r)
  BY <1>1, <1>9 DEF Upstream, AfterAnswer
<1>10. CASE NextTurn(r)
  BY <1>1, <1>10 DEF NextTurn
<1>11. CASE Persist(r)
  BY <1>1, <1>11 DEF Persist
<1>12. CASE ReleaseCurrent(r)
  BY <1>1, <1>12 DEF ReleaseCurrent, Return, NoJob
<1>13. CASE Finish(r)
  BY <1>1, <1>13 DEF Finish, Return, NoJob
<1>14. QED
  BY <1>2, <1>3, <1>4, <1>5, <1>6, <1>7, <1>8, <1>9, <1>10, <1>11, <1>12, <1>13 DEF Handler

\* ... and no step of anybody else binds the conversation it is about to bind.
LEMMA TurnOthers ==
  ASSUME OneTurnAtATime, "restart" \notin Admin, TypeInv,
         \A q \in Requests : TurnPosition(q), [Next]_vars,
         NEW r \in Requests, pc'[r] = pc[r], job'[r] = job[r], attempt'[r] = attempt[r],
         ~ Bind(r)
  PROVE  TurnPosition(r)'
<1>1. SUFFICES ASSUME pc[r] \in {"list", "choose", "bind"}, attempt[r] = 0,
                      job[r].session # NoSession
               PROVE  sticky'[job[r].session].acc = NoAccount
  BY DEF TurnPosition
<1>2. sticky[job[r].session].acc = NoAccount /\ job[r].session \in Sessions
  BY <1>1, TurnTypes DEF TurnPosition
<1>3. CASE BindingsKept
  BY <1>2, <1>3 DEF BindingsKept
<1>4. CASE BindingsDropped
  BY <1>2, <1>4 DEF BindingsDropped
<1>5. ASSUME NEW q \in Requests, BindingMade(q), Bind(q)
      PROVE  sticky'[job[r].session].acc = NoAccount
  <2>1. q # r /\ job[q] \in Arrivals[q] /\ job[r] \in Arrivals[r] /\ job[q].session # NoSession
    BY <1>1, <1>5 DEF TurnPosition, BindingMade
  <2>2. job[q].session # job[r].session
    BY <2>1 DEF OneTurnAtATime
  <2>3. QED
    BY <1>2, <1>5, <2>2 DEF BindingMade
<1>6. QED
  BY <1>3, <1>4, <1>5, BindingStep

TurnInv == \A r \in Requests : TurnPosition(r)

LEMMA TurnInvInit == Init => TurnInv
  BY DEF Init, TurnInv, TurnPosition, NoJob

LEMMA TurnInvNext ==
  ASSUME OneTurnAtATime, "restart" \notin Admin
  PROVE  TypeInv /\ TurnInv /\ [Next]_vars => TurnInv'
<1> SUFFICES ASSUME TypeInv, TurnInv, [Next]_vars, NEW r \in Requests
             PROVE  TurnPosition(r)'
  BY DEF TurnInv
<1>1. DOMAIN pc = Requests /\ DOMAIN job = Requests /\ DOMAIN attempt = Requests
  BY TurnTypes
<1>2. CASE Arrive(r) \/ Handler(r)
  BY <1>2, TurnOwn DEF TurnInv
<1>3. CASE ~ (Arrive(r) \/ Handler(r))
  <2>1. ~ Restart
    BY DEF Restart
  <2>2. ASSUME NEW q \in Requests, Arrive(q) \/ Handler(q)
        PROVE  pc'[r] = pc[r] /\ job'[r] = job[r] /\ attempt'[r] = attempt[r]
    <3>1. q # r
      BY <1>3, <2>2
    <3>2. QED
      BY <1>1, <2>2, <3>1 DEF Handler, Arrive, StickyReuse, StickyMiss, ReadList, Choose,
         NothingToPick, Bind, Upstream, NextTurn, Persist, ReleaseCurrent, Finish, Return, Goto
  <2>3. ASSUME NEW a \in Accounts, Store(a)
        PROVE  UNCHANGED handlerVars
    BY <2>3 DEF Store, Ban, Unban, ClearLimit, FetchUsage, Upsert, MoveAccount, ChangeUsable
  <2>4. pc'[r] = pc[r] /\ job'[r] = job[r] /\ attempt'[r] = attempt[r]
    BY <2>1, <2>2, <2>3 DEF Next, Tick, handlerVars, vars
  <2>5. ~ Bind(r)
    BY <1>3 DEF Handler
  <2>6. QED
    BY <2>4, <2>5, TurnOthers DEF TurnInv
<1>4. QED
  BY <1>2, <1>3

\* As long as a conversation is served one request at a time and the process is not
\* restarted, it stays with its account for as long as that can be scheduled and the
\* binding is in use: whatever other conversations, the sweep that any of them may set
\* off, retries and the account store do meanwhile.
THEOREM ConversationsStay ==
  ASSUME OneTurnAtATime, "restart" \notin Admin
  PROVE  Spec => StickyStable
<1>1. TypeInv /\ TurnInv /\ [Next]_vars
        => [\A s \in Sessions :
              sticky[s].acc # NoAccount /\ sticky'[s].acc # sticky[s].acc
                => \/ ~ AccountHealthy(sticky[s].acc)
                   \/ sticky[s].idle > StickySessionTTL]_vars
  <2> SUFFICES ASSUME TypeInv, TurnInv, [Next]_vars, NEW s \in Sessions,
                      sticky[s].acc # NoAccount, sticky'[s].acc # sticky[s].acc
               PROVE  \/ ~ AccountHealthy(sticky[s].acc)
                      \/ sticky[s].idle > StickySessionTTL
    OBVIOUS
  <2>1. CASE BindingsDropped
    BY <2>1 DEF BindingsDropped
  <2>2. ASSUME NEW r \in Requests, BindingMade(r)
        PROVE  FALSE
    BY <2>2 DEF BindingMade, TurnInv, TurnPosition
  <2>3. QED
    BY <2>1, <2>2, BindingStep DEF BindingsKept
<1>2. QED
  BY <1>1, TypeInvInit, TypeInvNext, TurnInvInit, TurnInvNext, PTL
     DEF Spec, StickyStable
=============================================================================
