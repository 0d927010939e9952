--------------------------- MODULE RunBatch_proofs ---------------------------
(***************************************************************************)
(* Theorems about RunBatch, for every value of its constants.              *)
(***************************************************************************)
EXTENDS RunBatch, FiniteSetTheorems, SequenceTheorems, TLAPS

-----------------------------------------------------------------------------
(* Type correctness                                                        *)

LEMMA SlotsOfType ==
  ASSUME NEW n \in Nat, NEW s \in [1..n -> Proxies]
  PROVE  SlotsOf(s) \in [Proxies -> Nat]
<1> SUFFICES ASSUME NEW p \in Proxies
             PROVE  Cardinality({i \in DOMAIN s : s[i] = p}) \in Nat
  BY DEF SlotsOf
<1>1. DOMAIN s = 1..n
  OBVIOUS
<1>2. IsFiniteSet(1..n)
  BY FS_Interval
<1>3. IsFiniteSet({i \in DOMAIN s : s[i] = p})
  BY <1>1, <1>2, FS_Subset
<1> QED
  BY <1>3, FS_CardinalityType

LEMMA ExceptType ==
  ASSUME NEW S, NEW T, NEW f \in [S -> T], NEW a, NEW v \in T
  PROVE  [f EXCEPT ![a] = v] \in [S -> T]
OBVIOUS

\* A part of a sequence of proxies.
LEMMA PartType ==
  ASSUME NEW s \in Seq(Proxies), NEW m \in 1..Len(s) + 1, NEW n \in 0..Len(s)
  PROVE  /\ SubSeq(s, m, n) \in Seq(Proxies)
         /\ SlotsOf(SubSeq(s, m, n)) \in [Proxies -> Nat]
<1>1. SubSeq(s, m, n) \in Seq(Proxies)
  BY SubSeqProperties, ElementOfSeq
<1>2. SubSeq(s, m, n) \in [1..Len(SubSeq(s, m, n)) -> Proxies]
      /\ Len(SubSeq(s, m, n)) \in Nat
  BY <1>1, LenProperties
<1> QED
  BY <1>1, <1>2, SlotsOfType

LEMMA LeastType ==
  ASSUME NEW m \in Nat, NEW n \in Nat
  PROVE  Least(m, n) \in Nat /\ Least(m, n) <= m /\ Least(m, n) <= n
  BY DEF Least

LEMMA WantWorkingType == WantWorking \in 0..Len(ProxyPool)
<1>1. WorkingSize \in Nat /\ Len(ProxyPool) \in Nat
  BY BatchAssumption, LenProperties
<1>2. \A m, n \in Nat : Least(m, n) \in 0..n
  BY DEF Least
<1> QED
  BY <1>1, <1>2 DEF WantWorking

\* The numbers among the constants.
LEMMA Numbers ==
  /\ Count \in Nat \ {0} /\ MaxProxyFails \in Nat \ {0}
  /\ MaxPerIP \in Nat \ {0} /\ MaxJobAttempts \in Nat \ {0}
  /\ WantWorking \in Nat
<1>1. Len(ProxyPool) \in Nat
  BY BatchAssumption, LenProperties
<1>2. WantWorking \in Nat
  BY <1>1, WantWorkingType
<1> QED
  BY <1>2, BatchAssumption

LEMMA TypeInit == Init => TypeOK
<1> SUFFICES ASSUME Init PROVE TypeOK
  OBVIOUS
<1>1. pool \in [Proxies -> Nat] /\ reserve \in Seq(Proxies)
  <2>1. ProxyPool \in Seq(Proxies) /\ Len(ProxyPool) \in Nat
    BY BatchAssumption, LenProperties
  <2>2. /\ 1 \in 1..Len(ProxyPool) + 1 /\ WantWorking \in 0..Len(ProxyPool)
        /\ WantWorking + 1 \in 1..Len(ProxyPool) + 1
        /\ Len(ProxyPool) \in 0..Len(ProxyPool)
    BY <2>1, WantWorkingType
  <2> QED
    BY <2>1, <2>2, PartType DEF Init, Working, Reserve
<1>2. /\ fails \in [Proxies -> 0..MaxProxyFails] /\ jobs \in 0..Count
      /\ attempt \in [Workers -> 0..(MaxJobAttempts - 1)]
  BY Numbers DEF Init
<1>3. /\ pc \in [Workers -> Places]
      /\ result \in [Workers -> {"success", "cancelled", "empty"} \cup Failures]
      /\ found \in [Workers -> Seq(Proxies)]
  <2>1. <<>> \in Seq(Proxies)
    BY EmptySeq
  <2> QED
    BY <2>1 DEF Init, Places
<1>4. \A w \in Workers : pc[w] \notin AtProxy
  BY DEF Init, AtProxy
<1> QED
  BY <1>1, <1>2, <1>3, <1>4 DEF Init, TypeOK

LEMMA TypePreCheck ==
  ASSUME TypeOK, PreCheck
  PROVE  TypeOK'
<1>1. reserve \in Seq(Proxies) /\ Len(reserve) \in Nat
  BY LenProperties DEF TypeOK
<1> DEFINE n == Least(WantWorking, Len(reserve))
<1>2. n \in 0..Len(reserve)
  BY <1>1, Numbers DEF Least
<1>3. SlotsOf(SubSeq(reserve, 1, n)) \in [Proxies -> Nat]
      /\ SubSeq(reserve, n + 1, Len(reserve)) \in Seq(Proxies)
  <2>1. 1 \in 1..Len(reserve) + 1 /\ n + 1 \in 1..Len(reserve) + 1
        /\ Len(reserve) \in 0..Len(reserve)
    BY <1>1, <1>2
  <2> QED
    BY <1>1, <1>2, <2>1, PartType
<1>4. \A ps : Only(ps) \in [Proxies -> Nat]
  BY DEF Only, TypeOK
<1>5. /\ phase' \in {"precheck", "run", "aborted", "done"}
      /\ pool' \in [Proxies -> Nat] /\ reserve' \in Seq(Proxies)
      /\ proxied' \in BOOLEAN
  <2> PICK ok \in SUBSET Proxies :
       \/ /\ pool' = Only(ok) /\ proxied' = TRUE /\ phase' = "run"
          /\ UNCHANGED reserve
       \/ /\ pool' = SlotsOf(SubSeq(reserve, 1, n))
          /\ reserve' = SubSeq(reserve, n + 1, Len(reserve))
          /\ UNCHANGED <<phase, proxied>>
       \/ /\ pool' = Only({}) /\ phase' = "aborted"
          /\ UNCHANGED <<reserve, proxied>>
    BY DEF PreCheck
  <2>1. Only(ok) \in [Proxies -> Nat] /\ Only({}) \in [Proxies -> Nat]
    BY <1>4
  <2>2. /\ phase \in {"precheck", "run", "aborted", "done"}
        /\ pool \in [Proxies -> Nat] /\ proxied \in BOOLEAN
    BY DEF TypeOK
  <2> HIDE DEF n
  <2> QED
    BY <1>1, <1>3, <2>1, <2>2
<1>6. UNCHANGED <<fails, total, cooling, sticky, jobs, pc, proxy, attempt,
                  result, found, completed, success, fail, streak, paused, held,
                  cancelled>>
  BY DEF PreCheck, jobVars, countVars, pauseVars
<1> QED
  BY <1>5, <1>6 DEF TypeOK

\* The conjuncts of TypeOK about places and attempts, and how a worker that goes
\* to another place keeps them.
PcOK == /\ pc \in [Workers -> Places]
        /\ \A w \in Workers : pc[w] \in AtProxy => proxy[w] # NoProxy
AttemptOK == attempt \in [Workers -> 0..(MaxJobAttempts - 1)]

LEMMA GotoType ==
  ASSUME PcOK, NEW w \in Workers, NEW where \in Places, Goto(w, where),
         where \in AtProxy => proxy'[w] # NoProxy,
         \A v \in Workers \ {w} : proxy'[v] = proxy[v]
  PROVE  PcOK'
<1>1. pc' = [pc EXCEPT ![w] = where] /\ pc \in [Workers -> Places]
  BY DEF Goto, PcOK
<1>2. pc' \in [Workers -> Places]
  BY <1>1
<1>3. ASSUME NEW v \in Workers, pc'[v] \in AtProxy
      PROVE  proxy'[v] # NoProxy
  BY <1>1, <1>3 DEF PcOK
<1> QED
  BY <1>2, <1>3 DEF PcOK

LEMMA AfterTrackType ==
  ASSUME PcOK, AttemptOK, NEW w \in Workers, AfterTrack(w), UNCHANGED proxy
  PROVE  PcOK' /\ AttemptOK'
<1>1. CASE Again(w)
  <2>1. Goto(w, "acquire") /\ attempt' = [attempt EXCEPT ![w] = @ + 1]
        /\ attempt[w] + 1 < MaxJobAttempts
    BY <1>1 DEF AfterTrack, Again
  <2>2. AttemptOK'
    BY <2>1, Numbers DEF AttemptOK
  <2>3. "acquire" \in Places /\ "acquire" \notin AtProxy
    BY DEF Places, AtProxy
  <2> QED
    BY <2>1, <2>2, <2>3, GotoType
<1>2. CASE ~ Again(w)
  <2>1. Goto(w, "release") /\ UNCHANGED attempt
    BY <1>2 DEF AfterTrack
  <2>2. "release" \in Places /\ "release" \notin AtProxy
    BY DEF Places, AtProxy
  <2> QED
    BY <2>1, <2>2, GotoType DEF AttemptOK
<1> QED
  BY <1>1, <1>2

LEMMA TypeNextJob ==
  ASSUME TypeOK, NEW w \in Workers, NextJob(w)
  PROVE  TypeOK'
<1>1. jobs' \in 0..Count
  BY Numbers DEF TypeOK, NextJob
<1>2. PcOK'
  <2>1. \E where \in {"gone", "gate"} : Goto(w, where)
    BY DEF NextJob
  <2> QED
    BY <2>1, GotoType DEF TypeOK, PcOK, NextJob, jobVars, Places, AtProxy
<1> QED
  BY <1>1, <1>2 DEF NextJob, TypeOK, PcOK, poolVars, jobVars, countVars, pauseVars

LEMMA TypeGate ==
  ASSUME TypeOK, NEW w \in Workers, Gate(w)
  PROVE  TypeOK'
<1>1. PcOK'
  <2>1. \E where \in {"gone", "acquire"} : Goto(w, where)
    BY DEF Gate
  <2> QED
    BY <2>1, GotoType DEF TypeOK, PcOK, Gate, jobVars, Places, AtProxy
<1> QED
  BY <1>1 DEF Gate, TypeOK, PcOK, poolVars, jobVars, countVars, pauseVars

LEMMA TypeKeepSticky ==
  ASSUME TypeOK, NEW w \in Workers, KeepSticky(w)
  PROVE  TypeOK'
<1>1. /\ proxy' \in [Workers -> Proxies \cup {NoProxy}]
      /\ sticky' \in [Workers -> Proxies \cup {NoProxy}]
  BY DEF TypeOK, KeepSticky
<1>2. PcOK'
  <2>1. \E where \in {"reconnect, pick", "attempt"} : Goto(w, where)
    BY DEF KeepSticky
  <2>2. proxy'[w] # NoProxy /\ \A v \in Workers \ {w} : proxy'[v] = proxy[v]
    BY DEF KeepSticky, TypeOK
  <2> QED
    BY <2>1, <2>2, GotoType DEF TypeOK, PcOK, Places
<1> QED
  BY <1>1, <1>2 DEF KeepSticky, TypeOK, PcOK, poolVars, countVars, pauseVars

LEMMA TypePickProxy ==
  ASSUME TypeOK, NEW w \in Workers, PickProxy(w)
  PROVE  TypeOK'
<1>1. PICK p \in Slots \cup {NoProxy} :
        /\ proxy' = [proxy EXCEPT ![w] = p]
        /\ sticky' = [sticky EXCEPT ![w] = p]
        /\ Slots # {} => p \in Slots
  BY DEF PickProxy
<1>2. Slots \subseteq Proxies
  BY DEF Slots
<1>3. /\ proxy' \in [Workers -> Proxies \cup {NoProxy}]
      /\ sticky' \in [Workers -> Proxies \cup {NoProxy}]
  BY <1>1, <1>2 DEF TypeOK
<1>4. PcOK'
  <2>1. \A v \in Workers \ {w} : proxy'[v] = proxy[v]
    BY <1>1 DEF TypeOK
  <2>2. CASE Slots = {}
    <3>1. Goto(w, "attempt")
      BY <2>2 DEF PickProxy
    <3> QED
      BY <2>1, <3>1, GotoType DEF TypeOK, PcOK, Places, AtProxy
  <2>3. CASE Slots # {}
    <3>1. proxy'[w] # NoProxy
      BY <1>1, <1>2, <2>3, BatchAssumption DEF TypeOK
    <3>2. \E where \in {"reconnect, attempt", "attempt"} : Goto(w, where)
      BY DEF PickProxy
    <3> QED
      BY <2>1, <3>1, <3>2, GotoType DEF TypeOK, PcOK, Places
  <2> QED
    BY <2>2, <2>3
<1> QED
  BY <1>3, <1>4 DEF PickProxy, TypeOK, PcOK, poolVars, countVars, pauseVars

LEMMA TypeReconnect ==
  ASSUME TypeOK, NEW w \in Workers, Reconnect(w)
  PROVE  TypeOK'
<1>1. total' \in [Proxies -> Nat] /\ fails' \in [Proxies -> 0..MaxProxyFails]
  <2>1. total' = [total EXCEPT ![proxy[w]] = 0]
        /\ fails' = [fails EXCEPT ![proxy[w]] = 0]
    BY DEF Reconnect
  <2>2. 0 \in Nat /\ 0 \in 0..MaxProxyFails
    BY Numbers
  <2> QED
    BY <2>1, <2>2, ExceptType DEF TypeOK
<1>2. proxy[w] # NoProxy
  BY DEF Reconnect, TypeOK, AtProxy
<1>3. PcOK' /\ AttemptOK'
  <2>1. CASE AfterTrack(w)
    BY <2>1, AfterTrackType DEF Reconnect, TypeOK, PcOK, AttemptOK
  <2>2. CASE /\ \E where \in {"acquire", "attempt", "count", "rest"} :
                  Goto(w, where)
             /\ UNCHANGED attempt
    BY <1>2, <2>2, GotoType DEF Reconnect, TypeOK, PcOK, AttemptOK, Places
  <2> QED
    BY <2>1, <2>2 DEF Reconnect
<1> QED
  BY <1>1, <1>3 DEF Reconnect, TypeOK, PcOK, AttemptOK, countVars, pauseVars

LEMMA TypeAttempt ==
  ASSUME TypeOK, NEW w \in Workers, Attempt(w)
  PROVE  TypeOK'
<1>1. PICK o \in Outcomes \cup {"empty"} :
        result' = [result EXCEPT ![w] = o] \/ UNCHANGED result
  BY DEF Attempt
<1>2. result' \in [Workers -> {"success", "cancelled", "empty"} \cup Failures]
  BY <1>1, BatchAssumption DEF TypeOK
<1>3. PcOK'
  <2>1. \E where \in {"release", "gone", "attempted"} : Goto(w, where)
    BY DEF Attempt
  <2> QED
    BY <2>1, GotoType DEF Attempt, TypeOK, PcOK, Places, AtProxy
<1> QED
  BY <1>2, <1>3 DEF Attempt, TypeOK, PcOK, poolVars, countVars, pauseVars

LEMMA TypeTrack ==
  ASSUME TypeOK, NEW w \in Workers, Track(w)
  PROVE  TypeOK'
<1>1. sticky' \in [Workers -> Proxies \cup {NoProxy}]
  BY DEF Track, TypeOK
<1>2. fails' \in [Proxies -> 0..MaxProxyFails]
  <2>1. \A p \in Proxies : Least(fails[p] + 1, MaxProxyFails) \in 0..MaxProxyFails
    BY Numbers DEF Least, TypeOK
  <2> DEFINE n == Least(fails[proxy[w]] + 1, MaxProxyFails)
  <2>2. \/ UNCHANGED fails
        \/ /\ proxy[w] # NoProxy
           /\ \/ fails' = [fails EXCEPT ![proxy[w]] = 0]
              \/ fails' = [fails EXCEPT ![proxy[w]] = n]
    BY DEF Track
  <2>3. proxy[w] # NoProxy => n \in 0..MaxProxyFails
    BY <2>1 DEF TypeOK
  <2> HIDE DEF n
  <2> QED
    <3>1. 0 \in 0..MaxProxyFails
      BY Numbers
    <3> QED
      BY <2>2, <2>3, <3>1, ExceptType DEF TypeOK
<1>3. PcOK' /\ AttemptOK'
  <2>1. CASE AfterTrack(w)
    BY <2>1, AfterTrackType DEF Track, TypeOK, PcOK, AttemptOK
  <2>2. CASE Goto(w, "gone") /\ UNCHANGED attempt
    BY <2>2, GotoType DEF Track, TypeOK, PcOK, AttemptOK, Places, AtProxy
  <2>3. CASE Goto(w, "verify") /\ UNCHANGED attempt /\ proxy[w] # NoProxy
    BY <2>3, GotoType DEF Track, TypeOK, PcOK, AttemptOK, Places
  <2> QED
    BY <2>1, <2>2, <2>3 DEF Track
<1> QED
  BY <1>1, <1>2, <1>3
  DEF Track, TypeOK, PcOK, AttemptOK, countVars, pauseVars

LEMMA TypeVerify ==
  ASSUME TypeOK, NEW w \in Workers, Verify(w)
  PROVE  TypeOK'
<1>1. fails' \in [Proxies -> 0..MaxProxyFails]
  <2>1. 0 \in 0..MaxProxyFails
    BY Numbers
  <2>2. UNCHANGED fails \/ fails' = [fails EXCEPT ![proxy[w]] = 0]
    BY DEF Verify
  <2> QED
    BY <2>1, <2>2, ExceptType DEF TypeOK
<1>2. proxy[w] # NoProxy
  BY DEF Verify, TypeOK, AtProxy
<1>3. PcOK'
  <2>1. \E where \in {"remove", "reconnect, rest"} : Goto(w, where)
    BY DEF Verify
  <2> QED
    BY <1>2, <2>1, GotoType DEF Verify, TypeOK, PcOK, Places, jobVars
<1> QED
  BY <1>1, <1>3 DEF Verify, TypeOK, PcOK, jobVars, countVars, pauseVars

LEMMA TypeRemove ==
  ASSUME TypeOK, NEW w \in Workers, Remove(w)
  PROVE  TypeOK'
<1>1. pool' \in [Proxies -> Nat] /\ total' \in [Proxies -> Nat]
  BY DEF Remove, TypeOK
<1>2. found' \in [Workers -> Seq(Proxies)]
  BY DEF Remove, TypeOK
<1>3. PcOK' /\ AttemptOK'
  <2>1. CASE AfterTrack(w)
    BY <2>1, AfterTrackType DEF Remove, TypeOK, PcOK, AttemptOK
  <2>2. CASE /\ \E where \in {"refill", "give up"} : Goto(w, where)
             /\ UNCHANGED attempt
    BY <2>2, GotoType DEF Remove, TypeOK, PcOK, AttemptOK, Places, AtProxy
  <2> QED
    BY <2>1, <2>2 DEF Remove
<1> QED
  BY <1>1, <1>2, <1>3 DEF Remove, TypeOK, PcOK, AttemptOK, countVars, pauseVars

LEMMA TypeRest ==
  ASSUME TypeOK, NEW w \in Workers, Rest(w)
  PROVE  TypeOK'
<1>1. proxy[w] \in Proxies
  BY DEF Rest, TypeOK, AtProxy
<1>2. cooling' \subseteq Proxies
  BY <1>1 DEF Rest, TypeOK
<1>3. found' \in [Workers -> Seq(Proxies)]
  BY DEF Rest, TypeOK
<1>4. PcOK' /\ AttemptOK'
  <2>1. CASE AfterTrack(w)
    BY <2>1, AfterTrackType DEF Rest, TypeOK, PcOK, AttemptOK
  <2>2. CASE Goto(w, "top up") /\ UNCHANGED attempt
    BY <2>2, GotoType DEF Rest, TypeOK, PcOK, AttemptOK, Places, AtProxy
  <2> QED
    BY <2>1, <2>2 DEF Rest
<1> QED
  BY <1>2, <1>3, <1>4 DEF Rest, TypeOK, PcOK, AttemptOK, countVars, pauseVars

LEMMA TypeTakeReserve ==
  ASSUME TypeOK, NEW w \in Workers, TakeReserve(w)
  PROVE  TypeOK'
<1>1. found[w] \in Seq(Proxies) /\ Len(found[w]) \in Nat /\ <<>> \in Seq(Proxies)
  BY LenProperties, EmptySeq DEF TypeOK
<1>2. pool' \in [Proxies -> Nat] /\ reserve' \in Seq(Proxies)
  <2>1. CASE UNCHANGED pool /\ reserve' = <<>>
    BY <1>1, <2>1 DEF TypeOK
  <2>2. ASSUME NEW k \in 1..Len(found[w]),
               pool' = [pool EXCEPT ![found[w][k]] = @ + 1],
               reserve' = SubSeq(found[w], k + 1, Len(found[w]))
        PROVE  pool' \in [Proxies -> Nat] /\ reserve' \in Seq(Proxies)
    <3>1. k + 1 \in 1..Len(found[w]) + 1 /\ Len(found[w]) \in 0..Len(found[w])
      BY <1>1
    <3>2. reserve' \in Seq(Proxies)
      BY <1>1, <2>2, <3>1, PartType
    <3>3. found[w][k] \in Proxies
      BY <1>1, ElementOfSeq
    <3>4. pool[found[w][k]] + 1 \in Nat
      BY <3>3 DEF TypeOK
    <3> QED
      BY <2>2, <3>2, <3>4, ExceptType DEF TypeOK
  <2> QED
    BY <2>1, <2>2 DEF TakeReserve
<1>3. found' \in [Workers -> Seq(Proxies)]
  BY <1>1 DEF TakeReserve, TypeOK
<1>4. PcOK' /\ AttemptOK'
  <2>1. CASE AfterTrack(w)
    BY <2>1, AfterTrackType DEF TakeReserve, TypeOK, PcOK, AttemptOK
  <2>2. CASE Goto(w, "give up") /\ UNCHANGED attempt
    BY <2>2, GotoType DEF TakeReserve, TypeOK, PcOK, AttemptOK, Places, AtProxy
  <2> QED
    BY <2>1, <2>2 DEF TakeReserve
<1> QED
  BY <1>2, <1>3, <1>4
  DEF TakeReserve, TypeOK, PcOK, AttemptOK, countVars, pauseVars

LEMMA TypeGiveUp ==
  ASSUME TypeOK, NEW w \in Workers, GiveUp(w)
  PROVE  TypeOK'
<1>1. PcOK' /\ AttemptOK'
  BY AfterTrackType DEF GiveUp, TypeOK, PcOK, AttemptOK
<1> QED
  BY <1>1
  DEF GiveUp, TypeOK, PcOK, AttemptOK, poolVars, countVars, pauseVars

LEMMA TypeRelease ==
  ASSUME TypeOK, NEW w \in Workers, Release(w)
  PROVE  TypeOK'
<1>1. total' \in [Proxies -> Nat] /\ sticky' \in [Workers -> Proxies \cup {NoProxy}]
  <2>1. \/ UNCHANGED total
        \/ /\ proxy[w] # NoProxy
           /\ total' = [total EXCEPT ![proxy[w]] = total[proxy[w]] + 1]
    BY DEF Release
  <2>2. proxy[w] # NoProxy => total[proxy[w]] + 1 \in Nat
    BY DEF TypeOK
  <2>3. \/ UNCHANGED sticky
        \/ sticky' = [sticky EXCEPT ![w] = NoProxy]
        \/ sticky' = [sticky EXCEPT ![w] = proxy[w]]
    BY DEF Release
  <2>4. proxy[w] \in Proxies \cup {NoProxy}
    BY DEF TypeOK
  <2>5. total \in [Proxies -> Nat] /\ sticky \in [Workers -> Proxies \cup {NoProxy}]
    BY DEF TypeOK
  <2>6. total' \in [Proxies -> Nat]
    BY <2>1, <2>2, <2>5, ExceptType
  <2>7. sticky' \in [Workers -> Proxies \cup {NoProxy}]
    BY <2>3, <2>4, <2>5, ExceptType
  <2> QED
    BY <2>6, <2>7
<1>2. PcOK'
  <2>1. \/ Goto(w, "count")
        \/ Goto(w, "reconnect, count") /\ proxy[w] # NoProxy
    BY DEF Release
  <2> QED
    BY <2>1, GotoType DEF Release, TypeOK, PcOK, Places, AtProxy, jobVars
<1> QED
  BY <1>1, <1>2 DEF Release, TypeOK, PcOK, jobVars, countVars, pauseVars

LEMMA TypeCountJob ==
  ASSUME TypeOK, NEW w \in Workers, CountJob(w)
  PROVE  TypeOK'
<1>1. PcOK'
  BY GotoType DEF CountJob, TypeOK, PcOK, Places, AtProxy, jobVars
<1> QED
  BY <1>1 DEF CountJob, TypeOK, PcOK, poolVars, jobVars, pauseVars

LEMMA TypeRecord ==
  ASSUME TypeOK, NEW w \in Workers, Record(w)
  PROVE  TypeOK'
<1>1. /\ proxy' \in [Workers -> Proxies \cup {NoProxy}]
      /\ result' \in [Workers -> {"success", "cancelled", "empty"} \cup Failures]
      /\ attempt' \in [Workers -> 0..(MaxJobAttempts - 1)]
  BY Numbers DEF Record, TypeOK
<1>2. /\ success' \in Nat /\ fail' \in Nat /\ streak' \in Nat
      /\ paused' \in BOOLEAN /\ held' \subseteq Workers
  <2>1. /\ success' \in {success, success + 1} /\ fail' \in {fail, fail + 1}
        /\ streak' \in {streak, 0, streak + 1} /\ held' \in {held, held \cup {w}}
    BY DEF Record, Failed
  <2>2. paused' = paused \/ paused' \in BOOLEAN
    BY DEF Record, Failed
  <2> QED
    BY <2>1, <2>2 DEF TypeOK
<1>3. PcOK'
  <2>1. Goto(w, "next") /\ \A v \in Workers \ {w} : proxy'[v] = proxy[v]
    BY DEF Record, TypeOK
  <2> QED
    BY <2>1, GotoType DEF TypeOK, PcOK, Places, AtProxy
<1> QED
  BY <1>1, <1>2, <1>3 DEF Record, TypeOK, PcOK, poolVars

\* No step leaves the types.
LEMMA TypeStep == TypeOK /\ [Next]_vars => TypeOK'
<1> SUFFICES ASSUME TypeOK, [Next]_vars PROVE TypeOK'
  OBVIOUS
<1>1. CASE PreCheck
  BY <1>1, TypePreCheck
<1>2. CASE Stop
  BY <1>2 DEF Stop, TypeOK, poolVars, jobVars, countVars, pauseVars
<1>3. CASE PauseEnds
  BY <1>3 DEF PauseEnds, TypeOK, poolVars, jobVars, countVars
<1>4. CASE Finish
  BY <1>4 DEF Finish, TypeOK, poolVars, jobVars, countVars, pauseVars
<1>5. ASSUME NEW p \in Proxies, RestEnds(p) PROVE TypeOK'
  BY <1>5 DEF RestEnds, TypeOK, jobVars, countVars, pauseVars
<1>6. ASSUME NEW w \in Workers, Worker(w) PROVE TypeOK'
  BY <1>6, TypeNextJob, TypeGate, TypeKeepSticky, TypePickProxy, TypeReconnect,
     TypeAttempt, TypeTrack, TypeVerify, TypeRemove, TypeRest, TypeTakeReserve,
     TypeGiveUp, TypeRelease, TypeCountJob, TypeRecord DEF Worker
<1>7. CASE UNCHANGED vars
  BY <1>7 DEF vars, TypeOK
<1> QED
  BY <1>1, <1>2, <1>3, <1>4, <1>5, <1>6, <1>7 DEF Next

\* Every variable of RunBatch holds what the code can put there, and a worker
\* that judges, reconnects or removes a proxy has one (batch.go:355-700).
THEOREM TypeCorrect == Spec => []TypeOK
BY TypeInit, TypeStep, PTL DEF Spec

-----------------------------------------------------------------------------
(* The steps of a worker, as far as the jobs are concerned                 *)

\* Where a worker has a job that it has not counted.
Inside == Places \ {"next", "record", "gone"}

\* Anything between the gate and the count: the job stays with the worker, or a
\* cancelled batch loses it.
Moves(w) ==
  /\ pc[w] \in Inside \ {"gate"}
  /\ \E where \in Inside \cup {"gone"} :
       Goto(w, where) /\ (where = "gone" => cancelled)
  /\ cancelled' \in {cancelled, TRUE}
  /\ UNCHANGED <<phase, jobs, completed, success, fail, paused, held>>

LEMMA AfterTrackInside ==
  ASSUME NEW w, AfterTrack(w)
  PROVE  \E where \in Inside : Goto(w, where)
<1>1. "acquire" \in Inside /\ "release" \in Inside
  BY DEF Inside, Places
<1> QED
  BY <1>1 DEF AfterTrack

LEMMA TrackGoes ==
  ASSUME NEW w, Track(w)
  PROVE  \/ AfterTrack(w)
         \/ Goto(w, "verify")
         \/ Goto(w, "gone") /\ cancelled
<1>1. CASE Again(w) /\ cancelled
  BY <1>1 DEF Track
<1>2. CASE ~ (Again(w) /\ cancelled)
  BY <1>2 DEF Track
<1> QED
  BY <1>1, <1>2

LEMMA ToInside ==
  ASSUME NEW w, NEW there \in Inside, Goto(w, there)
  PROVE  \E where \in Inside \cup {"gone"} :
           Goto(w, where) /\ (where = "gone" => cancelled)
BY DEF Inside

LEMMA WorkerCases ==
  ASSUME TypeOK, NEW w \in Workers, Worker(w)
  PROVE  NextJob(w) \/ Gate(w) \/ Moves(w) \/ CountJob(w) \/ Record(w)
<1> USE DEF Inside, Places, countVars, pauseVars
<1>0. cancelled \in BOOLEAN
  BY DEF TypeOK
<1>1. CASE KeepSticky(w)
  <2>1. Goto(w, "reconnect, pick") \/ Goto(w, "attempt")
    BY <1>1 DEF KeepSticky
  <2>2. \E where \in Inside : Goto(w, where)
    BY <2>1
  <2> QED
    BY <1>1, <2>2 DEF KeepSticky, Moves
<1>2. CASE PickProxy(w)
  <2>1. Goto(w, "reconnect, attempt") \/ Goto(w, "attempt")
    BY <1>2 DEF PickProxy
  <2>2. \E where \in Inside : Goto(w, where)
    BY <2>1
  <2> QED
    BY <1>2, <2>2 DEF PickProxy, Moves
<1>3. CASE Reconnect(w)
  <2>1. pc[w] \in Inside \ {"gate"}
    BY <1>3 DEF Reconnect
  <2>2. \E where \in Inside : Goto(w, where)
    BY <1>3, AfterTrackInside DEF Reconnect
  <2> QED
    BY <1>3, <2>1, <2>2 DEF Reconnect, Moves
<1>4. CASE Attempt(w)
  <2>1. \/ Goto(w, "release") \/ Goto(w, "attempted")
        \/ (Goto(w, "gone") /\ cancelled)
    BY <1>4 DEF Attempt
  <2>2. \E where \in Inside \cup {"gone"} :
          Goto(w, where) /\ (where = "gone" => cancelled)
    <3>1. CASE Goto(w, "release") \/ Goto(w, "attempted")
      <4>1. PICK there \in Inside : Goto(w, there)
        BY <3>1
      <4> QED
        BY <4>1, ToInside
    <3>2. CASE Goto(w, "gone") /\ cancelled
      BY <3>2
    <3> QED
      BY <2>1, <3>1, <3>2
  <2> QED
    BY <1>4, <2>2 DEF Attempt, Moves
<1>5. CASE Track(w)
  <2>1. AfterTrack(w) \/ Goto(w, "verify") \/ (Goto(w, "gone") /\ cancelled)
    BY <1>5, TrackGoes
  <2>2. \E where \in Inside \cup {"gone"} :
          Goto(w, where) /\ (where = "gone" => cancelled)
    <3>1. CASE AfterTrack(w)
      <4>1. PICK where \in Inside : Goto(w, where)
        BY <3>1, AfterTrackInside
      <4> QED
        BY <4>1, ToInside
    <3>2. CASE Goto(w, "verify")
      BY <3>2, ToInside
    <3>3. CASE Goto(w, "gone") /\ cancelled
      BY <3>3
    <3> QED
      BY <2>1, <3>1, <3>2, <3>3
  <2> QED
    BY <1>5, <2>2 DEF Track, Moves
<1>6. CASE Verify(w)
  <2>1. Goto(w, "remove") \/ Goto(w, "reconnect, rest")
    BY <1>6 DEF Verify
  <2>2. \E where \in Inside : Goto(w, where)
    BY <2>1
  <2> QED
    BY <1>6, <2>2 DEF Verify, Moves
<1>7. CASE Remove(w)
  <2>1. \E where \in Inside : Goto(w, where)
    BY <1>7, AfterTrackInside DEF Remove
  <2> QED
    BY <1>7, <2>1 DEF Remove, Moves
<1>8. CASE Rest(w)
  <2>1. \E where \in Inside : Goto(w, where)
    BY <1>8, AfterTrackInside DEF Rest
  <2> QED
    BY <1>8, <2>1 DEF Rest, Moves
<1>9. CASE TakeReserve(w)
  <2>1. \E where \in Inside : Goto(w, where)
    BY <1>9, AfterTrackInside DEF TakeReserve
  <2> QED
    BY <1>9, <2>1 DEF TakeReserve, Moves
<1>10. CASE GiveUp(w)
  <2>1. \E where \in Inside : Goto(w, where)
    BY <1>10, AfterTrackInside DEF GiveUp
  <2> QED
    BY <1>10, <2>1 DEF GiveUp, Moves
<1>11. CASE Release(w)
  <2>1. Goto(w, "count") \/ Goto(w, "reconnect, count")
    BY <1>11 DEF Release
  <2>2. \E where \in Inside : Goto(w, where)
    BY <2>1
  <2> QED
    BY <1>11, <2>2 DEF Release, Moves
<1> QED
  BY <1>1, <1>2, <1>3, <1>4, <1>5, <1>6, <1>7, <1>8, <1>9, <1>10, <1>11
  DEF Worker

-----------------------------------------------------------------------------
(* A pause holds the workers                                               *)

HeldInv == \A w \in held : paused /\ pc[w] \in {"next", "gate", "gone"}

LEMMA HeldStep == TypeOK /\ HeldInv /\ [Next]_vars => HeldInv'
<1> SUFFICES ASSUME TypeOK, HeldInv, [Next]_vars PROVE HeldInv'
  OBVIOUS
<1>1. ASSUME NEW w \in Workers, NextJob(w) PROVE HeldInv'
  BY <1>1 DEF NextJob, Goto, HeldInv, TypeOK, pauseVars
<1>2. ASSUME NEW w \in Workers, Gate(w) PROVE HeldInv'
  BY <1>2 DEF Gate, Goto, HeldInv, TypeOK, pauseVars
<1>3. ASSUME NEW w \in Workers, Moves(w) PROVE HeldInv'
  <2>1. w \notin held
    BY <1>3 DEF Moves, Inside, HeldInv
  <2> QED
    BY <1>3, <2>1 DEF Moves, Goto, HeldInv, TypeOK
<1>4. ASSUME NEW w \in Workers, CountJob(w) PROVE HeldInv'
  <2>1. w \notin held
    BY <1>4 DEF CountJob, HeldInv
  <2> QED
    BY <1>4, <2>1 DEF CountJob, Goto, HeldInv, TypeOK, pauseVars
<1>5. ASSUME NEW w \in Workers, Record(w) PROVE HeldInv'
  <2>1. held # {} => paused' = TRUE
    BY <1>5 DEF Record, Failed, HeldInv, TypeOK
  <2>2. paused' => held' = held \cup {w}
    BY <1>5 DEF Record
  <2>3. ~ paused' => held' = held
    BY <1>5 DEF Record
  <2>4. \A v \in held \cup {w} : pc'[v] \in {"next", "gate", "gone"}
    BY <1>5 DEF Record, Goto, HeldInv, TypeOK
  <2> QED
    BY <2>1, <2>2, <2>3, <2>4 DEF HeldInv
<1>6. CASE PreCheck \/ Stop \/ Finish \/ \E p \in Proxies : RestEnds(p)
  BY <1>6 DEF PreCheck, Stop, Finish, RestEnds, HeldInv, pauseVars
<1>7. CASE PauseEnds
  BY <1>7 DEF PauseEnds, HeldInv
<1>8. CASE UNCHANGED vars
  BY <1>8 DEF vars, HeldInv
<1> QED
  BY <1>1, <1>2, <1>3, <1>4, <1>5, <1>6, <1>7, <1>8, WorkerCases DEF Next

\* A worker that finished a job during a pause, or began the pause with it,
\* begins no other job before the pause ends (batch.go:824-839).
THEOREM PauseHoldsAlways == Spec => PauseHolds
<1>1. Init => HeldInv
  BY DEF Init, HeldInv
<1>2. TypeOK /\ HeldInv /\ [Next]_vars =>
        [\A w \in Workers :
           paused /\ attempt[w] = 0 /\ pc[w] # "attempt" /\ pc'[w] = "attempt"
             => w \notin held]_vars
  <2> SUFFICES ASSUME TypeOK, HeldInv, Next, NEW w \in Workers, w \in held
               PROVE  pc'[w] # "attempt"
    BY DEF vars
  <2>1. paused /\ pc[w] \in {"next", "gate", "gone"}
    BY DEF HeldInv
  <2>2. ASSUME NEW v \in Workers, Worker(v) PROVE pc'[w] # "attempt"
    <3>1. CASE NextJob(v)
      BY <2>1, <3>1 DEF NextJob, Goto, TypeOK
    <3>2. CASE Gate(v)
      BY <2>1, <3>2 DEF Gate, Goto, TypeOK
    <3>3. CASE Moves(v)
      BY <2>1, <3>3 DEF Moves, Inside, Goto, TypeOK
    <3>4. CASE CountJob(v)
      BY <2>1, <3>4 DEF CountJob, Goto, TypeOK
    <3>5. CASE Record(v)
      BY <2>1, <3>5 DEF Record, Goto, TypeOK
    <3> QED
      BY <2>2, <3>1, <3>2, <3>3, <3>4, <3>5, WorkerCases
  <2>3. CASE PreCheck \/ Stop \/ PauseEnds \/ Finish \/ \E p \in Proxies : RestEnds(p)
    BY <2>1, <2>3 DEF PreCheck, Stop, PauseEnds, Finish, RestEnds
  <2> QED
    BY <2>2, <2>3 DEF Next
<1> QED
  BY <1>1, <1>2, HeldStep, TypeCorrect, PTL DEF Spec, PauseHolds

-----------------------------------------------------------------------------
(* How far max_per_ip is exceeded                                          *)

\* A step that neither counts a registration of p nor lets a worker go that is
\* about to reconnect it.
LEMMA CapKept ==
  ASSUME TypeOK, TypeOK', CapOvershoot, NEW p \in Proxies,
         \/ total'[p] = 0
         \/ total'[p] = total[p] /\ Overdue(p) \subseteq Overdue(p)'
  PROVE  total'[p] < MaxPerIP + Cardinality(Overdue(p)')
<1>1. IsFiniteSet(Overdue(p)) /\ IsFiniteSet(Overdue(p)')
  BY BatchAssumption, FS_Subset DEF Overdue
<1>2. Cardinality(Overdue(p)) \in Nat /\ Cardinality(Overdue(p)') \in Nat
  BY <1>1, FS_CardinalityType
<1>3. MaxPerIP \in Nat \ {0} /\ total[p] \in Nat /\ total'[p] \in Nat
  BY Numbers DEF TypeOK
<1>4. CASE total'[p] = 0
  BY <1>2, <1>3, <1>4
<1>5. CASE total'[p] = total[p] /\ Overdue(p) \subseteq Overdue(p)'
  <2>1. Cardinality(Overdue(p)) <= Cardinality(Overdue(p)')
    BY <1>1, <1>5, FS_Subset
  <2>2. total[p] < MaxPerIP + Cardinality(Overdue(p))
    BY DEF CapOvershoot
  <2> QED
    BY <1>2, <1>3, <1>5, <2>1, <2>2
<1> QED
  BY <1>4, <1>5

\* A worker that is elsewhere cannot leave.
LEMMA Elsewhere ==
  ASSUME TypeOK, NEW p \in Proxies, NEW w \in Workers,
         pc[w] # "reconnect, count" \/ proxy[w] # p,
         NEW where, Goto(w, where),
         \A v \in Workers \ {w} : proxy'[v] = proxy[v]
  PROVE  Overdue(p) \subseteq Overdue(p)'
BY DEF Overdue, Goto, TypeOK

LEMMA CapRelease ==
  ASSUME TypeOK, TypeOK', CapOvershoot, NEW w \in Workers, Release(w),
         NEW p \in Proxies
  PROVE  total'[p] < MaxPerIP + Cardinality(Overdue(p)')
<1>1. PICK where : Goto(w, where)
  BY DEF Release
<1>2. Overdue(p) \subseteq Overdue(p)'
  BY <1>1, Elsewhere DEF Release, jobVars
<1>3. CASE total'[p] = total[p]
  BY <1>2, <1>3, CapKept
<1>4. CASE total'[p] # total[p]
  <2>1. p = proxy[w] /\ total'[p] = total[p] + 1
    BY <1>4 DEF Release, TypeOK
  <2>2. total[p] \in Nat /\ MaxPerIP \in Nat
    BY Numbers DEF TypeOK
  <2>3. IsFiniteSet(Overdue(p)) /\ IsFiniteSet(Overdue(p)')
    BY BatchAssumption, FS_Subset DEF Overdue
  <2>4. Cardinality(Overdue(p)) \in Nat /\ Cardinality(Overdue(p)') \in Nat
    BY <2>3, FS_CardinalityType
  <2>5. CASE total[p] + 1 >= MaxPerIP
    <3>0. Goto(w, "reconnect, count")
      BY <1>4, <2>1, <2>5 DEF Release, TypeOK
    <3>1. Overdue(p)' = Overdue(p) \cup {w} /\ w \notin Overdue(p)
      <4>1. pc[w] = "release" /\ proxy' = proxy
        BY DEF Release, jobVars
      <4>2. pc' = [pc EXCEPT ![w] = "reconnect, count"] /\ pc \in [Workers -> Places]
        BY <3>0 DEF Goto, TypeOK
      <4> QED
        BY <2>1, <4>1, <4>2 DEF Overdue
    <3>2. Cardinality(Overdue(p)') = Cardinality(Overdue(p)) + 1
      BY <2>3, <3>1, FS_AddElement
    <3>3. total[p] < MaxPerIP + Cardinality(Overdue(p))
      BY DEF CapOvershoot
    <3> QED
      BY <2>1, <2>2, <2>4, <3>2, <3>3
  <2>6. CASE ~ (total[p] + 1 >= MaxPerIP)
    BY <2>1, <2>2, <2>4, <2>6
  <2> QED
    BY <2>5, <2>6
<1> QED
  BY <1>3, <1>4

LEMMA CapReconnect ==
  ASSUME TypeOK, TypeOK', CapOvershoot, NEW w \in Workers, Reconnect(w),
         NEW p \in Proxies
  PROVE  total'[p] < MaxPerIP + Cardinality(Overdue(p)')
<1>1. CASE p = proxy[w]
  BY <1>1, CapKept DEF Reconnect, TypeOK
<1>2. CASE p # proxy[w]
  <2>1. total'[p] = total[p]
    BY <1>2 DEF Reconnect, TypeOK
  <2>2. PICK where : Goto(w, where)
    BY DEF Reconnect, AfterTrack
  <2>3. Overdue(p) \subseteq Overdue(p)'
    BY <1>2, <2>2, Elsewhere DEF Reconnect
  <2> QED
    BY <2>1, <2>3, CapKept
<1> QED
  BY <1>1, <1>2

\* The other steps of a worker: one worker moves, from a place where it is not
\* overdue, and no registration is counted.
Aside(w) ==
  /\ pc[w] # "reconnect, count"
  /\ \E where : Goto(w, where)
  /\ \A v \in Workers \ {w} : proxy'[v] = proxy[v]
  /\ \A p \in Proxies : total'[p] \in {0, total[p]}

LEMMA CapCases ==
  ASSUME TypeOK, NEW w \in Workers, Worker(w)
  PROVE  Release(w) \/ Reconnect(w) \/ Aside(w)
<1> USE DEF Aside, poolVars, jobVars
<1>0. \E where : AfterTrack(w) => Goto(w, where)
  BY DEF AfterTrack
<1>1. CASE NextJob(w)
  BY <1>1 DEF NextJob
<1>2. CASE Gate(w)
  BY <1>2 DEF Gate
<1>3. CASE KeepSticky(w)
  BY <1>3 DEF KeepSticky, TypeOK
<1>4. CASE PickProxy(w)
  BY <1>4 DEF PickProxy, TypeOK
<1>5. CASE Attempt(w)
  BY <1>5 DEF Attempt
<1>6. CASE Track(w)
  <2>1. \E where : Goto(w, where)
    BY <1>0, <1>6, TrackGoes
  <2> QED
    BY <1>6, <2>1 DEF Track
<1>7. CASE Verify(w)
  BY <1>7 DEF Verify
<1>8. CASE Remove(w)
  <2>1. \E where : Goto(w, where)
    BY <1>0, <1>8 DEF Remove
  <2>2. \A p \in Proxies : total'[p] \in {0, total[p]}
    BY <1>8 DEF Remove, TypeOK
  <2> QED
    BY <1>8, <2>1, <2>2 DEF Remove
<1>9. CASE Rest(w)
  <2>1. \E where : Goto(w, where)
    BY <1>0, <1>9 DEF Rest
  <2> QED
    BY <1>9, <2>1 DEF Rest
<1>10. CASE TakeReserve(w)
  <2>1. \E where : Goto(w, where)
    BY <1>0, <1>10 DEF TakeReserve
  <2> QED
    BY <1>10, <2>1 DEF TakeReserve
<1>11. CASE GiveUp(w)
  BY <1>0, <1>11 DEF GiveUp
<1>12. CASE CountJob(w)
  BY <1>12 DEF CountJob
<1>13. CASE Record(w)
  BY <1>13 DEF Record, TypeOK
<1> QED
  BY <1>1, <1>2, <1>3, <1>4, <1>5, <1>6, <1>7, <1>8, <1>9, <1>10, <1>11, <1>12,
     <1>13 DEF Worker

LEMMA CapStep == TypeOK /\ TypeOK' /\ CapOvershoot /\ [Next]_vars => CapOvershoot'
<1> SUFFICES ASSUME TypeOK, TypeOK', CapOvershoot, [Next]_vars,
                    NEW p \in Proxies
             PROVE  total'[p] < MaxPerIP + Cardinality(Overdue(p)')
  BY DEF CapOvershoot
<1>1. ASSUME NEW w \in Workers, Aside(w)
      PROVE  total'[p] < MaxPerIP + Cardinality(Overdue(p)')
  <2>1. Overdue(p) \subseteq Overdue(p)'
    BY <1>1, Elsewhere DEF Aside
  <2> QED
    BY <1>1, <2>1, CapKept DEF Aside
<1>2. ASSUME NEW w \in Workers, Worker(w)
      PROVE  total'[p] < MaxPerIP + Cardinality(Overdue(p)')
  BY <1>1, <1>2, CapCases, CapRelease, CapReconnect
<1>3. CASE UNCHANGED <<total, pc, proxy>>
  BY <1>3, CapKept DEF Overdue
<1>4. CASE PreCheck \/ Stop \/ PauseEnds \/ Finish \/ \E q \in Proxies : RestEnds(q)
  BY <1>3, <1>4
  DEF PreCheck, Stop, PauseEnds, Finish, RestEnds, poolVars, jobVars
<1> QED
  BY <1>2, <1>3, <1>4 DEF Next, vars

\* However attempts, eliminations, refills and reconnections interleave, an exit
\* is used for MaxPerIP - 1 registrations and one more for each worker that is
\* about to reconnect it (batch.go:300-312, proxy_helpers.go).
THEOREM CapIsOvershotAtMost == Spec => []CapOvershoot
<1>1. Init => CapOvershoot
  <2> SUFFICES ASSUME Init, NEW p \in Proxies
               PROVE  total[p] < MaxPerIP + Cardinality(Overdue(p))
    BY DEF CapOvershoot
  <2>1. IsFiniteSet(Overdue(p))
    BY BatchAssumption, FS_Subset DEF Overdue
  <2>2. Cardinality(Overdue(p)) \in Nat
    BY <2>1, FS_CardinalityType
  <2>3. total[p] = 0 /\ MaxPerIP \in Nat \ {0}
    BY Numbers DEF Init
  <2> QED
    BY <2>2, <2>3
<1> QED
  BY <1>1, CapStep, TypeCorrect, PTL DEF Spec

-----------------------------------------------------------------------------
(* Every job is counted once                                               *)

Recording == {w \in Workers : pc[w] = "record"}

\* JobsConserved, strengthened: what is completed and not yet recorded is in the
\* hands of a worker, workers leave an uncancelled batch when no job is left, none
\* has begun before the pre-check, and none is left when the batch is done.
JobsInv ==
  /\ JobsConserved
  /\ success + fail + Cardinality(Recording) <= completed
  /\ ~ cancelled => \A w \in Workers : pc[w] = "gone" => jobs = 0
  /\ phase \in {"precheck", "aborted"} =>
       completed = 0 /\ \A w \in Workers : pc[w] = "next"
  /\ phase = "done" => \A w \in Workers : pc[w] = "gone"

LEMMA FiniteParts ==
  /\ IsFiniteSet(Busy) /\ Cardinality(Busy) \in Nat
  /\ IsFiniteSet(Recording) /\ Cardinality(Recording) \in Nat
<1>1. IsFiniteSet(Busy) /\ IsFiniteSet(Recording)
  BY BatchAssumption, FS_Subset DEF Busy, Recording
<1> QED
  BY <1>1, FS_CardinalityType

\* Where a step of one worker takes it decides who is busy and who records.
LEMMA PartsAfter ==
  ASSUME TypeOK, NEW w \in Workers, NEW where, Goto(w, where)
  PROVE  /\ where \in {"next", "record", "gone"} => Busy' = Busy \ {w}
         /\ where \notin {"next", "record", "gone"} => Busy' = Busy \cup {w}
         /\ where = "record" => Recording' = Recording \cup {w}
         /\ where # "record" => Recording' = Recording \ {w}
         /\ \A v \in Workers : pc'[v] = IF v = w THEN where ELSE pc[v]
<1>1. \A v \in Workers : pc'[v] = IF v = w THEN where ELSE pc[v]
  BY DEF Goto, TypeOK
<1> QED
  BY <1>1 DEF Busy, Recording

LEMMA JobsInit == Init => JobsInv
<1> SUFFICES ASSUME Init PROVE JobsInv
  OBVIOUS
<1>1. Busy = {} /\ Recording = {}
  BY DEF Init, Busy, Recording
<1>2. Cardinality(Busy) = 0 /\ Cardinality(Recording) = 0
  BY <1>1, FS_EmptySet
<1> QED
  BY <1>2, Numbers DEF Init, JobsInv, JobsConserved

LEMMA JobsNextJob ==
  ASSUME TypeOK, JobsInv, NEW w \in Workers, NextJob(w)
  PROVE  JobsInv'
<1>1. /\ pc[w] = "next" /\ phase' = "run" /\ jobs \in Nat
      /\ UNCHANGED <<completed, success, fail, cancelled>>
  BY Numbers DEF NextJob, countVars, TypeOK
<1>2. w \notin Busy /\ w \notin Recording
  BY <1>1 DEF Busy, Recording
<1>3. CASE jobs = 0 \/ cancelled
  <2>1. Goto(w, "gone")
    BY <1>3 DEF NextJob
  <2>2. Busy' = Busy /\ Recording' = Recording
    BY <1>2, <2>1, PartsAfter
  <2>3. jobs' \in Nat /\ jobs' <= jobs /\ (jobs = 0 => jobs' = 0)
    BY <1>1 DEF NextJob
  <2>4. cancelled \in BOOLEAN /\ completed \in Nat
    BY DEF TypeOK
  <2>5. JobsConserved'
    <3>1. jobs' + completed' + Cardinality(Busy') <= Count
      BY <1>1, <2>2, <2>3, <2>4, FiniteParts, Numbers DEF JobsInv, JobsConserved
    <3>2. ~ cancelled' => jobs' + completed' + Cardinality(Busy') = Count
      BY <1>1, <1>3, <2>2, <2>3 DEF JobsInv, JobsConserved
    <3> QED
      BY <3>1, <3>2 DEF JobsConserved
  <2>6. ~ cancelled' => \A v \in Workers : pc'[v] = "gone" => jobs' = 0
    BY <1>1, <1>3, <2>3
  <2> QED
    BY <1>1, <2>2, <2>5, <2>6 DEF JobsInv
<1>4. CASE jobs # 0 /\ ~ cancelled
  <2>1. Goto(w, "gate") /\ jobs' = jobs - 1
    BY <1>4 DEF NextJob
  <2>2. Busy' = Busy \cup {w} /\ Recording' = Recording
    BY <1>2, <2>1, PartsAfter
  <2>3. Cardinality(Busy') = Cardinality(Busy) + 1
    BY <1>2, <2>2, FiniteParts, FS_AddElement
  <2>4. \A v \in Workers : pc'[v] # "gone"
    BY <1>1, <1>4, <2>1, PartsAfter DEF JobsInv
  <2>5. JobsConserved'
    <3>1. jobs + completed + Cardinality(Busy) = Count /\ completed \in Nat
      BY <1>4 DEF JobsInv, JobsConserved, TypeOK
    <3>2. jobs' + completed' + Cardinality(Busy') = Count
      BY <1>1, <2>1, <2>3, <3>1, FiniteParts
    <3> QED
      BY <3>2, Numbers DEF JobsConserved
  <2> QED
    BY <1>1, <2>2, <2>4, <2>5 DEF JobsInv
<1> QED
  BY <1>3, <1>4

\* A worker that goes on with its job, or loses it to the cancellation.
LEMMA JobsKept ==
  ASSUME TypeOK, TypeOK', JobsInv, NEW w \in Workers, pc[w] \in Inside,
         NEW where \in Inside \cup {"gone"}, Goto(w, where),
         where = "gone" => cancelled, cancelled' \in {cancelled, TRUE},
         UNCHANGED <<phase, jobs, completed, success, fail>>
  PROVE  JobsInv'
<1>1. pc[w] \notin {"next", "record", "gone"} /\ w \in Busy /\ w \notin Recording
  BY DEF Inside, Busy, Recording
<1>2. Recording' = Recording
  BY <1>1, PartsAfter DEF Inside
<1>3. phase = "run"
  BY <1>1 DEF JobsInv, TypeOK
<1>4. CASE where = "gone"
  <2>1. Busy' = Busy \ {w}
    BY <1>4, PartsAfter
  <2>2. Cardinality(Busy') = Cardinality(Busy) - 1
    BY <1>1, <2>1, FiniteParts, FS_RemoveElement
  <2>3. cancelled' = TRUE
    BY <1>4 DEF TypeOK
  <2> QED
    BY <1>2, <1>3, <2>2, <2>3, FiniteParts, Numbers
    DEF JobsInv, JobsConserved, TypeOK
<1>5. CASE where \in Inside
  <2>1. Busy' = Busy
    BY <1>1, <1>5, PartsAfter DEF Inside
  <2>2. \A v \in Workers : pc'[v] = "gone" => pc[v] = "gone"
    BY <1>5, PartsAfter DEF Inside
  <2>3. ~ cancelled' => ~ cancelled
    BY DEF TypeOK
  <2> QED
    BY <1>2, <1>3, <2>1, <2>2, <2>3 DEF JobsInv, JobsConserved
<1> QED
  BY <1>4, <1>5

LEMMA JobsCount ==
  ASSUME TypeOK, JobsInv, NEW w \in Workers, CountJob(w)
  PROVE  JobsInv' /\ completed < Count /\ phase = "run"
<1>1. /\ pc[w] = "count" /\ Goto(w, "record") /\ completed' = completed + 1
      /\ UNCHANGED <<phase, jobs, success, fail, cancelled>>
  BY DEF CountJob
<1>2. phase = "run"
  BY <1>1 DEF JobsInv, TypeOK
<1>3. w \in Busy /\ w \notin Recording
  BY <1>1 DEF Busy, Recording
<1>4. Busy' = Busy \ {w} /\ Recording' = Recording \cup {w}
  BY <1>1, PartsAfter
<1>5. /\ Cardinality(Busy') = Cardinality(Busy) - 1
      /\ Cardinality(Recording') = Cardinality(Recording) + 1
  BY <1>3, <1>4, FiniteParts, FS_RemoveElement, FS_AddElement
<1>6. Cardinality(Busy) # 0
  BY <1>3, FiniteParts, FS_EmptySet
<1>7. \A v \in Workers : pc'[v] = "gone" => pc[v] = "gone"
  BY <1>1, PartsAfter
<1>8. /\ jobs + completed + Cardinality(Busy) <= Count
      /\ ~ cancelled => jobs + completed + Cardinality(Busy) = Count
      /\ success + fail + Cardinality(Recording) <= completed
      /\ completed \in Nat /\ success \in Nat /\ fail \in Nat /\ jobs \in Nat
  BY Numbers DEF JobsInv, JobsConserved, TypeOK
<1>9. completed < Count
  BY <1>6, <1>8, FiniteParts, Numbers
<1>10. JobsConserved'
  <2>1. jobs' + completed' + Cardinality(Busy') = jobs + completed + Cardinality(Busy)
    BY <1>1, <1>5, <1>8, FiniteParts
  <2> QED
    BY <1>1, <1>8, <2>1 DEF JobsConserved
<1>11. success' + fail' + Cardinality(Recording') <= completed'
  BY <1>1, <1>5, <1>8, FiniteParts
<1> QED
  BY <1>1, <1>2, <1>7, <1>9, <1>10, <1>11 DEF JobsInv

LEMMA JobsRecord ==
  ASSUME TypeOK, JobsInv, NEW w \in Workers, Record(w)
  PROVE  /\ JobsInv' /\ phase = "run" /\ success + fail < completed
         /\ UNCHANGED <<phase, completed, cancelled>>
         /\ \/ success' = success + 1 /\ fail' = fail
            \/ success' = success /\ fail' = fail + 1
            \/ success' = success /\ fail' = fail
<1>1. /\ pc[w] = "record" /\ Goto(w, "next")
      /\ UNCHANGED <<phase, jobs, completed, cancelled>>
  BY DEF Record
<1>2. phase = "run"
  BY <1>1 DEF JobsInv, TypeOK
<1>3. w \notin Busy /\ w \in Recording
  BY <1>1 DEF Busy, Recording
<1>4. Busy' = Busy /\ Recording' = Recording \ {w}
  BY <1>1, <1>3, PartsAfter
<1>5. Cardinality(Recording') = Cardinality(Recording) - 1
  BY <1>3, <1>4, FiniteParts, FS_RemoveElement
<1>6. Cardinality(Recording) # 0
  BY <1>3, FiniteParts, FS_EmptySet
<1>7. \A v \in Workers : pc'[v] = "gone" => pc[v] = "gone"
  BY <1>1, PartsAfter
<1>8. \/ success' = success + 1 /\ fail' = fail
      \/ success' = success /\ fail' = fail + 1
      \/ success' = success /\ fail' = fail
  BY DEF Record
<1>9. success + fail < completed
  BY <1>6, FiniteParts DEF JobsInv, TypeOK
<1>10. JobsConserved'
  BY <1>1, <1>4 DEF JobsInv, JobsConserved
<1>11. success' + fail' + Cardinality(Recording') <= completed'
  BY <1>1, <1>5, <1>8, FiniteParts DEF JobsInv, TypeOK
<1>12. JobsInv'
  BY <1>1, <1>2, <1>7, <1>10, <1>11 DEF JobsInv
<1> QED
  BY <1>1, <1>2, <1>8, <1>9, <1>12

LEMMA JobsStep == TypeOK /\ TypeOK' /\ JobsInv /\ [Next]_vars => JobsInv'
<1> SUFFICES ASSUME TypeOK, TypeOK', JobsInv, [Next]_vars PROVE JobsInv'
  OBVIOUS
<1>1. ASSUME NEW w \in Workers, Gate(w) PROVE JobsInv'
  <2>1. pc[w] = "gate" /\ pc[w] \in Inside
    BY <1>1 DEF Gate, Inside, Places
  <2>2. \/ Goto(w, "acquire")
        \/ Goto(w, "gone") /\ cancelled
    BY <1>1 DEF Gate
  <2>3. "acquire" \in Inside /\ "acquire" # "gone"
    BY DEF Inside, Places
  <2>4. UNCHANGED <<phase, jobs, completed, success, fail, cancelled>>
    BY <1>1 DEF Gate, countVars
  <2> QED
    BY <2>1, <2>2, <2>3, <2>4, JobsKept
<1>2. ASSUME NEW w \in Workers, Moves(w) PROVE JobsInv'
  BY <1>2, JobsKept DEF Moves
<1>3. ASSUME NEW w \in Workers, Worker(w) PROVE JobsInv'
  BY <1>1, <1>2, <1>3, WorkerCases, JobsNextJob, JobsCount, JobsRecord
<1>4. CASE PreCheck
  <2>1. UNCHANGED <<jobs, pc, completed, success, fail, cancelled>>
    BY <1>4 DEF PreCheck, countVars
  <2>2. phase = "precheck" /\ phase' \in {"precheck", "run", "aborted"}
    BY <1>4 DEF PreCheck
  <2> QED
    BY <2>1, <2>2 DEF JobsInv, JobsConserved, Busy, Recording
<1>5. CASE Stop
  <2>1. cancelled' = TRUE
        /\ UNCHANGED <<phase, jobs, pc, completed, success, fail>>
    BY <1>5 DEF Stop, countVars
  <2> QED
    BY <2>1 DEF JobsInv, JobsConserved, Busy, Recording
<1>6. CASE Finish
  <2>1. /\ UNCHANGED <<jobs, pc, completed, success, fail, cancelled>>
        /\ phase' = "done" /\ \A w \in Workers : pc[w] = "gone"
    BY <1>6 DEF Finish, countVars
  <2> QED
    BY <2>1 DEF JobsInv, JobsConserved, Busy, Recording
<1>7. CASE PauseEnds \/ (\E p \in Proxies : RestEnds(p)) \/ UNCHANGED vars
  <2>1. UNCHANGED <<phase, jobs, pc, completed, success, fail, cancelled>>
    BY <1>7 DEF PauseEnds, RestEnds, countVars, vars
  <2> QED
    BY <2>1 DEF JobsInv, JobsConserved, Busy, Recording
<1> QED
  BY <1>3, <1>4, <1>5, <1>6, <1>7 DEF Next

\* No job is lost or counted twice (batch.go:758-762, :849, :1008): every job
\* waits in the channel, is in the hands of one worker or is completed, as long
\* as nobody has cancelled; a cancelled batch drops jobs and adds none.
THEOREM JobsAreConserved == Spec => []JobsConserved
<1>1. JobsInv => JobsConserved
  BY DEF JobsInv
<1> QED
  BY <1>1, JobsInit, JobsStep, TypeCorrect, PTL DEF Spec

-----------------------------------------------------------------------------
(* The batch implements the tally                                          *)

\* Every step of the batch is one of the tally or leaves it unchanged.
LEMMA TallyStep ==
  TypeOK /\ TypeOK' /\ JobsInv /\ [Next]_vars => [Tally!Next]_(Tally!tally)
<1> SUFFICES ASSUME TypeOK, TypeOK', JobsInv, [Next]_vars
             PROVE  Tally!Next \/ UNCHANGED Tally!tally
  OBVIOUS
<1> USE DEF Tally!Next, Tally!tally
<1>1. ASSUME UNCHANGED <<phase, completed, success, fail>>,
             cancelled' \in {cancelled, TRUE}
      PROVE  Tally!Next \/ UNCHANGED Tally!tally
  <2>1. CASE cancelled' = TRUE
    BY <1>1, <2>1 DEF Tally!Cancel
  <2>2. CASE cancelled' = cancelled
    BY <1>1, <2>2
  <2> QED
    BY <1>1, <2>1, <2>2
<1>2. ASSUME NEW w \in Workers, Worker(w)
      PROVE  Tally!Next \/ UNCHANGED Tally!tally
  <2>1. CASE NextJob(w)
    BY <1>1, <2>1 DEF NextJob, countVars
  <2>2. CASE Gate(w)
    BY <1>1, <2>2 DEF Gate, countVars
  <2>3. CASE Moves(w)
    BY <1>1, <2>3 DEF Moves
  <2>4. CASE CountJob(w)
    <3>1. completed < Count /\ phase = "run"
      BY <2>4, JobsCount
    <3>2. completed' = completed + 1 /\ UNCHANGED <<phase, success, fail, cancelled>>
      BY <2>4 DEF CountJob
    <3> QED
      BY <3>1, <3>2 DEF Tally!Complete
  <2>5. CASE Record(w)
    <3>1. /\ phase = "run" /\ success + fail < completed
          /\ UNCHANGED <<phase, completed, cancelled>>
          /\ \/ success' = success + 1 /\ fail' = fail
             \/ success' = success /\ fail' = fail + 1
             \/ success' = success /\ fail' = fail
      BY <2>5, JobsRecord
    <3>2. CASE success' = success + 1 /\ fail' = fail
      BY <3>1, <3>2 DEF Tally!Succeed
    <3>3. CASE success' = success /\ fail' = fail + 1
      BY <3>1, <3>3 DEF Tally!Fail
    <3>4. CASE success' = success /\ fail' = fail
      BY <1>1, <3>1, <3>4
    <3> QED
      BY <3>1, <3>2, <3>3, <3>4
  <2> QED
    BY <1>2, <2>1, <2>2, <2>3, <2>4, <2>5, WorkerCases
<1>3. CASE PreCheck
  <2>1. phase = "precheck" /\ UNCHANGED <<completed, success, fail, cancelled>>
    BY <1>3 DEF PreCheck, countVars
  <2>2. completed = 0
    BY <2>1 DEF JobsInv
  <2>3. CASE phase' = "aborted"
    BY <2>1, <2>2, <2>3 DEF Tally!End
  <2>4. CASE phase' \in {"precheck", "run"}
    BY <2>1, <2>4
  <2> QED
    BY <1>3, <2>3, <2>4 DEF PreCheck
<1>4. CASE Finish
  <2>1. /\ phase = "run" /\ phase' = "done" /\ \A w \in Workers : pc[w] = "gone"
        /\ UNCHANGED <<completed, success, fail, cancelled>>
    BY <1>4 DEF Finish, countVars
  <2>2. ASSUME ~ cancelled PROVE completed = Count
    <3>1. jobs = 0
      BY <2>1, <2>2, BatchAssumption DEF JobsInv
    <3>2. Busy = {}
      BY <2>1 DEF Busy
    <3>3. Cardinality(Busy) = 0
      BY <3>2, FS_EmptySet
    <3> QED
      BY <2>2, <3>1, <3>3 DEF JobsInv, JobsConserved, TypeOK
  <2> QED
    BY <2>1, <2>2 DEF Tally!End
<1>5. CASE Stop
  BY <1>1, <1>5 DEF Stop, countVars
<1>6. CASE PauseEnds \/ (\E p \in Proxies : RestEnds(p)) \/ UNCHANGED vars
  BY <1>1, <1>6 DEF PauseEnds, RestEnds, countVars, vars
<1> QED
  BY <1>2, <1>3, <1>4, <1>5, <1>6 DEF Next

\* RunBatch keeps what BatchTally promises the register engine: every job is
\* counted at most once, as completed before it is a success or a failure, an
\* uncancelled batch ends with all jobs completed, and nothing is counted after
\* its end (batch.go:1008-1048, :1078-1102).
THEOREM BatchImplementsTally == Spec => TallySpec
<1>1. Init => Tally!Init
  BY DEF Init, Tally!Init
<1> QED
  BY <1>1, JobsInit, JobsStep, TallyStep, TypeCorrect, PTL
  DEF Spec, TallySpec, Tally!Spec

=============================================================================
