---------------------- MODULE ResponsesStreams_proofs -----------------------
(***************************************************************************)
(* Theorems about ResponsesStreams, for any numbers of tools, blocks and   *)
(* pieces: what the client of a Responses stream is shown is the answer the*)
(* stream ends with, whichever upstream it is converted from.              *)
(*                                                                         *)
(* A step of a converter emits events; a chain of readers, one after each  *)
(* event, stands for the fold over them.  A converter keeps, of the readers*)
(* at the end of the chain, that they hold the items it has laid out.      *)
(***************************************************************************)
EXTENDS ResponsesStreams, SequenceTheorems, FiniteSetTheorems,
        WellFoundedInduction, TLAPS

\* A set of numbers with 0 that has the next of each of its members has them all.
LEMMA NatStepwise ==
  ASSUME NEW S, 0 \in S, \A n \in Nat : n \in S => n + 1 \in S
  PROVE  Nat \subseteq S
  <1> DEFINE T == Nat \ S
  <1> SUFFICES ASSUME T # {} PROVE FALSE
    OBVIOUS
  <1>1. PICK x \in T : \A y \in T : ~(<<y, x>> \in OpToRel(<, Nat))
    BY NatLessThanWellFounded, WFMin
  <1>2. \A y \in T : ~(y < x)
    BY <1>1 DEF OpToRel
  <1>3. x \in Nat /\ x # 0 /\ x - 1 \in Nat /\ (x - 1) + 1 = x /\ x - 1 < x
    OBVIOUS
  <1>4. x - 1 \in S
    BY <1>2, <1>3
  <1> QED
    BY <1>3, <1>4

-----------------------------------------------------------------------------
(* Folds over the events of a step, and over the tools that are closed     *)

\* The highest number of a set that has n + 1 and nothing above it.
LEMMA MaxOfPrefix ==
  ASSUME NEW n \in Nat, NEW s \in SUBSET (1 .. n + 1), n + 1 \in s
  PROVE  Max(s) = n + 1
  <1>1. \A y \in s : n + 1 >= y
    OBVIOUS
  <1>2. \A x \in s : (\A y \in s : x >= y) => x = n + 1
    OBVIOUS
  <1> QED
    BY <1>1, <1>2 DEF Max

\* f is what FoldLeft computes with, over the first n events.
PassesIter(f, c, v, n) ==
  f = [s \in SUBSET (1 .. n) |->
         IF s = {} THEN c ELSE LET x == Max(s) IN Passes(f[s \ {x}], v[x])]

LEMMA PassesIterExists ==
  ASSUME NEW c, NEW v, NEW n \in Nat
  PROVE  \E f : PassesIter(f, c, v, n)
  <1> DEFINE S == {k \in Nat : \E f : PassesIter(f, c, v, k)}
  <1>1. 0 \in S
    <2>1. PassesIter([s \in SUBSET (1 .. 0) |-> c], c, v, 0)
      <3>1. \A s \in SUBSET (1 .. 0) : s = {}
        OBVIOUS
      <3> QED
        BY <3>1 DEF PassesIter
    <2> QED
      BY <2>1
  <1>2. ASSUME NEW k \in Nat, k \in S PROVE k + 1 \in S
    <2>1. PICK f : PassesIter(f, c, v, k)
      BY <1>2
    <2> DEFINE g == [s \in SUBSET (1 .. k + 1) |->
                       IF k + 1 \in s THEN Passes(f[s \ {k + 1}], v[k + 1]) ELSE f[s]]
    <2>2. ASSUME NEW s \in SUBSET (1 .. k + 1)
          PROVE  g[s] = IF s = {} THEN c ELSE LET x == Max(s) IN Passes(g[s \ {x}], v[x])
      <3>1. CASE k + 1 \in s
        <4>1. Max(s) = k + 1
          BY <3>1, MaxOfPrefix
        <4>2. g[s \ {k + 1}] = f[s \ {k + 1}]
          OBVIOUS
        <4>3. g[s] = Passes(f[s \ {k + 1}], v[k + 1]) /\ s # {}
          BY <3>1
        <4> QED
          BY <4>1, <4>2, <4>3
      <3>2. CASE k + 1 \notin s
        <4>1. s \in SUBSET (1 .. k) /\ g[s] = f[s]
          <5>1. \A i \in 1 .. k + 1 : i \in 1 .. k \/ i = k + 1
            OBVIOUS
          <5> QED
            BY <3>2, <5>1
        <4>2. \A x : g[s \ {x}] = f[s \ {x}]
          BY <3>2
        <4>3. f[s] = IF s = {} THEN c ELSE LET x == Max(s) IN Passes(f[s \ {x}], v[x])
          BY <2>1, <4>1 DEF PassesIter
        <4> QED
          BY <4>1, <4>2, <4>3
      <3> QED
        BY <3>1, <3>2
    <2>3. PassesIter(g, c, v, k + 1)
      BY <2>2 DEF PassesIter
    <2> QED
      BY <2>3
  <1> HIDE DEF S
  <1> QED
    BY <1>1, <1>2, NatStepwise DEF S

\* What becomes of the readers, event by event.
PassesChain(h, c, v, n) == h[0] = c /\ \A k \in 1 .. n : h[k] = Passes(h[k - 1], v[k])

LEMMA PassesChainIs ==
  ASSUME NEW c, NEW v, NEW n \in Nat, DOMAIN v = 1 .. n
  PROVE  \E h : PassesChain(h, c, v, n) /\ FoldLeft(Passes, c, v) = h[n]
  <1> DEFINE f == CHOOSE g : g = [s \in SUBSET (DOMAIN v) |->
                    IF s = {} THEN c ELSE LET x == Max(s) IN Passes(g[s \ {x}], v[x])]
             h == [k \in 0 .. n |-> f[1 .. k]]
  <1>1. PassesIter(f, c, v, n)
    <2>1. \E g : g = [s \in SUBSET (DOMAIN v) |->
                      IF s = {} THEN c ELSE LET x == Max(s) IN Passes(g[s \ {x}], v[x])]
      <3>1. PICK g : PassesIter(g, c, v, n)
        BY PassesIterExists
      <3>2. g = [s \in SUBSET (DOMAIN v) |->
                   IF s = {} THEN c ELSE LET x == Max(s) IN Passes(g[s \ {x}], v[x])]
        BY <3>1 DEF PassesIter
      <3> QED
        BY <3>2
    <2>2. f = [s \in SUBSET (DOMAIN v) |->
                 IF s = {} THEN c ELSE LET x == Max(s) IN Passes(f[s \ {x}], v[x])]
      BY <2>1
    <2> QED
      BY <2>2 DEF PassesIter
  <1>2. FoldLeft(Passes, c, v) = f[DOMAIN v]
    BY DEF FoldLeft, MapThenFoldSet
  <1> HIDE DEF f
  <1>3. h[0] = c
    <2>1. {} \in SUBSET (1 .. n) /\ 1 .. 0 = {}
      OBVIOUS
    <2>2. f[{}] = c
      BY <1>1, <2>1 DEF PassesIter
    <2> QED
      BY <2>1, <2>2
  <1>4. ASSUME NEW k \in 1 .. n PROVE h[k] = Passes(h[k - 1], v[k])
    <2>1. 1 .. k \in SUBSET (1 .. n) /\ 1 .. k # {} /\ (1 .. k) \ {k} = 1 .. k - 1
      OBVIOUS
    <2>2. Max(1 .. k) = k
      <3>1. k - 1 \in Nat /\ (k - 1) + 1 = k /\ k \in 1 .. k
        OBVIOUS
      <3> QED
        BY <3>1, MaxOfPrefix
    <2>3. f[1 .. k] = Passes(f[(1 .. k) \ {k}], v[k])
      BY <1>1, <2>1, <2>2 DEF PassesIter
    <2>4. h[k] = f[1 .. k] /\ h[k - 1] = f[1 .. k - 1]
      <3>1. k \in 0 .. n /\ k - 1 \in 0 .. n
        OBVIOUS
      <3> QED
        BY <3>1
    <2> QED
      BY <2>1, <2>3, <2>4
  <1>5. h[n] = f[DOMAIN v]
    OBVIOUS
  <1> HIDE DEF h
  <1>6. PassesChain(h, c, v, n)
    BY <1>3, <1>4 DEF PassesChain
  <1> QED
    BY <1>2, <1>5, <1>6

LEMMA PassesChainsAgree ==
  ASSUME NEW c, NEW v, NEW w, NEW n \in Nat, NEW h, NEW g,
         PassesChain(h, c, v, n), PassesChain(g, c, w, n + 1), \A i \in 1 .. n : w[i] = v[i]
  PROVE  g[n] = h[n]
  <1> DEFINE S == {k \in Nat : k <= n => g[k] = h[k]}
  <1>1. 0 \in S
    BY DEF PassesChain
  <1>2. ASSUME NEW k \in Nat, k \in S PROVE k + 1 \in S
    <2> SUFFICES ASSUME k + 1 <= n PROVE g[k + 1] = h[k + 1]
      OBVIOUS
    <2>1. k + 1 \in 1 .. n /\ k + 1 \in 1 .. n + 1 /\ (k + 1) - 1 = k /\ k <= n
      OBVIOUS
    <2>2. h[k + 1] = Passes(h[k], v[k + 1]) /\ g[k + 1] = Passes(g[k], w[k + 1])
      BY <2>1 DEF PassesChain
    <2> QED
      BY <1>2, <2>1, <2>2
  <1> HIDE DEF S
  <1>3. n \in S
    BY <1>1, <1>2, NatStepwise
  <1> QED
    BY <1>3 DEF S

LEMMA PassesNothing ==
  ASSUME NEW c PROVE FoldLeft(Passes, c, <<>>) = c
  <1>1. DOMAIN <<>> = 1 .. 0
    OBVIOUS
  <1>2. PICK h : PassesChain(h, c, <<>>, 0) /\ FoldLeft(Passes, c, <<>>) = h[0]
    BY <1>1, PassesChainIs
  <1> QED
    BY <1>2 DEF PassesChain

LEMMA PassesAppend ==
  ASSUME NEW c, NEW K, NEW v \in Seq(K), NEW e
  PROVE  FoldLeft(Passes, c, Append(v, e)) = Passes(FoldLeft(Passes, c, v), e)
  <1>1. PICK n \in Nat : n = Len(v)
    OBVIOUS
  <1>2. PICK w : w = Append(v, e)
    OBVIOUS
  <1>3. v \in Seq(K \cup {e}) /\ e \in K \cup {e}
    OBVIOUS
  <1>4. DOMAIN v = 1 .. n /\ DOMAIN w = 1 .. n + 1 /\ w[n + 1] = e /\ \A i \in 1 .. n : w[i] = v[i]
    BY <1>1, <1>2, <1>3, AppendProperties, LenProperties
  <1>5. PICK h : PassesChain(h, c, v, n) /\ FoldLeft(Passes, c, v) = h[n]
    BY <1>4, PassesChainIs
  <1>6. PICK g : PassesChain(g, c, w, n + 1) /\ FoldLeft(Passes, c, w) = g[n + 1]
    BY <1>4, PassesChainIs
  <1>7. g[n + 1] = Passes(g[n], e)
    BY <1>4, <1>6 DEF PassesChain
  <1>8. g[n] = h[n]
    BY <1>4, <1>5, <1>6, PassesChainsAgree
  <1> QED
    BY <1>2, <1>5, <1>6, <1>7, <1>8

\* The same of the closing of tools.
ClosedIter(f, c, v, n) ==
  f = [s \in SUBSET (1 .. n) |->
         IF s = {} THEN c ELSE LET x == Max(s) IN ToolClosed(f[s \ {x}], v[x])]

LEMMA ClosedIterExists ==
  ASSUME NEW c, NEW v, NEW n \in Nat
  PROVE  \E f : ClosedIter(f, c, v, n)
  <1> DEFINE S == {k \in Nat : \E f : ClosedIter(f, c, v, k)}
  <1>1. 0 \in S
    <2>1. ClosedIter([s \in SUBSET (1 .. 0) |-> c], c, v, 0)
      <3>1. \A s \in SUBSET (1 .. 0) : s = {}
        OBVIOUS
      <3> QED
        BY <3>1 DEF ClosedIter
    <2> QED
      BY <2>1
  <1>2. ASSUME NEW k \in Nat, k \in S PROVE k + 1 \in S
    <2>1. PICK f : ClosedIter(f, c, v, k)
      BY <1>2
    <2> DEFINE g == [s \in SUBSET (1 .. k + 1) |->
                       IF k + 1 \in s THEN ToolClosed(f[s \ {k + 1}], v[k + 1]) ELSE f[s]]
    <2>2. ASSUME NEW s \in SUBSET (1 .. k + 1)
          PROVE  g[s] = IF s = {} THEN c ELSE LET x == Max(s) IN ToolClosed(g[s \ {x}], v[x])
      <3>1. CASE k + 1 \in s
        <4>1. Max(s) = k + 1
          BY <3>1, MaxOfPrefix
        <4>2. g[s \ {k + 1}] = f[s \ {k + 1}]
          OBVIOUS
        <4>3. g[s] = ToolClosed(f[s \ {k + 1}], v[k + 1]) /\ s # {}
          BY <3>1
        <4> QED
          BY <4>1, <4>2, <4>3
      <3>2. CASE k + 1 \notin s
        <4>1. s \in SUBSET (1 .. k) /\ g[s] = f[s]
          <5>1. \A i \in 1 .. k + 1 : i \in 1 .. k \/ i = k + 1
            OBVIOUS
          <5> QED
            BY <3>2, <5>1
        <4>2. \A x : g[s \ {x}] = f[s \ {x}]
          BY <3>2
        <4>3. f[s] = IF s = {} THEN c ELSE LET x == Max(s) IN ToolClosed(f[s \ {x}], v[x])
          BY <2>1, <4>1 DEF ClosedIter
        <4> QED
          BY <4>1, <4>2, <4>3
      <3> QED
        BY <3>1, <3>2
    <2>3. ClosedIter(g, c, v, k + 1)
      BY <2>2 DEF ClosedIter
    <2> QED
      BY <2>3
  <1> HIDE DEF S
  <1> QED
    BY <1>1, <1>2, NatStepwise DEF S

ClosedChain(h, c, v, n) == h[0] = c /\ \A k \in 1 .. n : h[k] = ToolClosed(h[k - 1], v[k])

LEMMA ClosedChainIs ==
  ASSUME NEW c, NEW v, NEW n \in Nat, DOMAIN v = 1 .. n
  PROVE  \E h : ClosedChain(h, c, v, n) /\ FoldLeft(ToolClosed, c, v) = h[n]
  <1> DEFINE f == CHOOSE g : g = [s \in SUBSET (DOMAIN v) |->
                    IF s = {} THEN c ELSE LET x == Max(s) IN ToolClosed(g[s \ {x}], v[x])]
             h == [k \in 0 .. n |-> f[1 .. k]]
  <1>1. ClosedIter(f, c, v, n)
    <2>1. \E g : g = [s \in SUBSET (DOMAIN v) |->
                      IF s = {} THEN c ELSE LET x == Max(s) IN ToolClosed(g[s \ {x}], v[x])]
      <3>1. PICK g : ClosedIter(g, c, v, n)
        BY ClosedIterExists
      <3>2. g = [s \in SUBSET (DOMAIN v) |->
                   IF s = {} THEN c ELSE LET x == Max(s) IN ToolClosed(g[s \ {x}], v[x])]
        BY <3>1 DEF ClosedIter
      <3> QED
        BY <3>2
    <2>2. f = [s \in SUBSET (DOMAIN v) |->
                 IF s = {} THEN c ELSE LET x == Max(s) IN ToolClosed(f[s \ {x}], v[x])]
      BY <2>1
    <2> QED
      BY <2>2 DEF ClosedIter
  <1>2. FoldLeft(ToolClosed, c, v) = f[DOMAIN v]
    BY DEF FoldLeft, MapThenFoldSet
  <1> HIDE DEF f
  <1>3. h[0] = c
    <2>1. {} \in SUBSET (1 .. n) /\ 1 .. 0 = {}
      OBVIOUS
    <2>2. f[{}] = c
      BY <1>1, <2>1 DEF ClosedIter
    <2> QED
      BY <2>1, <2>2
  <1>4. ASSUME NEW k \in 1 .. n PROVE h[k] = ToolClosed(h[k - 1], v[k])
    <2>1. 1 .. k \in SUBSET (1 .. n) /\ 1 .. k # {} /\ (1 .. k) \ {k} = 1 .. k - 1
      OBVIOUS
    <2>2. Max(1 .. k) = k
      <3>1. k - 1 \in Nat /\ (k - 1) + 1 = k /\ k \in 1 .. k
        OBVIOUS
      <3> QED
        BY <3>1, MaxOfPrefix
    <2>3. f[1 .. k] = ToolClosed(f[(1 .. k) \ {k}], v[k])
      BY <1>1, <2>1, <2>2 DEF ClosedIter
    <2>4. h[k] = f[1 .. k] /\ h[k - 1] = f[1 .. k - 1]
      <3>1. k \in 0 .. n /\ k - 1 \in 0 .. n
        OBVIOUS
      <3> QED
        BY <3>1
    <2> QED
      BY <2>1, <2>3, <2>4
  <1>5. h[n] = f[DOMAIN v]
    OBVIOUS
  <1> HIDE DEF h
  <1>6. ClosedChain(h, c, v, n)
    BY <1>3, <1>4 DEF ClosedChain
  <1> QED
    BY <1>2, <1>5, <1>6

-----------------------------------------------------------------------------
(* What the client, the converter back to chat and the accumulator make of *)
(* an event: they agree on the calls and on the pieces of their arguments  *)

\* What the readers of a stream can be.
ItemTypes == {"reasoning", "message"} \cup CallTypes
ChatCalls == {"function_call", "custom_tool_call"}
Entry == [t : ItemTypes, n : Nat]
Places == {"none", "open", "done"}
ItemStates == [type : ItemTypes \cup {"none"}, at : Places, part : Places, n : Nat]

Clients ==
  [created : BOOLEAN, completed : {"none", "completed", "incomplete"}, astray : BOOLEAN,
   cut : BOOLEAN, items : [Items -> ItemStates], final : Seq(Entry)]
Backs ==
  [role : BOOLEAN, tools : Seq(Nat), at : [Items -> Nat \cup {Unset}], finished : BOOLEAN,
   finish : {"none", "length", "tool_calls", "stop"}]
Accs ==
  [text : BOOLEAN, reasoning : BOOLEAN, calls : Seq(Nat), at : [Items -> Nat \cup {Unset}]]
Readers == [seen : Clients, back : Backs, acc : Accs]

\* The calls of a chat read from the stream, and those rebuilt from its deltas, are
\* the client's items of these types, with as many pieces unless one was cut.
ReadersAgree(r) ==
  /\ \A i \in Items :
       /\ r.seen.items[i].at = "none" => r.seen.items[i] = NoItem
       /\ r.back.at[i] # Unset <=> r.seen.items[i].type \in ChatCalls
       /\ r.back.at[i] # Unset =>
            /\ r.back.at[i] \in 1 .. Len(r.back.tools)
            /\ ~r.seen.cut => r.back.tools[r.back.at[i]] = r.seen.items[i].n
  /\ \A i, j \in Items : r.back.at[i] = r.back.at[j] => i = j \/ r.back.at[i] = Unset
  /\ \A k \in 1 .. Len(r.back.tools) : \E i \in Items : r.back.at[i] = k
  /\ r.acc.at = r.back.at /\ r.acc.calls = r.back.tools
  /\ r.back.finished = (r.seen.completed # "none")
  /\ r.seen.completed = "incomplete" => r.back.finish = "length"

ReadersFit(r) == r \in Readers /\ ~r.seen.astray /\ ReadersAgree(r)

\* A client that is told of items.
Listens(c) == c.created /\ c.completed = "none"

LEMMA CreatedRead ==
  ASSUME NEW r, ReadersFit(r), ~r.seen.created, NEW v, v.e = "created", v.i \in Items
  PROVE  LET q == Reads(r, v) IN
         ReadersFit(q) /\ q.seen = [r.seen EXCEPT !.created = TRUE]
  <1> DEFINE q == Reads(r, v)
             c == [r.seen EXCEPT !.created = TRUE]
             b == [r.back EXCEPT !.role = TRUE]
  <1>1. r \in Readers /\ ~r.seen.astray /\ ReadersAgree(r)
    BY DEF ReadersFit
  <1>2. r.seen \in Clients /\ r.back \in Backs /\ r.acc \in Accs
    BY <1>1 DEF Readers
  <1>3. Sees(r.seen, v) = c
    <2>1. r.seen.astray = FALSE /\ (r.seen.astray \/ r.seen.created) = FALSE
      BY <1>1, <1>2 DEF Clients
    <2>2. Sees(r.seen, v) = [r.seen EXCEPT !.created = TRUE,
                                           !.astray = r.seen.astray \/ r.seen.created]
      BY DEF Sees
    <2> QED
      BY <1>2, <2>1, <2>2 DEF Clients
  <1>4. ToChat(r.back, v) = b /\ Accumulates(r.acc, v) = r.acc
    BY DEF ToChat, Accumulates
  <1>5. q = [seen |-> c, back |-> b, acc |-> r.acc]
    BY <1>3, <1>4 DEF Reads
  <1>6. c \in Clients /\ b \in Backs
    BY <1>2 DEF Clients, Backs
  <1>7. /\ c.items = r.seen.items /\ c.cut = r.seen.cut /\ c.completed = r.seen.completed
        /\ ~c.astray /\ b.at = r.back.at /\ b.tools = r.back.tools
        /\ b.finished = r.back.finished /\ b.finish = r.back.finish
    BY <1>1, <1>2 DEF Clients, Backs
  <1> HIDE DEF c, b, q
  <1>8. ReadersFit(q)
    BY <1>1, <1>2, <1>5, <1>6, <1>7 DEF ReadersFit, ReadersAgree, Readers
  <1> QED
    BY <1>5, <1>8 DEF q, c

\* The items of the client, with one of them changed.
ItemBecomes(c, d, i, item) == d = [c EXCEPT !.items[i] = item]

LEMMA AddedRead ==
  ASSUME NEW r, ReadersFit(r), Listens(r.seen), NEW v, v.e = "added", v.i \in Items,
         v.t \in ItemTypes, r.seen.items[v.i].at = "none"
  PROVE  LET q == Reads(r, v) IN
         /\ ReadersFit(q)
         /\ ItemBecomes(r.seen, q.seen, v.i, [NoItem EXCEPT !.type = v.t, !.at = "open"])
  <1> DEFINE q == Reads(r, v)
             new == [NoItem EXCEPT !.type = v.t, !.at = "open"]
             f == [r.seen.items EXCEPT ![v.i] = new]
             c == [r.seen EXCEPT !.items = f]
             n == Len(r.back.tools) + 1
             at == [r.back.at EXCEPT ![v.i] = n]
             tools == Append(r.back.tools, 0)
             b == [r.back EXCEPT !.at = at, !.tools = tools]
             a == [r.acc EXCEPT !.at = at, !.calls = tools]
  <1>1. r \in Readers /\ ~r.seen.astray /\ ReadersAgree(r)
    BY DEF ReadersFit
  <1>2. r.seen \in Clients /\ r.back \in Backs /\ r.acc \in Accs
    BY <1>1 DEF Readers
  <1>3. Sees(r.seen, v) = c
    <2> DEFINE x == r.seen.astray \/ ~r.seen.created \/ r.seen.completed # "none"
                      \/ r.seen.items[v.i].at # "none"
    <2>1. r.seen.astray = FALSE /\ x = FALSE
      BY <1>1, <1>2 DEF Clients, Listens
    <2>2. Sees(r.seen, v) = [r.seen EXCEPT !.items[v.i] = new, !.astray = x]
      BY DEF Sees
    <2> HIDE DEF x, new
    <2> QED
      BY <1>2, <2>1, <2>2 DEF Clients
  <1>4. /\ new \in ItemStates /\ new.type = v.t /\ new.at = "open" /\ new.n = 0
        /\ f \in [Items -> ItemStates]
        /\ \A i \in Items : f[i] = IF i = v.i THEN new ELSE r.seen.items[i]
    <2>1. new \in ItemStates /\ new.type = v.t /\ new.at = "open" /\ new.n = 0
      BY DEF ItemStates, NoItem, Places
    <2> HIDE DEF new
    <2> QED
      BY <1>2, <2>1 DEF Clients
  <1> HIDE DEF new, f
  <1>5. /\ c \in Clients /\ c.items = f /\ c.cut = r.seen.cut /\ ~c.astray
        /\ c.completed = r.seen.completed
    BY <1>1, <1>2, <1>4 DEF Clients
  <1>6. r.back.tools \in Seq(Nat) /\ r.back.at \in [Items -> Nat \cup {Unset}]
    BY <1>2 DEF Backs
  <1>7. /\ tools \in Seq(Nat) /\ Len(tools) = n /\ tools[n] = 0 /\ n \in Nat
        /\ \A k \in 1 .. Len(r.back.tools) : tools[k] = r.back.tools[k]
    BY <1>6, AppendProperties
  <1>8. at \in [Items -> Nat \cup {Unset}]
        /\ \A i \in Items : at[i] = IF i = v.i THEN n ELSE r.back.at[i]
    BY <1>6, <1>7
  <1>9. PICK m \in Nat : m = Len(r.back.tools) /\ n = m + 1
    BY <1>6
  <1>10. r.acc.at = r.back.at /\ r.acc.calls = r.back.tools
    BY <1>1 DEF ReadersAgree
  <1> HIDE DEF c, n, at, tools
  <1>11. b \in Backs /\ b.at = at /\ b.tools = tools /\ b.finished = r.back.finished
         /\ b.finish = r.back.finish
    BY <1>2, <1>7, <1>8 DEF Backs
  <1>12. a \in Accs /\ a.at = at /\ a.calls = tools
    BY <1>2, <1>7, <1>8 DEF Accs
  <1>13. CASE v.t \in ChatCalls
    <2>1. ToChat(r.back, v) = b
      BY <1>13 DEF ToChat, ChatCalls, n, at, tools
    <2>2. Accumulates(r.acc, v) = a
      BY <1>10, <1>13 DEF Accumulates, ChatCalls, n, at, tools
    <2> HIDE DEF a, b
    <2>3. q = [seen |-> c, back |-> b, acc |-> a]
      BY <1>3, <2>1, <2>2 DEF Reads
    <2>4. q \in Readers /\ ~q.seen.astray
      BY <1>5, <1>11, <1>12, <2>3 DEF Readers
    <2>5. ASSUME NEW i \in Items
          PROVE  /\ f[i].at = "none" => f[i] = NoItem
                 /\ at[i] # Unset <=> f[i].type \in ChatCalls
                 /\ at[i] # Unset => /\ at[i] \in 1 .. m + 1
                                     /\ ~c.cut => tools[at[i]] = f[i].n
      <3>1. CASE i = v.i
        BY <1>4, <1>7, <1>8, <1>9, <1>13, <3>1 DEF Unset
      <3>2. CASE i # v.i
        <4>1. f[i] = r.seen.items[i] /\ at[i] = r.back.at[i]
          BY <1>4, <1>8, <3>2
        <4>2. /\ r.seen.items[i].at = "none" => r.seen.items[i] = NoItem
              /\ r.back.at[i] # Unset <=> r.seen.items[i].type \in ChatCalls
              /\ r.back.at[i] # Unset =>
                   /\ r.back.at[i] \in 1 .. m
                   /\ ~r.seen.cut => r.back.tools[r.back.at[i]] = r.seen.items[i].n
          BY <1>1, <1>9 DEF ReadersAgree
        <4>3. \A k \in 1 .. m : k \in 1 .. m + 1 /\ tools[k] = r.back.tools[k]
          BY <1>7, <1>9
        <4> QED
          BY <1>5, <4>1, <4>2, <4>3
      <3> QED
        BY <3>1, <3>2
    <2>6. ASSUME NEW i \in Items, NEW j \in Items, at[i] = at[j]
          PROVE  i = j \/ at[i] = Unset
      BY <1>1, <1>8, <1>9, <2>6 DEF ReadersAgree, Unset
    <2>7. ASSUME NEW k \in 1 .. m + 1
          PROVE  \E i \in Items : at[i] = k
      <3>1. CASE k = m + 1
        BY <1>8, <1>9, <3>1
      <3>2. CASE k \in 1 .. m
        <4>1. PICK i \in Items : r.back.at[i] = k
          BY <1>1, <1>9, <3>2 DEF ReadersAgree
        <4>2. i # v.i
          BY <1>1, <4>1 DEF ReadersAgree, NoItem, ChatCalls, Unset
        <4> QED
          BY <1>8, <4>1, <4>2
      <3> QED
        BY <1>9, <3>1, <3>2
    <2>8. ReadersAgree(q)
      <3>1. /\ q.seen.items = f /\ q.seen.cut = c.cut /\ q.back.at = at
            /\ q.back.tools = tools /\ Len(tools) = m + 1 /\ q.acc.at = at
            /\ q.acc.calls = tools /\ q.back.finished = r.back.finished
            /\ q.back.finish = r.back.finish /\ q.seen.completed = r.seen.completed
        BY <1>5, <1>7, <1>9, <1>11, <1>12, <2>3
      <3> HIDE DEF q
      <3>2. /\ r.back.finished = (r.seen.completed # "none")
            /\ r.seen.completed = "incomplete" => r.back.finish = "length"
        BY <1>1 DEF ReadersAgree
      <3>3. \A i \in Items :
              /\ q.seen.items[i].at = "none" => q.seen.items[i] = NoItem
              /\ q.back.at[i] # Unset <=> q.seen.items[i].type \in ChatCalls
              /\ q.back.at[i] # Unset =>
                   /\ q.back.at[i] \in 1 .. Len(q.back.tools)
                   /\ ~q.seen.cut => q.back.tools[q.back.at[i]] = q.seen.items[i].n
        BY <2>5, <3>1
      <3>4. \A i, j \in Items :
              q.back.at[i] = q.back.at[j] => i = j \/ q.back.at[i] = Unset
        BY <2>6, <3>1
      <3>5. \A k \in 1 .. Len(q.back.tools) : \E i \in Items : q.back.at[i] = k
        BY <2>7, <3>1
      <3>6. /\ q.acc.at = q.back.at /\ q.acc.calls = q.back.tools
            /\ q.back.finished = (q.seen.completed # "none")
            /\ q.seen.completed = "incomplete" => q.back.finish = "length"
        BY <3>1, <3>2
      <3> QED
        BY <3>3, <3>4, <3>5, <3>6 DEF ReadersAgree
    <2> QED
      BY <2>3, <2>4, <2>8 DEF ReadersFit, ItemBecomes, c, f, new
  <1>14. CASE v.t \notin ChatCalls
    <2>1. ToChat(r.back, v) = r.back /\ Accumulates(r.acc, v) = r.acc
      BY <1>14 DEF ToChat, Accumulates, ChatCalls
    <2>2. q = [seen |-> c, back |-> r.back, acc |-> r.acc]
      BY <1>3, <2>1 DEF Reads
    <2>3. r.back.at[v.i] = Unset
      BY <1>1 DEF ReadersAgree, NoItem, ChatCalls
    <2>4. ReadersAgree(q)
      BY <1>1, <1>4, <1>5, <1>14, <2>2, <2>3 DEF ReadersAgree
    <2>5. q \in Readers /\ ~q.seen.astray
      BY <1>2, <1>5, <2>2 DEF Readers
    <2> QED
      BY <2>2, <2>4, <2>5 DEF ReadersFit, ItemBecomes, c, f, new
  <1> QED
    BY <1>13, <1>14

Placed(c, i, t) == Listens(c) /\ c.items[i].at = "open" /\ c.items[i].type = t

\* An item that changes without the calls.
LEMMA ItemChanges ==
  ASSUME NEW r, ReadersFit(r), NEW i \in Items, NEW item \in ItemStates, NEW x \in BOOLEAN,
         r.seen.items[i].at # "none", item.at # "none", item.type = r.seen.items[i].type,
         r.seen.cut => x, x \/ item.type \notin ChatCalls \/ item.n = r.seen.items[i].n,
         NEW d, d = [r.seen EXCEPT !.items[i] = item, !.cut = x]
  PROVE  ReadersFit([seen |-> d, back |-> r.back, acc |-> r.acc])
  <1> DEFINE q == [seen |-> d, back |-> r.back, acc |-> r.acc]
             f == [r.seen.items EXCEPT ![i] = item]
             c == [r.seen EXCEPT !.items = f, !.cut = x]
  <1>1. r \in Readers /\ ~r.seen.astray /\ ReadersAgree(r)
    BY DEF ReadersFit
  <1>2. r.seen \in Clients /\ r.back \in Backs /\ r.acc \in Accs
    BY <1>1 DEF Readers
  <1>3. f \in [Items -> ItemStates] /\ \A j \in Items : f[j] = IF j = i THEN item ELSE r.seen.items[j]
    BY <1>2 DEF Clients
  <1>4. d = c
    OBVIOUS
  <1> HIDE DEF f
  <1>5. c \in Clients /\ c.items = f /\ c.cut = x /\ ~c.astray /\ c.completed = r.seen.completed
    BY <1>1, <1>2, <1>3 DEF Clients
  <1> HIDE DEF c
  <1>6. ReadersAgree(q)
    <2>1. ASSUME NEW j \in Items
          PROVE  /\ f[j].at = "none" => f[j] = NoItem
                 /\ r.back.at[j] # Unset <=> f[j].type \in ChatCalls
                 /\ r.back.at[j] # Unset =>
                      /\ r.back.at[j] \in 1 .. Len(r.back.tools)
                      /\ ~x => r.back.tools[r.back.at[j]] = f[j].n
      BY <1>1, <1>3 DEF ReadersAgree
    <2>2. q.seen.items = f /\ q.seen.cut = x /\ q.seen.completed = r.seen.completed
          /\ q.back = r.back /\ q.acc = r.acc
      BY <1>4, <1>5
    <2> HIDE DEF q
    <2> QED
      BY <1>1, <2>1, <2>2 DEF ReadersAgree
  <1> QED
    BY <1>2, <1>4, <1>5, <1>6 DEF ReadersFit, Readers

LEMMA PartRead ==
  ASSUME NEW r, ReadersFit(r), NEW v, v.e \in {"part", "part_done"}, v.i \in Items,
         Placed(r.seen, v.i, v.t)
  PROVE  LET q == Reads(r, v) IN
         /\ ReadersFit(q)
         /\ ItemBecomes(r.seen, q.seen, v.i, [r.seen.items[v.i] EXCEPT
                          !.part = IF v.e = "part" THEN "open" ELSE "done"])
  <1> DEFINE q == Reads(r, v)
             p == IF v.e = "part" THEN "open" ELSE "done"
             it == r.seen.items[v.i]
             item == [it EXCEPT !.part = p]
             x == r.seen.astray \/ (~r.seen.created \/ r.seen.completed # "none")
                  \/ (it.at # "open" \/ it.type # v.t)
  <1>1. r.seen \in Clients /\ r.seen.astray = FALSE /\ it \in ItemStates
    BY DEF ReadersFit, Readers, Clients
  <1>2. x = FALSE
    BY <1>1 DEF Placed, Listens
  <1>3. Sees(r.seen, v) = [r.seen EXCEPT !.items[v.i].part = p, !.astray = x]
    BY DEF Sees
  <1>4. ToChat(r.back, v) = r.back /\ Accumulates(r.acc, v) = r.acc
    BY DEF ToChat, Accumulates
  <1>5. p \in Places
    BY DEF Places
  <1> HIDE DEF x, p
  <1>6. item \in ItemStates /\ item.at = it.at /\ item.type = it.type /\ item.n = it.n
    BY <1>1, <1>5 DEF ItemStates
  <1>7. Sees(r.seen, v) = [r.seen EXCEPT !.items[v.i] = item, !.cut = r.seen.cut]
    BY <1>1, <1>2, <1>3 DEF Clients
  <1> DEFINE d == [r.seen EXCEPT !.items[v.i] = item, !.cut = r.seen.cut]
  <1>8. q = [seen |-> d, back |-> r.back, acc |-> r.acc]
    BY <1>4, <1>7 DEF Reads
  <1>9. r.seen.cut \in BOOLEAN /\ it.at = "open"
    BY <1>1 DEF Clients, Placed
  <1> HIDE DEF item, q
  <1>10. ReadersFit(q)
    BY <1>6, <1>8, <1>9, ItemChanges
  <1>11. d = [r.seen EXCEPT !.items[v.i] = item]
    BY <1>1 DEF Clients
  <1> QED
    BY <1>8, <1>10, <1>11 DEF ItemBecomes, q, item, p

\* What an item done with n pieces says of the stream.
CutBy(it, t, n) == it.part = "open" \/ (it.n # n /\ t # "tool_search_call")

LEMMA DoneRead ==
  ASSUME NEW r, ReadersFit(r), NEW v, v.e = "done", v.i \in Items, v.n \in Nat,
         Placed(r.seen, v.i, v.t)
  PROVE  LET q == Reads(r, v)
             it == r.seen.items[v.i]
         IN
         /\ ReadersFit(q)
         /\ q.seen = [r.seen EXCEPT !.items[v.i] = [it EXCEPT !.at = "done", !.n = v.n],
                                    !.cut = @ \/ CutBy(it, v.t, v.n)]
  <1> DEFINE q == Reads(r, v)
             it == r.seen.items[v.i]
             item == [it EXCEPT !.at = "done", !.n = v.n]
             x == r.seen.astray \/ (~r.seen.created \/ r.seen.completed # "none")
                  \/ (it.at # "open" \/ it.type # v.t)
             y == r.seen.cut \/ CutBy(it, v.t, v.n)
  <1>1. r.seen \in Clients /\ r.seen.astray = FALSE /\ it \in ItemStates
    BY DEF ReadersFit, Readers, Clients
  <1>2. x = FALSE
    BY <1>1 DEF Placed, Listens
  <1>3. Sees(r.seen, v) = [r.seen EXCEPT !.items[v.i].at = "done", !.items[v.i].n = v.n,
                                         !.astray = x, !.cut = y]
    BY DEF Sees, CutBy
  <1>4. ToChat(r.back, v) = r.back /\ Accumulates(r.acc, v) = r.acc
    BY DEF ToChat, Accumulates
  <1>5. y \in BOOLEAN
    BY <1>1 DEF Clients, CutBy
  <1>6. item \in ItemStates /\ item.at = "done" /\ item.type = it.type /\ item.n = v.n
    BY <1>1 DEF ItemStates, Places
  <1>7. y \/ item.type \notin ChatCalls \/ item.n = it.n
    BY <1>6 DEF CutBy, Placed, ChatCalls
  <1>8. r.seen.cut => y
    OBVIOUS
  <1> HIDE DEF x, y
  <1> DEFINE d == [r.seen EXCEPT !.items[v.i] = item, !.cut = y]
  <1>9. Sees(r.seen, v) = d
    <2> DEFINE f == [r.seen.items EXCEPT ![v.i].at = "done", ![v.i].n = v.n]
               g == [r.seen.items EXCEPT ![v.i] = item]
    <2>1. f = g
      BY <1>1 DEF Clients, ItemStates
    <2>2. Sees(r.seen, v) = [r.seen EXCEPT !.items = f, !.astray = x, !.cut = y]
      BY <1>3
    <2>3. d = [r.seen EXCEPT !.items = g, !.cut = y]
      OBVIOUS
    <2> HIDE DEF f, g, d
    <2> QED
      BY <1>1, <1>2, <2>1, <2>2, <2>3 DEF Clients
  <1>10. q = [seen |-> d, back |-> r.back, acc |-> r.acc]
    BY <1>4, <1>9 DEF Reads
  <1>11. it.at = "open"
    BY DEF Placed
  <1> HIDE DEF item, q
  <1>12. ReadersFit(q)
    BY <1>5, <1>6, <1>7, <1>8, <1>10, <1>11, ItemChanges
  <1> QED
    BY <1>10, <1>12 DEF q, item, y

LEMMA DeltaRead ==
  ASSUME NEW r, ReadersFit(r), NEW v, v.e = "delta", v.i \in Items, v.n \in Nat,
         Placed(r.seen, v.i, v.t), v.t = "message" => r.seen.items[v.i].part = "open"
  PROVE  LET q == Reads(r, v) IN
         /\ ReadersFit(q)
         /\ ItemBecomes(r.seen, q.seen, v.i, [r.seen.items[v.i] EXCEPT !.n = @ + v.n])
  <1> DEFINE q == Reads(r, v)
             it == r.seen.items[v.i]
             m == it.n + v.n
             item == [it EXCEPT !.n = m]
             x == r.seen.astray \/ (~r.seen.created \/ r.seen.completed # "none")
                  \/ (it.at # "open" \/ it.type # v.t)
                  \/ (v.t = "message" /\ it.part # "open")
  <1>1. /\ r.seen \in Clients /\ r.seen.astray = FALSE /\ it \in ItemStates
        /\ r.back \in Backs /\ r.acc \in Accs /\ ReadersAgree(r)
    BY DEF ReadersFit, Readers, Clients
  <1>2. x = FALSE
    BY <1>1 DEF Placed, Listens
  <1>3. Sees(r.seen, v) = [r.seen EXCEPT !.items[v.i].n = m, !.astray = x]
    BY DEF Sees
  <1>4. m \in Nat
    BY <1>1 DEF ItemStates
  <1> HIDE DEF x, m
  <1>5. item \in ItemStates /\ item.at = it.at /\ item.type = it.type /\ item.n = m
    BY <1>1, <1>4 DEF ItemStates
  <1>6. Sees(r.seen, v) = [r.seen EXCEPT !.items[v.i] = item]
    BY <1>1, <1>2, <1>3 DEF Clients
  <1>7. it.at = "open" /\ it.type = v.t
    BY DEF Placed
  <1>8. CASE v.t \notin ChatCalls
    <2>1. r.back.at[v.i] = Unset /\ r.acc.at = r.back.at
      BY <1>1, <1>7, <1>8 DEF ReadersAgree
    <2> DEFINE a == Accumulates(r.acc, v)
    <2>2. ToChat(r.back, v) = r.back
      BY <1>8, <2>1 DEF ToChat
    <2>3. a \in Accs /\ a.at = r.acc.at /\ a.calls = r.acc.calls
      <3>1. a \in {r.acc, [r.acc EXCEPT !.text = TRUE], [r.acc EXCEPT !.reasoning = TRUE]}
        BY <1>8, <2>1 DEF Accumulates
      <3> QED
        BY <1>1, <3>1 DEF Accs
    <2> DEFINE d == [r.seen EXCEPT !.items[v.i] = item, !.cut = r.seen.cut]
               z == [seen |-> d, back |-> r.back, acc |-> r.acc]
    <2>4. [r.seen EXCEPT !.items[v.i] = item] = d
      BY <1>1 DEF Clients
    <2>5. ReadersFit(z)
      <3>1. r.seen.cut \in BOOLEAN
        BY <1>1 DEF Clients
      <3> HIDE DEF item
      <3> QED
        BY <1>5, <1>7, <1>8, <3>1, ItemChanges
    <2>6. q = [z EXCEPT !.acc = a]
      BY <1>6, <2>2, <2>4 DEF Reads
    <2> HIDE DEF a, item
    <2>7. q.seen = z.seen /\ q.back = z.back /\ q.acc = a /\ z.acc = r.acc /\ q \in Readers
      BY <2>3, <2>5, <2>6 DEF ReadersFit, Readers
    <2> HIDE DEF z, q
    <2>8. ReadersFit(q)
      BY <2>3, <2>5, <2>7 DEF ReadersFit, ReadersAgree
    <2> QED
      BY <2>4, <2>7, <2>8 DEF ItemBecomes, q, z, item, m
  <1>9. CASE v.t \in ChatCalls
    <2> DEFINE k == r.back.at[v.i]
               n == r.back.tools[k] + v.n
               tools == [r.back.tools EXCEPT ![k] = n]
               b == [r.back EXCEPT !.tools = tools]
               a == [r.acc EXCEPT !.calls = tools]
               f == [r.seen.items EXCEPT ![v.i] = item]
               c == [r.seen EXCEPT !.items = f]
    <2>1. /\ k # Unset /\ k \in 1 .. Len(r.back.tools) /\ r.acc.at = r.back.at
          /\ r.acc.calls = r.back.tools
          /\ ~r.seen.cut => r.back.tools[k] = it.n
      BY <1>1, <1>7, <1>9 DEF ReadersAgree
    <2>2. r.back.tools \in Seq(Nat)
      BY <1>1 DEF Backs
    <2>3. r.back.tools[k] \in Nat /\ n \in Nat
      <3>1. r.back.tools[k] \in Nat
        <4> HIDE DEF k
        <4> QED
          BY <2>1, <2>2, ElementOfSeq
      <3> QED
        BY <3>1
    <2>4. ToChat(r.back, v) = b
      BY <1>9, <2>1 DEF ToChat, CallTypes, ChatCalls
    <2>5. Accumulates(r.acc, v) = a
      BY <1>9, <2>1 DEF Accumulates, CallTypes, ChatCalls
    <2> HIDE DEF n
    <2>6. /\ tools \in Seq(Nat) /\ Len(tools) = Len(r.back.tools)
          /\ \A j \in 1 .. Len(r.back.tools) : tools[j] = IF j = k THEN n ELSE r.back.tools[j]
      BY <2>1, <2>2, <2>3, ExceptSeq
    <2> HIDE DEF k, tools, item
    <2>7. b \in Backs /\ b.tools = tools /\ b.at = r.back.at /\ b.finished = r.back.finished
          /\ b.finish = r.back.finish
      BY <1>1, <2>6 DEF Backs
    <2>8. a \in Accs /\ a.calls = tools /\ a.at = r.acc.at
      BY <1>1, <2>6 DEF Accs
    <2>9. f \in [Items -> ItemStates] /\ \A j \in Items : f[j] = IF j = v.i THEN item ELSE r.seen.items[j]
      BY <1>1, <1>5 DEF Clients
    <2> HIDE DEF f
    <2>10. /\ c \in Clients /\ c.items = f /\ c.cut = r.seen.cut /\ ~c.astray
           /\ c.completed = r.seen.completed
      BY <1>1, <2>9 DEF Clients
    <2>11. q = [seen |-> c, back |-> b, acc |-> a]
      BY <1>6, <2>4, <2>5 DEF Reads, f
    <2> HIDE DEF a, b, c
    <2>12. ASSUME NEW j \in Items
           PROVE  /\ f[j].at = "none" => f[j] = NoItem
                  /\ r.back.at[j] # Unset <=> f[j].type \in ChatCalls
                  /\ r.back.at[j] # Unset =>
                       /\ r.back.at[j] \in 1 .. Len(tools)
                       /\ ~r.seen.cut => tools[r.back.at[j]] = f[j].n
      <3>0. /\ r.seen.items[j].at = "none" => r.seen.items[j] = NoItem
            /\ r.back.at[j] # Unset <=> r.seen.items[j].type \in ChatCalls
            /\ r.back.at[j] # Unset =>
                 /\ r.back.at[j] \in 1 .. Len(r.back.tools)
                 /\ ~r.seen.cut => r.back.tools[r.back.at[j]] = r.seen.items[j].n
        BY <1>1 DEF ReadersAgree
      <3>1. CASE j = v.i
        <4>1. r.back.at[j] = k /\ f[j] = item /\ tools[k] = n
          BY <2>1, <2>6, <2>9, <3>1 DEF k
        <4>2. ~r.seen.cut => n = m
          BY <2>1 DEF n, m, k
        <4> QED
          BY <1>5, <1>7, <1>9, <2>1, <2>6, <4>1, <4>2
      <3>2. CASE j # v.i
        <4>1. r.back.at[j] # k \/ r.back.at[j] = Unset
          BY <1>1, <3>2 DEF ReadersAgree, k
        <4> QED
          BY <2>6, <2>9, <3>0, <3>2, <4>1
      <3> QED
        BY <3>1, <3>2
    <2>13. ReadersAgree(q)
      <3>1. /\ q.seen = c /\ q.back = b /\ q.acc = a /\ Len(tools) = Len(r.back.tools)
            /\ r.acc.at = r.back.at
        BY <2>1, <2>6, <2>11
      <3>2. /\ r.back.finished = (r.seen.completed # "none")
            /\ r.seen.completed = "incomplete" => r.back.finish = "length"
            /\ \A i, j \in Items : r.back.at[i] = r.back.at[j] => i = j \/ r.back.at[i] = Unset
            /\ \A j \in 1 .. Len(r.back.tools) : \E i \in Items : r.back.at[i] = j
        BY <1>1 DEF ReadersAgree
      <3> HIDE DEF q
      <3> QED
        BY <2>7, <2>8, <2>10, <2>12, <3>1, <3>2 DEF ReadersAgree
    <2>14. q.seen = c /\ q.back = b /\ q.acc = a
      BY <2>11
    <2>15. q \in Readers /\ ~q.seen.astray
      BY <2>7, <2>8, <2>10, <2>11, <2>14 DEF Readers
    <2>16. ReadersFit(q)
      BY <2>13, <2>15 DEF ReadersFit
    <2>17. c = [r.seen EXCEPT !.items[v.i] = item]
      BY DEF c, f
    <2> HIDE DEF q
    <2>18. ItemBecomes(r.seen, q.seen, v.i, item)
      BY <2>14, <2>17 DEF ItemBecomes
    <2> QED
      BY <2>16, <2>18 DEF q, item, m
  <1> QED
    BY <1>8, <1>9

\* The last event ends the stream of c, with m items.
Completes(c, d, v, m) ==
  d = [c EXCEPT !.completed = v.t,
                !.final = [k \in 1 .. m |-> [t |-> v.out[k].t, n |-> v.out[k].n]]]

LEMMA CompletedRead ==
  ASSUME NEW r, ReadersFit(r), Listens(r.seen),
         \A i \in Items : r.seen.items[i].at # "open",
         NEW v, v.e = "completed", v.t \in {"completed", "incomplete"},
         NEW m \in Nat, DOMAIN v.out = 1 .. m,
         \A k \in 1 .. m : v.out[k].t \in ItemTypes /\ v.out[k].n \in Nat
  PROVE  LET q == Reads(r, v) IN
         /\ ReadersFit(q)
         /\ Completes(r.seen, q.seen, v, m)
  <1> DEFINE q == Reads(r, v)
             x == r.seen.astray \/ (~r.seen.created \/ r.seen.completed # "none")
                    \/ \E i \in Items : r.seen.items[i].at = "open"
             final == [k \in 1 .. m |-> [t |-> v.out[k].t, n |-> v.out[k].n]]
             c == [r.seen EXCEPT !.completed = v.t, !.final = final]
             fin == CASE v.t = "incomplete" -> "length"
                      [] v.t = "completed" /\ r.back.tools # <<>> -> "tool_calls"
                      [] OTHER -> "stop"
             b == [r.back EXCEPT !.finished = TRUE, !.finish = fin]
  <1>1. /\ r.seen \in Clients /\ r.seen.astray = FALSE /\ r.back \in Backs /\ r.acc \in Accs
        /\ ReadersAgree(r)
    BY DEF ReadersFit, Readers, Clients
  <1>2. x = FALSE
    BY <1>1 DEF Listens
  <1>3. Sees(r.seen, v) = [r.seen EXCEPT !.completed = v.t, !.final = final, !.astray = x]
    BY DEF Sees
  <1>4. ToChat(r.back, v) = b
    BY DEF ToChat
  <1>5. Accumulates(r.acc, v) = r.acc
    BY DEF Accumulates
  <1>6. final \in Seq(Entry)
    <2>1. \A k \in 1 .. m : [t |-> v.out[k].t, n |-> v.out[k].n] \in Entry
      BY DEF Entry
    <2>2. final \in [1 .. m -> Entry]
      BY <2>1
    <2> HIDE DEF final
    <2> QED
      BY <2>2
  <1>7. fin \in {"length", "tool_calls", "stop"} /\ (v.t = "incomplete" => fin = "length")
    OBVIOUS
  <1> HIDE DEF x, final, fin
  <1>8. Sees(r.seen, v) = c
    BY <1>1, <1>2, <1>3 DEF Clients
  <1>9. c \in Clients /\ c.items = r.seen.items /\ c.cut = r.seen.cut /\ ~c.astray
        /\ c.completed = v.t
    BY <1>1, <1>6 DEF Clients
  <1>10. b \in Backs /\ b.tools = r.back.tools /\ b.at = r.back.at /\ b.finished = TRUE
         /\ b.finish = fin
    BY <1>1, <1>7 DEF Backs
  <1> HIDE DEF c, b
  <1>11. q = [seen |-> c, back |-> b, acc |-> r.acc]
    BY <1>4, <1>5, <1>8 DEF Reads
  <1>12. q.seen = c /\ q.back = b /\ q.acc = r.acc
    BY <1>11
  <1>13. q \in Readers
    BY <1>1, <1>9, <1>10, <1>11 DEF Readers
  <1> HIDE DEF q
  <1>14. ReadersAgree(q)
    <2>1. v.t # "none"
      OBVIOUS
    <2>2. /\ q.seen.items = r.seen.items /\ q.seen.cut = r.seen.cut
          /\ q.seen.completed = v.t /\ q.back.at = r.back.at /\ q.back.tools = r.back.tools
          /\ q.back.finished = TRUE /\ q.back.finish = fin /\ q.acc = r.acc
      BY <1>9, <1>10, <1>12
    <2>3. q.back.finished = (q.seen.completed # "none")
      <3>1. (q.seen.completed # "none") = TRUE
        BY <2>1, <2>2
      <3> QED
        BY <2>2, <3>1
    <2>4. /\ q.seen.completed = "incomplete" => q.back.finish = "length"
          /\ q.acc.at = q.back.at /\ q.acc.calls = q.back.tools
      BY <1>1, <1>7, <2>2 DEF ReadersAgree
    <2>5. ASSUME NEW i \in Items
          PROVE  /\ q.seen.items[i].at = "none" => q.seen.items[i] = NoItem
                 /\ q.back.at[i] # Unset <=> q.seen.items[i].type \in ChatCalls
                 /\ q.back.at[i] # Unset =>
                      /\ q.back.at[i] \in 1 .. Len(q.back.tools)
                      /\ ~q.seen.cut => q.back.tools[q.back.at[i]] = q.seen.items[i].n
      BY <1>1, <2>2 DEF ReadersAgree
    <2>6. /\ \A i, j \in Items : q.back.at[i] = q.back.at[j] => i = j \/ q.back.at[i] = Unset
          /\ \A k \in 1 .. Len(q.back.tools) : \E i \in Items : q.back.at[i] = k
      BY <1>1, <2>2 DEF ReadersAgree
    <2> QED
      BY <2>3, <2>4, <2>5, <2>6 DEF ReadersAgree
  <1> QED
    BY <1>9, <1>12, <1>13, <1>14 DEF ReadersFit, Completes, q, c, final

\* Sets between which a function goes one to one have as many elements.
LEMMA AsMany ==
  ASSUME NEW S, NEW T, IsFiniteSet(S), NEW f \in [S -> T],
         \A x, y \in S : f[x] = f[y] => x = y, \A t \in T : \E x \in S : f[x] = t
  PROVE  Cardinality(T) = Cardinality(S)
  <1>1. f \in Bijection(S, T)
    BY DEF Bijection, Injection, Surjection, IsInjective
  <1> QED
    BY <1>1, FS_Bijection DEF ExistsBijection

\* The calls read from a stream without a cut are those sent, told apart by the
\* items ix of the client: as many of each number of pieces.
\* The calls of the items are those sent, and so are those of the chat.
ItemsSent(items, sent, ix, pieces) ==
  /\ \A o, p \in sent : ix[o] = ix[p] => o = p
  /\ \A i \in Items : items[i].type \in ChatCalls <=> \E o \in sent : ix[o] = i
  /\ \A o \in sent : items[ix[o]].n = pieces[o]
CallsSent(tools, sent, pieces) ==
  /\ Len(tools) = Cardinality(sent)
  /\ \A n \in Nat : Cardinality({k \in DOMAIN tools : tools[k] = n})
                      = Cardinality({o \in sent : pieces[o] = n})

LEMMA CallsReturn ==
  ASSUME NEW r, ReadersFit(r), ~r.seen.cut,
         NEW m \in Nat, NEW sent \in SUBSET (1 .. m), NEW pieces,
         NEW ix \in [sent -> Items], ItemsSent(r.seen.items, sent, ix, pieces)
  PROVE  CallsSent(r.back.tools, sent, pieces)
  <1>0. /\ \A o, p \in sent : ix[o] = ix[p] => o = p
        /\ \A i \in Items : r.seen.items[i].type \in ChatCalls <=> \E o \in sent : ix[o] = i
        /\ \A o \in sent : r.seen.items[ix[o]].n = pieces[o]
    BY DEF ItemsSent
  <1> DEFINE f == [o \in sent |-> r.back.at[ix[o]]]
  <1>1. ReadersAgree(r) /\ r.back.tools \in Seq(Nat)
    BY DEF ReadersFit, Readers, Backs
  <1>2. PICK l \in Nat : l = Len(r.back.tools) /\ DOMAIN r.back.tools = 1 .. l
    BY <1>1
  <1>3. \A o \in sent : /\ f[o] = r.back.at[ix[o]] /\ ix[o] \in Items /\ f[o] # Unset
                        /\ f[o] \in 1 .. l /\ r.back.tools[f[o]] = pieces[o]
    BY <1>0, <1>1, <1>2 DEF ReadersAgree
  <1>4. \A o, p \in sent : f[o] = f[p] => o = p
    BY <1>0, <1>1, <1>3 DEF ReadersAgree
  <1>5. \A k \in 1 .. l : \E o \in sent : f[o] = k
    <2> SUFFICES ASSUME NEW k \in 1 .. l PROVE \E o \in sent : f[o] = k
      OBVIOUS
    <2>1. PICK i \in Items : r.back.at[i] = k
      BY <1>1, <1>2 DEF ReadersAgree
    <2>2. r.seen.items[i].type \in ChatCalls
      BY <1>1, <2>1 DEF ReadersAgree, Unset
    <2> QED
      BY <1>0, <2>1, <2>2
  <1>6. IsFiniteSet(sent)
    <2>1. IsFiniteSet(1 .. m)
      BY FS_Interval
    <2> QED
      BY <2>1, FS_Subset
  <1>7. f \in [sent -> 1 .. l]
    BY <1>3
  <1> HIDE DEF f
  <1>8. Cardinality(1 .. l) = Cardinality(sent)
    <2> DEFINE T == 1 .. l
    <2>1. f \in [sent -> T] /\ \A t \in T : \E x \in sent : f[x] = t
      BY <1>5, <1>7
    <2> HIDE DEF T
    <2>2. Cardinality(T) = Cardinality(sent)
      BY <1>4, <1>6, <2>1, AsMany
    <2> QED
      BY <2>2 DEF T
  <1>9. Cardinality(1 .. l) = l
    BY FS_Interval
  <1>10. ASSUME NEW n \in Nat
         PROVE  Cardinality({k \in DOMAIN r.back.tools : r.back.tools[k] = n})
                  = Cardinality({o \in sent : pieces[o] = n})
    <2> DEFINE S == {o \in sent : pieces[o] = n}
               T == {k \in DOMAIN r.back.tools : r.back.tools[k] = n}
               g == [o \in S |-> f[o]]
    <2>1. IsFiniteSet(S)
      BY <1>6, FS_Subset
    <2>2. g \in [S -> T]
      BY <1>2, <1>3
    <2>3. \A x, y \in S : g[x] = g[y] => x = y
      BY <1>4
    <2>4. \A t \in T : \E x \in S : g[x] = t
      <3> SUFFICES ASSUME NEW t \in T PROVE \E x \in S : g[x] = t
        OBVIOUS
      <3>1. PICK o \in sent : f[o] = t
        BY <1>2, <1>5
      <3>2. o \in S
        BY <1>3, <3>1
      <3> QED
        BY <3>1, <3>2
    <2> HIDE DEF S, T, g
    <2>5. Cardinality(T) = Cardinality(S)
      BY <2>1, <2>2, <2>3, <2>4, AsMany
    <2> QED
      BY <2>5 DEF S, T
  <1> QED
    BY <1>2, <1>8, <1>9, <1>10 DEF CallsSent

-----------------------------------------------------------------------------
(* The converter of a chat: the items the client has are those it laid out *)

\* What ChatCompletionsToResponsesStreamState can be.
ChatTools == [at : Nat, kind : Kinds \cup {"none"}, type : CallTypes \cup {"none"}, n : Nat]
ChatStates ==
  [created : BOOLEAN, completed : BOOLEAN, next : Nat,
   finish : {"none", "stop", "length", "tool_calls"}, reasoning : Places,
   reasonAt : Nat \cup {Unset}, messageAt : Nat \cup {Unset}, text : BOOLEAN,
   tools : Seq(ChatTools)]

\* Its items: -1 is the reasoning, 0 the message, o > 0 the tool o.  They have a place
\* in the stream, and the client has them as d items of the end being closed say:
\* none at -1, the message at 0, then the tools up to d.
Slots(s) == {k \in -1 .. Len(s.tools) : /\ k = -1 => s.reasoning # "none"
                                        /\ k = 0 => s.messageAt # Unset}
Place(s, k) ==
  IF k = -1 THEN s.reasonAt ELSE IF k = 0 THEN s.messageAt ELSE s.tools[k].at

MessageItem(place) == [type |-> "message", at |-> place, part |-> place, n |-> 0]
ToolItem(tool, done) ==
  IF tool.type = "none" THEN NoItem
  ELSE IF done
  THEN [type |-> tool.type, at |-> "done",
        part |-> IF tool.type = "tool_search_call" THEN "none" ELSE "done", n |-> tool.n]
  ELSE [type |-> tool.type, at |-> "open", part |-> "none",
        n |-> IF tool.type = "function_call" THEN tool.n ELSE 0]
ItemOf(s, k, d) ==
  IF k = -1 THEN [type |-> "reasoning", at |-> s.reasoning, part |-> s.reasoning, n |-> 0]
  ELSE IF k = 0 THEN MessageItem(IF d >= 0 THEN "done" ELSE "open")
  ELSE ToolItem(s.tools[k], k <= d)

\* The client's items are those, without gaps.
Shows(s, d, items) ==
  /\ s.next \in 0 .. RspTools + RspBlocks + 2
  /\ \A k \in Slots(s) : Place(s, k) \in 0 .. s.next - 1 /\ items[Place(s, k)] = ItemOf(s, k, d)
  /\ \A j, k \in Slots(s) : Place(s, j) = Place(s, k) => j = k
  /\ \A i \in 0 .. s.next - 1 : \E k \in Slots(s) : Place(s, k) = i
  /\ \A i \in Items : i >= s.next => items[i] = NoItem

LEMMA SlotChanged ==
  ASSUME NEW s, NEW d, NEW items, Shows(s, d, items), NEW k \in Slots(s),
         NEW t, NEW e, NEW new, Slots(t) = Slots(s), t.next = s.next,
         \A j \in Slots(s) : Place(t, j) = Place(s, j),
         \A j \in Slots(s) : j # k => ItemOf(t, j, e) = ItemOf(s, j, d),
         \A i \in Items : new[i] = IF i = Place(s, k) THEN ItemOf(t, k, e) ELSE items[i]
  PROVE  Shows(t, e, new)
  <1>1. 0 .. s.next - 1 \subseteq Items
    BY RspAssumption DEF Shows, Items
  <1> QED
    BY <1>1 DEF Shows

LEMMA SlotAdded ==
  ASSUME NEW s, NEW d, NEW items, Shows(s, d, items), NEW k, k \notin Slots(s),
         s.next \in Items,
         NEW t, NEW new, Slots(t) = Slots(s) \cup {k}, t.next = s.next + 1,
         Place(t, k) = s.next,
         \A j \in Slots(s) : Place(t, j) = Place(s, j) /\ ItemOf(t, j, d) = ItemOf(s, j, d),
         \A i \in Items : new[i] = IF i = s.next THEN ItemOf(t, k, d) ELSE items[i]
  PROVE  Shows(t, d, new)
  <1>1. 0 .. s.next - 1 \subseteq Items /\ s.next \in Nat
    BY RspAssumption DEF Shows, Items
  <1>2. t.next \in 0 .. RspTools + RspBlocks + 2
    BY RspAssumption DEF Items
  <1>3. ASSUME NEW j \in Slots(t)
        PROVE  Place(t, j) \in 0 .. t.next - 1 /\ new[Place(t, j)] = ItemOf(t, j, d)
    <2>1. CASE j = k
      BY <1>1, <2>1
    <2>2. CASE j \in Slots(s)
      BY <1>1, <2>2 DEF Shows
    <2> QED
      BY <2>1, <2>2
  <1>4. \A i, j \in Slots(t) : Place(t, i) = Place(t, j) => i = j
    BY <1>1 DEF Shows
  <1>5. \A i \in 0 .. t.next - 1 : \E j \in Slots(t) : Place(t, j) = i
    BY <1>1 DEF Shows
  <1>6. \A i \in Items : i >= t.next => new[i] = NoItem
    BY <1>1 DEF Shows, Items
  <1> QED
    BY <1>2, <1>3, <1>4, <1>5, <1>6 DEF Shows

WithReasoning(s) == IF s.reasoning = "none" THEN 0 ELSE 1
WithMessage(s) == IF s.messageAt = Unset THEN 0 ELSE 1

\* The rules a converter of Chat chunks keeps.
ChatRules(s, d) ==
  /\ s \in ChatStates
  /\ ~s.completed
  /\ Len(s.tools) <= RspTools
  /\ s.next = WithReasoning(s) + WithMessage(s) + Len(s.tools)
  /\ s.text <=> s.messageAt # Unset
  /\ \A o \in 1 .. Len(s.tools) :
       /\ s.tools[o].type # "none" => s.tools[o].type = CallType(s.tools[o].kind)
       /\ o <= d => s.tools[o].type # "none"

\* With v the events of this step, the readers have come to r.
IsSequence(v) == \E K : v \in Seq(K)
Reached(z, v, r) ==
  IsSequence(v) /\ FoldLeft(Passes, z, v) = [calls |-> z.calls, to |-> r]

ChatFits(s, d, c) ==
  ChatRules(s, d) /\ Shows(s, d, c.items) /\ c.created = s.created
  /\ c.completed = "none" /\ ~c.cut

\* The step p has come to: its converter fits what its events tell the client.
StepFits(z, p, d) ==
  /\ p = [s |-> p.s, v |-> p.v]
  /\ p.s.created
  /\ \E r : Reached(z, p.v, r) /\ ReadersFit(r) /\ ChatFits(p.s, d, r.seen)

LEMMA NothingReached ==
  ASSUME NEW r, NEW calls
  PROVE  Reached([calls |-> calls, to |-> r], <<>>, r)
  <1>1. IsSequence(<<>>)
    BY EmptySeq DEF IsSequence
  <1> QED
    BY <1>1, PassesNothing DEF Reached

LEMMA MoreReached ==
  ASSUME rspUp.from = "chat", NEW z, NEW v, NEW r, Reached(z, v, r), NEW e
  PROVE  Reached(z, Append(v, e), Reads(r, e))
  <1>1. PICK K : v \in Seq(K)
    BY DEF Reached, IsSequence
  <1>2. Append(v, e) \in Seq(K \cup {e})
    BY <1>1
  <1>3. FoldLeft(Passes, z, Append(v, e)) = Passes(FoldLeft(Passes, z, v), e)
    BY <1>1, PassesAppend
  <1>4. Passes([calls |-> z.calls, to |-> r], e) = [calls |-> z.calls, to |-> Reads(r, e)]
    BY DEF Passes
  <1> QED
    BY <1>2, <1>3, <1>4 DEF Reached, IsSequence

LEMMA Appends ==
  ASSUME NEW v, IsSequence(v), NEW a, NEW b, NEW c
  PROVE  /\ v \o <<>> = v
         /\ v \o <<a>> = Append(v, a)
         /\ v \o <<a, b>> = Append(Append(v, a), b)
         /\ v \o <<a, b, c>> = Append(Append(Append(v, a), b), c)
         /\ IsSequence(Append(v, a))
  <1>1. PICK K : v \in Seq(K)
    BY DEF IsSequence
  <1>2. PICK L : L = K \cup {a, b, c}
    OBVIOUS
  <1>3. v \in Seq(L) /\ a \in L /\ b \in L /\ c \in L
    BY <1>1, <1>2
  <1>4. IsSequence(Append(v, a))
    BY <1>3 DEF IsSequence
  <1> QED
    BY <1>3, <1>4

LEMMA Event ==
  ASSUME NEW e, NEW i, NEW t, NEW k, NEW n
  PROVE  LET v == Ev(e, i, t, k, n) IN v.e = e /\ v.i = i /\ v.t = t /\ v.k = k /\ v.n = n
  BY DEF Ev

\* The client's items are as before but for item i, and so is what it knows else.
Turned(c, d, i, item) ==
  /\ d.created = c.created /\ d.completed = c.completed /\ d.cut = c.cut
  /\ \A j \in Items : d.items[j] = IF j = i THEN item ELSE c.items[j]

LEMMA ItemBecame ==
  ASSUME NEW r, ReadersFit(r), NEW d, NEW i \in Items, NEW item,
         ItemBecomes(r.seen, d, i, item)
  PROVE  Turned(r.seen, d, i, item)
  <1>1. r.seen \in Clients
    BY DEF ReadersFit, Readers
  <1> QED
    BY <1>1 DEF ItemBecomes, Turned, Clients

LEMMA TurnedTwice ==
  ASSUME NEW c, NEW d, NEW e, NEW i, NEW a, NEW b, Turned(c, d, i, a), Turned(d, e, i, b)
  PROVE  Turned(c, e, i, b)
  BY DEF Turned

\* What an item looks like when it is opened.
LEMMA NewItem ==
  ASSUME NEW t
  PROVE  [NoItem EXCEPT !.type = t, !.at = "open"]
           = [type |-> t, at |-> "open", part |-> "none", n |-> 0]
  <1> DEFINE x == [NoItem EXCEPT !.type = t]
  <1>1. x = [type |-> t, at |-> "none", part |-> "none", n |-> 0]
    BY DEF NoItem
  <1>2. [NoItem EXCEPT !.type = t, !.at = "open"] = [x EXCEPT !.at = "open"]
    OBVIOUS
  <1> HIDE DEF x
  <1>3. [x EXCEPT !.at = "open"] = [type |-> t, at |-> "open", part |-> "none", n |-> 0]
    BY <1>1
  <1> QED
    BY <1>2, <1>3

\* An item of reasoning or of text is opened,
LEMMA OpenedRead ==
  ASSUME NEW r, ReadersFit(r), Listens(r.seen), NEW i \in Items, r.seen.items[i] = NoItem,
         NEW t \in {"reasoning", "message"}
  PROVE  LET q == Reads(Reads(r, Ev("added", i, t, "none", 0)), Ev("part", i, t, "none", 0)) IN
         /\ ReadersFit(q)
         /\ Turned(r.seen, q.seen, i, [type |-> t, at |-> "open", part |-> "open", n |-> 0])
  <1> DEFINE v == Ev("added", i, t, "none", 0)
             w == Ev("part", i, t, "none", 0)
             p == Reads(r, v)
             q == Reads(p, w)
             a == [NoItem EXCEPT !.type = t, !.at = "open"]
             b == [a EXCEPT !.part = "open"]
  <1>1. v.e = "added" /\ v.i = i /\ v.t = t /\ w.e = "part" /\ w.i = i /\ w.t = t
    BY Event
  <1>2. t \in ItemTypes /\ r.seen.items[i].at = "none"
    BY DEF ItemTypes, NoItem
  <1> HIDE DEF v, w
  <1>3. ReadersFit(p) /\ ItemBecomes(r.seen, p.seen, i, a)
    <2>1. /\ ReadersFit(p)
          /\ ItemBecomes(r.seen, p.seen, v.i, [NoItem EXCEPT !.type = v.t, !.at = "open"])
      BY <1>1, <1>2, AddedRead
    <2> QED
      BY <1>1, <2>1
  <1> HIDE DEF p
  <1>4. Turned(r.seen, p.seen, i, a)
    BY <1>3, ItemBecame
  <1>5. a = [type |-> t, at |-> "open", part |-> "none", n |-> 0]
    BY NewItem
  <1> HIDE DEF a
  <1>6. p.seen.items[i] = a /\ Placed(p.seen, i, t)
    BY <1>4, <1>5 DEF Turned, Placed, Listens
  <1>7. ReadersFit(q) /\ ItemBecomes(p.seen, q.seen, i, b)
    <2>1. /\ ReadersFit(q)
          /\ ItemBecomes(p.seen, q.seen, i, [p.seen.items[i] EXCEPT
                           !.part = IF w.e = "part" THEN "open" ELSE "done"])
      BY <1>1, <1>3, <1>6, PartRead
    <2> QED
      BY <1>1, <1>6, <2>1
  <1> HIDE DEF q, b
  <1>8. Turned(p.seen, q.seen, i, b)
    BY <1>3, <1>7, ItemBecame
  <1>9. Turned(r.seen, q.seen, i, b)
    BY <1>4, <1>8, TurnedTwice
  <1>10. b = [type |-> t, at |-> "open", part |-> "open", n |-> 0]
    BY <1>5 DEF b
  <1> QED
    BY <1>7, <1>9, <1>10 DEF q, p, v, w

\* and done.
LEMMA DoneUncut ==
  ASSUME NEW r, ReadersFit(r), NEW v, v.e = "done", v.i \in Items, v.n \in Nat,
         Placed(r.seen, v.i, v.t), ~CutBy(r.seen.items[v.i], v.t, v.n)
  PROVE  LET q == Reads(r, v) IN
         /\ ReadersFit(q)
         /\ Turned(r.seen, q.seen, v.i, [r.seen.items[v.i] EXCEPT !.at = "done", !.n = v.n])
  <1> DEFINE q == Reads(r, v)
             item == [r.seen.items[v.i] EXCEPT !.at = "done", !.n = v.n]
             x == r.seen.cut \/ CutBy(r.seen.items[v.i], v.t, v.n)
  <1>1. ReadersFit(q) /\ q.seen = [r.seen EXCEPT !.items[v.i] = item, !.cut = x]
    BY DoneRead
  <1>2. r.seen \in Clients /\ r.seen.cut \in BOOLEAN
    BY DEF ReadersFit, Readers, Clients
  <1>3. x = r.seen.cut
    BY <1>2
  <1> HIDE DEF x, item, q
  <1>4. Turned(r.seen, q.seen, v.i, item)
    BY <1>1, <1>2, <1>3 DEF Turned, Clients
  <1> QED
    BY <1>1, <1>4 DEF item, q

LEMMA ClosedRead ==
  ASSUME NEW r, ReadersFit(r), Listens(r.seen), NEW i \in Items,
         NEW t \in {"reasoning", "message"},
         r.seen.items[i] = [type |-> t, at |-> "open", part |-> "open", n |-> 0]
  PROVE  LET q == Reads(Reads(r, Ev("part_done", i, t, "none", 0)), Ev("done", i, t, "none", 0))
         IN
         /\ ReadersFit(q)
         /\ Turned(r.seen, q.seen, i, [type |-> t, at |-> "done", part |-> "done", n |-> 0])
  <1> DEFINE v == Ev("part_done", i, t, "none", 0)
             w == Ev("done", i, t, "none", 0)
             p == Reads(r, v)
             q == Reads(p, w)
             a == [type |-> t, at |-> "open", part |-> "done", n |-> 0]
             b == [a EXCEPT !.at = "done", !.n = 0]
  <1>1. v.e = "part_done" /\ v.i = i /\ v.t = t /\ w.e = "done" /\ w.i = i /\ w.t = t /\ w.n = 0
    BY Event
  <1>2. Placed(r.seen, i, t)
    BY DEF Placed
  <1> HIDE DEF v, w
  <1>3. ReadersFit(p) /\ ItemBecomes(r.seen, p.seen, i, a)
    <2>1. /\ ReadersFit(p)
          /\ ItemBecomes(r.seen, p.seen, i, [r.seen.items[i] EXCEPT
                           !.part = IF v.e = "part" THEN "open" ELSE "done"])
      BY <1>1, <1>2, PartRead
    <2>2. [r.seen.items[i] EXCEPT !.part = IF v.e = "part" THEN "open" ELSE "done"] = a
      BY <1>1
    <2> QED
      BY <2>1, <2>2
  <1> HIDE DEF p
  <1>4. Turned(r.seen, p.seen, i, a)
    BY <1>3, ItemBecame
  <1>5. a = [type |-> t, at |-> "open", part |-> "done", n |-> 0]
    OBVIOUS
  <1> HIDE DEF a
  <1>6. p.seen.items[i] = a /\ Placed(p.seen, i, t)
    BY <1>4, <1>5 DEF Turned, Placed, Listens
  <1>7. ReadersFit(q) /\ Turned(p.seen, q.seen, i, b)
    <2>1. ~CutBy(p.seen.items[i], t, 0)
      BY <1>5, <1>6 DEF CutBy
    <2>2. w.e = "done" /\ w.i \in Items /\ w.n \in Nat /\ Placed(p.seen, w.i, w.t)
          /\ ~CutBy(p.seen.items[w.i], w.t, w.n)
      BY <1>1, <1>6, <2>1
    <2>3. /\ ReadersFit(q)
          /\ Turned(p.seen, q.seen, w.i, [p.seen.items[w.i] EXCEPT !.at = "done", !.n = w.n])
      BY <1>3, <2>2, DoneUncut
    <2> QED
      BY <1>1, <1>6, <2>3
  <1> HIDE DEF q, b
  <1>8. Turned(r.seen, q.seen, i, b)
    BY <1>4, <1>7, TurnedTwice
  <1>9. b = [type |-> t, at |-> "done", part |-> "done", n |-> 0]
    <2> DEFINE y == [a EXCEPT !.at = "done"]
    <2>1. y = [type |-> t, at |-> "done", part |-> "done", n |-> 0]
      BY <1>5
    <2>2. b = [y EXCEPT !.n = 0]
      BY DEF b
    <2> HIDE DEF y
    <2> QED
      BY <2>1, <2>2
  <1> QED
    BY <1>7, <1>8, <1>9 DEF q, p, v, w

\* What the layout depends on.
LEMMA SameLayout ==
  ASSUME NEW s, NEW t, t.next = s.next, t.reasoning = s.reasoning, t.reasonAt = s.reasonAt,
         t.messageAt = s.messageAt, t.tools = s.tools, NEW d, NEW items, Shows(s, d, items)
  PROVE  Shows(t, d, items)
  <1>1. Slots(t) = Slots(s)
    BY DEF Slots
  <1>2. \A k : Place(t, k) = Place(s, k) /\ ItemOf(t, k, d) = ItemOf(s, k, d)
    BY DEF Place, ItemOf
  <1> QED
    BY <1>1, <1>2 DEF Shows

LEMMA RoomForOneMore ==
  ASSUME NEW s, NEW d, ChatRules(s, d),
         s.reasoning = "none" \/ s.messageAt = Unset \/ Len(s.tools) < RspTools
  PROVE  s.next \in Items /\ s.next \in Nat /\ Len(s.tools) \in Nat
  <1>1. s.next \in Nat /\ s.tools \in Seq(ChatTools)
    BY DEF ChatRules, ChatStates
  <1>2. PICK l \in Nat : l = Len(s.tools)
    BY <1>1
  <1> DEFINE a == WithReasoning(s)
             b == WithMessage(s)
  <1>3. a \in 0 .. 1 /\ b \in 0 .. 1 /\ (a = 0 \/ b = 0 \/ l < RspTools) /\ l <= RspTools
    BY <1>2 DEF ChatRules, WithReasoning, WithMessage
  <1>4. s.next = a + b + l
    BY <1>2 DEF ChatRules
  <1> HIDE DEF a, b
  <1>5. s.next <= RspTools + 1
    BY <1>3, <1>4, RspAssumption
  <1> QED
    BY <1>1, <1>2, <1>5, RspAssumption DEF Items

LEMMA StepIs ==
  ASSUME NEW z, NEW s, NEW v, NEW d, NEW r, Reached(z, v, r), ReadersFit(r),
         ChatFits(s, d, r.seen), s.created
  PROVE  StepFits(z, [s |-> s, v |-> v], d)
  <1> DEFINE p == [s |-> s, v |-> v]
  <1>1. p.s = s /\ p.v = v /\ p = [s |-> p.s, v |-> p.v]
    OBVIOUS
  <1> HIDE DEF p
  <1>2. StepFits(z, p, d)
    BY <1>1 DEF StepFits
  <1> QED
    BY <1>2 DEF p

LEMMA CreatedFits ==
  ASSUME rspUp.from = "chat", NEW calls, NEW r, ReadersFit(r), NEW s, ChatFits(s, -1, r.seen)
  PROVE  StepFits([calls |-> calls, to |-> r], RspCreated(s), -1)
  <1> DEFINE z == [calls |-> calls, to |-> r]
  <1>1. Reached(z, <<>>, r)
    BY NothingReached
  <1>2. CASE s.created
    <2> DEFINE p == [s |-> s, v |-> <<>>]
    <2>1. RspCreated(s) = p
      BY <1>2 DEF RspCreated
    <2>2. p.s = s /\ p.v = <<>> /\ p = [s |-> p.s, v |-> p.v]
      OBVIOUS
    <2> HIDE DEF z, p
    <2>3. StepFits(z, p, -1)
      BY <1>1, <1>2, <2>2 DEF StepFits
    <2> QED
      BY <2>1, <2>3 DEF z
  <1>3. CASE ~s.created
    <2> DEFINE t == [s EXCEPT !.created = TRUE]
               e == Ev("created", 0, "none", "none", 0)
               q == Reads(r, e)
               p == [s |-> t, v |-> <<e>>]
    <2>1. e.e = "created" /\ e.i = 0 /\ 0 \in Items
      BY Event, RspAssumption DEF Items
    <2>2. RspCreated(s) = p
      BY <1>3 DEF RspCreated
    <2> HIDE DEF e
    <2>3. ReadersFit(q) /\ q.seen = [r.seen EXCEPT !.created = TRUE]
      BY <1>3, <2>1, CreatedRead DEF ChatFits
    <2>4. r.seen \in Clients
      BY DEF ReadersFit, Readers
    <2>5. q.seen.created = TRUE /\ q.seen.completed = "none" /\ ~q.seen.cut
          /\ q.seen.items = r.seen.items
      BY <2>3, <2>4 DEF Clients, ChatFits
    <2>6. s \in ChatStates
      BY DEF ChatFits, ChatRules
    <2>7. /\ t \in ChatStates /\ t.created = TRUE /\ t.next = s.next /\ t.reasoning = s.reasoning
          /\ t.reasonAt = s.reasonAt /\ t.messageAt = s.messageAt /\ t.tools = s.tools
          /\ t.text = s.text /\ t.completed = s.completed
      BY <2>6 DEF ChatStates
    <2>8. Reached(z, <<e>>, q)
      <3>1. Reached(z, Append(<<>>, e), q)
        BY <1>1, MoreReached
      <3>2. Append(<<>>, e) = <<e>>
        OBVIOUS
      <3> HIDE DEF z, q
      <3> QED
        BY <3>1, <3>2
    <2> HIDE DEF z, q, t
    <2>9. ChatRules(t, -1)
      <3>1. WithReasoning(t) = WithReasoning(s) /\ WithMessage(t) = WithMessage(s)
        BY <2>7 DEF WithReasoning, WithMessage
      <3> QED
        BY <2>7, <3>1 DEF ChatFits, ChatRules
    <2>10. Shows(t, -1, q.seen.items)
      BY <2>5, <2>7, SameLayout DEF ChatFits
    <2>11. ChatFits(t, -1, q.seen)
      BY <2>5, <2>7, <2>9, <2>10 DEF ChatFits
    <2>12. p.s = t /\ p.v = <<e>> /\ p = [s |-> p.s, v |-> p.v]
      OBVIOUS
    <2> HIDE DEF p
    <2>13. StepFits(z, p, -1)
      BY <2>3, <2>7, <2>8, <2>11, <2>12 DEF StepFits
    <2> QED
      BY <2>2, <2>13 DEF z
  <1> QED
    BY <1>2, <1>3

LEMMA ReasoningOpenedFits ==
  ASSUME rspUp.from = "chat", NEW z, NEW p, NEW d, StepFits(z, p, d)
  PROVE  StepFits(z, ReasoningOpened(p), d)
  <1>1. CASE p.s.reasoning # "none"
    BY <1>1 DEF ReasoningOpened
  <1>2. CASE p.s.reasoning = "none"
    <2> DEFINE s == p.s
               m == s.next
               t == [s EXCEPT !.reasoning = "open", !.reasonAt = m, !.next = m + 1]
               e == Ev("added", m, "reasoning", "none", 0)
               f == Ev("part", m, "reasoning", "none", 0)
               w == p.v \o <<e, f>>
               new == [type |-> "reasoning", at |-> "open", part |-> "open", n |-> 0]
    <2>1. PICK r : Reached(z, p.v, r) /\ ReadersFit(r) /\ ChatFits(s, d, r.seen)
      BY DEF StepFits
    <2>2. s \in ChatStates /\ s.tools \in Seq(ChatTools) /\ m \in Nat /\ m \in Items
          /\ Len(s.tools) \in Nat
      BY <1>2, <2>1, RoomForOneMore DEF ChatFits, ChatRules, ChatStates
    <2>4. ReasoningOpened(p) = [s |-> t, v |-> w]
      BY <1>2 DEF ReasoningOpened
    <2>5. s.created /\ s.reasoning = "none"
      BY <1>2 DEF StepFits
    <2> HIDE DEF s, m
    <2>3. /\ t \in ChatStates /\ t.created = s.created /\ t.next = m + 1
          /\ t.reasoning = "open" /\ t.reasonAt = m /\ t.messageAt = s.messageAt
          /\ t.tools = s.tools /\ t.text = s.text /\ t.completed = s.completed
      <3> DEFINE t1 == [s EXCEPT !.reasoning = "open"]
                 t2 == [t1 EXCEPT !.reasonAt = m]
      <3>1. t1 \in ChatStates
        BY <2>2 DEF ChatStates, Places
      <3>2. t2 \in ChatStates
        BY <2>2, <3>1 DEF ChatStates
      <3>3. PICK k \in Nat : k = m + 1
        BY <2>2
      <3>4. t = [t2 EXCEPT !.next = k]
        BY <3>3
      <3> HIDE DEF t, t2
      <3>5. t \in ChatStates
        BY <3>2, <3>4 DEF ChatStates
      <3> QED
        BY <2>2, <3>5 DEF ChatStates, t
    <2> HIDE DEF t
    <2>6. PICK q : Reached(z, w, q) /\ ReadersFit(q) /\ Turned(r.seen, q.seen, m, new)
      <3> DEFINE q == Reads(Reads(r, e), f)
      <3>1. r.seen.items[m] = NoItem /\ Listens(r.seen)
        BY <2>1, <2>2, <2>5 DEF ChatFits, Shows, Listens, m
      <3>2. ReadersFit(q) /\ Turned(r.seen, q.seen, m, new)
        BY <2>1, <2>2, <3>1, OpenedRead
      <3> HIDE DEF e, f
      <3>3. Reached(z, Append(Append(p.v, e), f), q)
        BY <2>1, MoreReached
      <3>4. w = Append(Append(p.v, e), f)
        BY <2>1, Appends DEF Reached
      <3> HIDE DEF q, w
      <3> QED
        BY <3>2, <3>3, <3>4
    <2> HIDE DEF w
    <2>7. ChatRules(t, d)
      <3>1. /\ ~s.completed /\ Len(s.tools) <= RspTools
            /\ m = WithReasoning(s) + WithMessage(s) + Len(s.tools)
            /\ s.text <=> s.messageAt # Unset
            /\ \A o \in 1 .. Len(s.tools) :
                 /\ s.tools[o].type # "none" => s.tools[o].type = CallType(s.tools[o].kind)
                 /\ o <= d => s.tools[o].type # "none"
        BY <2>1, <2>5 DEF ChatFits, ChatRules, m
      <3>2. t.text <=> t.messageAt # Unset
        BY <2>3, <3>1
      <3>3. WithReasoning(t) = 1 /\ WithReasoning(s) = 0 /\ WithMessage(t) = WithMessage(s)
            /\ WithMessage(s) \in Nat
        BY <2>3, <2>5 DEF WithReasoning, WithMessage
      <3>4. t.next = WithReasoning(t) + WithMessage(t) + Len(t.tools)
        BY <2>2, <2>3, <3>1, <3>3
      <3> QED
        BY <2>3, <3>1, <3>2, <3>4 DEF ChatRules
    <2>8. Shows(t, d, q.seen.items)
      <3>1. -1 \notin Slots(s) /\ Slots(t) = Slots(s) \cup {-1}
        BY <2>2, <2>3, <2>5 DEF Slots
      <3>2. Place(t, -1) = m /\ ItemOf(t, -1, d) = new
        BY <2>3 DEF Place, ItemOf
      <3>3. \A j \in Slots(s) : Place(t, j) = Place(s, j) /\ ItemOf(t, j, d) = ItemOf(s, j, d)
        BY <2>3, <3>1 DEF Place, ItemOf
      <3>4. \A i \in Items : q.seen.items[i] = IF i = m THEN new ELSE r.seen.items[i]
        BY <2>6 DEF Turned
      <3> HIDE DEF new
      <3> QED
        BY <2>1, <2>2, <2>3, <3>1, <3>2, <3>3, <3>4, SlotAdded DEF ChatFits, m
    <2>9. ChatFits(t, d, q.seen)
      BY <2>1, <2>3, <2>6, <2>7, <2>8 DEF ChatFits, Turned
    <2> QED
      BY <2>3, <2>4, <2>5, <2>6, <2>9, StepIs
  <1> QED
    BY <1>1, <1>2

\* One item changes, or none.
LEMMA ChangeFits ==
  ASSUME NEW s, NEW d, NEW c, ChatFits(s, d, c), NEW k \in Slots(s),
         NEW t, NEW e, ChatRules(t, e), t.created = s.created, Slots(t) = Slots(s),
         t.next = s.next, \A j \in Slots(s) : Place(t, j) = Place(s, j),
         \A j \in Slots(s) : j # k => ItemOf(t, j, e) = ItemOf(s, j, d),
         NEW b, Turned(c, b, Place(s, k), ItemOf(t, k, e))
  PROVE  ChatFits(t, e, b)
  <1>1. Shows(t, e, b.items)
    BY SlotChanged DEF ChatFits, Turned
  <1> QED
    BY <1>1 DEF ChatFits, Turned

LEMMA RestFits ==
  ASSUME NEW s, NEW d, NEW c, ChatFits(s, d, c),
         NEW t, NEW e, ChatRules(t, e), t.created = s.created, Slots(t) = Slots(s),
         t.next = s.next, \A j \in Slots(s) : Place(t, j) = Place(s, j),
         \A j \in Slots(s) : ItemOf(t, j, e) = ItemOf(s, j, d)
  PROVE  ChatFits(t, e, c)
  BY DEF ChatFits, Shows

LEMMA AdditionFits ==
  ASSUME NEW s, NEW d, NEW c, ChatFits(s, d, c), NEW k, k \notin Slots(s), s.next \in Items,
         NEW t, ChatRules(t, d), t.created = s.created, Slots(t) = Slots(s) \cup {k},
         t.next = s.next + 1, Place(t, k) = s.next,
         \A j \in Slots(s) : Place(t, j) = Place(s, j) /\ ItemOf(t, j, d) = ItemOf(s, j, d),
         NEW b, Turned(c, b, s.next, ItemOf(t, k, d))
  PROVE  ChatFits(t, d, b)
  <1>1. Shows(t, d, b.items)
    BY SlotAdded DEF ChatFits, Turned
  <1> QED
    BY <1>1 DEF ChatFits, Turned

LEMMA PlaceIsItem ==
  ASSUME NEW s, NEW d, NEW c, ChatFits(s, d, c), NEW k \in Slots(s)
  PROVE  Place(s, k) \in Items /\ Place(s, k) \in Nat /\ c.items[Place(s, k)] = ItemOf(s, k, d)
  BY RspAssumption DEF ChatFits, Shows, Items

LEMMA ReasoningClosedFits ==
  ASSUME rspUp.from = "chat", NEW z, NEW p, NEW d, StepFits(z, p, d)
  PROVE  StepFits(z, ReasoningClosed(p), d)
  <1>1. CASE p.s.reasoning # "open"
    BY <1>1 DEF ReasoningClosed
  <1>2. CASE p.s.reasoning = "open"
    <2> DEFINE s == p.s
               m == s.reasonAt
               t == [s EXCEPT !.reasoning = "done"]
               e == Ev("part_done", m, "reasoning", "none", 0)
               f == Ev("done", m, "reasoning", "none", 0)
               w == p.v \o <<e, f>>
               new == [type |-> "reasoning", at |-> "done", part |-> "done", n |-> 0]
    <2>1. PICK r : Reached(z, p.v, r) /\ ReadersFit(r) /\ ChatFits(s, d, r.seen)
      BY DEF StepFits
    <2>2. s \in ChatStates /\ s.tools \in Seq(ChatTools) /\ Len(s.tools) \in Nat
      BY <2>1 DEF ChatFits, ChatRules, ChatStates
    <2>3. ReasoningClosed(p) = [s |-> t, v |-> w]
      BY <1>2 DEF ReasoningClosed
    <2>4. s.created /\ s.reasoning = "open"
      BY <1>2 DEF StepFits
    <2> HIDE DEF s
    <2>5. /\ t \in ChatStates /\ t.created = s.created /\ t.next = s.next
          /\ t.reasoning = "done" /\ t.reasonAt = s.reasonAt /\ t.messageAt = s.messageAt
          /\ t.tools = s.tools /\ t.text = s.text /\ t.completed = s.completed
      BY <2>2 DEF ChatStates, Places
    <2> HIDE DEF t
    <2>6. -1 \in Slots(s) /\ Place(s, -1) = m
      BY <2>2, <2>4 DEF Slots, Place
    <2>7. m \in Items /\ r.seen.items[m] = ItemOf(s, -1, d)
      BY <2>1, <2>6, PlaceIsItem
    <2> HIDE DEF m
    <2>8. PICK q : Reached(z, w, q) /\ ReadersFit(q) /\ Turned(r.seen, q.seen, m, new)
      <3> DEFINE q == Reads(Reads(r, e), f)
      <3>1. r.seen.items[m] = [type |-> "reasoning", at |-> "open", part |-> "open", n |-> 0]
        BY <2>4, <2>7 DEF ItemOf
      <3>2. Listens(r.seen)
        BY <2>1, <2>4 DEF ChatFits, Listens
      <3>3. ReadersFit(q) /\ Turned(r.seen, q.seen, m, new)
        BY <2>1, <2>7, <3>1, <3>2, ClosedRead
      <3> HIDE DEF e, f
      <3>4. Reached(z, Append(Append(p.v, e), f), q)
        BY <2>1, MoreReached
      <3>5. w = Append(Append(p.v, e), f)
        BY <2>1, Appends DEF Reached
      <3> HIDE DEF q, w
      <3> QED
        BY <3>3, <3>4, <3>5
    <2> HIDE DEF w
    <2>9. ChatRules(t, d)
      <3>1. WithReasoning(t) = WithReasoning(s) /\ WithMessage(t) = WithMessage(s)
        BY <2>4, <2>5 DEF WithReasoning, WithMessage
      <3> QED
        BY <2>1, <2>5, <3>1 DEF ChatFits, ChatRules
    <2>10. Slots(t) = Slots(s)
      BY <2>4, <2>5 DEF Slots
    <2>11. /\ \A j \in Slots(s) : Place(t, j) = Place(s, j)
           /\ \A j \in Slots(s) : j # -1 => ItemOf(t, j, d) = ItemOf(s, j, d)
           /\ ItemOf(t, -1, d) = new
      BY <2>5 DEF Place, ItemOf
    <2> HIDE DEF new
    <2>12. ChatFits(t, d, q.seen)
      BY <2>1, <2>5, <2>6, <2>8, <2>9, <2>10, <2>11, ChangeFits
    <2> QED
      BY <2>3, <2>4, <2>5, <2>8, <2>12, StepIs
  <1> QED
    BY <1>1, <1>2

-----------------------------------------------------------------------------
(* Text of the message                                                     *)

\* A piece of reasoning or of text.
LEMMA TextRead ==
  ASSUME NEW r, ReadersFit(r), Listens(r.seen), NEW i \in Items,
         NEW t \in {"reasoning", "message"},
         r.seen.items[i] = [type |-> t, at |-> "open", part |-> "open", n |-> 0]
  PROVE  LET q == Reads(r, Ev("delta", i, t, "none", 0)) IN
         ReadersFit(q) /\ Turned(r.seen, q.seen, i, r.seen.items[i])
  <1> DEFINE v == Ev("delta", i, t, "none", 0)
             q == Reads(r, v)
             it == r.seen.items[i]
  <1>1. v.e = "delta" /\ v.i = i /\ v.t = t /\ v.n = 0
    BY Event
  <1>2. Placed(r.seen, i, t) /\ it.part = "open" /\ it.n = 0
    BY DEF Placed
  <1> HIDE DEF v
  <1>3. ReadersFit(q) /\ ItemBecomes(r.seen, q.seen, v.i, [r.seen.items[v.i] EXCEPT !.n = @ + v.n])
    BY <1>1, <1>2, DeltaRead
  <1>4. [it EXCEPT !.n = @ + v.n] = it
    BY <1>1
  <1> HIDE DEF q
  <1>5. ItemBecomes(r.seen, q.seen, i, it)
    BY <1>1, <1>3, <1>4
  <1>6. Turned(r.seen, q.seen, i, it)
    BY <1>3, <1>5, ItemBecame
  <1> QED
    BY <1>3, <1>6 DEF q, v

\* The text that is written, with its item where there is none.
LEMMA MessageOpenedFits ==
  ASSUME rspUp.from = "chat", NEW z, NEW p, NEW d \in Int, d < 0, StepFits(z, p, d),
         p.s.messageAt = Unset
  PROVE  StepFits(z, MessageWritten(p), d)
  <1> DEFINE s == p.s
             m == s.next
             t == [s EXCEPT !.messageAt = m, !.text = TRUE, !.next = m + 1]
             e == Ev("added", m, "message", "none", 0)
             f == Ev("part", m, "message", "none", 0)
             g == Ev("delta", m, "message", "none", 0)
             w == p.v \o <<e, f>> \o <<g>>
             new == [type |-> "message", at |-> "open", part |-> "open", n |-> 0]
  <1>1. PICK r : Reached(z, p.v, r) /\ ReadersFit(r) /\ ChatFits(s, d, r.seen)
    BY DEF StepFits
  <1>2. s \in ChatStates /\ s.tools \in Seq(ChatTools) /\ m \in Nat /\ m \in Items
        /\ Len(s.tools) \in Nat
    BY <1>1, RoomForOneMore DEF ChatFits, ChatRules, ChatStates
  <1>3. MessageWritten(p) = [s |-> t, v |-> w]
    BY DEF MessageWritten
  <1>4. s.created /\ s.messageAt = Unset
    BY DEF StepFits
  <1>5. PICK k \in Nat : k = m + 1
    BY <1>2
  <1> HIDE DEF s, m
  <1>6. /\ t \in ChatStates /\ t.created = s.created /\ t.next = k
        /\ t.reasoning = s.reasoning /\ t.reasonAt = s.reasonAt /\ t.messageAt = m
        /\ t.tools = s.tools /\ t.text = TRUE /\ t.completed = s.completed
    <2> DEFINE t1 == [s EXCEPT !.messageAt = m]
               t2 == [t1 EXCEPT !.text = TRUE]
    <2>1. t1 \in ChatStates
      BY <1>2 DEF ChatStates
    <2>2. t2 \in ChatStates
      BY <2>1 DEF ChatStates
    <2>3. t = [t2 EXCEPT !.next = k]
      BY <1>5
    <2>4. /\ t2.created = s.created /\ t2.reasoning = s.reasoning /\ t2.reasonAt = s.reasonAt
          /\ t2.messageAt = m /\ t2.tools = s.tools /\ t2.text = TRUE
          /\ t2.completed = s.completed
      BY <1>2 DEF ChatStates
    <2> HIDE DEF t, t2
    <2>5. t \in ChatStates
      BY <2>2, <2>3 DEF ChatStates
    <2> QED
      BY <2>2, <2>3, <2>4, <2>5 DEF ChatStates
  <1> HIDE DEF t
  <1>7. PICK q : Reached(z, w, q) /\ ReadersFit(q) /\ Turned(r.seen, q.seen, m, new)
    <2> DEFINE q1 == Reads(Reads(r, e), f)
               q2 == Reads(q1, g)
    <2>1. r.seen.items[m] = NoItem /\ Listens(r.seen)
      BY <1>1, <1>2, <1>4 DEF ChatFits, Shows, Listens, m
    <2>2. ReadersFit(q1) /\ Turned(r.seen, q1.seen, m, new)
      BY <1>1, <1>2, <2>1, OpenedRead
    <2> HIDE DEF e, f, q1
    <2>3. Listens(q1.seen) /\ q1.seen.items[m] = new
      BY <1>2, <2>1, <2>2 DEF Turned, Listens
    <2>4. ReadersFit(q2) /\ Turned(q1.seen, q2.seen, m, new)
      BY <1>2, <2>2, <2>3, TextRead
    <2> HIDE DEF g, new
    <2>5. Reached(z, Append(Append(p.v, e), f), q1)
      BY <1>1, MoreReached DEF q1
    <2>6. Reached(z, Append(Append(Append(p.v, e), f), g), q2)
      BY <2>5, MoreReached
    <2>7. w = Append(Append(Append(p.v, e), f), g)
      <3>1. p.v \o <<e, f>> = Append(Append(p.v, e), f)
        BY <1>1, Appends DEF Reached
      <3>2. IsSequence(Append(Append(p.v, e), f))
        BY <2>5 DEF Reached
      <3> QED
        BY <3>1, <3>2, Appends
    <2> HIDE DEF q2, w
    <2>8. Turned(r.seen, q2.seen, m, new)
      BY <2>2, <2>4, TurnedTwice
    <2> QED
      BY <2>4, <2>6, <2>7, <2>8
  <1> HIDE DEF w
  <1>8. ChatRules(t, d)
    <2>1. WithReasoning(t) = WithReasoning(s) /\ WithMessage(s) = 0 /\ WithMessage(t) = 1
          /\ WithReasoning(s) \in Nat
      BY <1>2, <1>4, <1>6 DEF WithReasoning, WithMessage, Unset
    <2>2. m = WithReasoning(s) + WithMessage(s) + Len(s.tools)
      BY <1>1 DEF ChatFits, ChatRules, m
    <2>3. t.next = WithReasoning(t) + WithMessage(t) + Len(t.tools)
      BY <1>2, <1>5, <1>6, <2>1, <2>2
    <2>4. t.text <=> t.messageAt # Unset
      BY <1>2, <1>6 DEF Unset
    <2> QED
      BY <1>1, <1>6, <2>3, <2>4 DEF ChatFits, ChatRules
  <1>9. 0 \notin Slots(s) /\ Slots(t) = Slots(s) \cup {0}
    BY <1>2, <1>4, <1>6 DEF Slots, Unset
  <1>10. /\ Place(t, 0) = m /\ ItemOf(t, 0, d) = new
         /\ \A j \in Slots(s) : Place(t, j) = Place(s, j) /\ ItemOf(t, j, d) = ItemOf(s, j, d)
    BY <1>6, <1>9 DEF Place, ItemOf, MessageItem
  <1> HIDE DEF new
  <1>11. ChatFits(t, d, q.seen)
    BY <1>1, <1>2, <1>5, <1>6, <1>7, <1>8, <1>9, <1>10, AdditionFits DEF m
  <1> QED
    BY <1>3, <1>4, <1>6, <1>7, <1>11, StepIs

LEMMA MessageWrittenFits ==
  ASSUME rspUp.from = "chat", NEW z, NEW p, NEW d \in Int, d < 0, StepFits(z, p, d)
  PROVE  StepFits(z, MessageWritten(p), d)
  <1>1. CASE p.s.messageAt = Unset
    BY <1>1, MessageOpenedFits
  <1>2. CASE p.s.messageAt # Unset
    <2> DEFINE s == p.s
               m == s.messageAt
               t == [s EXCEPT !.messageAt = m, !.text = TRUE, !.next = @]
               g == Ev("delta", m, "message", "none", 0)
               w == p.v \o <<>> \o <<g>>
    <2>1. PICK r : Reached(z, p.v, r) /\ ReadersFit(r) /\ ChatFits(s, d, r.seen)
      BY DEF StepFits
    <2>2. s \in ChatStates /\ s.tools \in Seq(ChatTools) /\ Len(s.tools) \in Nat
      BY <2>1 DEF ChatFits, ChatRules, ChatStates
    <2>3. MessageWritten(p) = [s |-> t, v |-> w]
      BY <1>2 DEF MessageWritten
    <2>4. s.created /\ m # Unset
      BY <1>2 DEF StepFits
    <2>5. t = s
      <3>1. s.text = TRUE
        BY <2>1, <2>2, <2>4 DEF ChatFits, ChatRules, ChatStates
      <3> QED
        BY <2>2, <3>1 DEF ChatStates
    <2> HIDE DEF s, t
    <2>6. 0 \in Slots(s) /\ Place(s, 0) = m
      BY <2>2, <2>4 DEF Slots, Place
    <2>7. m \in Items /\ r.seen.items[m] = ItemOf(s, 0, d)
      BY <2>1, <2>6, PlaceIsItem
    <2> HIDE DEF m
    <2>8. PICK q : Reached(z, w, q) /\ ReadersFit(q) /\ Turned(r.seen, q.seen, m, ItemOf(s, 0, d))
      <3> DEFINE q == Reads(r, g)
      <3>1. r.seen.items[m] = [type |-> "message", at |-> "open", part |-> "open", n |-> 0]
        BY <2>7 DEF ItemOf, MessageItem
      <3>2. Listens(r.seen)
        BY <2>1, <2>4 DEF ChatFits, Listens
      <3>3. ReadersFit(q) /\ Turned(r.seen, q.seen, m, ItemOf(s, 0, d))
        BY <2>1, <2>7, <3>1, <3>2, TextRead
      <3> HIDE DEF g
      <3>4. Reached(z, Append(p.v, g), q)
        BY <2>1, MoreReached
      <3>5. w = Append(p.v, g)
        BY <2>1, Appends DEF Reached
      <3> HIDE DEF q, w
      <3> QED
        BY <3>3, <3>4, <3>5
    <2>9. ChatFits(s, d, q.seen)
      BY <2>1, <2>6, <2>8, ChangeFits DEF ChatFits
    <2> QED
      BY <2>3, <2>4, <2>5, <2>8, <2>9, StepIs
  <1> QED
    BY <1>1, <1>2

-----------------------------------------------------------------------------
(* Tool calls: announced once their type can be told, grown, and closed    *)

\* s with x for the tool o.
ToolPut(s, o, x) == [s EXCEPT !.tools[o] = x]

LEMMA ToolSet ==
  ASSUME NEW s \in ChatStates, NEW o \in 1 .. Len(s.tools), NEW x \in ChatTools
  PROVE  LET t == ToolPut(s, o, x) IN
         /\ t \in ChatStates /\ t.created = s.created /\ t.completed = s.completed
         /\ t.next = s.next /\ t.finish = s.finish /\ t.reasoning = s.reasoning
         /\ t.reasonAt = s.reasonAt /\ t.messageAt = s.messageAt /\ t.text = s.text
         /\ t.tools \in Seq(ChatTools) /\ Len(t.tools) = Len(s.tools)
         /\ \A j \in 1 .. Len(s.tools) : t.tools[j] = IF j = o THEN x ELSE s.tools[j]
  <1> DEFINE f == [s.tools EXCEPT ![o] = x]
             t == [s EXCEPT !.tools = f]
  <1>1. s.tools \in Seq(ChatTools)
    BY DEF ChatStates
  <1>2. /\ f \in Seq(ChatTools) /\ Len(f) = Len(s.tools)
        /\ \A j \in 1 .. Len(s.tools) : f[j] = IF j = o THEN x ELSE s.tools[j]
    BY <1>1, ExceptSeq
  <1>3. ToolPut(s, o, x) = t
    BY DEF ToolPut
  <1> HIDE DEF f
  <1>4. /\ t \in ChatStates /\ t.created = s.created /\ t.completed = s.completed
        /\ t.next = s.next /\ t.finish = s.finish /\ t.reasoning = s.reasoning
        /\ t.reasonAt = s.reasonAt /\ t.messageAt = s.messageAt /\ t.text = s.text
        /\ t.tools = f
    BY <1>2 DEF ChatStates
  <1> HIDE DEF t
  <1> QED
    BY <1>2, <1>3, <1>4

\* A tool changes, and its item as it shows; e may close it.
LEMMA ToolFits ==
  ASSUME NEW s, NEW d \in Int, NEW c, ChatFits(s, d, c), NEW o \in 1 .. Len(s.tools),
         NEW x \in ChatTools, x.at = s.tools[o].at,
         x.type # "none" => x.type = CallType(x.kind),
         NEW e \in Int, e = d \/ (d = o - 1 /\ e = o), o <= e => x.type # "none",
         NEW b, Turned(c, b, x.at, ToolItem(x, o <= e))
  PROVE  LET t == ToolPut(s, o, x) IN ChatFits(t, e, b) /\ t.created = s.created
  <1> DEFINE t == ToolPut(s, o, x)
  <1>1. s \in ChatStates /\ s.tools \in Seq(ChatTools)
    BY DEF ChatFits, ChatRules, ChatStates
  <1>2. PICK l \in Nat : l = Len(s.tools)
    BY <1>1
  <1>3. /\ t \in ChatStates /\ t.created = s.created /\ t.completed = s.completed
        /\ t.next = s.next /\ t.reasoning = s.reasoning
        /\ t.reasonAt = s.reasonAt /\ t.messageAt = s.messageAt /\ t.text = s.text
        /\ Len(t.tools) = l
        /\ \A j \in 1 .. l : t.tools[j] = IF j = o THEN x ELSE s.tools[j]
    BY <1>1, <1>2, ToolSet
  <1> HIDE DEF t
  <1>4. /\ ~s.completed /\ l <= RspTools /\ s.next = WithReasoning(s) + WithMessage(s) + l
        /\ s.text <=> s.messageAt # Unset
        /\ \A j \in 1 .. l : /\ s.tools[j].type # "none" => s.tools[j].type = CallType(s.tools[j].kind)
                             /\ j <= d => s.tools[j].type # "none"
    BY <1>2 DEF ChatFits, ChatRules
  <1>5. ChatRules(t, e)
    <2>1. WithReasoning(t) = WithReasoning(s) /\ WithMessage(t) = WithMessage(s)
      BY <1>3 DEF WithReasoning, WithMessage
    <2>2. t.text <=> t.messageAt # Unset
      BY <1>3, <1>4
    <2>3. ASSUME NEW j \in 1 .. l
          PROVE  /\ t.tools[j].type # "none" => t.tools[j].type = CallType(t.tools[j].kind)
                 /\ j <= e => t.tools[j].type # "none"
      BY <1>2, <1>3, <1>4
    <2> QED
      BY <1>3, <1>4, <2>1, <2>2, <2>3 DEF ChatRules
  <1>6. Slots(t) = Slots(s) /\ o \in Slots(s) /\ Place(s, o) = x.at
    BY <1>2, <1>3 DEF Slots, Place
  <1>7. \A j \in Slots(s) : Place(t, j) = Place(s, j)
    BY <1>2, <1>3 DEF Slots, Place
  <1>8. ASSUME NEW j \in Slots(s), j # o PROVE ItemOf(t, j, e) = ItemOf(s, j, d)
    <2>1. CASE j = -1
      BY <1>3, <2>1 DEF ItemOf
    <2>2. CASE j = 0
      <3>1. e >= 0 <=> d >= 0
        BY <1>2
      <3> QED
        BY <1>3, <2>2, <3>1 DEF ItemOf
    <2>3. CASE j \in 1 .. l
      <3>1. j <= e <=> j <= d
        BY <1>2, <1>8, <2>3
      <3>2. t.tools[j] = s.tools[j] /\ j # -1 /\ j # 0
        BY <1>3, <1>8, <2>3
      <3>3. ToolItem(t.tools[j], j <= e) = ToolItem(s.tools[j], j <= d)
        BY <3>1, <3>2 DEF ToolItem
      <3> QED
        BY <3>2, <3>3 DEF ItemOf
    <2> QED
      BY <1>2, <2>1, <2>2, <2>3 DEF Slots
  <1>9. ItemOf(t, o, e) = ToolItem(x, o <= e)
    BY <1>2, <1>3 DEF ItemOf
  <1>10. ChatFits(t, e, b)
    BY <1>3, <1>5, <1>6, <1>7, <1>8, <1>9, ChangeFits
  <1> QED
    BY <1>3, <1>10 DEF t

\* An item is added, and gets pieces.
LEMMA ItemAddedRead ==
  ASSUME NEW r, ReadersFit(r), Listens(r.seen), NEW i \in Items, r.seen.items[i] = NoItem,
         NEW t \in ItemTypes, NEW k
  PROVE  LET q == Reads(r, Ev("added", i, t, k, 0)) IN
         /\ ReadersFit(q)
         /\ Turned(r.seen, q.seen, i, [type |-> t, at |-> "open", part |-> "none", n |-> 0])
  <1> DEFINE v == Ev("added", i, t, k, 0)
             q == Reads(r, v)
             a == [NoItem EXCEPT !.type = t, !.at = "open"]
  <1>1. v.e = "added" /\ v.i = i /\ v.t = t
    BY Event
  <1>2. r.seen.items[i].at = "none"
    BY DEF NoItem
  <1> HIDE DEF v
  <1>3. /\ ReadersFit(q)
        /\ ItemBecomes(r.seen, q.seen, v.i, [NoItem EXCEPT !.type = v.t, !.at = "open"])
    BY <1>1, <1>2, AddedRead
  <1>4. a = [type |-> t, at |-> "open", part |-> "none", n |-> 0]
    BY NewItem
  <1> HIDE DEF q
  <1>5. ItemBecomes(r.seen, q.seen, i, a)
    BY <1>1, <1>3
  <1> HIDE DEF a
  <1>6. Turned(r.seen, q.seen, i, a)
    BY <1>3, <1>5, ItemBecame
  <1> QED
    BY <1>3, <1>4, <1>6 DEF q, v

LEMMA ItemDeltaRead ==
  ASSUME NEW r, ReadersFit(r), Listens(r.seen), NEW i \in Items, NEW t \in ItemTypes, NEW k,
         NEW m \in Nat, NEW n \in Nat, NEW p, t = "message" => p = "open",
         r.seen.items[i] = [type |-> t, at |-> "open", part |-> p, n |-> m]
  PROVE  LET q == Reads(r, Ev("delta", i, t, k, n)) IN
         /\ ReadersFit(q)
         /\ Turned(r.seen, q.seen, i, [type |-> t, at |-> "open", part |-> p, n |-> m + n])
  <1> DEFINE v == Ev("delta", i, t, k, n)
             q == Reads(r, v)
             it == r.seen.items[i]
  <1>1. v.e = "delta" /\ v.i = i /\ v.t = t /\ v.n = n
    BY Event
  <1>2. Placed(r.seen, i, t) /\ (t = "message" => it.part = "open")
    BY DEF Placed
  <1> HIDE DEF v
  <1>3. ReadersFit(q) /\ ItemBecomes(r.seen, q.seen, v.i, [r.seen.items[v.i] EXCEPT !.n = @ + v.n])
    BY <1>1, <1>2, DeltaRead
  <1>4. [it EXCEPT !.n = @ + v.n] = [type |-> t, at |-> "open", part |-> p, n |-> m + n]
    BY <1>1
  <1> HIDE DEF q
  <1>5. ItemBecomes(r.seen, q.seen, i, [type |-> t, at |-> "open", part |-> p, n |-> m + n])
    BY <1>1, <1>3, <1>4
  <1> QED
    BY <1>3, <1>5, ItemBecame DEF q, v

LEMMA CallTypesAreItemTypes ==
  ASSUME NEW t \in CallTypes PROVE t \in ItemTypes /\ t # "message" /\ t # "reasoning"
  BY DEF CallTypes, ItemTypes

LEMMA CallAddedRead ==
  ASSUME NEW r, ReadersFit(r), Listens(r.seen), NEW i \in Items, r.seen.items[i] = NoItem,
         NEW t \in CallTypes, NEW k
  PROVE  LET q == Reads(r, Ev("added", i, t, k, 0)) IN
         /\ ReadersFit(q)
         /\ Turned(r.seen, q.seen, i, [type |-> t, at |-> "open", part |-> "none", n |-> 0])
  BY CallTypesAreItemTypes, ItemAddedRead

LEMMA CallDeltaRead ==
  ASSUME NEW r, ReadersFit(r), Listens(r.seen), NEW i \in Items, NEW t \in CallTypes, NEW k,
         NEW m \in Nat, NEW n \in Nat,
         r.seen.items[i] = [type |-> t, at |-> "open", part |-> "none", n |-> m]
  PROVE  LET q == Reads(r, Ev("delta", i, t, k, n)) IN
         /\ ReadersFit(q)
         /\ Turned(r.seen, q.seen, i, [type |-> t, at |-> "open", part |-> "none", n |-> m + n])
  BY CallTypesAreItemTypes, ItemDeltaRead

\* What announcing tool o makes of it.
ToolAnnounced(s, t, o, x) ==
  /\ t = ToolPut(s, o, x)
  /\ x \in ChatTools /\ x.at = s.tools[o].at /\ x.kind = s.tools[o].kind
  /\ x.n = s.tools[o].n
  /\ x.type # "none" => x.type = CallType(x.kind)

AnnouncesTool(s, t, o, force) ==
  \E x : /\ ToolAnnounced(s, t, o, x)
         /\ force = TRUE => x.type # "none"
         /\ force = FALSE /\ rspUp.special /\ s.tools[o].kind = "none"
              => x.type = s.tools[o].type

LEMMA ToolTyped ==
  ASSUME NEW s, NEW d, NEW c, ChatFits(s, d, c), NEW o \in 1 .. Len(s.tools)
  PROVE  /\ s \in ChatStates /\ s.tools[o] \in ChatTools
         /\ s.tools[o].type # "none" => s.tools[o].type = CallType(s.tools[o].kind)
         /\ o \in Slots(s) /\ Place(s, o) = s.tools[o].at
         /\ ItemOf(s, o, d) = ToolItem(s.tools[o], o <= d)
         /\ s.tools[o].at \in Items /\ s.tools[o].n \in Nat
         /\ c.items[s.tools[o].at] = ToolItem(s.tools[o], o <= d)
  <1>1. s \in ChatStates /\ s.tools \in Seq(ChatTools)
    BY DEF ChatFits, ChatRules, ChatStates
  <1>2. PICK l \in Nat : l = Len(s.tools)
    BY <1>1
  <1>3. o # -1 /\ o # 0
    BY <1>2
  <1>4. o \in Slots(s) /\ Place(s, o) = s.tools[o].at
    BY <1>2, <1>3 DEF Slots, Place
  <1>5. ItemOf(s, o, d) = ToolItem(s.tools[o], o <= d)
    BY <1>3 DEF ItemOf
  <1>6. s.tools[o] \in ChatTools
    BY <1>1, ElementOfSeq
  <1>7. s.tools[o].type # "none" => s.tools[o].type = CallType(s.tools[o].kind)
    BY DEF ChatFits, ChatRules
  <1>8. s.tools[o].n \in Nat
    BY <1>6 DEF ChatTools
  <1> QED
    BY <1>1, <1>4, <1>5, <1>6, <1>7, <1>8, PlaceIsItem

LEMMA CallTypeIs ==
  ASSUME NEW k PROVE CallType(k) \in CallTypes /\ CallType(k) # "none"
  BY DEF CallType, CallTypes

LEMMA AnnouncedFits ==
  ASSUME rspUp.from = "chat", NEW z, NEW p, NEW d \in Int, StepFits(z, p, d),
         NEW o \in 1 .. Len(p.s.tools), d < o, NEW force \in BOOLEAN
  PROVE  LET q == Announced(p, o, force) IN
         /\ StepFits(z, q, d)
         /\ AnnouncesTool(p.s, q.s, o, force)
  <1> DEFINE s == p.s
             tool == s.tools[o]
             type == CallType(tool.kind)
             x == [tool EXCEPT !.type = type]
             t == ToolPut(s, o, x)
             e == Ev("added", tool.at, type, tool.kind, 0)
             f == Ev("delta", tool.at, type, tool.kind, tool.n)
             late == IF type = "function_call" /\ tool.n > 0 THEN <<f>> ELSE <<>>
             w == p.v \o <<e>> \o late
             q == Announced(p, o, force)
             same == tool.type # "none" \/ (~force /\ tool.kind = "none" /\ rspUp.special)
  <1>1. PICK r : Reached(z, p.v, r) /\ ReadersFit(r) /\ ChatFits(s, d, r.seen)
    BY DEF StepFits
  <1>2. s.created /\ s \in ChatStates /\ tool \in ChatTools
        /\ (tool.type # "none" => tool.type = CallType(tool.kind)) /\ tool.at \in Items
        /\ tool.n \in Nat /\ o \in 1 .. Len(s.tools)
        /\ r.seen.items[tool.at] = ToolItem(tool, o <= d) /\ (o <= d) = FALSE
    BY <1>1, ToolTyped DEF StepFits
  <1>3. CASE same
    <2>1. q = p
      BY <1>3 DEF Announced
    <2>2. s = ToolPut(s, o, tool)
      BY <1>2 DEF ChatStates, ToolPut
    <2>3. ToolAnnounced(p.s, q.s, o, tool)
      BY <1>2, <2>1, <2>2 DEF ToolAnnounced
    <2>4. force => tool.type # "none"
      BY <1>3
    <2> HIDE DEF q
    <2>5. tool.type = p.s.tools[o].type
      OBVIOUS
    <2> HIDE DEF tool
    <2>6. AnnouncesTool(p.s, q.s, o, force)
      BY <2>3, <2>4, <2>5 DEF AnnouncesTool
    <2> QED
      BY <2>1, <2>6 DEF q
  <1>4. CASE ~same
    <2>1. q = [s |-> [s EXCEPT !.tools[o].type = type], v |-> w]
      BY <1>4 DEF Announced
    <2>2. tool.type = "none"
      BY <1>4
    <2> HIDE DEF s, q, same
    <2>3. [s EXCEPT !.tools[o].type = type] = t
      BY <1>2 DEF ChatStates, ToolPut
    <2>4. x \in ChatTools /\ x.at = tool.at /\ x.kind = tool.kind /\ x.n = tool.n
          /\ x.type = CallType(x.kind) /\ x.type = type /\ type \in CallTypes /\ x.type # "none"
      BY <1>2, CallTypeIs DEF ChatTools
    <2> HIDE DEF x, type, tool
    <2> DEFINE new == ToolItem(x, FALSE)
    <2>5. PICK y : Reached(z, w, y) /\ ReadersFit(y) /\ Turned(r.seen, y.seen, tool.at, new)
      <3> DEFINE a == [type |-> type, at |-> "open", part |-> "none", n |-> 0]
                 q1 == Reads(r, e)
                 q2 == Reads(q1, f)
      <3>1. r.seen.items[tool.at] = NoItem
        BY <1>2, <2>2 DEF ToolItem
      <3>2. Listens(r.seen)
        BY <1>1, <1>2 DEF ChatFits, Listens
      <3>3. ReadersFit(q1) /\ Turned(r.seen, q1.seen, tool.at, a)
        BY <1>1, <1>2, <2>4, <3>1, <3>2, CallAddedRead
      <3>4. new = [type |-> type, at |-> "open", part |-> "none",
                   n |-> IF type = "function_call" THEN tool.n ELSE 0]
        BY <2>4 DEF ToolItem
      <3> HIDE DEF e, q1, new
      <3>5. Reached(z, Append(p.v, e), q1)
        BY <1>1, MoreReached DEF q1
      <3>6. p.v \o <<e>> = Append(p.v, e) /\ IsSequence(Append(p.v, e))
        BY <1>1, Appends DEF Reached
      <3>7. CASE type = "function_call" /\ tool.n > 0
        <4>1. Listens(q1.seen) /\ q1.seen.items[tool.at] = a
          BY <1>2, <3>2, <3>3 DEF Turned, Listens
        <4>2. 0 + tool.n = tool.n
          BY <1>2
        <4>3. ReadersFit(q2) /\ Turned(q1.seen, q2.seen, tool.at, new)
          BY <1>2, <2>4, <3>3, <3>4, <3>7, <4>1, <4>2, CallDeltaRead
        <4> HIDE DEF f
        <4>4. Reached(z, Append(Append(p.v, e), f), q2)
          BY <3>5, MoreReached
        <4>5. w = Append(Append(p.v, e), f)
          <5>1. w = Append(p.v, e) \o <<f>>
            BY <3>6, <3>7
          <5> QED
            BY <3>6, <5>1, Appends
        <4> HIDE DEF q2, w, a
        <4>6. Turned(r.seen, q2.seen, tool.at, new)
          BY <3>3, <4>3, TurnedTwice
        <4> QED
          BY <4>3, <4>4, <4>5, <4>6
      <3>8. CASE ~(type = "function_call" /\ tool.n > 0)
        <4>1. new = a
          BY <1>2, <3>4, <3>8
        <4>2. w = Append(p.v, e)
          BY <3>6, <3>8, Appends
        <4> HIDE DEF w, a
        <4> QED
          BY <3>3, <3>5, <4>1, <4>2
      <3> QED
        BY <3>7, <3>8
    <2>6. ChatFits(t, d, y.seen) /\ t.created = s.created
      <3>1. Turned(r.seen, y.seen, x.at, ToolItem(x, o <= d))
        BY <1>2, <2>4, <2>5
      <3>2. x.at = s.tools[o].at /\ (o <= d => x.type # "none")
        BY <2>4 DEF tool
      <3> QED
        BY <1>1, <1>2, <2>4, <3>1, <3>2, ToolFits
    <2> HIDE DEF w, new
    <2>7. q = [s |-> t, v |-> w] /\ q.s = t
      BY <2>1, <2>3
    <2> HIDE DEF t
    <2>8. StepFits(z, q, d)
      BY <1>2, <2>5, <2>6, <2>7, StepIs
    <2>9. ToolAnnounced(s, q.s, o, x)
      BY <2>4, <2>7 DEF ToolAnnounced, t, tool
    <2>10. ~(~force /\ rspUp.special /\ tool.kind = "none")
      BY <1>4 DEF same
    <2>11. AnnouncesTool(s, q.s, o, force)
      <3>1. tool = s.tools[o]
        BY DEF tool
      <3> QED
        BY <2>4, <2>9, <2>10, <3>1 DEF AnnouncesTool
    <2> QED
      BY <2>8, <2>11 DEF q, s
  <1> QED
    BY <1>3, <1>4

\* A part of an item begins, or ends.
LEMMA PartTurns ==
  ASSUME NEW r, ReadersFit(r), Listens(r.seen), NEW e \in {"part", "part_done"},
         NEW i \in Items, NEW t, NEW k, NEW m, NEW n, NEW p,
         r.seen.items[i] = [type |-> t, at |-> "open", part |-> p, n |-> m]
  PROVE  LET q == Reads(r, Ev(e, i, t, k, n))
             part == IF e = "part" THEN "open" ELSE "done"
         IN
         /\ ReadersFit(q)
         /\ Turned(r.seen, q.seen, i, [type |-> t, at |-> "open", part |-> part, n |-> m])
  <1> DEFINE v == Ev(e, i, t, k, n)
             part == IF e = "part" THEN "open" ELSE "done"
             q == Reads(r, v)
             it == r.seen.items[i]
  <1>1. v.e = e /\ v.i = i /\ v.t = t
    BY Event
  <1>2. Placed(r.seen, i, t)
    BY DEF Placed
  <1> HIDE DEF v
  <1>3. ReadersFit(q) /\ ItemBecomes(r.seen, q.seen, v.i, [r.seen.items[v.i] EXCEPT
                                       !.part = IF v.e = "part" THEN "open" ELSE "done"])
    BY <1>1, <1>2, PartRead
  <1>4. [it EXCEPT !.part = IF v.e = "part" THEN "open" ELSE "done"]
          = [type |-> t, at |-> "open", part |-> part, n |-> m]
    BY <1>1
  <1> HIDE DEF q
  <1>5. ItemBecomes(r.seen, q.seen, i, [type |-> t, at |-> "open", part |-> part, n |-> m])
    BY <1>1, <1>3, <1>4
  <1> QED
    BY <1>3, <1>5, ItemBecame DEF q, v

LEMMA CallPartDoneRead ==
  ASSUME NEW r, ReadersFit(r), Listens(r.seen), NEW i \in Items, NEW t \in CallTypes, NEW k,
         NEW m, NEW n,
         r.seen.items[i] = [type |-> t, at |-> "open", part |-> "none", n |-> m]
  PROVE  LET q == Reads(r, Ev("part_done", i, t, k, n)) IN
         /\ ReadersFit(q)
         /\ Turned(r.seen, q.seen, i, [type |-> t, at |-> "open", part |-> "done", n |-> m])
  BY PartTurns

LEMMA CallDoneRead ==
  ASSUME NEW r, ReadersFit(r), Listens(r.seen), NEW i \in Items, NEW t \in CallTypes, NEW k,
         NEW p \in {"none", "done"}, NEW m, NEW n \in Nat, m = n \/ t = "tool_search_call",
         r.seen.items[i] = [type |-> t, at |-> "open", part |-> p, n |-> m]
  PROVE  LET q == Reads(r, Ev("done", i, t, k, n)) IN
         /\ ReadersFit(q)
         /\ Turned(r.seen, q.seen, i, [type |-> t, at |-> "done", part |-> p, n |-> n])
  <1> DEFINE v == Ev("done", i, t, k, n)
             q == Reads(r, v)
             it == r.seen.items[i]
             y == [it EXCEPT !.at = "done"]
             new == [type |-> t, at |-> "done", part |-> p, n |-> n]
  <1>1. v.e = "done" /\ v.i = i /\ v.t = t /\ v.n = n
    BY Event
  <1>2. Placed(r.seen, i, t) /\ ~CutBy(it, t, n)
    BY DEF Placed, CutBy
  <1> HIDE DEF v
  <1>3. ReadersFit(q) /\ Turned(r.seen, q.seen, v.i, [r.seen.items[v.i] EXCEPT
                                                        !.at = "done", !.n = v.n])
    <2>1. v.i \in Items /\ v.n \in Nat /\ Placed(r.seen, v.i, v.t)
          /\ ~CutBy(r.seen.items[v.i], v.t, v.n)
      BY <1>1, <1>2
    <2> QED
      BY <1>1, <2>1, DoneUncut
  <1>4. [it EXCEPT !.at = "done", !.n = v.n] = new
    <2>1. y = [type |-> t, at |-> "done", part |-> p, n |-> m]
      OBVIOUS
    <2>2. [it EXCEPT !.at = "done", !.n = v.n] = [y EXCEPT !.n = v.n]
      OBVIOUS
    <2> HIDE DEF y
    <2> QED
      BY <1>1, <2>1, <2>2
  <1> HIDE DEF q, new
  <1>5. Turned(r.seen, q.seen, i, new)
    BY <1>1, <1>3, <1>4
  <1> QED
    BY <1>3, <1>5 DEF q, v, new

LEMMA ToolClosedFits ==
  ASSUME rspUp.from = "chat", NEW z, NEW p, NEW o \in 1 .. Len(p.s.tools), o - 1 \in Int,
         o \in Int, StepFits(z, p, o - 1)
  PROVE  LET q == ToolClosed(p, o) IN
         /\ StepFits(z, q, o)
         /\ \E x : ToolAnnounced(p.s, q.s, o, x) /\ x.type # "none"
  <1> DEFINE g == Announced(p, o, TRUE)
             tool == g.s.tools[o]
             late == IF tool.type = "custom_tool_call" /\ tool.n > 0
                     THEN <<Ev("delta", tool.at, tool.type, tool.kind, tool.n)>> ELSE <<>>
             done == IF tool.type = "tool_search_call" THEN <<>>
                     ELSE <<Ev("part_done", tool.at, tool.type, tool.kind, tool.n)>>
             last == Ev("done", tool.at, tool.type, tool.kind, tool.n)
             w == g.v \o late \o done \o <<last>>
             q == ToolClosed(p, o)
  <1>0. o - 1 < o
    OBVIOUS
  <1>1. StepFits(z, g, o - 1)
    BY <1>0, AnnouncedFits
  <1>2. PICK x : ToolAnnounced(p.s, g.s, o, x) /\ x.type # "none"
    <2>1. PICK b \in BOOLEAN : b = TRUE
      OBVIOUS
    <2> DEFINE h == Announced(p, o, b)
    <2>2. AnnouncesTool(p.s, h.s, o, b)
      BY <1>0, AnnouncedFits
    <2>3. h = g
      BY <2>1
    <2> HIDE DEF h, g
    <2>4. AnnouncesTool(p.s, g.s, o, b)
      BY <2>2, <2>3
    <2> QED
      BY <2>1, <2>4 DEF AnnouncesTool
  <1> DEFINE s == g.s
  <1>3. q = [g EXCEPT !.v = w]
    BY DEF ToolClosed
  <1>4. g = [s |-> s, v |-> g.v]
    BY <1>1 DEF StepFits
  <1> HIDE DEF g
  <1>5. q = [s |-> s, v |-> w] /\ q.s = s
    <2> HIDE DEF w, q
    <2> QED
      BY <1>3, <1>4
  <1> HIDE DEF q
  <1>6. PICK r : Reached(z, g.v, r) /\ ReadersFit(r) /\ ChatFits(s, o - 1, r.seen)
    BY <1>1 DEF StepFits
  <1>7. o \in 1 .. Len(s.tools) /\ tool = x /\ tool = s.tools[o]
    <2>1. p.s \in ChatStates
      BY DEF StepFits, ChatFits, ChatRules
    <2> QED
      BY <1>2, <2>1, ToolSet DEF ToolAnnounced
  <1>71. s.created
    BY <1>1 DEF StepFits
  <1> HIDE DEF s, tool
  <1>8. /\ s.created /\ s \in ChatStates /\ tool \in ChatTools /\ tool.at \in Items
        /\ tool.type = CallType(tool.kind) /\ tool.n \in Nat /\ (o <= o - 1) = FALSE
        /\ r.seen.items[tool.at] = ToolItem(tool, FALSE) /\ tool.type # "none"
        /\ tool.type \in CallTypes
    <2>1. (o <= o - 1) = FALSE
      OBVIOUS
    <2>2. /\ s \in ChatStates /\ tool \in ChatTools /\ tool.at \in Items /\ tool.n \in Nat
          /\ tool.type # "none" => tool.type = CallType(tool.kind)
          /\ r.seen.items[tool.at] = ToolItem(tool, o <= o - 1)
      BY <1>6, <1>7, ToolTyped
    <2> QED
      BY <1>2, <1>7, <1>71, <2>1, <2>2, CallTypeIs
  <1> DEFINE new == ToolItem(tool, TRUE)
             i == tool.at
             type == tool.type
             n == tool.n
             n0 == IF type = "function_call" THEN n ELSE 0
  <1>9. r.seen.items[i] = [type |-> type, at |-> "open", part |-> "none", n |-> n0]
        /\ new = [type |-> type, at |-> "done",
                  part |-> IF type = "tool_search_call" THEN "none" ELSE "done", n |-> n]
        /\ n0 \in Nat /\ n \in Nat /\ i \in Items
    BY <1>8 DEF ToolItem
  <1>10. Listens(r.seen)
    BY <1>6, <1>8 DEF ChatFits, Listens
  <1> HIDE DEF new
  <1>11. PICK y : Reached(z, w, y) /\ ReadersFit(y) /\ Turned(r.seen, y.seen, i, new)
    <2> DEFINE a == [type |-> type, at |-> "open", part |-> "none", n |-> n]
               b == [type |-> type, at |-> "open", part |-> "done", n |-> n]
    <2>1. PICK u, r1 : /\ u = g.v \o late /\ Reached(z, u, r1) /\ ReadersFit(r1)
                       /\ Listens(r1.seen)
                       /\ type # "tool_search_call" => Turned(r.seen, r1.seen, i, a)
                       /\ type = "tool_search_call" => r1 = r
      <3>1. CASE type = "custom_tool_call" /\ n > 0
        <4> DEFINE f == Ev("delta", i, type, tool.kind, n)
                   r1 == Reads(r, f)
        <4>1. n0 = 0 /\ 0 + n = n /\ type \in CallTypes
          BY <1>8, <1>9, <3>1
        <4>2. ReadersFit(r1) /\ Turned(r.seen, r1.seen, i, a)
          BY <1>6, <1>9, <1>10, <4>1, CallDeltaRead
        <4>3. late = <<f>>
          BY <3>1
        <4> HIDE DEF f, late
        <4>4. Reached(z, Append(g.v, f), r1)
          BY <1>6, MoreReached
        <4>5. g.v \o late = Append(g.v, f)
          BY <1>6, <4>3, Appends DEF Reached
        <4> HIDE DEF r1
        <4>6. Listens(r1.seen)
          BY <1>10, <4>2 DEF Listens, Turned
        <4> QED
          BY <3>1, <4>2, <4>4, <4>5, <4>6
      <3>2. CASE ~(type = "custom_tool_call" /\ n > 0)
        <4>1. late = <<>>
          BY <3>2
        <4>2. g.v \o late = g.v
          BY <1>6, <4>1, Appends DEF Reached
        <4>3. type # "tool_search_call" => n0 = n
          BY <1>8, <1>9, <3>2 DEF CallTypes
        <4>4. type # "tool_search_call" => Turned(r.seen, r.seen, i, a)
          BY <1>9, <4>3 DEF Turned
        <4> QED
          BY <1>6, <1>10, <4>2, <4>4
      <3> QED
        BY <3>1, <3>2
    <2>2. PICK t, r2 : /\ t = u \o done /\ Reached(z, t, r2) /\ ReadersFit(r2)
                       /\ Listens(r2.seen)
                       /\ type # "tool_search_call" => Turned(r.seen, r2.seen, i, b)
                       /\ type = "tool_search_call" => r2 = r
      <3>1. CASE type # "tool_search_call"
        <4> DEFINE f == Ev("part_done", i, type, tool.kind, n)
                   r2 == Reads(r1, f)
        <4>1. r1.seen.items[i] = a
          BY <1>9, <2>1, <3>1 DEF Turned
        <4>2. ReadersFit(r2) /\ Turned(r1.seen, r2.seen, i, b)
          BY <1>8, <1>9, <2>1, <4>1, CallPartDoneRead
        <4>3. done = <<f>>
          BY <3>1
        <4> HIDE DEF f, done
        <4>4. Reached(z, Append(u, f), r2)
          BY <2>1, MoreReached
        <4>5. u \o done = Append(u, f)
          <5>1. IsSequence(u)
            BY <2>1 DEF Reached
          <5>2. u \o <<f>> = Append(u, f)
            BY <5>1, Appends
          <5> QED
            BY <4>3, <5>2
        <4> HIDE DEF r2
        <4>6. Listens(r2.seen)
          BY <2>1, <4>2 DEF Listens, Turned
        <4>7. Turned(r.seen, r2.seen, i, b)
          BY <2>1, <3>1, <4>2, TurnedTwice
        <4> QED
          BY <3>1, <4>2, <4>4, <4>5, <4>6, <4>7
      <3>2. CASE type = "tool_search_call"
        <4>1. u \o done = u
          BY <2>1, <3>2, Appends DEF Reached
        <4> QED
          BY <2>1, <3>2, <4>1
      <3> QED
        BY <3>1, <3>2
    <2> DEFINE part == IF type = "tool_search_call" THEN "none" ELSE "done"
               m == IF type = "tool_search_call" THEN n0 ELSE n
               y == Reads(r2, last)
    <2>3. r2.seen.items[i] = [type |-> type, at |-> "open", part |-> part, n |-> m]
      BY <1>9, <2>2 DEF Turned
    <2>4. part \in {"none", "done"} /\ (m = n \/ type = "tool_search_call")
      OBVIOUS
    <2>5. new = [type |-> type, at |-> "done", part |-> part, n |-> n]
      BY <1>9
    <2> HIDE DEF part, m
    <2>6. ReadersFit(y) /\ Turned(r2.seen, y.seen, i, new)
      BY <1>8, <1>9, <2>2, <2>3, <2>4, <2>5, CallDoneRead
    <2> HIDE DEF last
    <2>7. Reached(z, Append(t, last), y)
      BY <2>2, MoreReached
    <2>8. w = Append(t, last)
      <3> HIDE DEF late, done
      <3>1. w = t \o <<last>>
        BY <2>1, <2>2
      <3> QED
        BY <2>2, <3>1, Appends DEF Reached
    <2> HIDE DEF y, w
    <2>9. Turned(r.seen, y.seen, i, new)
      <3>1. CASE type = "tool_search_call"
        BY <2>2, <2>6, <3>1
      <3>2. CASE type # "tool_search_call"
        BY <2>2, <2>6, <3>2, TurnedTwice
      <3> QED
        BY <3>1, <3>2
    <2> QED
      BY <2>6, <2>7, <2>8, <2>9
  <1> HIDE DEF w
  <1>12. ToolPut(s, o, tool) = s
    BY <1>7, <1>8 DEF ToolPut, ChatStates
  <1>13. ChatFits(s, o, y.seen)
    <2>1. Turned(r.seen, y.seen, tool.at, ToolItem(tool, o <= o)) /\ o <= o
          /\ tool.at = s.tools[o].at
      <3>1. o <= o /\ (o <= o) = TRUE
        OBVIOUS
      <3> QED
        BY <1>7, <1>11, <3>1 DEF new
    <2>2. ChatFits(ToolPut(s, o, tool), o, y.seen)
      BY <1>6, <1>7, <1>8, <2>1, ToolFits
    <2> QED
      BY <1>12, <2>2
  <1>14. StepFits(z, q, o)
    BY <1>5, <1>8, <1>11, <1>13, StepIs
  <1> QED
    BY <1>2, <1>5, <1>14 DEF q, s

ToolNew(s, name) ==
  [s EXCEPT !.tools = Append(@, [at |-> s.next, kind |-> name, type |-> "none", n |-> 0]),
            !.next = @ + 1]

LEMMA ToolIsNew ==
  ASSUME NEW s \in ChatStates, NEW name \in Kinds \cup {"none"}
  PROVE  LET t == ToolNew(s, name)
             x == [at |-> s.next, kind |-> name, type |-> "none", n |-> 0] IN
         /\ t \in ChatStates /\ t.created = s.created /\ t.completed = s.completed
         /\ t.next = s.next + 1 /\ t.finish = s.finish /\ t.reasoning = s.reasoning
         /\ t.reasonAt = s.reasonAt /\ t.messageAt = s.messageAt /\ t.text = s.text
         /\ x \in ChatTools /\ Len(t.tools) = Len(s.tools) + 1 /\ Len(s.tools) \in Nat
         /\ t.tools[Len(s.tools) + 1] = x
         /\ \A j \in 1 .. Len(s.tools) : t.tools[j] = s.tools[j]
  <1> DEFINE t == ToolNew(s, name)
             x == [at |-> s.next, kind |-> name, type |-> "none", n |-> 0]
             w == Append(s.tools, x)
             y == [s EXCEPT !.tools = w]
  <1>1. s.tools \in Seq(ChatTools) /\ s.next \in Nat /\ Len(s.tools) \in Nat
    BY DEF ChatStates
  <1>2. x \in ChatTools
    BY <1>1 DEF ChatTools
  <1> HIDE DEF x
  <1>3. /\ w \in Seq(ChatTools) /\ Len(w) = Len(s.tools) + 1 /\ w[Len(s.tools) + 1] = x
        /\ \A j \in 1 .. Len(s.tools) : w[j] = s.tools[j]
    BY <1>1, <1>2
  <1> HIDE DEF w
  <1>4. PICK m \in Nat : m = s.next + 1
    BY <1>1
  <1>5. y \in ChatStates /\ y.next = s.next
    BY <1>3 DEF ChatStates
  <1>6. t = [y EXCEPT !.next = m]
    BY <1>4 DEF ToolNew, w, x
  <1>7. t = [s EXCEPT !.tools = w, !.next = m]
    BY <1>4 DEF ToolNew, w, x
  <1> HIDE DEF t, y
  <1>8. t \in ChatStates
    BY <1>5, <1>6 DEF ChatStates
  <1>9. /\ t.created = s.created /\ t.completed = s.completed
        /\ t.next = m /\ t.finish = s.finish /\ t.reasoning = s.reasoning
        /\ t.reasonAt = s.reasonAt /\ t.messageAt = s.messageAt /\ t.text = s.text
        /\ t.tools = w
    BY <1>7 DEF ChatStates
  <1> QED
    BY <1>1, <1>2, <1>3, <1>4, <1>8, <1>9 DEF t, x

LEMMA NewToolFits ==
  ASSUME NEW z, NEW p, NEW d \in Int, d < 0, StepFits(z, p, d), Len(p.s.tools) < RspTools,
         NEW name \in Kinds \cup {"none"}
  PROVE  StepFits(z, [s |-> ToolNew(p.s, name), v |-> p.v], d)
  <1> DEFINE s == p.s
             t == ToolNew(s, name)
             k == Len(s.tools) + 1
  <1>1. PICK r : Reached(z, p.v, r) /\ ReadersFit(r) /\ ChatFits(s, d, r.seen)
    BY DEF StepFits
  <1>2. s.created /\ s \in ChatStates /\ ChatRules(s, d) /\ Shows(s, d, r.seen.items)
    BY <1>1 DEF StepFits, ChatFits, ChatRules
  <1>3. s.next \in Items /\ s.next \in Nat /\ Len(s.tools) \in Nat
    BY <1>2, RoomForOneMore
  <1>4. /\ t \in ChatStates /\ t.created = s.created /\ t.completed = s.completed
        /\ t.next = s.next + 1 /\ t.finish = s.finish /\ t.reasoning = s.reasoning
        /\ t.reasonAt = s.reasonAt /\ t.messageAt = s.messageAt /\ t.text = s.text
        /\ Len(t.tools) = k
        /\ t.tools[k] = [at |-> s.next, kind |-> name, type |-> "none", n |-> 0]
        /\ \A j \in 1 .. Len(s.tools) : t.tools[j] = s.tools[j]
    BY <1>2, ToolIsNew
  <1> HIDE DEF t, s
  <1>5. ChatRules(t, d)
    <2>1. Len(t.tools) <= RspTools
      BY <1>3, <1>4, RspAssumption DEF s
    <2>2. t.next = WithReasoning(t) + WithMessage(t) + Len(t.tools)
      <3>1. /\ WithReasoning(t) = WithReasoning(s) /\ WithMessage(t) = WithMessage(s)
            /\ WithReasoning(s) \in Nat /\ WithMessage(s) \in Nat
        BY <1>4 DEF WithReasoning, WithMessage
      <3>2. s.next = WithReasoning(s) + WithMessage(s) + Len(s.tools)
        BY <1>2 DEF ChatRules
      <3> QED
        BY <1>3, <1>4, <3>1, <3>2
    <2>3. ASSUME NEW j \in 1 .. Len(t.tools)
          PROVE  /\ t.tools[j].type # "none" => t.tools[j].type = CallType(t.tools[j].kind)
                 /\ j <= d => t.tools[j].type # "none"
      <3>1. CASE j = k
        BY <1>3, <1>4, <3>1
      <3>2. CASE j # k
        <4>1. j \in 1 .. Len(s.tools) /\ t.tools[j] = s.tools[j]
          BY <1>3, <1>4, <3>2
        <4> QED
          BY <1>2, <4>1 DEF ChatRules
      <3> QED
        BY <3>1, <3>2
    <2> QED
      BY <1>2, <1>4, <2>1, <2>2, <2>3 DEF ChatRules
  <1>6. k \notin Slots(s) /\ Slots(t) = Slots(s) \cup {k} /\ k # -1 /\ k # 0
    BY <1>3, <1>4 DEF Slots
  <1>7. Place(t, k) = s.next /\ ItemOf(t, k, d) = NoItem
    BY <1>4, <1>6 DEF Place, ItemOf, ToolItem
  <1>8. ASSUME NEW j \in Slots(s)
        PROVE  Place(t, j) = Place(s, j) /\ ItemOf(t, j, d) = ItemOf(s, j, d)
    <2>1. j # -1 /\ j # 0 => j \in 1 .. Len(s.tools)
      BY <1>3 DEF Slots
    <2> QED
      BY <1>4, <2>1 DEF Place, ItemOf
  <1>9. Turned(r.seen, r.seen, s.next, ItemOf(t, k, d))
    BY <1>2, <1>3, <1>7 DEF Turned, Shows
  <1>10. ChatFits(t, d, r.seen)
    BY <1>1, <1>3, <1>4, <1>5, <1>6, <1>7, <1>8, <1>9, AdditionFits
  <1> QED
    BY <1>1, <1>2, <1>4, <1>10, StepIs DEF s, t

ToolNamed(s, o, name) == ToolPut(s, o, [s.tools[o] EXCEPT !.kind = name])

LEMMA NamedFits ==
  ASSUME NEW z, NEW p, NEW d \in Int, d < 0, StepFits(z, p, d), NEW o \in 1 .. Len(p.s.tools),
         NEW name \in Kinds, rspUp.special => p.s.tools[o].type = "none"
  PROVE  StepFits(z, [s |-> ToolNamed(p.s, o, name), v |-> p.v], d)
  <1> DEFINE s == p.s
             x == [s.tools[o] EXCEPT !.kind = name]
             t == ToolPut(s, o, x)
  <1>1. PICK r : Reached(z, p.v, r) /\ ReadersFit(r) /\ ChatFits(s, d, r.seen)
    BY DEF StepFits
  <1>2. /\ s.created /\ s \in ChatStates /\ s.tools[o] \in ChatTools
        /\ s.tools[o].type # "none" => s.tools[o].type = CallType(s.tools[o].kind)
        /\ s.tools[o].at \in Items /\ o \in 1 .. Len(s.tools)
        /\ r.seen.items[s.tools[o].at] = ToolItem(s.tools[o], o <= d)
    BY <1>1, ToolTyped DEF StepFits
  <1> HIDE DEF s
  <1>3. /\ x \in ChatTools /\ x.at = s.tools[o].at /\ x.type = s.tools[o].type
        /\ x.n = s.tools[o].n /\ x.kind = name
    BY <1>2 DEF ChatTools
  <1>4. x.type # "none" => x.type = CallType(x.kind)
    BY <1>2, <1>3 DEF CallType, s
  <1>5. ToolItem(x, o <= d) = ToolItem(s.tools[o], o <= d)
    BY <1>3 DEF ToolItem
  <1> HIDE DEF x
  <1>6. Turned(r.seen, r.seen, x.at, ToolItem(x, o <= d))
    BY <1>2, <1>3, <1>5 DEF Turned
  <1>7. o <= d => x.type # "none"
    <2>1. Len(s.tools) \in Nat
      BY <1>2 DEF ChatStates
    <2> QED
      BY <1>2, <2>1
  <1>8. ChatFits(t, d, r.seen) /\ t.created = s.created
    BY <1>1, <1>2, <1>3, <1>4, <1>6, <1>7, ToolFits
  <1> QED
    BY <1>1, <1>2, <1>8, StepIs DEF s, x, ToolNamed

ToolGrown(s, o) == [s EXCEPT !.tools[o].n = @ + 1]

LEMMA PieceFits ==
  ASSUME rspUp.from = "chat", NEW z, NEW p, NEW d \in Int, d < 0, StepFits(z, p, d),
         NEW o \in 1 .. Len(p.s.tools)
  PROVE  LET tool == p.s.tools[o] IN
         StepFits(z, [s |-> ToolGrown(p.s, o),
                      v |-> IF tool.type # "function_call" THEN p.v
                            ELSE Append(p.v, Ev("delta", tool.at, tool.type, tool.kind, 1))], d)
  <1> DEFINE s == p.s
             tool == s.tools[o]
             e == Ev("delta", tool.at, tool.type, tool.kind, 1)
             v == IF tool.type # "function_call" THEN p.v ELSE Append(p.v, e)
  <1>1. PICK r : Reached(z, p.v, r) /\ ReadersFit(r) /\ ChatFits(s, d, r.seen)
    BY DEF StepFits
  <1>2. /\ s.created /\ s \in ChatStates /\ tool \in ChatTools
        /\ tool.type # "none" => tool.type = CallType(tool.kind)
        /\ tool.at \in Items /\ o \in 1 .. Len(s.tools) /\ tool.n \in Nat
        /\ r.seen.items[tool.at] = ToolItem(tool, o <= d)
    BY <1>1, ToolTyped DEF StepFits
  <1>3. (o <= d) = FALSE
    BY <1>2 DEF ChatStates
  <1>4. PICK m \in Nat : m = tool.n + 1
    BY <1>2
  <1> DEFINE x == [tool EXCEPT !.n = m]
             t == ToolPut(s, o, x)
  <1>5. ToolGrown(s, o) = t
    <2> HIDE DEF s
    <2> QED
      BY <1>2, <1>4 DEF ToolGrown, ToolPut, ChatStates
  <1> HIDE DEF s, tool
  <1>6. /\ x \in ChatTools /\ x.at = tool.at /\ x.type = tool.type
        /\ x.n = m /\ x.kind = tool.kind
    BY <1>2 DEF ChatTools
  <1> HIDE DEF x
  <1>7. PICK y : Reached(z, v, y) /\ ReadersFit(y)
                 /\ Turned(r.seen, y.seen, tool.at, ToolItem(x, FALSE))
    <2>1. CASE tool.type = "function_call"
      <3>1. r.seen.items[tool.at]
              = [type |-> "function_call", at |-> "open", part |-> "none", n |-> tool.n]
        BY <1>2, <1>3, <2>1 DEF ToolItem
      <3>2. ToolItem(x, FALSE)
              = [type |-> "function_call", at |-> "open", part |-> "none", n |-> tool.n + 1]
        BY <1>4, <1>6, <2>1 DEF ToolItem
      <3>3. Listens(r.seen) /\ "function_call" \in CallTypes
        BY <1>1, <1>2 DEF ChatFits, Listens, CallTypes
      <3>4. ReadersFit(Reads(r, e)) /\ Turned(r.seen, Reads(r, e).seen, tool.at, ToolItem(x, FALSE))
        BY <1>1, <1>2, <2>1, <3>1, <3>2, <3>3, CallDeltaRead
      <3> HIDE DEF e
      <3>5. Reached(z, Append(p.v, e), Reads(r, e))
        BY <1>1, MoreReached
      <3>6. v = Append(p.v, e)
        BY <2>1
      <3> QED
        BY <3>4, <3>5, <3>6
    <2>2. CASE tool.type # "function_call"
      <3>1. ToolItem(x, FALSE) = ToolItem(tool, FALSE)
        BY <1>6, <2>2 DEF ToolItem
      <3>2. Turned(r.seen, r.seen, tool.at, ToolItem(x, FALSE))
        BY <1>2, <1>3, <3>1 DEF Turned
      <3>3. v = p.v
        BY <2>2
      <3> QED
        BY <1>1, <3>2, <3>3
    <2> QED
      BY <2>1, <2>2
  <1> HIDE DEF v
  <1>8. ChatFits(t, d, y.seen) /\ t.created = s.created
    <2>1. Turned(r.seen, y.seen, x.at, ToolItem(x, o <= d)) /\ x.at = s.tools[o].at
          /\ (x.type # "none" => x.type = CallType(x.kind)) /\ (o <= d => x.type # "none")
      BY <1>2, <1>3, <1>6, <1>7 DEF tool
    <2> QED
      BY <1>1, <1>2, <1>6, <2>1, ToolFits
  <1>9. StepFits(z, [s |-> t, v |-> v], d)
    BY <1>2, <1>7, <1>8, StepIs
  <1>10. [s |-> ToolGrown(s, o), v |-> v] = [s |-> t, v |-> v]
    BY <1>5 DEF x, tool
  <1> HIDE DEF t
  <1>11. StepFits(z, [s |-> ToolGrown(s, o), v |-> v], d)
    BY <1>9, <1>10
  <1> QED
    BY <1>11 DEF v, s, tool, e

-----------------------------------------------------------------------------
(* The steps of a chat, and what the upstream has sent of it               *)

Now == [seen |-> rspSeen, back |-> rspBack, acc |-> rspAcc]
Before == [calls |-> rspCalls, to |-> Now]

LEMMA EmitReaches ==
  ASSUME NEW v, NEW r, Reached(Before, v, r), r \in Readers, Emit(v)
  PROVE  rspCalls' = rspCalls /\ rspSeen' = r.seen /\ rspBack' = r.back /\ rspAcc' = r.acc
         /\ Now' = r
  <1>1. FoldLeft(Passes, Before, v) = [calls |-> rspCalls, to |-> r]
    BY DEF Reached, Before
  <1>2. rspCalls' = rspCalls /\ rspSeen' = r.seen /\ rspBack' = r.back /\ rspAcc' = r.acc
    BY <1>1 DEF Emit, Before, Now
  <1>3. r = [seen |-> r.seen, back |-> r.back, acc |-> r.acc]
    BY DEF Readers
  <1> QED
    BY <1>2, <1>3 DEF Now

LEMMA Continues ==
  ASSUME NEW p, StepFits(Before, p, -1), RspTo(p), rspUp'.special = rspUp.special
  PROVE  /\ ChatFits(rspChat, -1, rspSeen)' /\ ReadersFit(Now)'
         /\ rspChat' = p.s /\ rspCalls' = rspCalls /\ rspAnth' = rspAnth
  <1>1. PICK r : Reached(Before, p.v, r) /\ ReadersFit(r) /\ ChatFits(p.s, -1, r.seen)
    BY DEF StepFits
  <1>2. /\ rspCalls' = rspCalls /\ rspSeen' = r.seen /\ Now' = r
        /\ rspChat' = p.s /\ rspAnth' = rspAnth
    BY <1>1, EmitReaches DEF RspTo, ReadersFit
  <1>3. ReadersFit(Now)'
    BY <1>1, <1>2 DEF ReadersFit, ReadersAgree
  <1>4. ChatFits(rspChat', -1, rspSeen')
    BY <1>1, <1>2
  <1>5. ChatRules(rspChat, -1)'
    <2>1. ChatRules(rspChat', -1)
      BY <1>4 DEF ChatFits
    <2> QED
      BY <2>1 DEF ChatRules, CallType, WithReasoning, WithMessage
  <1>6. ChatFits(rspChat, -1, rspSeen)'
    BY <1>4, <1>5 DEF ChatFits
  <1> QED
    BY <1>2, <1>3, <1>6

\* What does not move while nothing is added: the places, and what a tool was sent.
Steady(s, t) ==
  /\ t.next = s.next /\ t.reasonAt = s.reasonAt /\ t.messageAt = s.messageAt
  /\ (t.reasoning = "none" <=> s.reasoning = "none")
  /\ t.finish = s.finish
  /\ Len(t.tools) = Len(s.tools)
  /\ \A o \in 1 .. Len(s.tools) : /\ t.tools[o].at = s.tools[o].at
                                  /\ t.tools[o].kind = s.tools[o].kind
                                  /\ t.tools[o].n = s.tools[o].n

\* The tools of the converter are those sent.
SameTools(u, s) ==
  /\ Len(u.tools) = Len(s.tools)
  /\ \A o \in 1 .. Len(s.tools) : /\ u.tools[o].kind = s.tools[o].kind
                                  /\ u.tools[o].n = s.tools[o].n

\* The reasoning comes first, then the message, then the tools.
Ranked(s) ==
  /\ s.reasoning # "none" => s.reasonAt = 0
  /\ s.messageAt # Unset => s.messageAt = WithReasoning(s)
  /\ \A o \in 1 .. Len(s.tools) :
       s.tools[o].at = WithReasoning(s) + WithMessage(s) + o - 1

\* A client's own tools wait for their names.
Unforced(s) ==
  rspUp.special => \A o \in 1 .. Len(s.tools) :
                     s.tools[o].kind = "none" => s.tools[o].type = "none"

ChatUps ==
  [from : {"chat"}, special : BOOLEAN, at : {"new", "reasoning", "rest", "ended"},
   last : {"none"}, tools : Seq([kind : Kinds \cup {"none"}, n : Nat]), ordered : BOOLEAN,
   end : {"none", "stop", "length", "tool_calls"}]

ChatTracks(u, s) ==
  /\ u.end = s.finish
  /\ SameTools(u, s)
  /\ u.at = "new" => s.next = 0
  /\ u.at = "reasoning" => /\ s.reasoning = "open" /\ s.messageAt = Unset
                           /\ Len(s.tools) = 0
  /\ u.ordered => Ranked(s)

LEMMA SteadyKeeps ==
  ASSUME NEW s, NEW t, Steady(s, t)
  PROVE  /\ Ranked(s) => Ranked(t)
         /\ \A u : SameTools(u, s) => SameTools(u, t)
         /\ WithReasoning(t) = WithReasoning(s) /\ WithMessage(t) = WithMessage(s)
  <1>1. WithReasoning(t) = WithReasoning(s) /\ WithMessage(t) = WithMessage(s)
    BY DEF Steady, WithReasoning, WithMessage
  <1>2. ASSUME Ranked(s) PROVE Ranked(t)
    BY <1>1, <1>2 DEF Ranked, Steady
  <1>3. ASSUME NEW u, SameTools(u, s) PROVE SameTools(u, t)
    BY <1>3 DEF SameTools, Steady
  <1> QED
    BY <1>1, <1>2, <1>3

LEMMA SteadyTwice ==
  ASSUME NEW s, NEW t, NEW w, Steady(s, t), Steady(t, w)
  PROVE  Steady(s, w)
  BY DEF Steady

LEMMA CreatedSteady ==
  ASSUME NEW s \in ChatStates
  PROVE  LET t == RspCreated(s).s IN
         /\ Steady(s, t) /\ t \in ChatStates /\ t.reasoning = s.reasoning /\ t.text = s.text
         /\ t.tools = s.tools /\ t.created
  <1> DEFINE t == RspCreated(s).s
  <1>1. t = IF s.created THEN s ELSE [s EXCEPT !.created = TRUE]
    BY DEF RspCreated
  <1> HIDE DEF t
  <1>2. /\ t \in ChatStates /\ t.reasoning = s.reasoning /\ t.text = s.text
        /\ t.tools = s.tools /\ t.next = s.next /\ t.reasonAt = s.reasonAt
        /\ t.messageAt = s.messageAt /\ t.finish = s.finish /\ t.created
    BY <1>1 DEF ChatStates
  <1> QED
    BY <1>2 DEF Steady, t

LEMMA ClosedSteady ==
  ASSUME NEW p, p.s \in ChatStates
  PROVE  LET t == ReasoningClosed(p).s IN
         /\ Steady(p.s, t) /\ t \in ChatStates /\ t.text = p.s.text /\ t.tools = p.s.tools
         /\ t.reasoning # "open"
  <1> DEFINE t == ReasoningClosed(p).s
  <1>1. t = IF p.s.reasoning # "open" THEN p.s ELSE [p.s EXCEPT !.reasoning = "done"]
    BY DEF ReasoningClosed
  <1> DEFINE s == p.s
  <1> HIDE DEF t, s
  <1>2. /\ t \in ChatStates /\ t.text = s.text /\ t.tools = s.tools
        /\ t.next = s.next /\ t.reasonAt = s.reasonAt
        /\ t.messageAt = s.messageAt /\ t.finish = s.finish
        /\ t.reasoning = IF s.reasoning # "open" THEN s.reasoning ELSE "done"
    BY <1>1 DEF ChatStates, Places, s
  <1> QED
    BY <1>2 DEF Steady, t, s

LEMMA AnnouncedSteady ==
  ASSUME NEW s \in ChatStates, NEW o \in 1 .. Len(s.tools), NEW t, NEW x,
         ToolAnnounced(s, t, o, x)
  PROVE  /\ Steady(s, t) /\ t \in ChatStates /\ t.text = s.text /\ t.reasoning = s.reasoning
         /\ t.created = s.created
         /\ \A j \in 1 .. Len(s.tools) : t.tools[j] = IF j = o THEN x ELSE s.tools[j]
  <1>1. /\ t \in ChatStates /\ t.created = s.created
        /\ t.next = s.next /\ t.finish = s.finish /\ t.reasoning = s.reasoning
        /\ t.reasonAt = s.reasonAt /\ t.messageAt = s.messageAt /\ t.text = s.text
        /\ Len(t.tools) = Len(s.tools)
        /\ \A j \in 1 .. Len(s.tools) : t.tools[j] = IF j = o THEN x ELSE s.tools[j]
    BY ToolSet DEF ToolAnnounced
  <1> QED
    BY <1>1 DEF Steady, ToolAnnounced

\* While a Chat stream is open.
ChatHolds ==
  /\ rspUp \in ChatUps
  /\ ReadersFit(Now) /\ ChatFits(rspChat, -1, rspSeen)
  /\ ChatTracks(rspUp, rspChat) /\ Unforced(rspChat)

LEMMA ChatStarts ==
  ASSUME ChatHolds
  PROVE  LET p == RspCreated(rspChat) IN
         /\ StepFits(Before, p, -1) /\ rspChat \in ChatStates /\ rspUp.from = "chat"
         /\ p.s \in ChatStates /\ Steady(rspChat, p.s) /\ p.s.reasoning = rspChat.reasoning
         /\ p.s.text = rspChat.text /\ p.s.tools = rspChat.tools
  <1>1. rspChat \in ChatStates /\ rspUp.from = "chat"
    BY DEF ChatHolds, ChatFits, ChatRules, ChatUps
  <1>2. ReadersFit(Now) /\ ChatFits(rspChat, -1, Now.seen)
    BY DEF ChatHolds, Now
  <1>3. StepFits(Before, RspCreated(rspChat), -1)
    BY <1>1, <1>2, CreatedFits DEF Before
  <1> QED
    BY <1>1, <1>3, CreatedSteady

LEMMA OpenedLayout ==
  ASSUME NEW p, p.s \in ChatStates
  PROVE  LET t == ReasoningOpened(p).s IN
         /\ t \in ChatStates /\ t.reasoning # "none" /\ t.finish = p.s.finish
         /\ t.messageAt = p.s.messageAt /\ t.tools = p.s.tools
         /\ p.s.reasoning = "none" => /\ t.reasoning = "open" /\ t.reasonAt = p.s.next
                                      /\ t.next = p.s.next + 1
         /\ p.s.reasoning # "none" => t = p.s
  <1> DEFINE s == p.s
             t == ReasoningOpened(p).s
  <1>1. PICK m \in Nat : m = s.next + 1
    BY DEF ChatStates
  <1>2. t = IF s.reasoning # "none" THEN s
            ELSE [s EXCEPT !.reasoning = "open", !.reasonAt = s.next, !.next = m]
    BY <1>1 DEF ReasoningOpened
  <1> HIDE DEF t, s
  <1>3. s \in ChatStates /\ s.next \in Nat
    BY DEF ChatStates, s
  <1>4. CASE s.reasoning # "none"
    BY <1>2, <1>3, <1>4 DEF t, s
  <1>5. CASE s.reasoning = "none"
    <2>1. /\ t \in ChatStates /\ t.reasoning = "open" /\ t.finish = s.finish
          /\ t.messageAt = s.messageAt /\ t.tools = s.tools /\ t.reasonAt = s.next /\ t.next = m
      BY <1>2, <1>3, <1>5 DEF ChatStates, Places
    <2> QED
      BY <1>1, <1>5, <2>1 DEF t, s
  <1> QED
    BY <1>4, <1>5

LEMMA LayoutStart ==
  ASSUME NEW s, ChatRules(s, -1)
  PROVE  /\ Len(s.tools) \in Nat
         /\ s.next = 0 => s.reasoning = "none" /\ s.messageAt = Unset /\ Len(s.tools) = 0
  <1>1. Len(s.tools) \in Nat
    BY DEF ChatRules, ChatStates
  <1>2. s.next = WithReasoning(s) + WithMessage(s) + Len(s.tools)
    BY DEF ChatRules
  <1>3. /\ WithReasoning(s) \in {0, 1} /\ WithMessage(s) \in {0, 1}
        /\ WithReasoning(s) = 0 => s.reasoning = "none"
        /\ WithMessage(s) = 0 => s.messageAt = Unset
    BY DEF WithReasoning, WithMessage
  <1> QED
    BY <1>1, <1>2, <1>3

LEMMA ReasoningHolds ==
  ASSUME ChatHolds, RspReasoning PROVE ChatHolds'
  <1> DEFINE c == RspCreated(rspChat)
             p == ReasoningOpened(c)
             s == p.s
             e == Ev("delta", s.reasonAt, "reasoning", "none", 0)
             q == [p EXCEPT !.v = Append(@, e)]
  <1>1. /\ StepFits(Before, c, -1) /\ rspChat \in ChatStates /\ rspUp.from = "chat"
        /\ c.s \in ChatStates /\ Steady(rspChat, c.s) /\ c.s.reasoning = rspChat.reasoning
        /\ c.s.tools = rspChat.tools
    BY ChatStarts
  <1>2. RspTo(q) /\ rspUp' = [rspUp EXCEPT !.at = "reasoning"]
        /\ rspUp.at \in {"new", "reasoning"}
    BY DEF RspReasoning, RspAt
  <1>3. /\ s \in ChatStates /\ s.reasoning # "none" /\ s.finish = c.s.finish
        /\ s.messageAt = c.s.messageAt /\ s.tools = c.s.tools
        /\ c.s.reasoning = "none" => /\ s.reasoning = "open" /\ s.reasonAt = c.s.next
                                     /\ s.next = c.s.next + 1
        /\ c.s.reasoning # "none" => s = c.s
    BY <1>1, OpenedLayout
  <1> HIDE DEF c
  <1>4. StepFits(Before, p, -1)
    BY <1>1, ReasoningOpenedFits
  <1>5. /\ rspUp.at = "new" => rspChat.next = 0 /\ rspChat.reasoning = "none"
        /\ rspChat.messageAt = Unset /\ Len(rspChat.tools) = 0
        /\ rspUp.at = "reasoning" => rspChat.reasoning = "open"
    <2>1. ChatRules(rspChat, -1) /\ ChatTracks(rspUp, rspChat)
      BY DEF ChatHolds, ChatFits
    <2> QED
      BY <1>2, <2>1, LayoutStart DEF ChatTracks
  <1>6. s.reasoning = "open" /\ s.messageAt = Unset /\ Len(s.tools) = 0
    BY <1>1, <1>2, <1>3, <1>5 DEF Steady
  <1> HIDE DEF p
  <1>7. PICK r : Reached(Before, p.v, r) /\ ReadersFit(r) /\ ChatFits(s, -1, r.seen)
    BY <1>4 DEF StepFits
  <1>8. PICK y : /\ Reached(Before, Append(p.v, e), y) /\ ReadersFit(y)
                 /\ ChatFits(s, -1, y.seen)
    <2> DEFINE y == Reads(r, e)
               i == s.reasonAt
    <2>1. -1 \in Slots(s) /\ Place(s, -1) = i
      BY <1>3, <1>6 DEF Slots, Place
    <2>2. i \in Items /\ r.seen.items[i] = ItemOf(s, -1, -1)
      BY <1>7, <2>1, PlaceIsItem
    <2>3. ItemOf(s, -1, -1) = [type |-> "reasoning", at |-> "open", part |-> "open", n |-> 0]
      BY <1>6 DEF ItemOf
    <2>4. Listens(r.seen)
      BY <1>4, <1>7 DEF StepFits, ChatFits, Listens
    <2>5. ReadersFit(y) /\ Turned(r.seen, y.seen, i, r.seen.items[i])
      BY <1>7, <2>2, <2>3, <2>4, TextRead
    <2>6. Turned(r.seen, y.seen, Place(s, -1), ItemOf(s, -1, -1))
      BY <2>1, <2>2, <2>5
    <2> HIDE DEF y
    <2>7. ChatFits(s, -1, y.seen)
      <3>1. ChatRules(s, -1)
        BY <1>7 DEF ChatFits
      <3> QED
        BY <1>7, <2>1, <2>6, <3>1, ChangeFits
    <2> QED
      BY <1>1, <1>7, <2>5, <2>7, MoreReached DEF y
  <1>9. q = [s |-> s, v |-> Append(p.v, e)] /\ s.created
    <2>1. p = [s |-> s, v |-> p.v] /\ s.created
      BY <1>4 DEF StepFits
    <2> HIDE DEF s, e
    <2> QED
      BY <2>1
  <1> HIDE DEF s, e
  <1>10. StepFits(Before, q, -1) /\ q.s = s
    <2> DEFINE v == Append(p.v, e)
    <2>1. StepFits(Before, [s |-> s, v |-> v], -1)
      <3> HIDE DEF v
      <3>1. Reached(Before, v, y)
        BY <1>8 DEF v
      <3> QED
        BY <1>8, <1>9, <3>1, StepIs
    <2>2. q = [s |-> s, v |-> v]
      BY <1>9
    <2> HIDE DEF v, q
    <2> QED
      BY <2>1, <2>2
  <1> HIDE DEF q
  <1>11. rspUp \in ChatUps
    BY DEF ChatHolds
  <1>12. rspUp' \in ChatUps /\ rspUp'.special = rspUp.special /\ rspUp'.at = "reasoning"
         /\ rspUp'.tools = rspUp.tools /\ rspUp'.ordered = rspUp.ordered
         /\ rspUp'.end = rspUp.end
    BY <1>2, <1>11 DEF ChatUps
  <1>13. ChatFits(rspChat, -1, rspSeen)' /\ ReadersFit(Now)' /\ rspChat' = s
    BY <1>2, <1>10, <1>12, Continues
  <1>14. ChatTracks(rspUp, rspChat)'
    <2>1. ChatTracks(rspUp, rspChat) /\ Len(rspChat.tools) = 0
      BY <1>1, <1>3, <1>6, <1>13 DEF ChatHolds
    <2>2. rspUp'.ordered => Ranked(rspChat')
      <3>1. CASE rspUp.at = "new"
        BY <1>1, <1>3, <1>5, <1>6, <1>13, <3>1 DEF Ranked, Steady
      <3>2. CASE rspUp.at = "reasoning"
        <4>1. s = c.s
          BY <1>1, <1>3, <1>5, <3>2
        <4> QED
          BY <1>1, <1>12, <1>13, <2>1, <4>1, SteadyKeeps DEF ChatTracks
      <3> QED
        BY <1>2, <3>1, <3>2
    <2>3. Ranked(rspChat') => Ranked(rspChat)'
      BY DEF Ranked, WithReasoning, WithMessage
    <2>4. SameTools(rspUp', rspChat')
      BY <1>6, <1>12, <1>13, <2>1 DEF ChatTracks, SameTools
    <2>5. rspUp'.end = rspChat'.finish
      BY <1>1, <1>3, <1>12, <1>13, <2>1 DEF ChatTracks, Steady
    <2> QED
      BY <1>6, <1>12, <1>13, <2>2, <2>3, <2>4, <2>5 DEF ChatTracks, SameTools
  <1>15. Unforced(rspChat)'
    BY <1>6, <1>13 DEF Unforced
  <1> QED
    BY <1>12, <1>13, <1>14, <1>15 DEF ChatHolds

LEMMA WrittenLayout ==
  ASSUME NEW p, p.s \in ChatStates
  PROVE  LET t == MessageWritten(p).s IN
         /\ t \in ChatStates /\ t.reasoning = p.s.reasoning /\ t.finish = p.s.finish
         /\ t.reasonAt = p.s.reasonAt /\ t.tools = p.s.tools /\ t.text
         /\ p.s.messageAt = Unset => t.messageAt = p.s.next /\ t.next = p.s.next + 1
         /\ p.s.messageAt # Unset => t.messageAt = p.s.messageAt /\ t.next = p.s.next
         /\ t.messageAt # Unset
  <1> DEFINE s == p.s
             t == MessageWritten(p).s
  <1>1. PICK m \in Nat : m = s.next + 1
    BY DEF ChatStates
  <1> DEFINE i == IF s.messageAt = Unset THEN s.next ELSE s.messageAt
             n == IF s.messageAt = Unset THEN m ELSE s.next
  <1>2. t = [s EXCEPT !.messageAt = i, !.text = TRUE, !.next = n]
    BY <1>1 DEF MessageWritten
  <1>3. s \in ChatStates /\ s.next \in Nat /\ i \in Nat /\ n \in Nat /\ i # Unset
    BY <1>1 DEF ChatStates, Unset
  <1> HIDE DEF t, s, i, n
  <1>4. /\ t \in ChatStates /\ t.reasoning = s.reasoning /\ t.finish = s.finish
        /\ t.reasonAt = s.reasonAt /\ t.tools = s.tools /\ t.text
        /\ t.messageAt = i /\ t.next = n
    BY <1>2, <1>3 DEF ChatStates
  <1> QED
    BY <1>1, <1>3, <1>4 DEF i, n, t, s

LEMMA ContentHolds ==
  ASSUME ChatHolds, RspContent PROVE ChatHolds'
  <1> DEFINE c == RspCreated(rspChat)
             b == ReasoningClosed(c)
             p == MessageWritten(b)
             s == p.s
  <1>1. /\ StepFits(Before, c, -1) /\ rspChat \in ChatStates /\ rspUp.from = "chat"
        /\ c.s \in ChatStates /\ Steady(rspChat, c.s) /\ c.s.reasoning = rspChat.reasoning
        /\ c.s.text = rspChat.text /\ c.s.tools = rspChat.tools
    BY ChatStarts
  <1>2. /\ RspTo(p) /\ rspUp.at \in {"new", "reasoning", "rest"}
        /\ rspUp' = [rspUp EXCEPT !.at = "rest",
                                  !.ordered = @ /\ (rspUp.tools = <<>> \/ rspChat.text)]
    BY DEF RspContent, RspAt
  <1> HIDE DEF c
  <1>3. /\ StepFits(Before, b, -1) /\ Steady(c.s, b.s) /\ b.s \in ChatStates
        /\ b.s.text = c.s.text /\ b.s.tools = c.s.tools
    BY <1>1, ReasoningClosedFits, ClosedSteady
  <1> HIDE DEF b
  <1>4. Steady(rspChat, b.s) /\ b.s.tools = rspChat.tools /\ b.s.text = rspChat.text
    BY <1>1, <1>3, SteadyTwice
  <1>5. /\ s \in ChatStates /\ s.reasoning = b.s.reasoning /\ s.finish = b.s.finish
        /\ s.reasonAt = b.s.reasonAt /\ s.tools = b.s.tools /\ s.text
        /\ b.s.messageAt = Unset => s.messageAt = b.s.next /\ s.next = b.s.next + 1
        /\ b.s.messageAt # Unset => s.messageAt = b.s.messageAt /\ s.next = b.s.next
        /\ s.messageAt # Unset
    BY <1>3, WrittenLayout
  <1>6. StepFits(Before, p, -1)
    <2>1. -1 \in Int /\ -1 < 0
      OBVIOUS
    <2> QED
      BY <1>1, <1>3, <2>1, MessageWrittenFits
  <1>7. rspUp \in ChatUps
    BY DEF ChatHolds
  <1>8. rspUp' \in ChatUps /\ rspUp'.special = rspUp.special /\ rspUp'.at = "rest"
        /\ rspUp'.tools = rspUp.tools /\ rspUp'.end = rspUp.end
    BY <1>2, <1>7 DEF ChatUps
  <1>81. ASSUME rspUp'.ordered PROVE rspUp.ordered /\ (rspUp.tools = <<>> \/ rspChat.text)
    BY <1>2, <1>7, <1>81 DEF ChatUps
  <1> HIDE DEF p
  <1>9. ChatFits(rspChat, -1, rspSeen)' /\ ReadersFit(Now)' /\ rspChat' = s
    BY <1>2, <1>6, <1>8, Continues
  <1> HIDE DEF s
  <1>10. ChatTracks(rspUp, rspChat)'
    <2>1. ChatTracks(rspUp, rspChat) /\ ChatRules(rspChat, -1)
      BY DEF ChatHolds, ChatFits
    <2>2. ASSUME rspUp'.ordered PROVE Ranked(rspChat')
      <3>1. Ranked(b.s) /\ WithReasoning(s) = WithReasoning(b.s)
        BY <1>4, <1>5, <1>81, <2>1, <2>2, SteadyKeeps DEF ChatTracks, WithReasoning
      <3>2. CASE b.s.messageAt # Unset
        <4>1. WithMessage(s) = WithMessage(b.s)
          BY <1>5, <3>2 DEF WithMessage
        <4> QED
          BY <1>5, <1>9, <3>1, <3>2, <4>1 DEF Ranked
      <3>3. CASE b.s.messageAt = Unset
        <4>1. rspChat.messageAt = Unset /\ ~rspChat.text
          BY <1>4, <2>1, <3>3 DEF Steady, ChatRules
        <4>2. rspUp.tools = <<>> /\ Len(rspUp.tools) = 0
          BY <1>81, <2>2, <4>1
        <4>3. Len(rspChat.tools) = 0 /\ Len(s.tools) = 0
          BY <1>4, <1>5, <2>1, <4>2 DEF ChatTracks, SameTools
        <4>4. rspChat.next = WithReasoning(rspChat)
          BY <2>1, <4>1, <4>3 DEF ChatRules, WithMessage, WithReasoning
        <4>5. s.messageAt = WithReasoning(s)
          BY <1>4, <1>5, <3>1, <3>3, <4>4, SteadyKeeps DEF Steady
        <4> QED
          BY <1>5, <1>9, <3>1, <4>3, <4>5 DEF Ranked
      <3> QED
        BY <3>2, <3>3
    <2>3. Ranked(rspChat') => Ranked(rspChat)'
      BY DEF Ranked, WithReasoning, WithMessage
    <2>4. SameTools(rspUp', rspChat')
      BY <1>4, <1>5, <1>8, <1>9, <2>1 DEF ChatTracks, SameTools
    <2>5. rspUp'.end = rspChat'.finish
      BY <1>4, <1>5, <1>8, <1>9, <2>1 DEF ChatTracks, Steady
    <2> QED
      BY <1>8, <2>2, <2>3, <2>4, <2>5 DEF ChatTracks, SameTools
  <1>11. Unforced(rspChat)'
    <2>1. Unforced(rspChat)
      BY DEF ChatHolds
    <2> QED
      BY <1>4, <1>5, <1>8, <1>9, <2>1 DEF Unforced
  <1> QED
    BY <1>8, <1>9, <1>10, <1>11 DEF ChatHolds

LEMMA FinishHolds ==
  ASSUME ChatHolds, NEW reason \in {"stop", "length", "tool_calls"}, RspFinish(reason)
  PROVE  ChatHolds'
  <1> DEFINE c == RspCreated(rspChat)
             s == [c.s EXCEPT !.finish = reason]
             p == [c EXCEPT !.s.finish = reason]
  <1>1. /\ StepFits(Before, c, -1) /\ rspChat \in ChatStates /\ rspUp.from = "chat"
        /\ c.s \in ChatStates /\ Steady(rspChat, c.s) /\ c.s.reasoning = rspChat.reasoning
        /\ c.s.text = rspChat.text /\ c.s.tools = rspChat.tools
    BY ChatStarts
  <1>2. RspTo(p) /\ rspUp' = [rspUp EXCEPT !.at = "ended", !.end = reason]
    BY DEF RspFinish
  <1> HIDE DEF c
  <1>3. p = [s |-> s, v |-> c.v]
    <2>1. c = [s |-> c.s, v |-> c.v]
      BY <1>1 DEF StepFits
    <2> QED
      BY <2>1
  <1>4. /\ s \in ChatStates /\ s.next = c.s.next /\ s.reasoning = c.s.reasoning
        /\ s.reasonAt = c.s.reasonAt /\ s.messageAt = c.s.messageAt /\ s.text = c.s.text
        /\ s.tools = c.s.tools /\ s.created = c.s.created /\ s.completed = c.s.completed
        /\ s.finish = reason
    BY <1>1 DEF ChatStates
  <1> HIDE DEF p, s
  <1>5. StepFits(Before, p, -1)
    <2>1. PICK r : Reached(Before, c.v, r) /\ ReadersFit(r) /\ ChatFits(c.s, -1, r.seen)
      BY <1>1 DEF StepFits
    <2>2. ChatFits(s, -1, r.seen)
      <3>1. ChatRules(c.s, -1) /\ Shows(c.s, -1, r.seen.items)
        BY <2>1 DEF ChatFits
      <3>2. ChatRules(s, -1)
        BY <1>4, <3>1 DEF ChatRules, WithReasoning, WithMessage
      <3>3. Shows(s, -1, r.seen.items)
        BY <1>4, <3>1, SameLayout
      <3> QED
        BY <1>4, <2>1, <3>2, <3>3 DEF ChatFits
    <2>3. s.created
      BY <1>1, <1>4 DEF StepFits
    <2> QED
      BY <1>3, <2>1, <2>2, <2>3, StepIs
  <1>6. rspUp \in ChatUps
    BY DEF ChatHolds
  <1>7. rspUp' \in ChatUps /\ rspUp'.special = rspUp.special /\ rspUp'.at = "ended"
        /\ rspUp'.tools = rspUp.tools /\ rspUp'.end = reason
        /\ rspUp'.ordered = rspUp.ordered
    BY <1>2, <1>6 DEF ChatUps
  <1>8. ChatFits(rspChat, -1, rspSeen)' /\ ReadersFit(Now)' /\ rspChat' = s
    <2>1. p.s = s
      BY <1>3
    <2> QED
      BY <1>2, <1>5, <1>7, <2>1, Continues
  <1>9. ChatTracks(rspUp, rspChat)'
    <2>1. ChatTracks(rspUp, rspChat)
      BY DEF ChatHolds
    <2>2. rspUp'.ordered => Ranked(rspChat')
      <3>1. rspUp'.ordered => Ranked(c.s)
        BY <1>1, <1>7, <2>1, SteadyKeeps DEF ChatTracks
      <3> QED
        BY <1>4, <1>8, <3>1 DEF Ranked, WithReasoning, WithMessage
    <2>3. Ranked(rspChat') => Ranked(rspChat)'
      BY DEF Ranked, WithReasoning, WithMessage
    <2>4. SameTools(rspUp', rspChat')
      BY <1>1, <1>4, <1>7, <1>8, <2>1 DEF ChatTracks, SameTools
    <2> QED
      BY <1>4, <1>7, <1>8, <2>2, <2>3, <2>4 DEF ChatTracks, SameTools
  <1>10. Unforced(rspChat)'
    <2>1. Unforced(rspChat)
      BY DEF ChatHolds
    <2> QED
      BY <1>1, <1>4, <1>7, <1>8, <2>1 DEF Unforced
  <1> QED
    BY <1>7, <1>8, <1>9, <1>10 DEF ChatHolds

\* The tools sent, with call o begun or named.
ToolsNamed(tools, o, name) ==
  IF o > Len(tools) THEN Append(tools, [kind |-> name, n |-> 0])
  ELSE [tools EXCEPT ![o].kind = IF name = "none" THEN @ ELSE name]

ToolTaken(o, name) ==
  LET p == RspCreated(rspChat)
      c == ReasoningClosed(p)
  IN IF o > Len(rspChat.tools) THEN [s |-> ToolNew(c.s, name), v |-> c.v]
     ELSE IF name # "none" THEN [s |-> ToolNamed(p.s, o, name), v |-> p.v] ELSE p

TookTool(q, o, tools) ==
  /\ StepFits(Before, q, -1) /\ o \in 1 .. Len(q.s.tools)
  /\ q.s.finish = rspChat.finish
  /\ Ranked(rspChat) => Ranked(q.s)
  /\ Unforced(q.s)
  /\ SameTools([tools |-> tools], q.s)

LEMMA NewToolTaken ==
  ASSUME ChatHolds, NEW o \in 1 .. RspTools, o <= Len(rspUp.tools) + 1,
         NEW name \in Kinds \cup {"none"}, o > Len(rspChat.tools)
  PROVE  TookTool(ToolTaken(o, name), o, ToolsNamed(rspUp.tools, o, name))
  <1> DEFINE p == RspCreated(rspChat)
             c == ReasoningClosed(p)
             t == ToolNew(c.s, name)
             q == [s |-> t, v |-> c.v]
             x == [at |-> c.s.next, kind |-> name, type |-> "none", n |-> 0]
             tools == ToolsNamed(rspUp.tools, o, name)
  <1>1. /\ StepFits(Before, p, -1) /\ rspChat \in ChatStates /\ rspUp.from = "chat"
        /\ p.s \in ChatStates /\ Steady(rspChat, p.s) /\ p.s.tools = rspChat.tools
    BY ChatStarts
  <1>2. q = ToolTaken(o, name)
    BY DEF ToolTaken
  <1> HIDE DEF p
  <1>3. /\ StepFits(Before, c, -1) /\ Steady(p.s, c.s) /\ c.s \in ChatStates
        /\ c.s.tools = p.s.tools
    BY <1>1, ReasoningClosedFits, ClosedSteady
  <1> HIDE DEF c
  <1>4. Steady(rspChat, c.s) /\ c.s.tools = rspChat.tools
    BY <1>1, <1>3, SteadyTwice
  <1>5. /\ Len(rspUp.tools) = Len(rspChat.tools) /\ Len(c.s.tools) \in Nat
        /\ o = Len(c.s.tools) + 1 /\ Len(c.s.tools) < RspTools /\ Len(c.s.tools) = Len(rspUp.tools)
    BY <1>3, <1>4, RspAssumption DEF ChatHolds, ChatTracks, SameTools, ChatStates
  <1>6. StepFits(Before, q, -1)
    <2>1. -1 \in Int /\ -1 < 0
      OBVIOUS
    <2> QED
      BY <1>3, <1>5, <2>1, NewToolFits
  <1>7. /\ t \in ChatStates /\ t.next = c.s.next + 1 /\ t.finish = c.s.finish
        /\ t.reasoning = c.s.reasoning /\ t.reasonAt = c.s.reasonAt
        /\ t.messageAt = c.s.messageAt
        /\ Len(t.tools) = o /\ t.tools[o] = x
        /\ \A j \in 1 .. Len(c.s.tools) : t.tools[j] = c.s.tools[j]
    BY <1>3, <1>5, ToolIsNew
  <1>8. c.s.next = WithReasoning(c.s) + WithMessage(c.s) + Len(c.s.tools)
    BY <1>3 DEF StepFits, ChatFits, ChatRules
  <1> HIDE DEF t
  <1>9. Ranked(rspChat) => Ranked(t)
    <2>1. /\ WithReasoning(t) = WithReasoning(c.s) /\ WithMessage(t) = WithMessage(c.s)
          /\ WithReasoning(c.s) \in Nat /\ WithMessage(c.s) \in Nat
      BY <1>7 DEF WithReasoning, WithMessage
    <2>2. t.tools[o].at = WithReasoning(t) + WithMessage(t) + o - 1
      BY <1>5, <1>7, <1>8, <2>1
    <2>3. Ranked(rspChat) => Ranked(c.s)
      BY <1>4, SteadyKeeps
    <2>4. ASSUME Ranked(c.s), NEW j \in 1 .. Len(t.tools)
          PROVE  t.tools[j].at = WithReasoning(t) + WithMessage(t) + j - 1
      <3>1. CASE j = o
        BY <2>2, <3>1
      <3>2. CASE j # o
        <4>1. j \in 1 .. Len(c.s.tools) /\ t.tools[j] = c.s.tools[j]
          BY <1>5, <1>7, <3>2
        <4> QED
          BY <2>1, <2>4, <4>1 DEF Ranked
      <3> QED
        BY <3>1, <3>2
    <2> QED
      BY <1>7, <2>1, <2>3, <2>4 DEF Ranked
  <1>10. Unforced(t)
    <2>1. Unforced(rspChat)
      BY DEF ChatHolds
    <2>2. ASSUME NEW j \in 1 .. Len(t.tools), rspUp.special, t.tools[j].kind = "none"
          PROVE  t.tools[j].type = "none"
      <3>1. CASE j = o
        BY <1>7, <3>1
      <3>2. CASE j # o
        <4>1. j \in 1 .. Len(c.s.tools) /\ t.tools[j] = c.s.tools[j]
          BY <1>5, <1>7, <3>2
        <4> QED
          BY <1>4, <2>1, <2>2, <4>1 DEF Unforced
      <3> QED
        BY <3>1, <3>2
    <2> QED
      BY <2>2 DEF Unforced
  <1>11. SameTools([tools |-> tools], t)
    <2>1. rspUp.tools \in Seq([kind : Kinds \cup {"none"}, n : Nat])
      BY DEF ChatHolds, ChatUps
    <2>2. tools = Append(rspUp.tools, [kind |-> name, n |-> 0])
      BY <1>5 DEF ToolsNamed
    <2>3. Len(tools) = o /\ tools[o] = [kind |-> name, n |-> 0]
          /\ \A j \in 1 .. Len(c.s.tools) : tools[j] = rspUp.tools[j]
      BY <1>5, <2>1, <2>2
    <2>4. SameTools(rspUp, c.s)
      BY <1>4, SteadyKeeps DEF ChatHolds, ChatTracks
    <2> HIDE DEF tools
    <2>5. ASSUME NEW j \in 1 .. Len(t.tools)
          PROVE  tools[j].kind = t.tools[j].kind /\ tools[j].n = t.tools[j].n
      <3>1. CASE j = o
        BY <1>7, <2>3, <3>1
      <3>2. CASE j # o
        <4>1. j \in 1 .. Len(c.s.tools) /\ t.tools[j] = c.s.tools[j]
          BY <1>5, <1>7, <3>2
        <4> QED
          BY <2>3, <2>4, <4>1 DEF SameTools
      <3> QED
        BY <3>1, <3>2
    <2> QED
      BY <1>7, <2>3, <2>5 DEF SameTools
  <1>12. t.finish = rspChat.finish
    BY <1>4, <1>7 DEF Steady
  <1>13. q.s = t /\ o \in 1 .. Len(t.tools)
    BY <1>7
  <1> HIDE DEF q, tools
  <1>14. TookTool(q, o, tools)
    BY <1>6, <1>9, <1>10, <1>11, <1>12, <1>13 DEF TookTool
  <1> QED
    BY <1>2, <1>14 DEF tools

LEMMA OldToolTaken ==
  ASSUME ChatHolds, NEW o \in 1 .. Len(rspChat.tools), NEW name \in Kinds \cup {"none"},
         rspUp.tools[o].kind = "none" \/ name = "none"
  PROVE  TookTool(ToolTaken(o, name), o, ToolsNamed(rspUp.tools, o, name))
  <1> DEFINE p == RspCreated(rspChat)
             s == p.s
             tools == ToolsNamed(rspUp.tools, o, name)
  <1>1. /\ StepFits(Before, p, -1) /\ rspChat \in ChatStates /\ rspUp.from = "chat"
        /\ s \in ChatStates /\ Steady(rspChat, s) /\ s.tools = rspChat.tools
    BY ChatStarts
  <1>2. (o > Len(rspChat.tools)) = FALSE /\ o \in 1 .. Len(s.tools) /\ Len(s.tools) \in Nat
    BY <1>1 DEF ChatStates
  <1>3. ToolTaken(o, name) = IF name # "none" THEN [s |-> ToolNamed(s, o, name), v |-> p.v]
                             ELSE p
    BY <1>2 DEF ToolTaken
  <1> HIDE DEF p, s
  <1>4. /\ SameTools(rspUp, s) /\ Unforced(s) /\ (Ranked(rspChat) => Ranked(s))
        /\ s.finish = rspChat.finish
    <2>1. Unforced(rspChat) /\ ChatTracks(rspUp, rspChat)
      BY DEF ChatHolds
    <2> QED
      BY <1>1, <2>1, SteadyKeeps DEF Unforced, ChatTracks, Steady
  <1>5. rspUp.tools \in Seq([kind : Kinds \cup {"none"}, n : Nat])
        /\ Len(rspUp.tools) = Len(s.tools) /\ o \in 1 .. Len(rspUp.tools)
    BY <1>2, <1>4 DEF ChatHolds, ChatUps, SameTools
  <1>6. tools = [rspUp.tools EXCEPT ![o].kind = IF name = "none" THEN @ ELSE name]
    BY <1>2, <1>4 DEF ToolsNamed, SameTools, Steady
  <1> HIDE DEF tools
  <1>7. /\ Len(tools) = Len(s.tools)
        /\ \A j \in 1 .. Len(s.tools) :
             tools[j] = IF j = o THEN [rspUp.tools[o] EXCEPT !.kind = IF name = "none" THEN @ ELSE name]
                        ELSE rspUp.tools[j]
    BY <1>5, <1>6
  <1>8. rspUp.tools[o] \in [kind : Kinds \cup {"none"}, n : Nat]
    BY <1>5, ElementOfSeq
  <1>9. CASE name = "none"
    <2>1. SameTools([tools |-> tools], s)
      <3>1. \A j \in 1 .. Len(s.tools) : tools[j].kind = rspUp.tools[j].kind /\ tools[j].n = rspUp.tools[j].n
        BY <1>7, <1>8, <1>9
      <3> QED
        BY <1>4, <1>7, <3>1 DEF SameTools
    <2>2. TookTool(p, o, tools)
      BY <1>1, <1>2, <1>4, <2>1 DEF TookTool, s
    <2> QED
      BY <1>3, <1>9, <2>2 DEF tools
  <1>10. CASE name # "none"
    <2> DEFINE x == [s.tools[o] EXCEPT !.kind = name]
               t == ToolNamed(s, o, name)
               q == [s |-> t, v |-> p.v]
    <2>1. rspUp.tools[o].kind = s.tools[o].kind /\ rspUp.tools[o].n = s.tools[o].n
          /\ s.tools[o].kind = "none"
      BY <1>2, <1>4, <1>10 DEF SameTools
    <2>2. rspUp.special => s.tools[o].type = "none"
      BY <1>2, <1>4, <2>1 DEF Unforced
    <2>3. StepFits(Before, q, -1)
      <3>1. -1 \in Int /\ -1 < 0 /\ name \in Kinds /\ s = p.s
        BY <1>10 DEF s
      <3> QED
        BY <1>1, <1>2, <2>2, <3>1, NamedFits
    <2>4. s.tools[o] \in ChatTools /\ s.tools \in Seq(ChatTools)
      BY <1>1, <1>2, ElementOfSeq DEF ChatStates
    <2>5. x \in ChatTools /\ x.at = s.tools[o].at /\ x.type = s.tools[o].type
          /\ x.n = s.tools[o].n /\ x.kind = name
      BY <1>10, <2>4 DEF ChatTools
    <2> HIDE DEF x
    <2>6. /\ t.next = s.next /\ t.finish = s.finish /\ t.reasoning = s.reasoning
          /\ t.reasonAt = s.reasonAt /\ t.messageAt = s.messageAt
          /\ Len(t.tools) = Len(s.tools)
          /\ \A j \in 1 .. Len(s.tools) : t.tools[j] = IF j = o THEN x ELSE s.tools[j]
      BY <1>1, <1>2, <2>5, ToolSet DEF ToolNamed, x
    <2> HIDE DEF t
    <2>7. Ranked(rspChat) => Ranked(t)
      <3>1. \A j \in 1 .. Len(s.tools) : t.tools[j].at = s.tools[j].at
        BY <2>5, <2>6
      <3> QED
        BY <1>4, <2>6, <3>1 DEF Ranked, WithReasoning, WithMessage
    <2>8. Unforced(t)
      BY <1>4, <1>10, <2>5, <2>6 DEF Unforced
    <2>9. SameTools([tools |-> tools], t)
      <3>1. \A j \in 1 .. Len(s.tools) : /\ tools[j].n = rspUp.tools[j].n
                                         /\ tools[j].kind = IF j = o THEN name ELSE rspUp.tools[j].kind
        BY <1>7, <1>8, <1>10
      <3> QED
        BY <1>2, <1>4, <1>7, <2>5, <2>6, <3>1 DEF SameTools
    <2>10. TookTool(q, o, tools)
      <3>1. q.s = t
        OBVIOUS
      <3> HIDE DEF q
      <3> QED
        BY <1>2, <1>4, <2>3, <2>6, <2>7, <2>8, <2>9, <3>1 DEF TookTool
    <2> QED
      BY <1>3, <1>10, <2>10 DEF tools, t
  <1> QED
    BY <1>9, <1>10

LEMMA AnnouncedInTime ==
  ASSUME rspUp.from = "chat", NEW q, StepFits(Before, q, -1), NEW o \in 1 .. Len(q.s.tools)
  PROVE  LET r == Announced(q, o, FALSE) IN
         /\ StepFits(Before, r, -1) /\ Steady(q.s, r.s) /\ r.s \in ChatStates
         /\ Unforced(q.s) => Unforced(r.s)
  <1>1. PICK b \in BOOLEAN : b = FALSE
    OBVIOUS
  <1> DEFINE r == Announced(q, o, b)
             g == Announced(q, o, FALSE)
  <1>2. q.s \in ChatStates /\ o \in Int /\ -1 < o /\ -1 \in Int
    <2>1. q.s \in ChatStates
      BY DEF StepFits, ChatFits, ChatRules
    <2> QED
      BY <2>1 DEF ChatStates
  <1>3. StepFits(Before, r, -1) /\ AnnouncesTool(q.s, r.s, o, b)
    BY <1>2, AnnouncedFits
  <1>4. r = g
    BY <1>1
  <1> HIDE DEF r, g
  <1>5. PICK x : /\ ToolAnnounced(q.s, r.s, o, x)
                 /\ rspUp.special /\ q.s.tools[o].kind = "none" => x.type = q.s.tools[o].type
    BY <1>1, <1>3 DEF AnnouncesTool
  <1>6. /\ Steady(q.s, r.s) /\ r.s \in ChatStates
        /\ \A j \in 1 .. Len(q.s.tools) : r.s.tools[j] = IF j = o THEN x ELSE q.s.tools[j]
    BY <1>2, <1>5, AnnouncedSteady
  <1>7. ASSUME Unforced(q.s) PROVE Unforced(r.s)
    <2>1. x.kind = q.s.tools[o].kind /\ Len(r.s.tools) = Len(q.s.tools)
      BY <1>5, <1>6 DEF ToolAnnounced, Steady
    <2> QED
      BY <1>5, <1>6, <1>7, <2>1 DEF Unforced
  <1> QED
    BY <1>3, <1>4, <1>6, <1>7 DEF g

LEMMA GrownLayout ==
  ASSUME NEW s \in ChatStates, NEW o \in 1 .. Len(s.tools)
  PROVE  LET t == ToolGrown(s, o) IN
         /\ t.next = s.next /\ t.finish = s.finish /\ t.reasoning = s.reasoning
         /\ t.reasonAt = s.reasonAt /\ t.messageAt = s.messageAt
         /\ Len(t.tools) = Len(s.tools)
         /\ \A j \in 1 .. Len(s.tools) :
              /\ t.tools[j].at = s.tools[j].at /\ t.tools[j].kind = s.tools[j].kind
              /\ t.tools[j].type = s.tools[j].type
              /\ t.tools[j].n = IF j = o THEN s.tools[j].n + 1 ELSE s.tools[j].n
  <1> DEFINE tool == s.tools[o]
             t == ToolGrown(s, o)
  <1>1. tool \in ChatTools /\ tool.n \in Nat /\ s.tools \in Seq(ChatTools)
    <2>1. s.tools \in Seq(ChatTools)
      BY DEF ChatStates
    <2>2. tool \in ChatTools
      BY <2>1, ElementOfSeq
    <2> QED
      BY <2>1, <2>2 DEF ChatTools
  <1>2. PICK m \in Nat : m = tool.n + 1
    BY <1>1
  <1> DEFINE x == [tool EXCEPT !.n = m]
  <1>3. t = ToolPut(s, o, x)
    BY <1>1, <1>2 DEF ToolGrown, ToolPut, ChatStates
  <1> HIDE DEF tool, t
  <1>4. x \in ChatTools /\ x.at = tool.at /\ x.kind = tool.kind /\ x.type = tool.type /\ x.n = m
    BY <1>1 DEF ChatTools
  <1> HIDE DEF x
  <1> QED
    BY <1>2, <1>3, <1>4, ToolSet DEF t, tool

LEMMA ToolHolds ==
  ASSUME ChatHolds, NEW o \in 1 .. RspTools, NEW name \in Kinds \cup {"none"},
         NEW piece \in BOOLEAN, RspTool(o, name, piece)
  PROVE  ChatHolds'
  <1> DEFINE q == ToolTaken(o, name)
             r == Announced(q, o, FALSE)
             tool == r.s.tools[o]
             n == IF piece THEN 1 ELSE 0
             up == IF o > Len(rspChat.tools) THEN Append(rspUp.tools, [kind |-> name, n |-> n])
                   ELSE [rspUp.tools EXCEPT ![o].kind = IF name = "none" THEN @ ELSE name,
                                            ![o].n = @ + n]
             g == [s |-> ToolGrown(r.s, o),
                   v |-> IF tool.type # "function_call" THEN r.v
                         ELSE Append(r.v, Ev("delta", tool.at, tool.type, tool.kind, 1))]
             f == IF ~piece THEN r ELSE g
             s == f.s
             tools == ToolsNamed(rspUp.tools, o, name)
  <1>1. /\ rspUp.from = "chat" /\ o <= Len(rspUp.tools) + 1
        /\ o <= Len(rspChat.tools) => rspUp.tools[o].kind = "none" \/ name = "none"
        /\ rspUp' = [rspUp EXCEPT !.at = "rest", !.tools = up]
        /\ RspTo(f)
    <2>1. Len(rspChat.tools) \in Nat
      BY DEF ChatHolds, ChatFits, ChatRules, ChatStates
    <2>2. /\ rspUp.from = "chat" /\ o <= Len(rspUp.tools) + 1
          /\ ~(o > Len(rspChat.tools)) => rspUp.tools[o].kind = "none" \/ name = "none"
          /\ rspUp' = [rspUp EXCEPT !.at = "rest", !.tools = up]
      BY DEF RspTool, RspAt
    <2>3. RspTo(f)
      <3> HIDE DEF up, n
      <3>1. q = LET new == o > Len(rspChat.tools)
                    p == RspCreated(rspChat)
                    c == ReasoningClosed(p)
                IN IF new THEN [c EXCEPT !.s.tools = Append(@, [at |-> c.s.next, kind |-> name,
                                                                type |-> "none", n |-> 0]),
                                         !.s.next = @ + 1]
                   ELSE IF name # "none" THEN [p EXCEPT !.s.tools[o].kind = name] ELSE p
        <4> DEFINE p == RspCreated(rspChat)
                   c == ReasoningClosed(p)
        <4>1. p = [s |-> p.s, v |-> p.v] /\ p.s \in ChatStates
          BY ChatStarts DEF StepFits
        <4>2. c = [s |-> c.s, v |-> c.v] /\ c.s \in ChatStates
          <5>1. StepFits(Before, c, -1)
            BY ChatStarts, ReasoningClosedFits
          <5> QED
            BY <5>1 DEF StepFits, ChatFits, ChatRules
        <4> HIDE DEF p, c
        <4>3. [s |-> ToolNew(c.s, name), v |-> c.v]
                = [c EXCEPT !.s.tools = Append(@, [at |-> c.s.next, kind |-> name,
                                                    type |-> "none", n |-> 0]),
                            !.s.next = @ + 1]
          <5> DEFINE x == Append(c.s.tools, [at |-> c.s.next, kind |-> name, type |-> "none",
                                             n |-> 0])
                     d == [c.s EXCEPT !.tools = x]
                     e == [c EXCEPT !.s.tools = x]
          <5>1. e = [s |-> d, v |-> c.v]
            <6> HIDE DEF x
            <6> QED
              BY <4>2
          <5>2. [c EXCEPT !.s.tools = x, !.s.next = @ + 1] = [e EXCEPT !.s.next = @ + 1]
            BY <4>2
          <5>3. ToolNew(c.s, name) = [d EXCEPT !.next = @ + 1]
            BY <4>2 DEF ToolNew, ChatStates
          <5> HIDE DEF x, d, e
          <5>4. [e EXCEPT !.s.next = @ + 1] = [s |-> [d EXCEPT !.next = @ + 1], v |-> c.v]
            BY <5>1
          <5>5. [s |-> ToolNew(c.s, name), v |-> c.v] = [c EXCEPT !.s.tools = x, !.s.next = @ + 1]
            BY <5>2, <5>3, <5>4
          <5> QED
            BY <5>5 DEF x
        <4>4. [s |-> ToolNamed(p.s, o, name), v |-> p.v] = [p EXCEPT !.s.tools[o].kind = name]
          BY <4>1 DEF ToolNamed, ToolPut
        <4> QED
          BY <4>3, <4>4 DEF ToolTaken, p, c
      <3> QED
        BY <3>1 DEF RspTool, ToolGrown
    <2> QED
      <3>1. o \in Nat
        BY RspAssumption
      <3> HIDE DEF up, f
      <3> QED
        BY <2>1, <2>2, <2>3, <3>1
  <1>2. Len(rspUp.tools) = Len(rspChat.tools) /\ Len(rspUp.tools) \in Nat
        /\ rspUp.tools \in Seq([kind : Kinds \cup {"none"}, n : Nat]) /\ rspUp \in ChatUps
        /\ o \in Nat
    BY DEF ChatHolds, ChatTracks, SameTools, ChatUps
  <1>3. TookTool(q, o, tools)
    <2>1. CASE o > Len(rspChat.tools)
      BY <1>1, <2>1, NewToolTaken
    <2>2. CASE ~(o > Len(rspChat.tools))
      <3>1. o \in 1 .. Len(rspChat.tools)
        BY <1>2, <2>2
      <3> QED
        BY <1>1, <3>1, OldToolTaken
    <2> QED
      BY <2>1, <2>2
  <1>4. /\ StepFits(Before, q, -1) /\ o \in 1 .. Len(q.s.tools)
        /\ q.s.finish = rspChat.finish /\ (Ranked(rspChat) => Ranked(q.s)) /\ Unforced(q.s)
        /\ SameTools([tools |-> tools], q.s)
    BY <1>3 DEF TookTool
  <1> HIDE DEF q
  <1>5. /\ StepFits(Before, r, -1) /\ Steady(q.s, r.s) /\ r.s \in ChatStates /\ Unforced(r.s)
    BY <1>1, <1>4, AnnouncedInTime
  <1> HIDE DEF r
  <1>6. /\ r.s.finish = rspChat.finish /\ (Ranked(rspChat) => Ranked(r.s))
        /\ SameTools([tools |-> tools], r.s) /\ o \in 1 .. Len(r.s.tools)
    BY <1>4, <1>5, SteadyKeeps DEF Steady
  <1>7. StepFits(Before, f, -1)
    <2>1. StepFits(Before, g, -1)
      <3>1. -1 \in Int /\ -1 < 0
        OBVIOUS
      <3> QED
        BY <1>1, <1>5, <1>6, <3>1, PieceFits
    <2> HIDE DEF g
    <2> QED
      BY <1>5, <2>1
  <1>8. /\ s.finish = rspChat.finish /\ (Ranked(rspChat) => Ranked(s)) /\ Unforced(s)
        /\ Len(s.tools) = Len(r.s.tools)
        /\ \A j \in 1 .. Len(r.s.tools) :
             /\ s.tools[j].kind = r.s.tools[j].kind
             /\ s.tools[j].n = IF j = o /\ piece THEN r.s.tools[j].n + 1 ELSE r.s.tools[j].n
    <2>1. CASE ~piece
      <3>1. s = r.s
        BY <2>1
      <3> HIDE DEF s
      <3> QED
        BY <1>5, <1>6, <2>1, <3>1
    <2>2. CASE piece
      <3> DEFINE t == ToolGrown(r.s, o)
      <3>1. s = t
        BY <2>2
      <3>2. /\ t.next = r.s.next /\ t.finish = r.s.finish /\ t.reasoning = r.s.reasoning
            /\ t.reasonAt = r.s.reasonAt /\ t.messageAt = r.s.messageAt
            /\ Len(t.tools) = Len(r.s.tools)
            /\ \A j \in 1 .. Len(r.s.tools) :
                 /\ t.tools[j].at = r.s.tools[j].at /\ t.tools[j].kind = r.s.tools[j].kind
                 /\ t.tools[j].type = r.s.tools[j].type
                 /\ t.tools[j].n = IF j = o THEN r.s.tools[j].n + 1 ELSE r.s.tools[j].n
        BY <1>5, <1>6, GrownLayout
      <3> HIDE DEF t, s
      <3>3. (Ranked(rspChat) => Ranked(t)) /\ Unforced(t)
        BY <1>5, <1>6, <3>2 DEF Ranked, Unforced, WithReasoning, WithMessage
      <3> QED
        BY <1>6, <2>2, <3>1, <3>2, <3>3
    <2> QED
      BY <2>1, <2>2
  <1> HIDE DEF f, s
  <1>9. SameTools([tools |-> up], s) /\ up \in Seq([kind : Kinds \cup {"none"}, n : Nat])
    <2> DEFINE Sent == [kind : Kinds \cup {"none"}, n : Nat]
    <2>1. /\ up \in Seq(Sent) /\ Len(up) = Len(tools)
          /\ \A j \in 1 .. Len(tools) :
               /\ up[j].kind = tools[j].kind
               /\ up[j].n = IF j = o /\ piece THEN tools[j].n + 1 ELSE tools[j].n
      <3>1. CASE o > Len(rspChat.tools)
        <4> DEFINE l == Len(rspUp.tools)
                   x == [kind |-> name, n |-> n]
                   y == [kind |-> name, n |-> 0]
        <4>1. o = l + 1 /\ up = Append(rspUp.tools, x) /\ tools = Append(rspUp.tools, y)
          BY <1>1, <1>2, <3>1 DEF ToolsNamed
        <4>2. x \in Sent /\ x.kind = name /\ x.n = n /\ y \in Sent /\ y.kind = name /\ y.n = 0
          OBVIOUS
        <4> HIDE DEF up, tools, x, y, Sent
        <4>3. rspUp.tools \in Seq(Sent)
          BY <1>2 DEF Sent
        <4>4. /\ up \in Seq(Sent) /\ Len(up) = l + 1 /\ Len(tools) = l + 1
              /\ up[l + 1] = x /\ tools[l + 1] = y
              /\ \A j \in 1 .. l : up[j] = rspUp.tools[j] /\ tools[j] = rspUp.tools[j]
          BY <4>1, <4>2, <4>3
        <4>5. ASSUME NEW j \in 1 .. Len(tools)
              PROVE  /\ up[j].kind = tools[j].kind
                     /\ up[j].n = IF j = o /\ piece THEN tools[j].n + 1 ELSE tools[j].n
          <5>1. CASE j = l + 1
            BY <4>1, <4>2, <4>4, <5>1
          <5>2. CASE j # l + 1
            <6>1. j \in 1 .. l
              BY <1>2, <4>4, <5>2
            <6> QED
              BY <4>1, <4>4, <5>2, <6>1
          <5> QED
            BY <5>1, <5>2
        <4> QED
          BY <4>4, <4>5
      <3>2. CASE ~(o > Len(rspChat.tools))
        <4> DEFINE k == IF name = "none" THEN rspUp.tools[o].kind ELSE name
        <4>1. /\ up = [rspUp.tools EXCEPT ![o].kind = IF name = "none" THEN @ ELSE name,
                                          ![o].n = @ + n]
              /\ tools = [rspUp.tools EXCEPT ![o].kind = IF name = "none" THEN @ ELSE name]
              /\ o \in 1 .. Len(rspUp.tools)
          BY <1>2, <3>2 DEF ToolsNamed
        <4>2. rspUp.tools[o] \in Sent
          BY <1>2, <4>1, ElementOfSeq
        <4>3. PICK m \in Nat : m = rspUp.tools[o].n + n
          BY <4>2
        <4>4. m = IF piece THEN rspUp.tools[o].n + 1 ELSE rspUp.tools[o].n
          BY <4>2, <4>3
        <4> HIDE DEF up, tools, n
        <4> DEFINE old == rspUp.tools[o]
                   new == [old EXCEPT !.kind = IF name = "none" THEN @ ELSE name]
        <4>51. tools = [rspUp.tools EXCEPT ![o] = new]
          BY <1>2, <4>1
        <4>52. new = [kind |-> k, n |-> old.n]
          BY <4>2
        <4>53. up = [tools EXCEPT ![o].n = @ + n]
          BY <1>2, <4>1
        <4> HIDE DEF new
        <4>5. tools[o] = [kind |-> k, n |-> rspUp.tools[o].n]
          BY <1>2, <4>1, <4>51, <4>52
        <4>54. o \in DOMAIN tools
          BY <1>2, <4>1, <4>51
        <4>6. up[o] = [kind |-> k, n |-> m]
          BY <4>3, <4>5, <4>53, <4>54
        <4>7. /\ Len(up) = Len(rspUp.tools) /\ Len(tools) = Len(rspUp.tools)
              /\ \A j \in 1 .. Len(rspUp.tools) :
                   j # o => up[j] = rspUp.tools[j] /\ tools[j] = rspUp.tools[j]
          BY <1>2, <4>1
        <4>8. k \in Kinds \cup {"none"}
          BY <4>2
        <4>9. up \in Seq(Sent)
          <5> DEFINE y == [tools[o] EXCEPT !.n = @ + n]
          <5>2. up = [tools EXCEPT ![o] = y]
            BY <4>53, <4>54
          <5>3. y = [kind |-> k, n |-> m]
            BY <4>3, <4>5
          <5>4. new \in Sent /\ y \in Sent
            BY <4>2, <4>8, <4>52, <5>3
          <5> HIDE DEF Sent, y
          <5>5. rspUp.tools \in Seq(Sent)
            BY <1>2 DEF Sent
          <5>6. tools \in Seq(Sent) /\ o \in 1 .. Len(tools)
            <6> HIDE DEF new
            <6>1. new \in Sent
              BY <5>4
            <6>2. tools \in Seq(Sent)
              BY <4>1, <4>51, <5>5, <6>1
            <6> QED
              BY <4>1, <4>7, <6>2
          <5> QED
            BY <5>2, <5>4, <5>6
        <4> QED
          BY <4>4, <4>5, <4>6, <4>7, <4>9
      <3> QED
        BY <3>1, <3>2
    <2> HIDE DEF up, tools
    <2> QED
      BY <1>6, <1>8, <2>1 DEF SameTools
  <1> HIDE DEF up
  <1>10. /\ rspUp' \in ChatUps /\ rspUp'.special = rspUp.special /\ rspUp'.at = "rest"
         /\ rspUp'.tools = up /\ rspUp'.end = rspUp.end /\ rspUp'.ordered = rspUp.ordered
    BY <1>1, <1>2, <1>9 DEF ChatUps
  <1>11. ChatFits(rspChat, -1, rspSeen)' /\ ReadersFit(Now)' /\ rspChat' = s
    BY <1>1, <1>7, <1>10, Continues DEF s
  <1>12. ChatTracks(rspUp, rspChat)'
    <2>1. ChatTracks(rspUp, rspChat)
      BY DEF ChatHolds
    <2>2. rspUp'.ordered => Ranked(rspChat')
      BY <1>8, <1>10, <1>11, <2>1 DEF ChatTracks
    <2>3. Ranked(rspChat') => Ranked(rspChat)'
      BY DEF Ranked, WithReasoning, WithMessage
    <2>4. SameTools(rspUp', rspChat')
      BY <1>9, <1>10, <1>11 DEF SameTools
    <2>5. rspUp'.end = rspChat'.finish
      BY <1>8, <1>10, <1>11, <2>1 DEF ChatTracks
    <2> QED
      BY <1>10, <2>2, <2>3, <2>4, <2>5 DEF ChatTracks, SameTools
  <1>13. Unforced(rspChat)'
    BY <1>8, <1>10, <1>11 DEF Unforced
  <1> QED
    BY <1>10, <1>11, <1>12, <1>13 DEF ChatHolds

-----------------------------------------------------------------------------
(* The end of a chat: every item is closed, and the answer lists them      *)

LEMMA MessageClosedFits ==
  ASSUME rspUp.from = "chat", NEW z, NEW p, StepFits(z, p, -1)
  PROVE  StepFits(z, MessageClosed(p), 0) /\ MessageClosed(p).s = p.s
  <1> DEFINE s == p.s
             i == s.messageAt
             e == Ev("part_done", i, "message", "none", 0)
             f == Ev("done", i, "message", "none", 0)
             v == Append(Append(p.v, e), f)
             q == MessageClosed(p)
  <1>1. PICK r : Reached(z, p.v, r) /\ ReadersFit(r) /\ ChatFits(s, -1, r.seen)
    BY DEF StepFits
  <1>2. /\ s.created /\ s \in ChatStates /\ p = [s |-> s, v |-> p.v]
        /\ ChatRules(s, -1) /\ Shows(s, -1, r.seen.items) /\ Len(s.tools) \in Nat
    BY <1>1 DEF StepFits, ChatFits, ChatRules, ChatStates
  <1> HIDE DEF s
  <1>3. ChatRules(s, 0)
    BY <1>2 DEF ChatRules
  <1>4. \A j \in Slots(s) : j # 0 => ItemOf(s, j, 0) = ItemOf(s, j, -1)
    <2>1. ASSUME NEW j \in Slots(s), j # 0, j # -1
          PROVE  (j <= 0) = FALSE /\ (j <= -1) = FALSE
      BY <1>2, <2>1 DEF Slots
    <2> QED
      BY <2>1 DEF ItemOf
  <1>5. CASE i = Unset
    <2>1. q = p
      BY <1>5 DEF MessageClosed, s
    <2>2. \A j \in Slots(s) : ItemOf(s, j, 0) = ItemOf(s, j, -1)
      BY <1>4, <1>5 DEF Slots
    <2>3. ChatFits(s, 0, r.seen)
      BY <1>1, <1>3, <2>2, RestFits
    <2> QED
      BY <1>1, <1>2, <2>1, <2>3 DEF StepFits, s
  <1>6. CASE i # Unset
    <2>1. 0 \in Slots(s) /\ Place(s, 0) = i /\ ItemOf(s, 0, -1) = MessageItem("open")
          /\ ItemOf(s, 0, 0) = MessageItem("done")
      <3>1. 0 \in Slots(s)
        BY <1>2, <1>6 DEF Slots
      <3>2. (-1 >= 0) = FALSE /\ (0 >= 0) = TRUE
        OBVIOUS
      <3> QED
        BY <3>1, <3>2 DEF Place, ItemOf
    <2>2. i \in Items /\ r.seen.items[i] = MessageItem("open")
      BY <1>1, <2>1, PlaceIsItem
    <2> DEFINE y == Reads(Reads(r, e), f)
    <2>3. ReadersFit(y) /\ Turned(r.seen, y.seen, i, MessageItem("done"))
      <3>1. Listens(r.seen)
        BY <1>1, <1>2 DEF ChatFits, Listens
      <3> QED
        BY <1>1, <2>2, <3>1, ClosedRead DEF MessageItem
    <2> HIDE DEF e, f
    <2>4. Reached(z, v, y)
      BY <1>1, MoreReached
    <2> HIDE DEF y
    <2>5. ChatFits(s, 0, y.seen)
      BY <1>1, <1>3, <1>4, <2>1, <2>3, ChangeFits
    <2>6. p.v \o <<e, f>> = v
      BY <1>1, Appends DEF Reached
    <2>7. q = [s |-> s, v |-> v]
      <3>1. q = [p EXCEPT !.v = @ \o <<e, f>>]
        BY <1>6 DEF MessageClosed, e, f, s
      <3> HIDE DEF q, v
      <3>2. [p EXCEPT !.v = v] = [s |-> s, v |-> v]
        BY <1>2
      <3>3. q = [p EXCEPT !.v = v]
        BY <2>6, <3>1
      <3> QED
        BY <3>2, <3>3
    <2> HIDE DEF q, v
    <2>8. StepFits(z, q, 0) /\ q.s = s
      BY <1>2, <2>3, <2>4, <2>5, <2>7, StepIs
    <2> QED
      BY <2>8 DEF q, s
  <1> QED
    BY <1>5, <1>6

LEMMA FallbackFits ==
  ASSUME rspUp.from = "chat", NEW z, NEW p, StepFits(z, p, -1)
  PROVE  LET s == p.s
             t == FallbackMessage(p).s IN
         /\ StepFits(z, FallbackMessage(p), -1)
         /\ t \in ChatStates /\ t.reasoning = s.reasoning /\ t.finish = s.finish
         /\ t.tools = s.tools
         /\ t.messageAt = Unset => t.next = 0 \/ Len(t.tools) # 0
         /\ Ranked(s) => Ranked(t)
  <1> DEFINE s == p.s
             q == FallbackMessage(p)
             w == MessageWritten(p)
             t == q.s
             same == s.messageAt # Unset \/ s.reasoning = "none" \/ s.tools # <<>>
  <1>1. s \in ChatStates /\ ChatRules(s, -1) /\ Len(s.tools) \in Nat /\ s.tools \in Seq(ChatTools)
    BY DEF StepFits, ChatFits, ChatRules, ChatStates
  <1>2. s.next = WithReasoning(s) + WithMessage(s) + Len(s.tools)
    BY <1>1 DEF ChatRules
  <1>3. CASE same
    <2>1. q = p
      BY <1>3 DEF FallbackMessage
    <2>2. s.messageAt = Unset => s.next = 0 \/ Len(s.tools) # 0
      <3>1. CASE s.messageAt = Unset /\ s.reasoning = "none"
        BY <1>1, <1>2, <3>1 DEF WithReasoning, WithMessage
      <3>2. CASE s.tools # <<>>
        BY <1>1, <3>2
      <3> QED
        BY <1>3, <3>1, <3>2
    <2> HIDE DEF q, s
    <2>3. t = s
      BY <2>1 DEF s
    <2> QED
      BY <1>1, <2>1, <2>2, <2>3 DEF q, s
  <1>4. CASE ~same
    <2>1. q = w /\ Len(s.tools) = 0 /\ s.messageAt = Unset
      BY <1>1, <1>4 DEF FallbackMessage
    <2>2. StepFits(z, w, -1)
      <3>1. -1 \in Int /\ -1 < 0
        OBVIOUS
      <3> QED
        BY <3>1, MessageWrittenFits
    <2>3. /\ w.s \in ChatStates /\ w.s.reasoning = s.reasoning /\ w.s.finish = s.finish
          /\ w.s.reasonAt = s.reasonAt /\ w.s.tools = s.tools
          /\ w.s.messageAt = s.next /\ w.s.messageAt # Unset
      BY <1>1, <2>1, WrittenLayout
    <2> HIDE DEF w
    <2>4. Ranked(s) => Ranked(w.s)
      <3>1. WithReasoning(w.s) = WithReasoning(s) /\ s.next = WithReasoning(s)
        BY <1>2, <2>1, <2>3 DEF WithReasoning, WithMessage
      <3> QED
        BY <2>1, <2>3, <3>1 DEF Ranked
    <2> HIDE DEF q
    <2> QED
      BY <2>1, <2>2, <2>3, <2>4 DEF q
  <1> QED
    BY <1>3, <1>4

LEMMA ToolsClosedFit ==
  ASSUME rspUp.from = "chat", NEW z, NEW p, StepFits(z, p, 0)
  PROVE  LET q == FoldLeft(ToolClosed, p, [o \in DOMAIN p.s.tools |-> o]) IN
         /\ StepFits(z, q, Len(p.s.tools)) /\ Steady(p.s, q.s)
         /\ q.s.reasoning = p.s.reasoning /\ q.s \in ChatStates
  <1> DEFINE v == [o \in DOMAIN p.s.tools |-> o]
             n == Len(p.s.tools)
             q == FoldLeft(ToolClosed, p, v)
  <1>1. p.s \in ChatStates /\ n \in Nat /\ DOMAIN v = 1 .. n /\ \A k \in 1 .. n : v[k] = k
    <2>1. p.s \in ChatStates
      BY DEF StepFits, ChatFits, ChatRules
    <2> QED
      BY <2>1 DEF ChatStates
  <1> HIDE DEF v
  <1>2. PICK h : ClosedChain(h, p, v, n) /\ q = h[n]
    BY <1>1, ClosedChainIs
  <1> HIDE DEF q
  <1> DEFINE Done(k) == /\ StepFits(z, h[k], k) /\ Steady(p.s, h[k].s)
                        /\ h[k].s.reasoning = p.s.reasoning /\ h[k].s \in ChatStates
             S == {k \in Nat : k <= n => Done(k)}
  <1>3. 0 \in S
    <2>1. h[0] = p
      BY <1>2 DEF ClosedChain
    <2>2. Steady(p.s, p.s)
      BY DEF Steady
    <2> QED
      BY <1>1, <2>1, <2>2
  <1>4. ASSUME NEW k \in Nat, k \in S PROVE k + 1 \in S
    <2> SUFFICES ASSUME k + 1 <= n PROVE Done(k + 1)
      OBVIOUS
    <2>1. Done(k) /\ k + 1 \in 1 .. n
      BY <1>1, <1>4
    <2> PICK o \in Nat : o = k + 1
      OBVIOUS
    <2>2. h[o] = ToolClosed(h[k], o)
      <3>1. o - 1 = k
        OBVIOUS
      <3> QED
        BY <1>1, <1>2, <2>1, <3>1 DEF ClosedChain
    <2> DEFINE g == h[k]
               w == ToolClosed(g, o)
    <2>3. o \in 1 .. Len(g.s.tools) /\ o - 1 \in Int /\ o \in Int /\ o - 1 = k
      BY <2>1 DEF Steady
    <2>4. StepFits(z, g, o - 1)
      BY <2>1, <2>3
    <2>5. StepFits(z, w, o) /\ \E x : ToolAnnounced(g.s, w.s, o, x) /\ x.type # "none"
      BY <2>3, <2>4, ToolClosedFits
    <2>6. PICK x : ToolAnnounced(g.s, w.s, o, x)
      BY <2>5
    <2>7. Steady(g.s, w.s) /\ w.s \in ChatStates /\ w.s.reasoning = g.s.reasoning
      BY <2>1, <2>3, <2>6, AnnouncedSteady
    <2>8. h[k + 1] = w
      BY <2>2
    <2> HIDE DEF w, g
    <2>9. StepFits(z, w, k + 1)
      BY <2>5
    <2>10. Steady(p.s, w.s) /\ w.s.reasoning = p.s.reasoning
      BY <2>1, <2>7, SteadyTwice DEF g
    <2> QED
      BY <2>7, <2>8, <2>9, <2>10
  <1>5. n \in S
    <2> HIDE DEF S
    <2> QED
      BY <1>1, <1>3, <1>4, NatStepwise
  <1>6. Done(n)
    BY <1>1, <1>5
  <1> QED
    BY <1>2, <1>6 DEF q, v

\* What the client's item says in a list.
Listed(item) == [t |-> item.type, n |-> item.n]

\* The place of an item in the answer.
Rank(s, k) ==
  IF k = -1 THEN 1 ELSE IF k = 0 THEN WithReasoning(s) + 1
  ELSE WithReasoning(s) + WithMessage(s) + k

Joined(z, S, i, j, l, a, b, w) ==
  /\ DOMAIN z = 1 .. i + j + l /\ z \in Seq(S)
  /\ i = 1 => z[1] = a
  /\ j = 1 => z[i + 1] = b
  /\ \A o \in 1 .. l : z[i + j + o] = w[o]

LEMMA ThreeParts ==
  ASSUME NEW S, NEW a \in S, NEW b \in S, NEW w \in Seq(S), NEW l \in Nat, l = Len(w),
         NEW x, x = <<>> \/ x = <<a>>, NEW y, y = <<>> \/ y = <<b>>,
         NEW i \in {0, 1}, i = (IF x = <<>> THEN 0 ELSE 1),
         NEW j \in {0, 1}, j = (IF y = <<>> THEN 0 ELSE 1)
  PROVE  Joined(x \o y \o w, S, i, j, l, a, b, w)
  <1>1. x \in Seq(S) /\ Len(x) = i /\ (i = 1 => x[1] = a)
    <2>1. CASE x = <<>>
      BY <2>1
    <2>2. CASE x = <<a>>
      BY <2>2
    <2> QED
      BY <2>1, <2>2
  <1>2. y \in Seq(S) /\ Len(y) = j /\ (j = 1 => y[1] = b)
    <2>1. CASE y = <<>>
      BY <2>1
    <2>2. CASE y = <<b>>
      BY <2>2
    <2> QED
      BY <2>1, <2>2
  <1> DEFINE u == x \o y
             z == u \o w
  <1>3. u \in Seq(S) /\ Len(u) = i + j /\ (i = 1 => u[1] = a) /\ (j = 1 => u[i + 1] = b)
    <2>0. /\ u \in Seq(S) /\ Len(u) = Len(x) + Len(y)
          /\ \A k \in 1 .. Len(x) + Len(y) :
               u[k] = IF k <= Len(x) THEN x[k] ELSE y[k - Len(x)]
      BY <1>1, <1>2, ConcatProperties
    <2> HIDE DEF u
    <2>1. u \in Seq(S) /\ Len(u) = i + j
      BY <1>1, <1>2, <2>0
    <2>2. i = 1 => u[1] = x[1]
      BY <1>1, <1>2, <2>0
    <2>3. j = 1 => u[i + 1] = y[1]
      BY <1>1, <1>2, <2>0
    <2> QED
      BY <1>1, <1>2, <2>1, <2>2, <2>3
  <1> HIDE DEF u
  <1>4. z \in Seq(S) /\ Len(z) = i + j + l
    BY <1>3
  <1>5. /\ \A o \in 1 .. i + j : z[o] = u[o]
        /\ \A o \in 1 .. l : z[i + j + o] = w[o]
    BY <1>3
  <1>6. DOMAIN z = 1 .. i + j + l
    BY <1>4
  <1>7. (i = 1 => 1 \in 1 .. i + j) /\ (j = 1 => i + 1 \in 1 .. i + j)
    OBVIOUS
  <1> HIDE DEF z
  <1>8. (i = 1 => z[1] = a) /\ (j = 1 => z[i + 1] = b)
    BY <1>3, <1>5, <1>7
  <1> QED
    BY <1>4, <1>5, <1>6, <1>8 DEF z, u, Joined

Whole(s, items) ==
  LET n == Len(s.tools) IN ChatRules(s, n) /\ Shows(s, n, items) /\ s.reasoning # "open"

LEMMA OutputIs ==
  ASSUME NEW s, NEW items, Whole(s, items), s.messageAt = Unset => s.next = 0 \/ Len(s.tools) # 0
  PROVE  LET out == RspOutput(s)
             m == IF s.next = 0 THEN 1 ELSE s.next
             n == Len(s.tools)
         IN
         /\ DOMAIN out = 1 .. m /\ out \in Seq(Entry)
         /\ s.next = 0 => out[1] = [t |-> "message", n |-> 0]
         /\ s.next # 0 => \A k \in Slots(s) : /\ Rank(s, k) \in 1 .. m
                                              /\ out[Rank(s, k)] = Listed(ItemOf(s, k, n))
         /\ s.next # 0 => \A j \in 1 .. m : \E k \in Slots(s) : Rank(s, k) = j
  <1> DEFINE n == Len(s.tools)
             a == [t |-> "reasoning", n |-> 0]
             b == [t |-> "message", n |-> 0]
             x == IF s.reasoning = "none" THEN <<>> ELSE <<a>>
             y == IF s.messageAt = Unset /\ s.tools # <<>> THEN <<>> ELSE <<b>>
             w == [o \in DOMAIN s.tools |-> [t |-> s.tools[o].type, n |-> s.tools[o].n]]
             out == RspOutput(s)
             i == WithReasoning(s)
             j == IF y = <<>> THEN 0 ELSE 1
             m == IF s.next = 0 THEN 1 ELSE s.next
  <1>1. /\ s \in ChatStates /\ n \in Nat /\ s.next = i + WithMessage(s) + n
        /\ \A o \in 1 .. n : s.tools[o].type # "none"
        /\ s.tools \in Seq(ChatTools)
    BY DEF Whole, ChatRules, ChatStates
  <1>2. i \in {0, 1} /\ WithMessage(s) \in {0, 1} /\ i = (IF x = <<>> THEN 0 ELSE 1)
    BY DEF WithReasoning, WithMessage
  <1>3. a \in Entry /\ b \in Entry
    BY DEF Entry, ItemTypes
  <1>4. w \in Seq(Entry) /\ Len(w) = n
        /\ \A o \in 1 .. n : w[o] = [t |-> s.tools[o].type, n |-> s.tools[o].n]
    <2>1. ASSUME NEW o \in 1 .. n
          PROVE  [t |-> s.tools[o].type, n |-> s.tools[o].n] \in Entry
      <3>1. s.tools[o] \in ChatTools
        BY <1>1, ElementOfSeq
      <3> QED
        BY <1>1, <3>1 DEF ChatTools, Entry, ItemTypes
    <2>2. DOMAIN s.tools = 1 .. n
      BY <1>1
    <2> QED
      BY <1>1, <2>1, <2>2
  <1>5. out = x \o y \o w
    BY DEF RspOutput
  <1>6. x = <<>> \/ x = <<a>>
    OBVIOUS
  <1>7. y = <<>> \/ y = <<b>>
    OBVIOUS
  <1> HIDE DEF i
  <1>21. PICK o \in {0, 1} : o = WithMessage(s)
    BY <1>2
  <1>22. PICK l \in Nat : l = n
    BY <1>1
  <1>23. s.next = i + o + l /\ i \in {0, 1}
    BY <1>1, <1>2, <1>21, <1>22
  <1>24. s.next \in Nat /\ (o = 1 => s.next # 0) /\ (s.next = 0 => l = 0 /\ i = 0 /\ o = 0)
    BY <1>23
  <1>8. j \in {0, 1} /\ (s.next # 0 => j = WithMessage(s)) /\ (s.next = 0 => j = 1)
    <2>1. CASE s.messageAt = Unset
      <3>1. WithMessage(s) = 0
        BY <2>1 DEF WithMessage
      <3>2. s.next # 0 => s.tools # <<>>
        BY <1>1, <2>1
      <3>3. s.next = 0 => n = 0
        BY <1>1, <1>2
      <3>4. s.next = 0 => s.tools = <<>>
        BY <1>1, <3>3
      <3> QED
        BY <2>1, <3>1, <3>2, <3>4
    <2>2. CASE s.messageAt # Unset
      <3>1. WithMessage(s) = 1
        BY <2>2 DEF WithMessage
      <3>2. y = <<b>>
        BY <2>2
      <3>3. s.next # 0
        BY <1>21, <1>24, <3>1
      <3> QED
        BY <3>1, <3>2, <3>3
    <2> QED
      BY <2>1, <2>2
  <1>9. j = (IF y = <<>> THEN 0 ELSE 1)
    OBVIOUS
  <1> HIDE DEF x, y, w, a, b, j, out
  <1>10. /\ DOMAIN out = 1 .. i + j + n /\ out \in Seq(Entry)
         /\ i = 1 => out[1] = a
         /\ j = 1 => out[i + 1] = b
         /\ \A q \in 1 .. n : out[i + j + q] = w[q]
    <2> DEFINE z == x \o y \o w
    <2>1. j \in {0, 1} /\ l = Len(w) /\ w \in Seq(Entry) /\ i \in {0, 1}
      BY <1>2, <1>4, <1>8, <1>22
    <2>2. Joined(z, Entry, i, j, l, a, b, w)
      BY <1>2, <1>3, <1>6, <1>7, <1>9, <2>1, ThreeParts
    <2> QED
      BY <1>5, <1>22, <2>2 DEF Joined
  <1>11. i + j + n = m
    <2>1. CASE s.next = 0
      BY <1>8, <1>22, <1>24, <2>1
    <2>2. CASE s.next # 0
      BY <1>8, <1>21, <1>22, <1>23, <2>2
    <2> QED
      BY <2>1, <2>2
  <1>12. ASSUME s.next = 0 PROVE out[1] = b
    <2>1. i = 0 /\ j = 1
      BY <1>1, <1>2, <1>8, <1>12
    <2> QED
      BY <1>10, <2>1
  <1>13. ASSUME s.next # 0, NEW k \in Slots(s)
         PROVE  Rank(s, k) \in 1 .. m /\ out[Rank(s, k)] = Listed(ItemOf(s, k, n))
    <2>1. CASE k = -1
      <3>1. i = 1 /\ Rank(s, k) = 1
        BY <2>1 DEF Slots, WithReasoning, Rank, i
      <3>2. Listed(ItemOf(s, k, n)) = a
        BY <2>1 DEF ItemOf, Listed, a
      <3>3. 1 \in 1 .. m
        BY <1>13, <1>24
      <3> QED
        BY <1>10, <3>1, <3>2, <3>3
    <2>2. CASE k = 0
      <3>1. WithMessage(s) = 1 /\ Rank(s, k) = i + 1
        BY <2>2 DEF Slots, WithMessage, Rank, i
      <3>2. Listed(ItemOf(s, k, n)) = b
        BY <2>2 DEF ItemOf, Listed, b, MessageItem
      <3>3. j = 1 /\ i + 1 \in 1 .. m
        BY <1>8, <1>13, <1>21, <1>23, <1>24, <3>1
      <3> QED
        BY <1>10, <3>1, <3>2, <3>3
    <2>3. CASE k # -1 /\ k # 0
      <3>1. k \in 1 .. n /\ Rank(s, k) = i + j + k
        BY <1>1, <1>8, <1>13, <2>3 DEF Slots, Rank, i
      <3>2. Listed(ItemOf(s, k, n)) = w[k]
        <4>1. (k <= n) = TRUE /\ s.tools[k].type # "none"
          BY <1>1, <3>1
        <4> QED
          BY <1>4, <2>3, <3>1, <4>1 DEF ItemOf, Listed, ToolItem
      <3> QED
        BY <1>1, <1>2, <1>8, <1>10, <1>11, <3>1, <3>2
    <2> QED
      BY <2>1, <2>2, <2>3
  <1>14. ASSUME s.next # 0, NEW r \in 1 .. m PROVE \E k \in Slots(s) : Rank(s, k) = r
    <2>1. CASE i = 1 /\ r = 1
      <3>1. -1 \in Slots(s) /\ Rank(s, -1) = 1
        BY <1>1, <2>1 DEF Slots, Rank, WithReasoning, i
      <3> QED
        BY <2>1, <3>1
    <2>2. CASE j = 1 /\ r = i + 1
      <3>1. 0 \in Slots(s) /\ Rank(s, 0) = i + 1
        BY <1>1, <1>8, <1>14, <2>2 DEF Slots, Rank, WithMessage, i
      <3> QED
        BY <2>2, <3>1
    <2>3. CASE ~(i = 1 /\ r = 1) /\ ~(j = 1 /\ r = i + 1)
      <3> DEFINE k == r - i - j
      <3>1. k \in 1 .. n /\ r = i + j + k
        BY <1>1, <1>2, <1>8, <1>11, <2>3
      <3> HIDE DEF k
      <3>2. k \in Slots(s) /\ Rank(s, k) = r
        BY <1>1, <1>8, <1>14, <3>1 DEF Slots, Rank, i
      <3> QED
        BY <3>2
    <2> QED
      BY <2>1, <2>2, <2>3
  <1> QED
    BY <1>10, <1>11, <1>12, <1>13, <1>14 DEF out, b

LEMMA WholeItems ==
  ASSUME NEW s, NEW items, Whole(s, items)
  PROVE  LET n == Len(s.tools) IN
         /\ s.next \in 0 .. RspTools + RspBlocks + 2 /\ 0 .. s.next - 1 \subseteq Items
         /\ \A i \in Items : items[i].at # "open" /\ (items[i].at # "none" <=> i < s.next)
         /\ \A k \in Slots(s) : /\ Place(s, k) \in 0 .. s.next - 1
                                /\ items[Place(s, k)] = ItemOf(s, k, n)
         /\ \A i \in 0 .. s.next - 1 : \E k \in Slots(s) : Place(s, k) = i
  <1> DEFINE n == Len(s.tools)
  <1>1. /\ s \in ChatStates /\ n \in Nat /\ \A o \in 1 .. n : s.tools[o].type # "none"
        /\ (s.reasoning = "done" \/ s.reasoning = "none")
    BY DEF Whole, ChatRules, ChatStates, Places
  <1>2. Shows(s, n, items)
    BY DEF Whole
  <1>3. s.next \in 0 .. RspTools + RspBlocks + 2 /\ 0 .. s.next - 1 \subseteq Items
    BY <1>2, RspAssumption DEF Shows, Items
  <1>4. ASSUME NEW k \in Slots(s) PROVE ItemOf(s, k, n).at = "done"
    <2>1. CASE k = -1
      BY <1>1, <2>1 DEF Slots, ItemOf
    <2>2. CASE k = 0
      <3>1. (n >= 0) = TRUE
        BY <1>1
      <3> QED
        BY <2>2, <3>1 DEF ItemOf, MessageItem
    <2>3. CASE k # -1 /\ k # 0
      <3>1. k \in 1 .. n /\ (k <= n) = TRUE
        BY <1>1, <2>3 DEF Slots
      <3> QED
        BY <1>1, <2>3, <3>1 DEF ItemOf, ToolItem
    <2> QED
      BY <2>1, <2>2, <2>3
  <1>5. ASSUME NEW i \in Items PROVE items[i].at # "open" /\ (items[i].at # "none" <=> i < s.next)
    <2>1. CASE i < s.next
      <3>1. i \in 0 .. s.next - 1
        BY <1>3, <2>1, RspAssumption DEF Items
      <3>2. PICK k \in Slots(s) : Place(s, k) = i
        BY <1>2, <3>1 DEF Shows
      <3>3. items[i] = ItemOf(s, k, n)
        BY <1>2, <3>2 DEF Shows
      <3> QED
        BY <1>4, <2>1, <3>3
    <2>2. CASE ~(i < s.next)
      <3>1. i >= s.next
        BY <1>3, <2>2, RspAssumption DEF Items
      <3>2. items[i] = NoItem
        BY <1>2, <3>1 DEF Shows
      <3> QED
        BY <2>2, <3>2 DEF NoItem
    <2> QED
      BY <2>1, <2>2
  <1> QED
    BY <1>2, <1>3, <1>5 DEF Shows

LEMMA ListAgrees ==
  ASSUME NEW s, NEW items, Whole(s, items),
         s.messageAt = Unset => s.next = 0 \/ Len(s.tools) # 0
  PROVE  LET out == RspOutput(s)
             shown == [k \in 1 .. s.next |-> Listed(items[k - 1])]
         IN
         /\ s.next = 0 => out = <<[t |-> "message", n |-> 0]>>
         /\ s.next # 0 /\ Ranked(s) => out = shown
         /\ s.next # 0 => ToSet(out) = ToSet(shown) /\ Len(out) = s.next
         /\ out \in Seq(Entry)
  <1> DEFINE out == RspOutput(s)
             n == Len(s.tools)
             m == IF s.next = 0 THEN 1 ELSE s.next
             shown == [k \in 1 .. s.next |-> Listed(items[k - 1])]
  <1>1. /\ DOMAIN out = 1 .. m /\ out \in Seq(Entry)
        /\ s.next = 0 => out[1] = [t |-> "message", n |-> 0]
        /\ s.next # 0 => \A k \in Slots(s) : /\ Rank(s, k) \in 1 .. m
                                             /\ out[Rank(s, k)] = Listed(ItemOf(s, k, n))
        /\ s.next # 0 => \A j \in 1 .. m : \E k \in Slots(s) : Rank(s, k) = j
    BY OutputIs
  <1>2. /\ s.next \in Nat
        /\ \A k \in Slots(s) : /\ Place(s, k) \in 0 .. s.next - 1
                               /\ items[Place(s, k)] = ItemOf(s, k, n)
        /\ \A i \in 0 .. s.next - 1 : \E k \in Slots(s) : Place(s, k) = i
    <2>1. s.next \in 0 .. RspTools + RspBlocks + 2
      BY WholeItems
    <2> QED
      BY <2>1, RspAssumption, WholeItems
  <1> HIDE DEF out
  <1>3. ASSUME s.next = 0 PROVE out = <<[t |-> "message", n |-> 0]>>
    <2>1. DOMAIN out = 1 .. 1 /\ Len(out) = 1
      BY <1>1, <1>3
    <2> QED
      BY <1>1, <1>3, <2>1
  <1>4. ASSUME s.next # 0, Ranked(s) PROVE out = shown
    <2>1. ASSUME NEW j \in 1 .. s.next PROVE out[j] = Listed(items[j - 1])
      <3>1. PICK k \in Slots(s) : Rank(s, k) = j
        BY <1>1, <1>4
      <3>2. Place(s, k) = Rank(s, k) - 1
        <4>1. CASE k = -1
          BY <1>4, <4>1 DEF Place, Rank, Ranked, Slots
        <4>2. CASE k = 0
          <5>1. WithReasoning(s) \in Nat
            BY DEF WithReasoning
          <5> QED
            BY <1>4, <4>2, <5>1 DEF Place, Rank, Ranked, Slots
        <4>3. CASE k # -1 /\ k # 0
          <5>1. n \in Nat
            BY DEF Whole, ChatRules, ChatStates
          <5>2. k \in 1 .. Len(s.tools)
            BY <4>3, <5>1 DEF Slots
          <5>3. WithReasoning(s) \in Nat /\ WithMessage(s) \in Nat
            BY DEF WithReasoning, WithMessage
          <5>4. s.tools[k].at = WithReasoning(s) + WithMessage(s) + k - 1
            BY <1>4, <5>2 DEF Ranked
          <5> QED
            BY <4>3, <5>2, <5>3, <5>4 DEF Place, Rank
        <4> QED
          BY <4>1, <4>2, <4>3
      <3>3. out[j] = Listed(ItemOf(s, k, n))
        BY <1>1, <1>4, <3>1
      <3>4. items[j - 1] = ItemOf(s, k, n)
        BY <1>2, <3>1, <3>2
      <3> QED
        BY <3>3, <3>4
    <2>2. DOMAIN out = 1 .. s.next
      BY <1>1, <1>4
    <2>3. out = [k \in 1 .. s.next |-> out[k]]
      BY <1>1, <2>2
    <2> QED
      BY <2>1, <2>3
  <1>5. ASSUME s.next # 0 PROVE ToSet(out) = ToSet(shown) /\ Len(out) = s.next
    <2>1. DOMAIN out = 1 .. s.next /\ Len(out) = s.next
      BY <1>1, <1>2, <1>5
    <2>2. DOMAIN shown = 1 .. s.next
      OBVIOUS
    <2>3. ASSUME NEW j \in 1 .. s.next PROVE out[j] \in ToSet(shown)
      <3>1. PICK k \in Slots(s) : Rank(s, k) = j
        BY <1>1, <1>5
      <3>2. Place(s, k) \in 0 .. s.next - 1 /\ out[j] = Listed(items[Place(s, k)])
        BY <1>1, <1>2, <1>5, <3>1
      <3>3. PICK i \in 1 .. s.next : i = Place(s, k) + 1
        BY <1>2, <3>2
      <3>4. i - 1 = Place(s, k)
        BY <1>2, <3>2, <3>3
      <3>5. shown[i] = out[j]
        BY <3>2, <3>4
      <3> QED
        BY <2>2, <3>5 DEF ToSet
    <2>4. ASSUME NEW j \in 1 .. s.next PROVE shown[j] \in ToSet(out)
      <3>1. j - 1 \in 0 .. s.next - 1
        BY <1>2
      <3>2. PICK k \in Slots(s) : Place(s, k) = j - 1
        BY <1>2, <3>1
      <3>3. Rank(s, k) \in 1 .. s.next /\ out[Rank(s, k)] = Listed(items[j - 1])
        BY <1>1, <1>2, <1>5, <3>2
      <3> QED
        BY <2>1, <3>3 DEF ToSet
    <2> HIDE DEF shown
    <2> QED
      BY <2>1, <2>2, <2>3, <2>4 DEF ToSet
  <1> QED
    BY <1>1, <1>3, <1>4, <1>5 DEF out

\* The calls of a chat are those the upstream u sent that reach a chat.
SentCalls(u) == {o \in DOMAIN u.tools : ~u.special \/ u.tools[o].kind # "search"}
CallsMatch(tools, u) ==
  /\ Len(tools) = Cardinality(SentCalls(u))
  /\ \A n \in Nat : Cardinality({k \in DOMAIN tools : tools[k] = n})
                      = Cardinality({o \in SentCalls(u) : u.tools[o].n = n})

LEMMA CallsAgree ==
  ASSUME NEW y, ReadersFit(y), ~y.seen.cut, NEW s, Whole(s, y.seen.items),
         NEW u, SameTools(u, s), DOMAIN u.tools = 1 .. Len(s.tools), u.special = rspUp.special
  PROVE  CallsMatch(y.back.tools, u)
  <1> DEFINE m == Len(s.tools)
             sent == SentCalls(u)
             ix == [o \in sent |-> s.tools[o].at]
             pieces == [o \in sent |-> u.tools[o].n]
             items == y.seen.items
  <1>1. /\ m \in Nat /\ s \in ChatStates
        /\ \A o \in 1 .. m : /\ s.tools[o].type # "none"
                             /\ s.tools[o].type = CallType(s.tools[o].kind)
                             /\ u.tools[o].kind = s.tools[o].kind
                             /\ u.tools[o].n = s.tools[o].n
    BY DEF Whole, ChatRules, ChatStates, SameTools
  <1>2. ASSUME NEW o \in 1 .. m
        PROVE  /\ s.tools[o].at \in Items
               /\ items[s.tools[o].at].type = s.tools[o].type
               /\ items[s.tools[o].at].n = s.tools[o].n
               /\ o \in Slots(s) /\ Place(s, o) = s.tools[o].at
    <2>1. o \in Slots(s) /\ Place(s, o) = s.tools[o].at /\ o # -1 /\ o # 0 /\ (o <= m) = TRUE
      BY <1>1 DEF Slots, Place
    <2>2. Place(s, o) \in Items /\ items[Place(s, o)] = ItemOf(s, o, m)
      BY <2>1, WholeItems
    <2>3. ItemOf(s, o, m) = [type |-> s.tools[o].type, at |-> "done",
            part |-> IF s.tools[o].type = "tool_search_call" THEN "none" ELSE "done",
            n |-> s.tools[o].n]
      BY <1>1, <2>1 DEF ItemOf, ToolItem
    <2> HIDE DEF items, m
    <2> QED
      BY <2>1, <2>2, <2>3
  <1>3. \A o \in 1 .. m : o \in sent <=> s.tools[o].type \in ChatCalls
    BY <1>1 DEF CallType, ChatCalls, SentCalls
  <1>4. sent \in SUBSET (1 .. m)
    BY DEF SentCalls
  <1>5. ix \in [sent -> Items]
    BY <1>2, <1>4
  <1>6. \A o, p \in sent : ix[o] = ix[p] => o = p
    <2>1. Shows(s, m, items)
      BY DEF Whole
    <2> QED
      BY <1>2, <1>4, <2>1 DEF Shows
  <1>7. ASSUME NEW i \in Items
        PROVE  items[i].type \in ChatCalls <=> \E o \in sent : ix[o] = i
    <2>1. ASSUME NEW o \in sent, ix[o] = i PROVE items[i].type \in ChatCalls
      BY <1>2, <1>3, <1>4, <2>1
    <2>2. ASSUME items[i].type \in ChatCalls PROVE \E o \in sent : ix[o] = i
      <3>1. Shows(s, m, items)
        BY DEF Whole
      <3>2. i < s.next
        <4>1. ASSUME i >= s.next PROVE FALSE
          <5>1. items[i] = NoItem
            BY <3>1, <4>1 DEF Shows
          <5> QED
            BY <2>2, <5>1 DEF NoItem, ChatCalls
        <4>2. i \in Nat /\ s.next \in Nat
          BY <1>1, RspAssumption DEF Items, ChatStates
        <4> QED
          BY <4>1, <4>2
      <3>3. i \in 0 .. s.next - 1
        BY <1>1, <3>2, RspAssumption DEF Items, ChatStates
      <3>4. PICK k \in Slots(s) : Place(s, k) = i
        BY <3>1, <3>3 DEF Shows
      <3>5. items[i] = ItemOf(s, k, m)
        BY <3>1, <3>4 DEF Shows
      <3>6. k # -1 /\ k # 0
        BY <2>2, <3>5 DEF ItemOf, MessageItem, ChatCalls
      <3>7. k \in 1 .. m
        BY <1>1, <3>4, <3>6 DEF Slots
      <3>8. s.tools[k].at = i /\ s.tools[k].type \in ChatCalls
        BY <1>2, <2>2, <3>4, <3>7
      <3> QED
        BY <1>3, <3>7, <3>8
    <2> QED
      BY <2>1, <2>2
  <1>8. \A o \in sent : items[ix[o]].n = pieces[o]
    BY <1>1, <1>2, <1>4
  <1> HIDE DEF ix, sent, pieces
  <1>9. /\ Len(y.back.tools) = Cardinality(sent)
        /\ \A n \in Nat : Cardinality({k \in DOMAIN y.back.tools : y.back.tools[k] = n})
                            = Cardinality({o \in sent : pieces[o] = n})
    <2>1. PICK l \in Nat : l = m
      BY <1>1
    <2>2. sent \in SUBSET (1 .. l)
      BY <1>4, <2>1
    <2>3. \A i \in Items : y.seen.items[i].type \in ChatCalls <=> \E o \in sent : ix[o] = i
      BY <1>7
    <2>4. \A o \in sent : y.seen.items[ix[o]].n = pieces[o]
      BY <1>8
    <2>5. ItemsSent(y.seen.items, sent, ix, pieces)
      BY <1>6, <2>3, <2>4 DEF ItemsSent
    <2>6. CallsSent(y.back.tools, sent, pieces)
      BY <1>5, <2>2, <2>5, CallsReturn
    <2> QED
      BY <2>6 DEF CallsSent
  <1>10. \A n : {o \in sent : pieces[o] = n} = {o \in sent : u.tools[o].n = n}
    BY DEF pieces
  <1> QED
    BY <1>9, <1>10 DEF sent, CallsMatch

LEMMA FinalItems ==
  ASSUME ChatHolds
  PROVE  LET p == MessageClosed(FallbackMessage(ReasoningClosed(RspCreated(rspChat))))
             q == FoldLeft(ToolClosed, p, [o \in DOMAIN p.s.tools |-> o])
             s == q.s
         IN
         /\ \E r : Reached(Before, q.v, r) /\ ReadersFit(r) /\ Listens(r.seen) /\ ~r.seen.cut
                   /\ Whole(s, r.seen.items)
         /\ s.messageAt = Unset => s.next = 0 \/ Len(s.tools) # 0
         /\ Ranked(rspChat) => Ranked(s)
         /\ SameTools(rspUp, s)
  <1> DEFINE c == RspCreated(rspChat)
             b == ReasoningClosed(c)
             f == FallbackMessage(b)
             p == MessageClosed(f)
             q == FoldLeft(ToolClosed, p, [o \in DOMAIN p.s.tools |-> o])
             s == q.s
  <1>1. /\ StepFits(Before, c, -1) /\ rspUp.from = "chat" /\ c.s \in ChatStates
        /\ Steady(rspChat, c.s)
    BY ChatStarts
  <1> HIDE DEF c
  <1>2. /\ StepFits(Before, b, -1) /\ Steady(c.s, b.s) /\ b.s.reasoning # "open"
    BY <1>1, ReasoningClosedFits, ClosedSteady
  <1> HIDE DEF b
  <1>3. /\ StepFits(Before, f, -1) /\ f.s \in ChatStates /\ f.s.reasoning = b.s.reasoning
        /\ f.s.tools = b.s.tools
        /\ f.s.messageAt = Unset => f.s.next = 0 \/ Len(f.s.tools) # 0
        /\ Ranked(b.s) => Ranked(f.s)
    BY <1>1, <1>2, FallbackFits
  <1> HIDE DEF f
  <1>4. StepFits(Before, p, 0) /\ p.s = f.s
    BY <1>1, <1>3, MessageClosedFits
  <1> HIDE DEF p
  <1>5. /\ StepFits(Before, q, Len(p.s.tools)) /\ Steady(p.s, s)
        /\ s.reasoning = p.s.reasoning
    BY <1>1, <1>4, ToolsClosedFit
  <1> HIDE DEF q
  <1>6. Len(p.s.tools) = Len(s.tools) /\ s.reasoning # "open"
    BY <1>2, <1>3, <1>4, <1>5 DEF Steady
  <1>7. PICK r : Reached(Before, q.v, r) /\ ReadersFit(r) /\ ChatFits(s, Len(s.tools), r.seen)
    BY <1>5, <1>6 DEF StepFits
  <1>8. Listens(r.seen) /\ ~r.seen.cut /\ Whole(s, r.seen.items)
    BY <1>5, <1>6, <1>7 DEF StepFits, ChatFits, Listens, Whole
  <1>9. Ranked(rspChat) => Ranked(s)
    BY <1>1, <1>2, <1>3, <1>4, <1>5, SteadyKeeps
  <1>10. s.messageAt = Unset => s.next = 0 \/ Len(s.tools) # 0
    BY <1>3, <1>4, <1>5 DEF Steady
  <1>11. SameTools(rspUp, s)
    <2>1. SameTools(rspUp, rspChat)
      BY DEF ChatHolds, ChatTracks
    <2>2. SameTools(rspUp, b.s)
      BY <1>1, <1>2, <2>1, SteadyKeeps
    <2>3. SameTools(rspUp, p.s)
      BY <1>3, <1>4, <2>2 DEF SameTools
    <2> QED
      BY <1>5, <2>3, SteadyKeeps
  <1> QED
    BY <1>7, <1>8, <1>9, <1>10, <1>11 DEF q, p, f, b, c

LEMMA EvCompletedIs ==
  ASSUME NEW status, NEW out
  PROVE  LET v == EvCompleted(status, out) IN v.e = "completed" /\ v.t = status /\ v.out = out
  BY DEF EvCompleted

LEMMA FinalizeFits ==
  ASSUME ChatHolds, RspFinalize
  PROVE  ResponsesStreamsFit' /\ ReadersFit(Now)' /\ rspUp' = [rspUp EXCEPT !.at = "closed"]
  <1> DEFINE p == MessageClosed(FallbackMessage(ReasoningClosed(RspCreated(rspChat))))
             q == FoldLeft(ToolClosed, p, [o \in DOMAIN p.s.tools |-> o])
             s == q.s
             status == IF rspChat.finish = "length" THEN "incomplete" ELSE "completed"
             out == RspOutput(s)
             ev == EvCompleted(status, out)
             g == [s |-> [s EXCEPT !.completed = TRUE], v |-> Append(q.v, ev)]
  <1>1. /\ \E r : Reached(Before, q.v, r) /\ ReadersFit(r) /\ Listens(r.seen) /\ ~r.seen.cut
                  /\ Whole(s, r.seen.items)
        /\ s.messageAt = Unset => s.next = 0 \/ Len(s.tools) # 0
        /\ Ranked(rspChat) => Ranked(s)
        /\ SameTools(rspUp, s)
    BY FinalItems
  <1>2. /\ rspUp' = [rspUp EXCEPT !.at = "closed"]
        /\ RspTo(g)
    BY DEF RspFinalize
  <1> HIDE DEF q, p
  <1>3. PICK r : /\ Reached(Before, q.v, r) /\ ReadersFit(r) /\ Listens(r.seen) /\ ~r.seen.cut
                 /\ Whole(s, r.seen.items)
    BY <1>1
  <1>4. Emit(Append(q.v, ev)) /\ rspChat' = [s EXCEPT !.completed = TRUE]
    <2> HIDE DEF ev
    <2> QED
      BY <1>2 DEF RspTo
  <1> DEFINE items == r.seen.items
             shown == [k \in 1 .. s.next |-> Listed(items[k - 1])]
  <1>5. /\ s.next = 0 => out = <<[t |-> "message", n |-> 0]>>
        /\ s.next # 0 /\ Ranked(s) => out = shown
        /\ s.next # 0 => ToSet(out) = ToSet(shown) /\ Len(out) = s.next
        /\ out \in Seq(Entry)
    BY <1>1, <1>3, ListAgrees
  <1> HIDE DEF s
  <1>6. /\ s.next \in 0 .. RspTools + RspBlocks + 2 /\ 0 .. s.next - 1 \subseteq Items
        /\ \A i \in Items : items[i].at # "open" /\ (items[i].at # "none" <=> i < s.next)
    BY <1>3, WholeItems
  <1> HIDE DEF out
  <1> DEFINE y == Reads(r, ev)
             m == Len(out)
             fin == [k \in 1 .. m |-> [t |-> out[k].t, n |-> out[k].n]]
  <1>7. m \in Nat /\ DOMAIN out = 1 .. m /\ \A k \in 1 .. m : out[k] \in Entry
    BY <1>5, ElementOfSeq
  <1>8. fin = out
    <2>1. \A k \in 1 .. m : [t |-> out[k].t, n |-> out[k].n] = out[k]
      BY <1>7 DEF Entry
    <2>2. out = [k \in 1 .. m |-> out[k]]
      BY <1>5, <1>7
    <2> QED
      BY <2>1, <2>2
  <1>9. /\ ReadersFit(y)
        /\ y.seen = [r.seen EXCEPT !.completed = status, !.final = out]
    <2>1. ev.e = "completed" /\ ev.t = status /\ ev.out = out
      BY EvCompletedIs
    <2>2. status \in {"completed", "incomplete"}
      OBVIOUS
    <2>3. \A k \in 1 .. m : ev.out[k].t \in ItemTypes /\ ev.out[k].n \in Nat
      BY <1>7, <2>1 DEF Entry
    <2>4. \A i \in Items : r.seen.items[i].at # "open"
      BY <1>6
    <2> HIDE DEF ev, status
    <2> PICK l \in Nat : l = m
      BY <1>7
    <2>5. ReadersFit(y) /\ Completes(r.seen, y.seen, ev, l)
      BY <1>3, <1>7, <2>1, <2>2, <2>3, <2>4, CompletedRead
    <2>6. [k \in 1 .. l |-> [t |-> ev.out[k].t, n |-> ev.out[k].n]] = fin
      BY <2>1
    <2> HIDE DEF fin, y
    <2> QED
      BY <1>8, <2>1, <2>5, <2>6 DEF Completes
  <1>10. rspUp.from = "chat"
    BY DEF RspFinalize
  <1> HIDE DEF ev
  <1>11. Reached(Before, Append(q.v, ev), y)
    BY <1>3, <1>10, MoreReached
  <1> HIDE DEF y
  <1>12. rspSeen' = y.seen /\ rspBack' = y.back /\ rspAcc' = y.acc /\ Now' = y
    BY <1>4, <1>9, <1>11, EmitReaches DEF ReadersFit
  <1>13. ReadersFit(Now)'
    BY <1>9, <1>12 DEF ReadersFit, ReadersAgree
  <1>14. /\ y.seen.items = items /\ y.seen.final = out /\ y.seen.completed = status
         /\ y.seen.created /\ ~y.seen.cut /\ ~y.seen.astray
    <2>1. r.seen \in Clients /\ ~r.seen.astray
      BY <1>3 DEF ReadersFit, Readers
    <2> HIDE DEF status
    <2> QED
      BY <1>3, <1>9, <2>1 DEF Clients, Listens
  <1>15. ItemsInOrder'
    BY <1>12, <1>14 DEF ItemsInOrder
  <1>16. ItemsEnd'
    BY <1>6, <1>12, <1>14 DEF ItemsEnd, Items
  <1>17. FinalAgrees'
    <2> PICK n \in 0 .. RspTools + RspBlocks + 2 : n = s.next
      BY <1>6
    <2> PICK list : list = [k \in 1 .. n |-> Listed(items[k - 1])]
      OBVIOUS
    <2> PICK final : final = out
      OBVIOUS
    <2>1. Known' = 0 .. n - 1
      <3>1. \A i \in Items : i \in 0 .. n - 1 <=> i < n
        BY <1>6, RspAssumption DEF Items
      <3> QED
        BY <1>6, <1>12, <1>14, <3>1 DEF Known
    <2>2. Streamed(n)' = list
      BY <1>12, <1>14 DEF Streamed, Listed
    <2>3. rspUp'.ordered => Ranked(s)
      <3>1. rspUp'.ordered => rspUp.ordered
        BY <1>2 DEF ChatHolds, ChatUps
      <3> QED
        BY <1>1, <3>1 DEF ChatHolds, ChatTracks
    <2>4. shown = list /\ rspSeen'.final = final
      BY <1>12, <1>14
    <2> HIDE DEF shown
    <2>5. \/ final = list
          \/ n = 0 /\ final = <<[t |-> "message", n |-> 0]>>
          \/ ~rspUp'.ordered /\ ToSet(final) = ToSet(list) /\ Len(final) = n
      BY <1>5, <2>3, <2>4
    <2> QED
      BY <2>1, <2>2, <2>4, <2>5 DEF FinalAgrees
  <1>18. CallsComeBack'
    <2>1. rspUp'.tools = rspUp.tools /\ rspUp'.special = rspUp.special /\ rspUp'.end = rspUp.end
          /\ rspUp.end = rspChat.finish /\ rspUp.end # "max_tokens"
      BY <1>2 DEF ChatHolds, ChatUps, ChatTracks
    <2>2. DOMAIN rspUp.tools = 1 .. Len(s.tools)
      BY <1>1 DEF ChatHolds, ChatUps, SameTools
    <2>3. Whole(s, y.seen.items)
      BY <1>3, <1>14
    <2>4. CallsMatch(y.back.tools, rspUp)
      BY <1>1, <1>9, <1>14, <2>2, <2>3, CallsAgree
    <2>5. /\ y.acc.calls = y.back.tools /\ y.back.finished
          /\ rspUp.end = "length" => y.back.finish = "length"
      BY <1>9, <1>14, <2>1 DEF ReadersFit, ReadersAgree, Readers, Backs
    <2>6. SentCalls(rspUp') = SentCalls(rspUp)
          /\ \A n : {o \in SentCalls(rspUp') : rspUp'.tools[o].n = n}
                     = {o \in SentCalls(rspUp) : rspUp.tools[o].n = n}
      BY <2>1 DEF SentCalls
    <2>7. CallsMatch(y.back.tools, rspUp')
      BY <2>4, <2>6 DEF CallsMatch
    <2>8. 0 .. RspPieces \subseteq Nat
      BY RspAssumption
    <2> QED
      BY <1>12, <2>1, <2>5, <2>7, <2>8 DEF CallsComeBack, CallsMatch, SentCalls
  <1> QED
    BY <1>2, <1>13, <1>15, <1>16, <1>17, <1>18 DEF ResponsesStreamsFit

-----------------------------------------------------------------------------
(* The restorer: of which type the items of the client are, and which calls*)
(* are held back                                                           *)

\* What AnthropicEventToResponsesState can be.
OutTypes == {"reasoning", "message", "function_call"}
AnthOuts == [t : OutTypes, k : Kinds \cup {"none"}, n : Nat]
AnthStates ==
  [created : BOOLEAN, completed : BOOLEAN, index : Nat, type : OutTypes \cup {"none"},
   kind : Kinds \cup {"none"}, args : Nat, outs : Seq(AnthOuts),
   stop : {"none", "end_turn", "max_tokens", "tool_use"}]

\* With sp, the client declared tools of its own: the restorer knows them by the kind.
TypeOf(sp, t, k) == IF sp THEN Restored(t, k) ELSE t
Own(sp, t, k) == sp /\ t = "function_call" /\ k \in {"custom", "search"}

NoCall == [kind |-> "none", n |-> 0]

LEMMA TypeOfIs ==
  ASSUME NEW sp \in BOOLEAN, NEW t \in OutTypes, NEW k \in Kinds \cup {"none"}
  PROVE  /\ TypeOf(sp, t, k) \in ItemTypes
         /\ ~Own(sp, t, k) => TypeOf(sp, t, k) = t
         /\ Own(sp, t, k) /\ k = "custom" => TypeOf(sp, t, k) = "custom_tool_call"
         /\ Own(sp, t, k) /\ k = "search" => TypeOf(sp, t, k) = "tool_search_call"
         /\ Own(sp, t, k) => sp = TRUE /\ t = "function_call" /\ k # "none"
                             /\ (k = "custom" \/ k = "search")
         /\ TypeOf(sp, t, k) \in ChatCalls <=> t = "function_call" /\ (sp => k # "search")
         /\ TypeOf(sp, t, k) = "message" <=> t = "message"
  BY DEF TypeOf, Own, Restored, OutTypes, Kinds, ItemTypes, CallTypes, ChatCalls

\* The restorer lets an event pass as it is.
LEMMA PassesAsIs ==
  ASSUME NEW z, NEW calls, NEW to, z = [calls |-> calls, to |-> to],
         NEW e \in {"created", "added", "part", "delta", "part_done", "done"},
         NEW i, NEW t, NEW k, NEW n,
         e \in {"added", "done"} => ~Own(rspUp.special, t, k),
         e \in {"delta", "part_done"} => t # "function_call" \/ calls[i].kind = "none"
  PROVE  Passes(z, Ev(e, i, t, k, n)) = [calls |-> calls, to |-> Reads(to, Ev(e, i, t, k, n))]
  <1> DEFINE v == Ev(e, i, t, k, n)
             w == [calls |-> calls, to |-> Reads(to, v)]
  <1>1. v.e = e /\ v.i = i /\ v.t = t /\ v.k = k /\ v.n = n
    BY Event
  <1> HIDE DEF v
  <1>2. [z EXCEPT !.to = Reads(@, v)] = w /\ z.calls = calls
    BY DEF v
  <1>3. CASE ~rspUp.special
    BY <1>2, <1>3 DEF Passes, v
  <1>4. CASE rspUp.special
    <2>1. e \in {"added", "done"} => Restored(v.t, v.k) = v.t
      BY <1>1, <1>4 DEF Own, Restored
    <2>2. e \in {"delta", "part_done"} => ~(v.t = "function_call" /\ z.calls[v.i].kind # "none")
      BY <1>1, <1>2
    <2>3. RestoreStep(z, v) = [z EXCEPT !.to = Reads(@, v)]
      BY <1>1, <2>1, <2>2 DEF RestoreStep
    <2> QED
      BY <1>2, <2>3 DEF Passes, v
  <1> QED
    BY <1>3, <1>4

\* It turns a call of such a tool into one of its type.
LEMMA PassesAdded ==
  ASSUME rspUp.from = "anthropic", NEW z, NEW calls, NEW to, z = [calls |-> calls, to |-> to],
         NEW i, NEW t, NEW k, Own(rspUp.special, t, k)
  PROVE  Passes(z, Ev("added", i, t, k, 0))
           = [calls |-> [calls EXCEPT ![i] = [kind |-> k, n |-> 0]],
              to |-> Reads(to, Ev("added", i, TypeOf(rspUp.special, t, k), k, 0))]
  <1> DEFINE v == Ev("added", i, t, k, 0)
             type == TypeOf(rspUp.special, t, k)
             w == Ev("added", i, type, k, 0)
  <1>1. v.e = "added" /\ v.i = i /\ v.t = t /\ v.k = k /\ v.n = 0
    BY Event
  <1>2. [v EXCEPT !.t = type] = w
    BY DEF Ev
  <1>3. rspUp.special /\ type = Restored(t, k) /\ type # t
    BY DEF Own, TypeOf, Restored
  <1> HIDE DEF v, w, type
  <1>4. RestoreStep(z, v) = [calls |-> [z.calls EXCEPT ![i] = [kind |-> k, n |-> 0]],
                             to |-> Reads(z.to, w)]
    BY <1>1, <1>2, <1>3 DEF RestoreStep
  <1>5. z.calls = calls /\ z.to = to
    OBVIOUS
  <1>6. RestoreStep(z, v) = [calls |-> [calls EXCEPT ![i] = [kind |-> k, n |-> 0]],
                             to |-> Reads(to, w)]
    BY <1>4, <1>5
  <1> QED
    BY <1>3, <1>6 DEF Passes, v, w, type

CallMore(calls, i, n) == [calls EXCEPT ![i].n = @ + n]

LEMMA PassesDelta ==
  ASSUME rspUp.from = "anthropic", rspUp.special, NEW z, NEW calls, NEW to,
         z = [calls |-> calls, to |-> to], NEW i, NEW k, calls[i].kind # "none", NEW n
  PROVE  Passes(z, Ev("delta", i, "function_call", k, n))
           = [calls |-> CallMore(calls, i, n), to |-> to]
  <1> DEFINE v == Ev("delta", i, "function_call", k, n)
  <1>1. v.e = "delta" /\ v.i = i /\ v.t = "function_call" /\ v.k = k /\ v.n = n
    BY Event
  <1> HIDE DEF v
  <1>2. z.calls = calls /\ z.to = to
    OBVIOUS
  <1>3. RestoreStep(z, v) = [z EXCEPT !.calls[i].n = @ + n]
    BY <1>1, <1>2 DEF RestoreStep
  <1>4. [z EXCEPT !.calls[i].n = @ + n] = [calls |-> CallMore(calls, i, n), to |-> to]
    BY DEF CallMore
  <1> QED
    BY <1>3, <1>4 DEF Passes, v

LEMMA PassesPartDone ==
  ASSUME rspUp.from = "anthropic", rspUp.special, NEW z, NEW calls, NEW to,
         z = [calls |-> calls, to |-> to], NEW i, NEW k, calls[i].kind # "none",
         calls = [calls EXCEPT ![i].n = calls[i].n]
  PROVE  Passes(z, Ev("part_done", i, "function_call", k, 0))
           = [calls |-> calls,
              to |-> IF calls[i].kind = "search" THEN to
                     ELSE Reads(IF calls[i].n > 0
                                THEN Reads(to, Ev("delta", i, "custom_tool_call", k, calls[i].n))
                                ELSE to,
                                Ev("part_done", i, "custom_tool_call", k, calls[i].n))]
  <1> DEFINE v == Ev("part_done", i, "function_call", k, 0)
             input == Ev("delta", i, "custom_tool_call", k, calls[i].n)
             ended == Ev("part_done", i, "custom_tool_call", k, calls[i].n)
             w == IF calls[i].kind = "search" THEN to
                  ELSE Reads(IF calls[i].n > 0 THEN Reads(to, input) ELSE to, ended)
  <1>1. v.e = "part_done" /\ v.i = i /\ v.t = "function_call" /\ v.k = k /\ v.n = 0
    BY Event
  <1> HIDE DEF v
  <1>2. z.calls = calls /\ z.to = to /\ ~(v.n > 0)
    BY <1>1
  <1> HIDE DEF input, ended
  <1>3. RestoreStep(z, v) = [calls |-> [calls EXCEPT ![i].n = calls[i].n], to |-> w]
    BY <1>1, <1>2 DEF RestoreStep, input, ended
  <1> HIDE DEF w
  <1>4. RestoreStep(z, v) = [calls |-> calls, to |-> w]
    BY <1>3
  <1> QED
    BY <1>4 DEF Passes, v, w, input, ended

CallGone(calls, i) == [calls EXCEPT ![i] = NoCall]

LEMMA PassesDone ==
  ASSUME rspUp.from = "anthropic", NEW z, NEW calls, NEW to, z = [calls |-> calls, to |-> to],
         NEW i, NEW t, NEW k, Own(rspUp.special, t, k), NEW n \in Nat, calls[i].n = n
  PROVE  Passes(z, Ev("done", i, t, k, n))
           = [calls |-> CallGone(calls, i),
              to |-> Reads(to, Ev("done", i, TypeOf(rspUp.special, t, k), k, n))]
  <1> DEFINE v == Ev("done", i, t, k, n)
             type == TypeOf(rspUp.special, t, k)
             w == Ev("done", i, type, k, n)
             m == IF v.n > 0 THEN v.n ELSE calls[i].n
  <1>1. v.e = "done" /\ v.i = i /\ v.t = t /\ v.k = k /\ v.n = n
    BY Event
  <1>2. m = n
    BY <1>1
  <1>3. [v EXCEPT !.t = type, !.n = n] = w
    <2> DEFINE y == [v EXCEPT !.t = type]
    <2>1. y = w
      BY DEF Ev
    <2>2. [w EXCEPT !.n = n] = w
      BY DEF Ev
    <2>3. [v EXCEPT !.t = type, !.n = n] = [y EXCEPT !.n = n]
      OBVIOUS
    <2> HIDE DEF y, w
    <2> QED
      BY <2>1, <2>2, <2>3
  <1>4. rspUp.special /\ type = Restored(t, k) /\ type # t
    BY DEF Own, TypeOf, Restored
  <1> HIDE DEF v, w, type
  <1>5. z.calls = calls /\ z.to = to
    OBVIOUS
  <1>6. RestoreStep(z, v) = [calls |-> CallGone(calls, i),
                             to |-> Reads(to, [v EXCEPT !.t = type, !.n = m])]
    BY <1>1, <1>4, <1>5 DEF RestoreStep, NoCall, CallGone
  <1> HIDE DEF m
  <1>7. RestoreStep(z, v) = [calls |-> CallGone(calls, i), to |-> Reads(to, w)]
    BY <1>2, <1>3, <1>6
  <1> QED
    BY <1>4, <1>7 DEF Passes, v, w, type

-----------------------------------------------------------------------------
(* The converter of an Anthropic message: one item is open, the rest done  *)

\* The rules the converter of an Anthropic stream keeps.
AnthRules(s) ==
  /\ s \in AnthStates
  /\ ~s.completed
  /\ s.index = Len(s.outs) /\ s.index <= RspBlocks
  /\ s.type # "none" => s.index < RspBlocks
  /\ s.type # "function_call" => s.args = 0 /\ s.kind = "none"
  /\ s.type = "function_call" => s.kind \in Kinds

\* The open item, its part at pr: the client gets the input of a custom call with the
\* end of the block, and that of a search with the end of the item.
OpenItem(sp, s, pr) ==
  LET own == Own(sp, s.type, s.kind) IN
  [type |-> TypeOf(sp, s.type, s.kind), at |-> "open",
   part |-> IF own /\ s.kind = "search" THEN "none" ELSE pr,
   n |-> IF own /\ (s.kind = "search" \/ pr # "done") THEN 0 ELSE s.args]

AnthShows(sp, s, pr, items) ==
  /\ \A i \in 0 .. s.index - 1 :
       /\ items[i].type = TypeOf(sp, s.outs[i + 1].t, s.outs[i + 1].k)
       /\ items[i].at = "done" /\ items[i].n = s.outs[i + 1].n
  /\ s.type # "none" => items[s.index] = OpenItem(sp, s, pr)
  /\ \A i \in Items : i > s.index \/ (i = s.index /\ s.type = "none") => items[i] = NoItem

\* The restorer holds the call that is open.
CallsOpen(sp, s) ==
  [i \in Items |-> IF i = s.index /\ Own(sp, s.type, s.kind)
                   THEN [kind |-> s.kind, n |-> s.args] ELSE NoCall]

AnthFits(sp, s, pr, z) ==
  /\ z = [calls |-> z.calls, to |-> z.to]
  /\ AnthRules(s) /\ ReadersFit(z.to)
  /\ z.to.seen.created = s.created /\ z.to.seen.completed = "none"
  /\ AnthShows(sp, s, pr, z.to.seen.items)
  /\ z.calls = CallsOpen(sp, s)

LEMMA AnthIndex ==
  ASSUME NEW s, AnthRules(s)
  PROVE  s.index \in Items /\ s.index \in Nat /\ 0 .. s.index - 1 \subseteq Items
         /\ s.index + 1 \in Items
  BY RspAssumption DEF AnthRules, AnthStates, Items

\* The item at the index turns into that of t, its part at new.
AnthTurns(sp, s, z, t, new, to) ==
  /\ AnthRules(t) /\ t.index = s.index /\ t.outs = s.outs
  /\ t.created = s.created /\ t.type # "none"
  /\ ReadersFit(to) /\ Turned(z.to.seen, to.seen, s.index, OpenItem(sp, t, new))

LEMMA TurnFits ==
  ASSUME NEW sp, NEW s, NEW pr, NEW z, AnthFits(sp, s, pr, z),
         NEW t, NEW new, NEW to, AnthTurns(sp, s, z, t, new, to),
         NEW y, y = [calls |-> CallsOpen(sp, t), to |-> to]
  PROVE  AnthFits(sp, t, new, y) /\ y.to.seen.cut = z.to.seen.cut
  <1>0. /\ AnthRules(t) /\ t.index = s.index /\ t.outs = s.outs
        /\ t.created = s.created /\ t.type # "none"
        /\ ReadersFit(to) /\ Turned(z.to.seen, to.seen, s.index, OpenItem(sp, t, new))
    BY DEF AnthTurns
  <1>1. s.index \in Items /\ s.index \in Nat /\ 0 .. s.index - 1 \subseteq Items
    BY AnthIndex DEF AnthFits
  <1>2. AnthShows(sp, t, new, to.seen.items)
    BY <1>0, <1>1 DEF AnthFits, AnthShows, Turned
  <1>3. to.seen.created = t.created /\ to.seen.completed = "none" /\ to.seen.cut = z.to.seen.cut
    BY <1>0 DEF AnthFits, Turned
  <1>4. y.calls = CallsOpen(sp, t) /\ y.to = to
    OBVIOUS
  <1> QED
    BY <1>0, <1>2, <1>3, <1>4 DEF AnthFits

AnthAdded(s, item, kind) == [s EXCEPT !.type = item, !.kind = kind]

LEMMA AddedFits ==
  ASSUME rspUp.from = "anthropic", rspUp.special \in BOOLEAN,
         NEW s, NEW pr, NEW z, AnthFits(rspUp.special, s, pr, z), s.created,
         s.type = "none", s.index < RspBlocks, NEW item \in OutTypes,
         NEW kind \in Kinds \cup {"none"}, item = "function_call" <=> kind # "none"
  PROVE  LET t == AnthAdded(s, item, kind)
             y == Passes(z, Ev("added", s.index, item, kind, 0))
         IN AnthFits(rspUp.special, t, "none", y) /\ y.to.seen.cut = z.to.seen.cut
  <1> DEFINE sp == rspUp.special
             t == AnthAdded(s, item, kind)
             i == s.index
             type == TypeOf(sp, item, kind)
             e == Ev("added", i, type, kind, 0)
             to == Reads(z.to, e)
             y == Passes(z, Ev("added", i, item, kind, 0))
  <1>1. /\ t.type = item /\ t.kind = kind /\ t.index = i /\ t.outs = s.outs
        /\ t.created = s.created /\ t.args = 0 /\ AnthRules(t)
    <2>1. s \in AnthStates /\ AnthRules(s)
      BY DEF AnthFits, AnthRules
    <2>2. /\ t.type = item /\ t.kind = kind /\ t.index = i /\ t.outs = s.outs
          /\ t.created = s.created /\ t.args = s.args /\ t.completed = s.completed
          /\ t \in AnthStates
      BY <2>1 DEF AnthStates, AnthAdded
    <2> HIDE DEF t
    <2> QED
      BY <2>1, <2>2 DEF AnthRules
  <1>2. i \in Items
    BY AnthIndex DEF AnthFits
  <1>3. z = [calls |-> CallsOpen(sp, s), to |-> z.to] /\ z.to.seen.items[i] = NoItem
    BY <1>2 DEF AnthFits, AnthShows
  <1>4. ReadersFit(z.to) /\ Listens(z.to.seen) /\ type \in ItemTypes
    BY TypeOfIs DEF AnthFits, Listens
  <1>5. /\ ReadersFit(to)
        /\ Turned(z.to.seen, to.seen, i, [type |-> type, at |-> "open", part |-> "none", n |-> 0])
    <2> HIDE DEF type
    <2> QED
      BY <1>2, <1>3, <1>4, ItemAddedRead
  <1> HIDE DEF t
  <1>6. OpenItem(sp, t, "none") = [type |-> type, at |-> "open", part |-> "none", n |-> 0]
    BY <1>1 DEF OpenItem
  <1>7. y = [calls |-> CallsOpen(sp, t), to |-> to]
    <2>1. CASE Own(sp, item, kind)
      <3> DEFINE calls == CallsOpen(sp, s)
      <3>1. [calls EXCEPT ![i] = [kind |-> kind, n |-> 0]] = CallsOpen(sp, t)
        BY <1>1, <1>2, <2>1 DEF CallsOpen, Own
      <3> HIDE DEF calls, type, e, to
      <3>2. z = [calls |-> calls, to |-> z.to]
        BY <1>3 DEF calls
      <3>3. y = [calls |-> [calls EXCEPT ![i] = [kind |-> kind, n |-> 0]],
                 to |-> Reads(z.to, Ev("added", i, TypeOf(sp, item, kind), kind, 0))]
        BY <2>1, <3>2, PassesAdded
      <3> QED
        BY <3>1, <3>3 DEF calls, type, e, to
    <2>2. CASE ~Own(sp, item, kind)
      <3>1. type = item
        BY <2>2 DEF TypeOf, Own, Restored
      <3>2. CallsOpen(sp, s) = CallsOpen(sp, t)
        BY <1>1, <2>2 DEF CallsOpen, Own
      <3> DEFINE calls == CallsOpen(sp, s)
      <3> HIDE DEF calls
      <3>3. z = [calls |-> calls, to |-> z.to]
        BY <1>3 DEF calls
      <3>4. y = [calls |-> calls, to |-> Reads(z.to, Ev("added", i, item, kind, 0))]
        BY <2>2, <3>3, PassesAsIs
      <3> QED
        BY <3>1, <3>2, <3>4 DEF calls
    <2> QED
      BY <2>1, <2>2
  <1> HIDE DEF y, to, type, e
  <1>8. Turned(z.to.seen, to.seen, i, OpenItem(sp, t, "none"))
    BY <1>5, <1>6
  <1>9. t.type # "none"
    BY <1>1 DEF OutTypes
  <1>10. AnthFits(sp, s, pr, z) /\ ReadersFit(to)
    BY <1>5
  <1> HIDE DEF sp
  <1>11. AnthFits(sp, t, "none", y) /\ y.to.seen.cut = z.to.seen.cut
    <2>1. /\ AnthRules(t) /\ t.index = s.index /\ t.outs = s.outs
          /\ t.created = s.created /\ t.type # "none"
      BY <1>1, <1>9
    <2>2. Turned(z.to.seen, to.seen, s.index, OpenItem(sp, t, "none"))
      BY <1>8
    <2>3. y = [calls |-> CallsOpen(sp, t), to |-> to]
      BY <1>7
    <2>4. AnthTurns(sp, s, z, t, "none", to)
      BY <1>10, <2>1, <2>2 DEF AnthTurns
    <2> HIDE DEF i
    <2> QED
      BY <1>10, <2>3, <2>4, TurnFits
  <1> QED
    BY <1>11 DEF sp, t, y

\* What is known of the item that is open.
LEMMA AnthOpen ==
  ASSUME NEW sp \in BOOLEAN, NEW s, NEW pr, NEW z, AnthFits(sp, s, pr, z), s.type # "none"
  PROVE  /\ s.index \in Items /\ s.type \in OutTypes /\ s.kind \in Kinds \cup {"none"}
         /\ s.args \in Nat /\ AnthRules(s) /\ ReadersFit(z.to)
         /\ TypeOf(sp, s.type, s.kind) \in ItemTypes
         /\ z.to.seen.items[s.index] = OpenItem(sp, s, pr)
         /\ z = [calls |-> CallsOpen(sp, s), to |-> z.to]
         /\ Own(sp, s.type, s.kind) => CallsOpen(sp, s)[s.index] = [kind |-> s.kind, n |-> s.args]
         /\ ~Own(sp, s.type, s.kind) => CallsOpen(sp, s)[s.index].kind = "none"
  <1>1. s.index \in Items /\ AnthRules(s) /\ ReadersFit(z.to)
    BY AnthIndex DEF AnthFits
  <1>2. s.type \in OutTypes /\ s.kind \in Kinds \cup {"none"} /\ s.args \in Nat
    BY <1>1 DEF AnthRules, AnthStates
  <1>3. TypeOf(sp, s.type, s.kind) \in ItemTypes
    BY <1>2, TypeOfIs
  <1>4. z.to.seen.items[s.index] = OpenItem(sp, s, pr)
    BY DEF AnthFits, AnthShows
  <1>5. z = [calls |-> CallsOpen(sp, s), to |-> z.to]
    BY DEF AnthFits
  <1>6. /\ Own(sp, s.type, s.kind) => CallsOpen(sp, s)[s.index] = [kind |-> s.kind, n |-> s.args]
        /\ ~Own(sp, s.type, s.kind) => CallsOpen(sp, s)[s.index].kind = "none"
    BY <1>1 DEF CallsOpen, NoCall
  <1> QED
    BY <1>1, <1>2, <1>3, <1>4, <1>5, <1>6

LEMMA OpenItemIs ==
  ASSUME NEW sp \in BOOLEAN, NEW s, NEW pr, s.type \in OutTypes, s.kind \in Kinds \cup {"none"}
  PROVE  /\ ~Own(sp, s.type, s.kind) =>
              OpenItem(sp, s, pr) = [type |-> s.type, at |-> "open", part |-> pr, n |-> s.args]
         /\ Own(sp, s.type, s.kind) /\ s.kind = "search" =>
              OpenItem(sp, s, pr) = [type |-> "tool_search_call", at |-> "open",
                                     part |-> "none", n |-> 0]
         /\ Own(sp, s.type, s.kind) /\ s.kind = "custom" /\ pr # "done" =>
              OpenItem(sp, s, pr) = [type |-> "custom_tool_call", at |-> "open",
                                     part |-> pr, n |-> 0]
         /\ Own(sp, s.type, s.kind) /\ s.kind = "custom" /\ pr = "done" =>
              OpenItem(sp, s, pr) = [type |-> "custom_tool_call", at |-> "open",
                                     part |-> "done", n |-> s.args]
  <1>1. /\ ~Own(sp, s.type, s.kind) => TypeOf(sp, s.type, s.kind) = s.type
        /\ Own(sp, s.type, s.kind) /\ s.kind = "custom" =>
             TypeOf(sp, s.type, s.kind) = "custom_tool_call"
        /\ Own(sp, s.type, s.kind) /\ s.kind = "search" =>
             TypeOf(sp, s.type, s.kind) = "tool_search_call"
    BY DEF TypeOf, Own, Restored, OutTypes
  <1> QED
    BY <1>1 DEF OpenItem

\* The part of a message begins.
LEMMA PartFits ==
  ASSUME rspUp.from = "anthropic", rspUp.special \in BOOLEAN,
         NEW s, NEW pr, NEW z, AnthFits(rspUp.special, s, pr, z), s.created,
         s.type = "message"
  PROVE  LET y == Passes(z, Ev("part", s.index, "message", s.kind, 0))
         IN AnthFits(rspUp.special, s, "open", y) /\ y.to.seen.cut = z.to.seen.cut
  <1>1. PICK sp \in BOOLEAN : sp = rspUp.special
    OBVIOUS
  <1> DEFINE i == s.index
             e == Ev("part", i, "message", s.kind, 0)
             to == Reads(z.to, e)
             y == Passes(z, e)
             calls == CallsOpen(sp, s)
  <1>2. AnthFits(sp, s, pr, z)
    BY <1>1
  <1>3. /\ i \in Items /\ s.kind \in Kinds \cup {"none"} /\ AnthRules(s) /\ ReadersFit(z.to)
        /\ z.to.seen.items[i] = OpenItem(sp, s, pr) /\ z = [calls |-> calls, to |-> z.to]
        /\ ~Own(sp, s.type, s.kind) /\ s.args = 0
    <2>1. ~Own(sp, s.type, s.kind)
      BY DEF Own
    <2>2. s.args = 0
      BY <1>2 DEF AnthFits, AnthRules
    <2>3. s.type # "none"
      OBVIOUS
    <2>4. /\ i \in Items /\ s.kind \in Kinds \cup {"none"} /\ AnthRules(s) /\ ReadersFit(z.to)
          /\ z.to.seen.items[i] = OpenItem(sp, s, pr) /\ z = [calls |-> calls, to |-> z.to]
      <3>1. i \in Items /\ s.kind \in Kinds \cup {"none"} /\ AnthRules(s) /\ ReadersFit(z.to)
        BY <1>2, <2>3, AnthOpen
      <3>2. z.to.seen.items[i] = OpenItem(sp, s, pr)
        BY <1>2, <2>3 DEF AnthFits, AnthShows
      <3>3. z = [calls |-> calls, to |-> z.to]
        BY <1>2 DEF AnthFits
      <3> QED
        BY <3>1, <3>2, <3>3
    <2> QED
      BY <2>1, <2>2, <2>4
  <1>4. OpenItem(sp, s, pr) = [type |-> "message", at |-> "open", part |-> pr, n |-> 0]
        /\ OpenItem(sp, s, "open") = [type |-> "message", at |-> "open", part |-> "open", n |-> 0]
    BY <1>3, OpenItemIs DEF OutTypes
  <1>5. Listens(z.to.seen)
    BY <1>2 DEF AnthFits, Listens
  <1>6. ReadersFit(to) /\ Turned(z.to.seen, to.seen, i, OpenItem(sp, s, "open"))
    BY <1>3, <1>4, <1>5, PartTurns
  <1>7. y = [calls |-> calls, to |-> to]
    <2> HIDE DEF calls
    <2> QED
      BY <1>3, PassesAsIs
  <1> HIDE DEF y, to, e
  <1>8. AnthTurns(sp, s, z, s, "open", to)
    BY <1>3, <1>6 DEF AnthTurns
  <1>9. AnthFits(sp, s, "open", y) /\ y.to.seen.cut = z.to.seen.cut
    BY <1>2, <1>7, <1>8, TurnFits
  <1> QED
    BY <1>1, <1>9 DEF y, e

AnthMore(s, n) == [s EXCEPT !.args = @ + n]

\* An open item gets a delta.
LEMMA DeltaFits ==
  ASSUME rspUp.from = "anthropic", rspUp.special \in BOOLEAN,
         NEW s, NEW pr, NEW z, AnthFits(rspUp.special, s, pr, z), s.created,
         s.type # "none", s.type = "message" => pr = "open", s.type = "function_call" => pr = "none",
         NEW n \in Nat, s.type # "function_call" => n = 0
  PROVE  LET t == AnthMore(s, n)
             y == Passes(z, Ev("delta", s.index, s.type, s.kind, n))
         IN AnthFits(rspUp.special, t, pr, y) /\ y.to.seen.cut = z.to.seen.cut
  <1>1. PICK sp \in BOOLEAN : sp = rspUp.special
    OBVIOUS
  <1> DEFINE t == AnthMore(s, n)
             i == s.index
             e == Ev("delta", i, s.type, s.kind, n)
             y == Passes(z, e)
             calls == CallsOpen(sp, s)
             own == Own(sp, s.type, s.kind)
  <1>2. AnthFits(sp, s, pr, z)
    BY <1>1
  <1>3. /\ i \in Items /\ s.kind \in Kinds \cup {"none"} /\ AnthRules(s) /\ ReadersFit(z.to)
        /\ z.to.seen.items[i] = OpenItem(sp, s, pr) /\ z = [calls |-> calls, to |-> z.to]
        /\ s.args \in Nat /\ s.type \in OutTypes
        /\ own => calls[i] = [kind |-> s.kind, n |-> s.args]
        /\ ~own => calls[i].kind = "none"
    BY <1>2, AnthOpen
  <1>4. /\ t.type = s.type /\ t.kind = s.kind /\ t.index = i /\ t.outs = s.outs
        /\ t.created = s.created /\ t.args = s.args + n /\ AnthRules(t) /\ t.type # "none"
    <2>1. s \in AnthStates
      BY <1>3 DEF AnthRules
    <2>0. PICK m \in Nat : m = s.args + n
      BY <1>3
    <2>2. /\ t.type = s.type /\ t.kind = s.kind /\ t.index = i /\ t.outs = s.outs
          /\ t.created = s.created /\ t.args = s.args + n /\ t.completed = s.completed
          /\ t \in AnthStates
      <3>1. t = [s EXCEPT !.args = m]
        BY <2>0 DEF AnthMore
      <3> HIDE DEF t
      <3>2. /\ t.type = s.type /\ t.kind = s.kind /\ t.index = i /\ t.outs = s.outs
            /\ t.created = s.created /\ t.args = m /\ t.completed = s.completed
            /\ t \in AnthStates
        BY <2>1, <3>1 DEF AnthStates
      <3> QED
        BY <2>0, <3>2
    <2> HIDE DEF t
    <2>3. s.type # "function_call" => t.args = 0
      BY <1>3, <2>2 DEF AnthRules
    <2> QED
      BY <1>3, <2>2, <2>3 DEF AnthRules
  <1> HIDE DEF t
  <1>5. Listens(z.to.seen)
    BY <1>2 DEF AnthFits, Listens
  <1>6. PICK to : /\ y = [calls |-> CallsOpen(sp, t), to |-> to] /\ ReadersFit(to)
                  /\ Turned(z.to.seen, to.seen, i, OpenItem(sp, t, pr))
    <2>1. CASE own
      <3>1. OpenItem(sp, t, pr) = OpenItem(sp, s, pr)
        BY <1>4, <2>1 DEF OpenItem, Own
      <3>2. Turned(z.to.seen, z.to.seen, i, OpenItem(sp, t, pr))
        BY <1>3, <3>1 DEF Turned
      <3>3. CallMore(calls, i, n) = CallsOpen(sp, t)
        BY <1>3, <1>4, <2>1 DEF CallsOpen, CallMore
      <3>4. sp /\ s.type = "function_call" /\ s.kind # "none"
        BY <2>1 DEF Own
      <3>5. calls[i].kind # "none"
        <4> HIDE DEF calls
        <4> QED
          BY <1>3, <2>1, <3>4
      <3>6. y = Passes(z, Ev("delta", i, "function_call", s.kind, n))
        BY <3>4
      <3> HIDE DEF calls, y, i
      <3>7. y = [calls |-> CallMore(calls, i, n), to |-> z.to]
        BY <1>1, <1>3, <3>4, <3>5, <3>6, PassesDelta
      <3> QED
        BY <1>3, <3>2, <3>3, <3>7
    <2>2. CASE ~own
      <3> DEFINE to == Reads(z.to, e)
      <3>1. CallsOpen(sp, t) = calls
        BY <1>4, <2>2 DEF CallsOpen
      <3>2. /\ OpenItem(sp, s, pr) = [type |-> s.type, at |-> "open", part |-> pr, n |-> s.args]
            /\ OpenItem(sp, t, pr) = [type |-> s.type, at |-> "open", part |-> pr,
                                      n |-> s.args + n]
        BY <1>3, <1>4, <2>2, OpenItemIs
      <3>3. s.type \in ItemTypes
        BY <1>3 DEF OutTypes, ItemTypes, CallTypes
      <3>4. ReadersFit(to) /\ Turned(z.to.seen, to.seen, i, OpenItem(sp, t, pr))
        BY <1>3, <1>5, <3>2, <3>3, ItemDeltaRead
      <3> HIDE DEF calls
      <3>5. y = [calls |-> calls, to |-> to]
        BY <1>3, <2>2, PassesAsIs
      <3> QED
        BY <3>1, <3>4, <3>5
    <2> QED
      BY <2>1, <2>2
  <1> HIDE DEF y, e
  <1>7. AnthTurns(sp, s, z, t, pr, to)
    BY <1>4, <1>6 DEF AnthTurns
  <1>8. AnthFits(sp, t, pr, y) /\ y.to.seen.cut = z.to.seen.cut
    BY <1>2, <1>6, <1>7, TurnFits
  <1> QED
    BY <1>1, <1>8 DEF t, y, e

\* The part of an open item ends.
LEMMA PartDoneFits ==
  ASSUME rspUp.from = "anthropic", rspUp.special \in BOOLEAN,
         NEW s, NEW pr, NEW z, AnthFits(rspUp.special, s, pr, z), s.created,
         s.type # "none", s.type = "function_call" => pr = "none"
  PROVE  LET y == Passes(z, Ev("part_done", s.index, s.type, s.kind, 0))
         IN AnthFits(rspUp.special, s, "done", y) /\ y.to.seen.cut = z.to.seen.cut
  <1>1. PICK sp \in BOOLEAN : sp = rspUp.special
    OBVIOUS
  <1> DEFINE i == s.index
             n == s.args
             e == Ev("part_done", i, s.type, s.kind, 0)
             y == Passes(z, e)
             calls == CallsOpen(sp, s)
             own == Own(sp, s.type, s.kind)
  <1>2. AnthFits(sp, s, pr, z)
    BY <1>1
  <1>3. /\ i \in Items /\ s.kind \in Kinds \cup {"none"} /\ AnthRules(s) /\ ReadersFit(z.to)
        /\ z.to.seen.items[i] = OpenItem(sp, s, pr) /\ z = [calls |-> calls, to |-> z.to]
        /\ s.args \in Nat /\ s.type \in OutTypes
        /\ own => calls[i] = [kind |-> s.kind, n |-> s.args]
        /\ ~own => calls[i].kind = "none"
    BY <1>2, AnthOpen
  <1>4. Listens(z.to.seen)
    BY <1>2 DEF AnthFits, Listens
  <1>5. PICK to : /\ y = [calls |-> calls, to |-> to] /\ ReadersFit(to)
                  /\ Turned(z.to.seen, to.seen, i, OpenItem(sp, s, "done"))
    <2>1. CASE own
      <3>1. sp /\ s.type = "function_call" /\ (s.kind = "custom" \/ s.kind = "search") /\ pr = "none"
        BY <2>1 DEF Own
      <3>2. calls[i].kind = s.kind /\ calls[i].n = n /\ s.kind # "none"
            /\ calls = [calls EXCEPT ![i].n = calls[i].n]
        <4>1. calls \in [Items -> [kind : Kinds \cup {"none"}, n : Nat]]
          BY <1>3 DEF CallsOpen, NoCall, Kinds
        <4> HIDE DEF calls
        <4> QED
          BY <1>3, <2>1, <3>1, <4>1
      <3> DEFINE input == Ev("delta", i, "custom_tool_call", s.kind, calls[i].n)
                 ended == Ev("part_done", i, "custom_tool_call", s.kind, calls[i].n)
                 r1 == IF calls[i].n > 0 THEN Reads(z.to, input) ELSE z.to
                 to == IF calls[i].kind = "search" THEN z.to ELSE Reads(r1, ended)
      <3>3. y = [calls |-> calls, to |-> to]
        <4>1. y = Passes(z, Ev("part_done", i, "function_call", s.kind, 0))
          BY <3>1
        <4> HIDE DEF calls, y, i, n
        <4> QED
          BY <1>1, <1>3, <3>1, <3>2, <4>1, PassesPartDone
      <3>4. CASE s.kind = "search"
        <4>1. to = z.to
          BY <3>2, <3>4
        <4>2. OpenItem(sp, s, "done") = OpenItem(sp, s, pr)
          BY <1>3, <2>1, <3>4, OpenItemIs
        <4> HIDE DEF to
        <4>3. Turned(z.to.seen, to.seen, i, OpenItem(sp, s, "done"))
          BY <1>3, <4>1, <4>2 DEF Turned
        <4> QED
          BY <1>3, <3>3, <4>1, <4>3
      <3>5. CASE s.kind = "custom"
        <4> DEFINE type == "custom_tool_call"
        <4>1. /\ z.to.seen.items[i] = [type |-> type, at |-> "open", part |-> "none", n |-> 0]
              /\ OpenItem(sp, s, "done") = [type |-> type, at |-> "open", part |-> "done", n |-> n]
          BY <1>3, <2>1, <3>1, <3>5, OpenItemIs
        <4>2. /\ ReadersFit(r1)
              /\ Turned(z.to.seen, r1.seen, i,
                        [type |-> type, at |-> "open", part |-> "none", n |-> n])
          <5>1. CASE n > 0
            <6>1. r1 = Reads(z.to, Ev("delta", i, type, s.kind, n))
              BY <3>2, <5>1
            <6>2. 0 + n = n /\ type \in ItemTypes /\ type # "message" /\ 0 \in Nat
              BY <1>3 DEF ItemTypes, CallTypes
            <6> HIDE DEF r1, type
            <6>3. LET q == Reads(z.to, Ev("delta", i, type, s.kind, n)) IN
                  /\ ReadersFit(q)
                  /\ Turned(z.to.seen, q.seen, i, [type |-> type, at |-> "open",
                                                   part |-> "none", n |-> 0 + n])
              BY <1>3, <1>4, <4>1, <6>2, ItemDeltaRead
            <6> QED
              BY <6>1, <6>2, <6>3
          <5>2. CASE ~(n > 0)
            <6>1. r1 = z.to /\ n = 0
              BY <1>3, <3>2, <5>2
            <6> HIDE DEF r1
            <6> QED
              BY <1>3, <4>1, <6>1 DEF Turned
          <5> QED
            BY <5>1, <5>2
        <4>3. Listens(r1.seen) /\ r1.seen.items[i]
                = [type |-> type, at |-> "open", part |-> "none", n |-> n]
          BY <1>3, <1>4, <4>2 DEF Listens, Turned
        <4>4. to = Reads(r1, Ev("part_done", i, type, s.kind, n))
          BY <3>2, <3>5
        <4> HIDE DEF r1, to, type
        <4>5. ReadersFit(to) /\ Turned(r1.seen, to.seen, i,
                                       [type |-> type, at |-> "open", part |-> "done", n |-> n])
          BY <1>3, <4>2, <4>3, <4>4, PartTurns
        <4>6. Turned(z.to.seen, to.seen, i, OpenItem(sp, s, "done"))
          BY <4>1, <4>2, <4>5, TurnedTwice
        <4> QED
          BY <3>3, <4>5, <4>6
      <3> QED
        BY <3>1, <3>4, <3>5
    <2>2. CASE ~own
      <3> DEFINE to == Reads(z.to, e)
      <3>1. /\ OpenItem(sp, s, pr) = [type |-> s.type, at |-> "open", part |-> pr, n |-> n]
            /\ OpenItem(sp, s, "done") = [type |-> s.type, at |-> "open", part |-> "done", n |-> n]
        BY <1>3, <2>2, OpenItemIs
      <3>2. ReadersFit(to) /\ Turned(z.to.seen, to.seen, i, OpenItem(sp, s, "done"))
        BY <1>3, <1>4, <3>1, PartTurns
      <3> HIDE DEF calls
      <3>3. y = [calls |-> calls, to |-> to]
        BY <1>3, <2>2, PassesAsIs
      <3> QED
        BY <3>2, <3>3
    <2> QED
      BY <2>1, <2>2
  <1> HIDE DEF y, e
  <1>6. AnthTurns(sp, s, z, s, "done", to)
    BY <1>3, <1>5 DEF AnthTurns
  <1>7. AnthFits(sp, s, "done", y) /\ y.to.seen.cut = z.to.seen.cut
    BY <1>2, <1>5, <1>6, TurnFits
  <1> QED
    BY <1>1, <1>7 DEF y, e

\* The open item is done, and goes to the answer.
AnthClosed(s) ==
  [s EXCEPT !.type = "none", !.kind = "none", !.args = 0, !.index = @ + 1,
            !.outs = Append(@, [t |-> s.type, k |-> s.kind, n |-> s.args])]

LEMMA ClosedRules ==
  ASSUME NEW s, AnthRules(s), s.type # "none"
  PROVE  LET t == AnthClosed(s) IN
         /\ AnthRules(t) /\ t.type = "none" /\ t.kind = "none" /\ t.index = s.index + 1
         /\ t.created = s.created
         /\ Len(t.outs) = s.index + 1
         /\ t.outs[s.index + 1] = [t |-> s.type, k |-> s.kind, n |-> s.args]
         /\ \A i \in 0 .. s.index - 1 : t.outs[i + 1] = s.outs[i + 1]
         /\ t.outs = Append(s.outs, [t |-> s.type, k |-> s.kind, n |-> s.args])
         /\ t.args = 0 /\ t.stop = s.stop
  <1> DEFINE t == AnthClosed(s)
             out == [t |-> s.type, k |-> s.kind, n |-> s.args]
             outs == Append(s.outs, out)
  <1>1. s \in AnthStates /\ s.index = Len(s.outs) /\ s.index < RspBlocks /\ ~s.completed
    BY DEF AnthRules
  <1>2. out \in AnthOuts
    BY <1>1 DEF AnthOuts, AnthStates
  <1>3. PICK m \in Nat : m = s.index + 1 /\ m <= RspBlocks
    BY <1>1, RspAssumption DEF AnthStates
  <1>4. s.outs \in Seq(AnthOuts) /\ s.index \in Nat
    BY <1>1 DEF AnthStates
  <1> HIDE DEF out
  <1>5. outs \in Seq(AnthOuts) /\ Len(outs) = m /\ outs[m] = out
        /\ \A i \in 0 .. s.index - 1 : outs[i + 1] = s.outs[i + 1]
    BY <1>1, <1>2, <1>3, <1>4
  <1> HIDE DEF outs
  <1>6. t = [s EXCEPT !.type = "none", !.kind = "none", !.args = 0, !.index = m, !.outs = outs]
    BY <1>3 DEF AnthClosed, outs, out
  <1> HIDE DEF t
  <1>7. /\ t \in AnthStates /\ t.type = "none" /\ t.kind = "none" /\ t.args = 0 /\ t.index = m
        /\ t.outs = outs /\ t.created = s.created /\ t.completed = s.completed /\ t.stop = s.stop
    BY <1>1, <1>5, <1>6 DEF AnthStates
  <1>8. AnthRules(t)
    BY <1>1, <1>3, <1>5, <1>7 DEF AnthRules
  <1> QED
    BY <1>3, <1>5, <1>7, <1>8 DEF t, outs, out

\* What is done of an item changes what the client keeps of it, and maybe cuts it.
Ends(c, d, i, n, cuts) ==
  /\ d.created = c.created /\ d.completed = c.completed /\ d.cut = (c.cut \/ cuts)
  /\ d.items[i].type = c.items[i].type /\ d.items[i].at = "done" /\ d.items[i].n = n
  /\ \A j \in Items : j # i => d.items[j] = c.items[j]

LEMMA EndRead ==
  ASSUME NEW r, ReadersFit(r), NEW i \in Items, NEW t, NEW k, NEW n \in Nat,
         Placed(r.seen, i, t)
  PROVE  LET q == Reads(r, Ev("done", i, t, k, n)) IN
         ReadersFit(q) /\ Ends(r.seen, q.seen, i, n, CutBy(r.seen.items[i], t, n))
  <1> DEFINE v == Ev("done", i, t, k, n)
             q == Reads(r, v)
             it == r.seen.items[i]
             new == [it EXCEPT !.at = "done", !.n = n]
             x == r.seen.cut \/ CutBy(it, t, n)
  <1>1. v.e = "done" /\ v.i = i /\ v.t = t /\ v.n = n
    BY Event
  <1> HIDE DEF v
  <1>2. ReadersFit(q) /\ q.seen = [r.seen EXCEPT !.items[v.i] = [r.seen.items[v.i] EXCEPT !.at = "done", !.n = v.n],
                                    !.cut = @ \/ CutBy(r.seen.items[v.i], v.t, v.n)]
    BY <1>1, DoneRead
  <1>3. r.seen \in Clients
    BY DEF ReadersFit, Readers
  <1>4. it \in ItemStates
    BY <1>3 DEF Clients
  <1>5. new.type = it.type /\ new.at = "done" /\ new.n = n
    BY <1>4 DEF ItemStates
  <1> HIDE DEF new, q
  <1>6. q.seen = [r.seen EXCEPT !.items[i] = new, !.cut = x]
    BY <1>1, <1>2 DEF new
  <1> HIDE DEF x
  <1>7. /\ q.seen.created = r.seen.created /\ q.seen.completed = r.seen.completed
        /\ q.seen.cut = x
        /\ \A j \in Items : q.seen.items[j] = IF j = i THEN new ELSE r.seen.items[j]
    BY <1>3, <1>6 DEF Clients
  <1>8. Ends(r.seen, q.seen, i, n, CutBy(it, t, n))
    BY <1>5, <1>7 DEF Ends, x
  <1> QED
    BY <1>2, <1>8 DEF q, v

\* The open item is done: only a part that is open, or arguments that the client
\* has not got, cut it.
LEMMA DoneFits ==
  ASSUME rspUp.from = "anthropic", rspUp.special \in BOOLEAN,
         NEW s, NEW pr, NEW z, AnthFits(rspUp.special, s, pr, z), s.created, s.type # "none"
  PROVE  LET y == Passes(z, Ev("done", s.index, s.type, s.kind, s.args))
         IN /\ AnthFits(rspUp.special, AnthClosed(s), "none", y)
            /\ pr = "done" => y.to.seen.cut = z.to.seen.cut
  <1>1. PICK sp \in BOOLEAN : sp = rspUp.special
    OBVIOUS
  <1> DEFINE i == s.index
             n == s.args
             type == TypeOf(sp, s.type, s.kind)
             e == Ev("done", i, s.type, s.kind, n)
             w == Ev("done", i, type, s.kind, n)
             y == Passes(z, e)
             to == Reads(z.to, w)
             calls == CallsOpen(sp, s)
             own == Own(sp, s.type, s.kind)
             t == AnthClosed(s)
             it == z.to.seen.items[i]
  <1>2. AnthFits(sp, s, pr, z)
    BY <1>1
  <1>3. /\ i \in Items /\ s.kind \in Kinds \cup {"none"} /\ AnthRules(s) /\ ReadersFit(z.to)
        /\ it = OpenItem(sp, s, pr) /\ z = [calls |-> calls, to |-> z.to]
        /\ n \in Nat /\ s.type \in OutTypes
        /\ own => calls[i] = [kind |-> s.kind, n |-> s.args]
        /\ ~own => calls[i].kind = "none"
    BY <1>2, AnthOpen
  <1>4. /\ AnthRules(t) /\ t.type = "none" /\ t.kind = "none" /\ t.index = i + 1
        /\ t.created = s.created
        /\ t.outs[i + 1] = [t |-> s.type, k |-> s.kind, n |-> n]
        /\ \A j \in 0 .. i - 1 : t.outs[j + 1] = s.outs[j + 1]
    BY <1>3, ClosedRules
  <1> HIDE DEF t
  <1>5. it.at = "open" /\ it.type = type
    BY <1>3 DEF OpenItem
  <1>6. Placed(z.to.seen, i, type)
    BY <1>2, <1>5 DEF AnthFits, Placed, Listens
  <1>7. ReadersFit(to) /\ Ends(z.to.seen, to.seen, i, n, CutBy(it, type, n))
    <2> HIDE DEF type
    <2> QED
      BY <1>3, <1>6, EndRead
  <1>8. pr = "done" => ~CutBy(it, type, n)
    BY <1>3, OpenItemIs DEF CutBy, Own, TypeOf, Restored
  <1>9. y = [calls |-> CallsOpen(sp, t), to |-> to]
    <2>1. CASE own
      <3>1. CallGone(calls, i) = CallsOpen(sp, t)
        BY <1>3, <1>4, <2>1 DEF CallsOpen, Own, CallGone
      <3>2. calls[i].n = n
        <4> HIDE DEF calls
        <4> QED
          BY <1>3, <2>1
      <3>3. Own(rspUp.special, s.type, s.kind) /\ type = TypeOf(rspUp.special, s.type, s.kind)
        BY <1>1, <2>1
      <3>5. y = Passes(z, Ev("done", i, s.type, s.kind, n))
        OBVIOUS
      <3> HIDE DEF calls, type, y, i, n
      <3>4. y = [calls |-> CallGone(calls, i),
                 to |-> Reads(z.to, Ev("done", i, TypeOf(rspUp.special, s.type, s.kind), s.kind, n))]
        BY <1>3, <3>2, <3>3, <3>5, PassesDone
      <3> QED
        BY <3>1, <3>3, <3>4
    <2>2. CASE ~own
      <3>1. calls = CallsOpen(sp, t)
        BY <1>4, <2>2 DEF CallsOpen, Own
      <3>2. type = s.type
        BY <2>2 DEF TypeOf, Own, Restored
      <3> HIDE DEF calls, type
      <3>3. ~Own(rspUp.special, s.type, s.kind)
        BY <1>1, <2>2
      <3>4. y = [calls |-> calls, to |-> Reads(z.to, e)]
        BY <1>3, <3>3, PassesAsIs
      <3> QED
        BY <3>1, <3>2, <3>4
    <2> QED
      BY <2>1, <2>2
  <1> HIDE DEF y, to, e, w
  <1>10. y.calls = CallsOpen(sp, t) /\ y.to = to /\ y = [calls |-> y.calls, to |-> y.to]
    BY <1>9
  <1>11. AnthShows(sp, t, "none", to.seen.items)
    <2>1. ASSUME NEW j \in 0 .. t.index - 1
          PROVE  /\ to.seen.items[j].type = TypeOf(sp, t.outs[j + 1].t, t.outs[j + 1].k)
                 /\ to.seen.items[j].at = "done" /\ to.seen.items[j].n = t.outs[j + 1].n
      <3>1. s.index \in Nat /\ 0 .. i - 1 \subseteq Items
        BY <1>3, AnthIndex
      <3>2. CASE j = i
        BY <1>4, <1>5, <1>7, <3>2 DEF Ends
      <3>3. CASE j # i
        <4>1. j \in 0 .. i - 1 /\ j \in Items
          BY <1>4, <2>1, <3>1, <3>3
        <4>2. to.seen.items[j] = z.to.seen.items[j]
          BY <1>7, <3>3, <4>1 DEF Ends
        <4>3. t.outs[j + 1] = s.outs[j + 1]
          BY <1>4, <4>1
        <4> QED
          BY <1>2, <4>1, <4>2, <4>3 DEF AnthFits, AnthShows
      <3> QED
        BY <3>2, <3>3
    <2>2. ASSUME NEW j \in Items, j > t.index \/ j = t.index PROVE to.seen.items[j] = NoItem
      <3>1. s.index \in Nat
        BY <1>3, AnthIndex
      <3>2. j > i /\ j # i
        BY <1>4, <2>2, <3>1 DEF Items
      <3> QED
        BY <1>2, <1>7, <3>2 DEF AnthFits, AnthShows, Ends
    <2> QED
      BY <1>4, <2>1, <2>2 DEF AnthShows
  <1>12. to.seen.created = t.created /\ to.seen.completed = "none"
    BY <1>2, <1>4, <1>7 DEF AnthFits, Ends
  <1>13. pr = "done" => to.seen.cut = z.to.seen.cut
    <2>1. z.to.seen.cut \in BOOLEAN
      BY <1>3 DEF ReadersFit, Readers, Clients
    <2> QED
      BY <1>7, <1>8, <2>1 DEF Ends
  <1>14. AnthFits(sp, t, "none", y)
    BY <1>4, <1>7, <1>10, <1>11, <1>12 DEF AnthFits
  <1> QED
    BY <1>1, <1>10, <1>13, <1>14 DEF y, e, t

\* The stream begins.
LEMMA StartFits ==
  ASSUME rspUp.from = "anthropic", NEW sp, NEW s, NEW pr, NEW z, AnthFits(sp, s, pr, z),
         ~s.created
  PROVE  LET y == Passes(z, Ev("created", 0, "none", "none", 0))
         IN /\ AnthFits(sp, [s EXCEPT !.created = TRUE], pr, y)
            /\ y.to.seen.cut = z.to.seen.cut
  <1> DEFINE e == Ev("created", 0, "none", "none", 0)
             y == Passes(z, e)
             to == Reads(z.to, e)
             t == [s EXCEPT !.created = TRUE]
  <1>1. AnthRules(s) /\ ReadersFit(z.to) /\ z = [calls |-> z.calls, to |-> z.to]
        /\ ~z.to.seen.created
    BY DEF AnthFits
  <1>2. e.e = "created" /\ e.i = 0 /\ 0 \in Items
    BY RspAssumption DEF Ev, Items
  <1>3. y = [calls |-> z.calls, to |-> to]
    BY <1>1, PassesAsIs
  <1> HIDE DEF e
  <1>4. ReadersFit(to) /\ to.seen = [z.to.seen EXCEPT !.created = TRUE]
    BY <1>1, <1>2, CreatedRead
  <1> HIDE DEF y, to
  <1>5. z.to.seen \in Clients
    BY <1>1 DEF ReadersFit, Readers
  <1>6. to.seen.created = TRUE /\ to.seen.items = z.to.seen.items
        /\ to.seen.completed = z.to.seen.completed /\ to.seen.cut = z.to.seen.cut
    BY <1>4, <1>5 DEF Clients
  <1>7. /\ t \in AnthStates /\ t.created = TRUE /\ t.completed = s.completed /\ t.index = s.index
        /\ t.type = s.type /\ t.kind = s.kind /\ t.args = s.args /\ t.outs = s.outs
    BY <1>1 DEF AnthRules, AnthStates
  <1> HIDE DEF t
  <1>8. AnthRules(t)
    BY <1>1, <1>7 DEF AnthRules
  <1>9. AnthShows(sp, t, pr, to.seen.items)
    BY <1>6, <1>7 DEF AnthFits, AnthShows, OpenItem
  <1>10. z.calls = CallsOpen(sp, t)
    BY <1>7 DEF AnthFits, CallsOpen
  <1>11. y.calls = z.calls /\ y.to = to /\ y = [calls |-> y.calls, to |-> y.to]
    BY <1>3
  <1>12. to.seen.created = t.created /\ to.seen.completed = "none"
    BY <1>6, <1>7 DEF AnthFits
  <1> QED
    BY <1>4, <1>6, <1>8, <1>9, <1>10, <1>11, <1>12 DEF AnthFits, t, y, e

\* The last event ends the stream, with the items as the client has them.
AnthEnded(s, c, d, status) ==
  /\ d.created = c.created /\ d.cut = c.cut /\ d.items = c.items /\ d.completed = status
  /\ d.final = [k \in 1 .. s.index |-> [t |-> d.items[k - 1].type, n |-> d.items[k - 1].n]]

LEMMA EndFits ==
  ASSUME rspUp.from = "anthropic", rspUp.special \in BOOLEAN,
         NEW s, NEW pr, NEW z, AnthFits(rspUp.special, s, pr, z), s.created, s.type = "none",
         NEW status \in {"completed", "incomplete"}
  PROVE  LET y == Passes(z, EvCompleted(status, s.outs))
         IN ReadersFit(y.to) /\ AnthEnded(s, z.to.seen, y.to.seen, status)
  <1>1. PICK sp \in BOOLEAN : sp = rspUp.special
    OBVIOUS
  <1>2. AnthFits(sp, s, pr, z)
    BY <1>1
  <1>3. s \in AnthStates /\ ReadersFit(z.to) /\ Listens(z.to.seen)
        /\ z = [calls |-> z.calls, to |-> z.to]
    BY <1>2 DEF AnthFits, AnthRules, Listens
  <1>4. PICK m \in Nat : m = s.index /\ m = Len(s.outs)
    BY <1>2 DEF AnthFits, AnthRules, AnthStates
  <1>5. DOMAIN s.outs = 1 .. m /\ \A k \in 1 .. m : s.outs[k] \in AnthOuts
    BY <1>3, <1>4 DEF AnthStates
  <1> DEFINE v == EvCompleted(status, s.outs)
             out == IF sp THEN [k \in DOMAIN v.out |->
                                  [v.out[k] EXCEPT !.t = Restored(v.out[k].t, v.out[k].k)]]
                    ELSE v.out
             w == [v EXCEPT !.out = out]
             y == Passes(z, v)
             c == z.to.seen
             d == Reads(z.to, w).seen
             fin == [k \in 1 .. m |-> [t |-> w.out[k].t, n |-> w.out[k].n]]
  <1>6. v.e = "completed" /\ v.t = status /\ v.out = s.outs
    BY EvCompletedIs
  <1>7. DOMAIN out = 1 .. m /\ \A k \in 1 .. m : /\ out[k].t = TypeOf(sp, s.outs[k].t, s.outs[k].k)
                                                 /\ out[k].n = s.outs[k].n
    BY <1>5, <1>6 DEF TypeOf, AnthOuts
  <1>8. w.e = "completed" /\ w.t = status /\ w.out = out /\ (~sp => w = v)
    BY <1>6 DEF EvCompleted
  <1>9. y = [calls |-> z.calls, to |-> Reads(z.to, w)]
    <2>1. CASE sp
      <3>1. RestoreStep(z, v) = [z EXCEPT !.to = Reads(@, w)]
        BY <1>6, <2>1 DEF RestoreStep
      <3> HIDE DEF v, w
      <3>2. y = RestoreStep(z, v)
        BY <1>1, <2>1 DEF Passes
      <3> HIDE DEF y
      <3> QED
        BY <1>3, <3>1, <3>2
    <2>2. CASE ~sp
      <3> HIDE DEF v, w
      <3>1. y = [z EXCEPT !.to = Reads(@, v)]
        BY <1>1, <2>2 DEF Passes
      <3> HIDE DEF y
      <3> QED
        BY <1>3, <1>8, <2>2, <3>1
    <2> QED
      BY <2>1, <2>2
  <1>10. \A k \in 1 .. m : /\ c.items[k - 1].type = out[k].t /\ c.items[k - 1].at = "done"
                           /\ c.items[k - 1].n = out[k].n
    <2> SUFFICES ASSUME NEW k \in 1 .. m
                 PROVE  /\ c.items[k - 1].type = out[k].t /\ c.items[k - 1].at = "done"
                        /\ c.items[k - 1].n = out[k].n
      OBVIOUS
    <2>1. PICK i \in 0 .. s.index - 1 : k - 1 = i /\ k = i + 1
      BY <1>4
    <2>2. /\ c.items[i].type = TypeOf(sp, s.outs[i + 1].t, s.outs[i + 1].k)
          /\ c.items[i].at = "done" /\ c.items[i].n = s.outs[i + 1].n
      BY <1>2, <2>1 DEF AnthFits, AnthShows
    <2> QED
      BY <1>7, <2>1, <2>2
  <1>11. \A i \in Items : c.items[i].at # "open"
    <2> SUFFICES ASSUME NEW i \in Items PROVE c.items[i].at # "open"
      OBVIOUS
    <2>1. CASE i < m
      <3>1. PICK k \in 1 .. m : k - 1 = i
        BY <2>1, RspAssumption DEF Items
      <3> QED
        BY <1>10, <3>1
    <2>2. CASE i >= m
      <3>1. i > s.index \/ (i = s.index /\ s.type = "none")
        BY <1>4, <2>2, RspAssumption DEF Items
      <3>2. c.items[i] = NoItem
        BY <1>2, <3>1 DEF AnthFits, AnthShows
      <3> QED
        BY <3>2 DEF NoItem
    <2> QED
      BY <1>4, <2>1, <2>2, RspAssumption DEF Items
  <1>12. \A k \in 1 .. m : w.out[k].t \in ItemTypes /\ w.out[k].n \in Nat
    <2> SUFFICES ASSUME NEW k \in 1 .. m PROVE w.out[k].t \in ItemTypes /\ w.out[k].n \in Nat
      OBVIOUS
    <2>1. s.outs[k].t \in OutTypes /\ s.outs[k].k \in Kinds \cup {"none"} /\ s.outs[k].n \in Nat
      BY <1>5 DEF AnthOuts
    <2>2. TypeOf(sp, s.outs[k].t, s.outs[k].k) \in ItemTypes
      BY <2>1 DEF TypeOf, Restored, OutTypes, ItemTypes, CallTypes
    <2> HIDE DEF w, out
    <2> QED
      BY <1>7, <1>8, <2>1, <2>2
  <1> HIDE DEF w, v, out
  <1>13. ReadersFit(Reads(z.to, w)) /\ Completes(c, d, w, m)
    <2>1. DOMAIN w.out = 1 .. m /\ w.t \in {"completed", "incomplete"}
      BY <1>7, <1>8
    <2> QED
      BY <1>3, <1>8, <1>11, <1>12, <2>1, CompletedRead
  <1>14. y.to = Reads(z.to, w)
    BY <1>9
  <1> HIDE DEF y, d
  <1>15. c \in Clients
    BY <1>3 DEF ReadersFit, Readers
  <1>16. d.created = c.created /\ d.cut = c.cut /\ d.items = c.items /\ d.completed = status
         /\ d.final = fin
    BY <1>8, <1>13, <1>15 DEF Completes, Clients
  <1>17. fin = [k \in 1 .. s.index |-> [t |-> d.items[k - 1].type, n |-> d.items[k - 1].n]]
    BY <1>4, <1>8, <1>10, <1>16
  <1> HIDE DEF fin
  <1>18. AnthEnded(s, c, d, status)
    BY <1>16, <1>17 DEF AnthEnded
  <1> QED
    BY <1>13, <1>14, <1>18 DEF y, v, d

-----------------------------------------------------------------------------
(* The steps of an Anthropic message                                       *)

Passed(z, e, y) == y = Passes(z, e)

LEMMA PassesNone ==
  ASSUME NEW z PROVE FoldLeft(Passes, z, <<>>) = z
  BY PassesNothing

LEMMA PassesOne ==
  ASSUME NEW z, NEW a, NEW y, Passed(z, a, y) PROVE FoldLeft(Passes, z, <<a>>) = y
  <1> DEFINE w == <<>>
             v == <<a>>
  <1>1. w \in Seq({a})
    OBVIOUS
  <1>2. v = Append(w, a)
    OBVIOUS
  <1>3. FoldLeft(Passes, z, w) = z
    BY PassesNothing
  <1> HIDE DEF v, w
  <1>4. FoldLeft(Passes, z, Append(w, a)) = Passes(FoldLeft(Passes, z, w), a)
    BY <1>1, PassesAppend
  <1>5. FoldLeft(Passes, z, Append(w, a)) = Passes(z, a)
    BY <1>3, <1>4
  <1>6. FoldLeft(Passes, z, v) = Passes(z, a)
    BY <1>2, <1>5
  <1> QED
    BY <1>6 DEF v, Passed

LEMMA PassesTwo ==
  ASSUME NEW z, NEW a, NEW b, NEW y, NEW x, Passed(z, a, y), Passed(y, b, x)
  PROVE  FoldLeft(Passes, z, <<a, b>>) = x
  <1> DEFINE v == <<a>>
             w == <<a, b>>
  <1>1. v \in Seq({a})
    OBVIOUS
  <1>2. w = Append(v, b)
    OBVIOUS
  <1>3. FoldLeft(Passes, z, v) = y
    BY PassesOne
  <1> HIDE DEF v, w
  <1>4. FoldLeft(Passes, z, Append(v, b)) = Passes(FoldLeft(Passes, z, v), b)
    BY <1>1, PassesAppend
  <1>5. FoldLeft(Passes, z, Append(v, b)) = x
    BY <1>3, <1>4 DEF Passed
  <1> QED
    BY <1>2, <1>5 DEF w

\* What the upstream and the converter tell of each other: the tools sent are the
\* calls of the converter's items, in order.
HeldAt(s, i) ==
  IF i < s.index THEN s.outs[i + 1] ELSE [t |-> s.type, k |-> s.kind, n |-> s.args]

ToolsPlaced(tools, s, ix) ==
  /\ \A o, p \in 1 .. Len(tools) : ix[o] = ix[p] => o = p
  /\ \A o \in 1 .. Len(tools) :
       /\ ix[o] \in 0 .. s.index
       /\ HeldAt(s, ix[o]) = [t |-> "function_call", k |-> tools[o].kind, n |-> tools[o].n]
  /\ \A i \in 0 .. s.index :
       HeldAt(s, i).t = "function_call" => \E o \in 1 .. Len(tools) : ix[o] = i
  /\ s.type = "function_call" => Len(tools) > 0 /\ ix[Len(tools)] = s.index
ToolsHeld(tools, s) == \E ix \in [1 .. Len(tools) -> Nat] : ToolsPlaced(tools, s, ix)

AnthUps ==
  [from : {"anthropic"}, special : BOOLEAN, at : {"new", "between", "block", "ended"},
   last : {"none", "thinking", "text", "tool_use"}, tools : Seq([kind : Kinds, n : Nat]),
   ordered : {TRUE}, end : {"none", "end_turn", "max_tokens", "tool_use"}]

ItemOfBlock(last) ==
  CASE last = "thinking" -> "reasoning" [] last = "text" -> "message"
    [] last = "tool_use" -> "function_call" [] OTHER -> "none"

AnthTracks(u, s) ==
  /\ s.created <=> u.at # "new"
  /\ u.at # "block" => s.type \in {"none", "message"}
  /\ s.type = "message" => u.last = "text"
  /\ u.at = "block" => s.type = ItemOfBlock(u.last) /\ s.type # "none"
  /\ u.at # "ended" => u.end = "none"
  /\ u.end = s.stop

Progress(u, s) ==
  IF s.type # "message" THEN "none" ELSE IF u.at = "block" THEN "open" ELSE "done"

AnthAgrees(u, s, z) ==
  /\ u \in AnthUps
  /\ AnthFits(u.special, s, Progress(u, s), z)
  /\ ~z.to.seen.cut
  /\ AnthTracks(u, s) /\ ToolsHeld(u.tools, s)

\* While an Anthropic stream is open.
AnthHolds == AnthAgrees(rspUp, rspAnth, Before)

LEMMA AnthNext ==
  ASSUME NEW v, NEW u, NEW s, NEW y, AnthAgrees(u, s, y),
         FoldLeft(Passes, Before, v) = y, rspUp' = u, AnthTo([s |-> s, v |-> v])
  PROVE  AnthHolds' /\ rspChat' = rspChat
  <1>1. y.to \in Readers /\ y = [calls |-> y.calls, to |-> y.to]
    BY DEF AnthAgrees, AnthFits, ReadersFit
  <1>2. rspAnth' = s /\ Emit(v) /\ rspChat' = rspChat
    BY DEF AnthTo
  <1>3. rspCalls' = y.calls /\ rspSeen' = y.to.seen /\ rspBack' = y.to.back
        /\ rspAcc' = y.to.acc
    BY <1>2 DEF Emit, Before, Now
  <1>4. y.to = [seen |-> y.to.seen, back |-> y.to.back, acc |-> y.to.acc]
    BY <1>1 DEF Readers
  <1>5. Before' = y
    BY <1>1, <1>3, <1>4 DEF Before, Now
  <1> QED
    BY <1>2, <1>5 DEF AnthHolds

\* The item after the list changes, and was and is no call.
LEMMA HeldSteady ==
  ASSUME NEW tools, NEW s, NEW t, s.index \in Nat, t.index = s.index, t.outs = s.outs,
         s.type # "function_call", t.type # "function_call", ToolsHeld(tools, s)
  PROVE  ToolsHeld(tools, t)
  <1>1. PICK ix \in [1 .. Len(tools) -> Nat] : ToolsPlaced(tools, s, ix)
    BY DEF ToolsHeld
  <1>2. ASSUME NEW i \in 0 .. s.index
        PROVE  /\ i # s.index => HeldAt(t, i) = HeldAt(s, i)
               /\ i = s.index => /\ HeldAt(s, i).t # "function_call"
                                 /\ HeldAt(t, i).t # "function_call"
    BY DEF HeldAt
  <1>3. ASSUME NEW o \in 1 .. Len(tools)
        PROVE  /\ ix[o] \in 0 .. t.index
               /\ HeldAt(t, ix[o]) = [t |-> "function_call", k |-> tools[o].kind, n |-> tools[o].n]
    <2>1. ix[o] \in 0 .. s.index
          /\ HeldAt(s, ix[o]) = [t |-> "function_call", k |-> tools[o].kind, n |-> tools[o].n]
      BY <1>1 DEF ToolsPlaced
    <2>2. HeldAt(s, ix[o]).t = "function_call"
      BY <2>1
    <2> QED
      BY <1>2, <2>1, <2>2
  <1>4. ASSUME NEW i \in 0 .. t.index, HeldAt(t, i).t = "function_call"
        PROVE  \E o \in 1 .. Len(tools) : ix[o] = i
    BY <1>1, <1>2, <1>4 DEF ToolsPlaced
  <1>5. \A o, p \in 1 .. Len(tools) : ix[o] = ix[p] => o = p
    BY <1>1 DEF ToolsPlaced
  <1>6. ToolsPlaced(tools, t, ix)
    BY <1>3, <1>4, <1>5 DEF ToolsPlaced
  <1> QED
    BY <1>6 DEF ToolsHeld

\* The open item goes to the list.
LEMMA HeldClosed ==
  ASSUME NEW tools, NEW s, AnthRules(s), s.type # "none", ToolsHeld(tools, s)
  PROVE  ToolsHeld(tools, AnthClosed(s))
  <1> DEFINE t == AnthClosed(s)
  <1>1. PICK ix \in [1 .. Len(tools) -> Nat] : ToolsPlaced(tools, s, ix)
    BY DEF ToolsHeld
  <1>2. s.index \in Nat
    BY AnthIndex
  <1>3. /\ t.type = "none" /\ t.index = s.index + 1
        /\ t.outs[s.index + 1] = [t |-> s.type, k |-> s.kind, n |-> s.args]
        /\ \A i \in 0 .. s.index - 1 : t.outs[i + 1] = s.outs[i + 1]
    BY ClosedRules
  <1> HIDE DEF t
  <1>4. ASSUME NEW i \in 0 .. s.index PROVE HeldAt(t, i) = HeldAt(s, i)
    <2>1. CASE i = s.index
      BY <1>2, <1>3, <2>1 DEF HeldAt
    <2>2. CASE i # s.index
      <3>1. i \in 0 .. s.index - 1 /\ i < s.index /\ i < t.index
        BY <1>2, <1>3, <2>2
      <3>2. t.outs[i + 1] = s.outs[i + 1]
        BY <1>3, <3>1
      <3> QED
        BY <3>1, <3>2 DEF HeldAt
    <2> QED
      BY <2>1, <2>2
  <1>5. ASSUME NEW i \in 0 .. t.index, HeldAt(t, i).t = "function_call"
        PROVE  i \in 0 .. s.index
    <2>1. CASE i = t.index
      <3>1. HeldAt(t, i).t = "none"
        BY <1>2, <1>3, <2>1 DEF HeldAt
      <3> QED
        BY <1>5, <3>1
    <2>2. CASE i # t.index
      BY <1>2, <1>3, <2>2
    <2> QED
      BY <2>1, <2>2
  <1>6. ASSUME NEW o \in 1 .. Len(tools)
        PROVE  /\ ix[o] \in 0 .. t.index
               /\ HeldAt(t, ix[o]) = [t |-> "function_call", k |-> tools[o].kind, n |-> tools[o].n]
    <2>1. ix[o] \in 0 .. s.index
          /\ HeldAt(s, ix[o]) = [t |-> "function_call", k |-> tools[o].kind, n |-> tools[o].n]
      BY <1>1 DEF ToolsPlaced
    <2>2. ix[o] \in 0 .. t.index
      BY <1>2, <1>3, <2>1
    <2> QED
      BY <1>4, <2>1, <2>2
  <1>7. ASSUME NEW i \in 0 .. t.index, HeldAt(t, i).t = "function_call"
        PROVE  \E o \in 1 .. Len(tools) : ix[o] = i
    <2>1. i \in 0 .. s.index
      BY <1>5, <1>7
    <2>2. HeldAt(s, i).t = "function_call"
      BY <1>4, <1>7, <2>1
    <2> QED
      BY <1>1, <2>1, <2>2 DEF ToolsPlaced
  <1>8. \A o, p \in 1 .. Len(tools) : ix[o] = ix[p] => o = p
    BY <1>1 DEF ToolsPlaced
  <1>9. ToolsPlaced(tools, t, ix)
    BY <1>3, <1>6, <1>7, <1>8 DEF ToolsPlaced
  <1> QED
    BY <1>9 DEF ToolsHeld, t

\* A call is opened for a tool that is sent.
LEMMA HeldAdded ==
  ASSUME NEW tools, tools \in Seq([kind : Kinds, n : Nat]), NEW s, NEW t, s.index \in Nat,
         t.index = s.index, t.outs = s.outs, s.type # "function_call",
         NEW kind \in Kinds, t.type = "function_call", t.kind = kind, t.args = 0,
         ToolsHeld(tools, s)
  PROVE  ToolsHeld(Append(tools, [kind |-> kind, n |-> 0]), t)
  <1>1. PICK ix \in [1 .. Len(tools) -> Nat] : ToolsPlaced(tools, s, ix)
    BY DEF ToolsHeld
  <1>2. PICK l \in Nat : l = Len(tools)
    OBVIOUS
  <1>3. PICK m \in Nat : m = l + 1
    OBVIOUS
  <1> DEFINE new == [kind |-> kind, n |-> 0]
             more == Append(tools, new)
             at == [o \in 1 .. m |-> IF o = m THEN s.index ELSE ix[o]]
  <1>4. /\ Len(more) = m /\ more[m].kind = kind /\ more[m].n = 0
        /\ \A o \in 1 .. l : more[o] = tools[o]
    <2>1. new \in [kind : Kinds, n : Nat] /\ new.kind = kind /\ new.n = 0
      OBVIOUS
    <2> HIDE DEF new
    <2> QED
      BY <1>2, <1>3, <2>1
  <1> HIDE DEF more
  <1>5. at \in [1 .. m -> Nat] /\ at[m] = s.index /\ \A o \in 1 .. l : at[o] = ix[o]
    BY <1>2, <1>3
  <1> HIDE DEF at
  <1>6. /\ \A i \in 0 .. s.index : i # s.index => HeldAt(t, i) = HeldAt(s, i)
        /\ HeldAt(s, s.index).t # "function_call"
        /\ HeldAt(t, s.index) = [t |-> "function_call", k |-> kind, n |-> 0]
    BY DEF HeldAt
  <1>7. \A o \in 1 .. l : /\ ix[o] \in 0 .. s.index /\ ix[o] # s.index
                          /\ HeldAt(s, ix[o]) = [t |-> "function_call", k |-> tools[o].kind,
                                                 n |-> tools[o].n]
    <2> SUFFICES ASSUME NEW o \in 1 .. l
                 PROVE  /\ ix[o] \in 0 .. s.index /\ ix[o] # s.index
                        /\ HeldAt(s, ix[o]) = [t |-> "function_call", k |-> tools[o].kind,
                                               n |-> tools[o].n]
      OBVIOUS
    <2>1. ix[o] \in 0 .. s.index
          /\ HeldAt(s, ix[o]) = [t |-> "function_call", k |-> tools[o].kind, n |-> tools[o].n]
      BY <1>1, <1>2 DEF ToolsPlaced
    <2>2. HeldAt(s, ix[o]).t = "function_call"
      BY <2>1
    <2> QED
      BY <1>6, <2>1, <2>2
  <1>8. ASSUME NEW o \in 1 .. m
        PROVE  /\ at[o] \in 0 .. t.index
               /\ HeldAt(t, at[o]) = [t |-> "function_call", k |-> more[o].kind, n |-> more[o].n]
    <2>1. CASE o = m
      BY <1>4, <1>5, <1>6, <2>1
    <2>2. CASE o # m
      <3>1. o \in 1 .. l
        BY <1>3, <2>2
      <3> QED
        BY <1>4, <1>5, <1>6, <1>7, <3>1
    <2> QED
      BY <2>1, <2>2
  <1>9. ASSUME NEW i \in 0 .. t.index, HeldAt(t, i).t = "function_call"
        PROVE  \E o \in 1 .. m : at[o] = i
    <2>1. CASE i = s.index
      BY <1>3, <1>5, <2>1
    <2>2. CASE i # s.index
      <3>1. i \in 0 .. s.index /\ HeldAt(s, i).t = "function_call"
        BY <1>6, <1>9, <2>2
      <3>2. PICK o \in 1 .. l : ix[o] = i
        BY <1>1, <1>2, <3>1 DEF ToolsPlaced
      <3> QED
        BY <1>3, <1>5, <3>2
    <2> QED
      BY <2>1, <2>2
  <1>10. ASSUME NEW o \in 1 .. m, NEW p \in 1 .. m, at[o] = at[p] PROVE o = p
    <2>1. \A q \in 1 .. m : q # m => q \in 1 .. l
      BY <1>3
    <2>2. CASE o # m /\ p # m
      BY <1>1, <1>2, <1>5, <1>10, <2>1, <2>2 DEF ToolsPlaced
    <2>3. CASE o = m \/ p = m
      BY <1>5, <1>7, <1>10, <2>1, <2>3
    <2> QED
      BY <2>2, <2>3
  <1>11. m > 0 /\ at[m] = t.index
    BY <1>3, <1>5
  <1>12. ToolsPlaced(more, t, at)
    BY <1>4, <1>8, <1>9, <1>10, <1>11 DEF ToolsPlaced
  <1> QED
    BY <1>4, <1>5, <1>12 DEF ToolsHeld, more

ToolMore(tools, o) == [tools EXCEPT ![o].n = @ + 1]

\* The last tool is sent a piece more.
LEMMA HeldMore ==
  ASSUME NEW tools, tools \in Seq([kind : Kinds, n : Nat]), NEW s, NEW t, s.index \in Nat,
         t.index = s.index, t.outs = s.outs, s.type = "function_call", t.type = s.type,
         t.kind = s.kind, s.args \in Nat, t.args = s.args + 1, ToolsHeld(tools, s)
  PROVE  /\ ToolsHeld(ToolMore(tools, Len(tools)), t)
         /\ ToolMore(tools, Len(tools)) \in Seq([kind : Kinds, n : Nat])
  <1>1. PICK ix \in [1 .. Len(tools) -> Nat] : ToolsPlaced(tools, s, ix)
    BY DEF ToolsHeld
  <1>2. PICK l \in Nat : l = Len(tools) /\ l > 0 /\ ix[l] = s.index
    BY <1>1 DEF ToolsPlaced
  <1>3. /\ tools[l] \in [kind : Kinds, n : Nat]
        /\ HeldAt(s, ix[l]) = [t |-> "function_call", k |-> tools[l].kind, n |-> tools[l].n]
    <2>1. l \in 1 .. Len(tools)
      BY <1>2
    <2>2. tools[l] \in [kind : Kinds, n : Nat]
      <3> DEFINE K == [kind : Kinds, n : Nat]
      <3>1. tools \in Seq(K)
        OBVIOUS
      <3> HIDE DEF K
      <3>2. tools[l] \in K
        BY <2>1, <3>1
      <3> QED
        BY <3>2 DEF K
    <2>3. HeldAt(s, ix[l]) = [t |-> "function_call", k |-> tools[l].kind, n |-> tools[l].n]
      BY <1>1, <2>1 DEF ToolsPlaced
    <2> QED
      BY <2>2, <2>3
  <1>4. PICK m \in Nat : m = tools[l].n + 1
    BY <1>3
  <1> DEFINE x == [tools[l] EXCEPT !.n = m]
             more == ToolMore(tools, l)
  <1>5. x \in [kind : Kinds, n : Nat] /\ x.kind = tools[l].kind /\ x.n = m
    BY <1>3
  <1>6. more = [tools EXCEPT ![l] = x]
    BY <1>4 DEF ToolMore
  <1> HIDE DEF x, more
  <1>7. /\ more \in Seq([kind : Kinds, n : Nat]) /\ Len(more) = l
        /\ \A o \in 1 .. l : more[o] = IF o = l THEN x ELSE tools[o]
    BY <1>2, <1>5, <1>6, ExceptSeq
  <1>8. tools[l].kind = s.kind /\ tools[l].n = s.args
    <2>1. HeldAt(s, ix[l]) = [t |-> s.type, k |-> s.kind, n |-> s.args]
      BY <1>2 DEF HeldAt
    <2> QED
      BY <1>3, <2>1
  <1>9. /\ \A i \in 0 .. s.index : i # s.index => HeldAt(t, i) = HeldAt(s, i)
        /\ HeldAt(s, s.index).t = "function_call"
        /\ HeldAt(t, s.index) = [t |-> "function_call", k |-> s.kind, n |-> s.args + 1]
    BY DEF HeldAt
  <1>10. ASSUME NEW o \in 1 .. l
         PROVE  /\ ix[o] \in 0 .. t.index
                /\ HeldAt(t, ix[o]) = [t |-> "function_call", k |-> more[o].kind, n |-> more[o].n]
    <2>1. CASE o = l
      BY <1>2, <1>4, <1>5, <1>7, <1>8, <1>9, <2>1
    <2>2. CASE o # l
      <3>1. ix[o] # s.index /\ ix[o] \in 0 .. s.index
            /\ HeldAt(s, ix[o]) = [t |-> "function_call", k |-> tools[o].kind, n |-> tools[o].n]
        BY <1>1, <1>2, <2>2 DEF ToolsPlaced
      <3>2. HeldAt(t, ix[o]) = HeldAt(s, ix[o]) /\ more[o] = tools[o]
        BY <1>7, <1>9, <2>2, <3>1
      <3> QED
        BY <3>1, <3>2
    <2> QED
      BY <2>1, <2>2
  <1>11. ASSUME NEW i \in 0 .. t.index, HeldAt(t, i).t = "function_call"
         PROVE  \E o \in 1 .. l : ix[o] = i
    <2>1. HeldAt(s, i).t = "function_call"
      BY <1>9, <1>11
    <2> QED
      BY <1>1, <1>2, <2>1 DEF ToolsPlaced
  <1>12. \A o, p \in 1 .. l : ix[o] = ix[p] => o = p
    BY <1>1, <1>2 DEF ToolsPlaced
  <1>13. ToolsPlaced(more, t, ix)
    BY <1>2, <1>7, <1>10, <1>11, <1>12 DEF ToolsPlaced
  <1> QED
    BY <1>2, <1>7, <1>13 DEF ToolsHeld, more

LEMMA Joins ==
  ASSUME NEW a, NEW b
  PROVE  /\ <<>> \o <<a>> \o <<>> = <<a>> /\ <<>> \o <<>> \o <<a>> = <<a>>
         /\ <<>> \o <<a>> \o <<b>> = <<a, b>> /\ <<a>> \o <<b>> \o <<>> = <<a, b>>
         /\ <<a>> \o <<b>> = <<a, b>>
         /\ Append(<<>>, a) = <<a>> /\ Append(<<a>>, b) = <<a, b>>
  <1> DEFINE n == <<>>
             v == <<a>>
             w == <<a, b>>
  <1>1. n \in Seq({a}) /\ v \in Seq({a}) /\ w \in Seq({a, b})
    OBVIOUS
  <1>6. v = Append(n, a)
    OBVIOUS
  <1>7. w = Append(v, b)
    OBVIOUS
  <1>3. IsSequence(n) /\ IsSequence(v) /\ IsSequence(w)
    BY <1>1 DEF IsSequence
  <1>4. n \o n = n /\ n \o <<a>> = Append(n, a) /\ v \o n = v /\ w \o n = w
        /\ v \o <<b>> = Append(v, b)
    BY <1>3, Appends
  <1> HIDE DEF n, v, w
  <1>5. /\ (n \o v) \o n = v /\ (n \o n) \o v = v /\ (n \o v) \o <<b>> = w
        /\ (v \o <<b>>) \o n = w /\ v \o <<b>> = w
    BY <1>4, <1>6, <1>7 DEF v
  <1> QED
    BY <1>5, <1>6, <1>7 DEF n, v, w

\* What holds before a step from an Anthropic event.
LEMMA AnthBefore ==
  ASSUME AnthHolds
  PROVE  /\ rspUp \in AnthUps /\ rspUp.from = "anthropic" /\ rspUp.special \in BOOLEAN
         /\ rspAnth \in AnthStates /\ AnthRules(rspAnth) /\ rspAnth.index \in Nat
         /\ AnthFits(rspUp.special, rspAnth, Progress(rspUp, rspAnth), Before)
         /\ AnthTracks(rspUp, rspAnth) /\ ToolsHeld(rspUp.tools, rspAnth)
         /\ ~Before.to.seen.cut
  BY AnthIndex DEF AnthHolds, AnthAgrees, AnthUps, AnthFits, AnthRules

LEMMA StartHolds ==
  ASSUME AnthHolds, AnthStart PROVE AnthHolds' /\ rspChat' = rspChat
  <1> DEFINE s == rspAnth
             t == [s EXCEPT !.created = TRUE]
             u == [rspUp EXCEPT !.at = "between"]
             e == Ev("created", 0, "none", "none", 0)
             y == Passes(Before, e)
  <1>1. rspUp.at = "new" /\ rspUp' = u /\ AnthTo([s |-> t, v |-> <<e>>])
    BY DEF AnthStart, AnthAt
  <1>2. /\ t.index = s.index /\ t.outs = s.outs /\ t.type = s.type /\ t.created = TRUE
        /\ t.stop = s.stop
    BY AnthBefore DEF AnthStates
  <1>3. /\ u \in AnthUps /\ u.special = rspUp.special /\ u.at = "between" /\ u.last = rspUp.last
        /\ u.tools = rspUp.tools /\ u.end = rspUp.end
    BY AnthBefore DEF AnthUps
  <1>4. AnthTracks(u, t)
    BY <1>1, <1>2, <1>3, AnthBefore DEF AnthTracks
  <1>5. Progress(u, t) = Progress(rspUp, s)
    BY <1>1, <1>2, <1>3 DEF Progress
  <1>6. AnthFits(u.special, t, Progress(u, t), y) /\ y.to.seen.cut = Before.to.seen.cut
    <2>1. ~s.created
      BY <1>1, AnthBefore DEF AnthTracks
    <2>2. AnthFits(rspUp.special, t, Progress(rspUp, s), y) /\ y.to.seen.cut = Before.to.seen.cut
      BY <2>1, AnthBefore, StartFits
    <2> QED
      BY <1>3, <1>5, <2>2
  <1>7. ToolsHeld(u.tools, t)
    <2>1. s.type # "function_call" /\ t.type # "function_call"
      BY <1>1, <1>2, AnthBefore DEF AnthTracks
    <2> HIDE DEF t
    <2>2. ToolsHeld(rspUp.tools, t)
      BY <1>2, <2>1, AnthBefore, HeldSteady
    <2> QED
      BY <1>3, <2>2
  <1>8. AnthAgrees(u, t, y)
    BY <1>3, <1>4, <1>6, <1>7, AnthBefore DEF AnthAgrees
  <1>9. FoldLeft(Passes, Before, <<e>>) = y
    BY PassesOne DEF Passed
  <1> HIDE DEF t, u, e, y
  <1> QED
    BY <1>1, <1>8, <1>9, AnthNext

LEMMA AnthMessageDeltaHolds ==
  ASSUME AnthHolds, NEW stop \in {"end_turn", "max_tokens", "tool_use"}, AnthMessageDelta(stop)
  PROVE  AnthHolds' /\ rspChat' = rspChat
  <1> DEFINE s == rspAnth
             t == [s EXCEPT !.stop = stop]
             u == [rspUp EXCEPT !.at = "ended", !.end = stop]
             pr == Progress(rspUp, s)
  <1>1. rspUp.at = "between" /\ rspUp' = u /\ AnthTo([s |-> t, v |-> <<>>])
    BY DEF AnthMessageDelta, AnthAt
  <1>2. /\ t \in AnthStates /\ t.index = s.index /\ t.outs = s.outs /\ t.type = s.type
        /\ t.created = s.created /\ t.kind = s.kind /\ t.args = s.args
        /\ t.completed = s.completed /\ t.stop = stop
    BY AnthBefore DEF AnthStates
  <1>3. /\ u \in AnthUps /\ u.special = rspUp.special /\ u.at = "ended" /\ u.last = rspUp.last
        /\ u.tools = rspUp.tools /\ u.end = stop
    BY AnthBefore DEF AnthUps
  <1>4. AnthTracks(u, t)
    BY <1>1, <1>2, <1>3, AnthBefore DEF AnthTracks
  <1>5. Progress(u, t) = pr
    BY <1>1, <1>2, <1>3 DEF Progress
  <1> HIDE DEF t, pr
  <1>6. AnthFits(u.special, t, pr, Before)
    <2>1. AnthFits(rspUp.special, s, pr, Before)
      BY AnthBefore DEF pr
    <2>2. AnthRules(t)
      BY <1>2, AnthBefore DEF AnthRules
    <2>3. AnthShows(rspUp.special, t, pr, Before.to.seen.items)
      BY <1>2, <2>1 DEF AnthFits, AnthShows, OpenItem
    <2>4. CallsOpen(rspUp.special, t) = CallsOpen(rspUp.special, s)
      BY <1>2 DEF CallsOpen
    <2> QED
      BY <1>2, <1>3, <2>1, <2>2, <2>3, <2>4 DEF AnthFits
  <1>7. ToolsHeld(u.tools, t)
    <2>1. s.type # "function_call" /\ t.type # "function_call"
      BY <1>1, <1>2, AnthBefore DEF AnthTracks
    <2>2. ToolsHeld(rspUp.tools, t)
      BY <1>2, <2>1, AnthBefore, HeldSteady
    <2> QED
      BY <1>3, <2>2
  <1>8. AnthAgrees(u, t, Before)
    BY <1>3, <1>4, <1>5, <1>6, <1>7, AnthBefore DEF AnthAgrees
  <1>9. FoldLeft(Passes, Before, <<>>) = Before
    BY PassesNone
  <1> HIDE DEF u
  <1> QED
    BY <1>1, <1>8, <1>9, AnthNext

LEMMA AnthDeltaHolds ==
  ASSUME AnthHolds, AnthDelta PROVE AnthHolds' /\ rspChat' = rspChat
  <1> DEFINE s == rspAnth
             n == IF rspUp.last = "tool_use" THEN 1 ELSE 0
             t == AnthMore(s, n)
             u == IF n = 1 THEN [rspUp EXCEPT !.tools[Len(rspUp.tools)].n = @ + 1] ELSE rspUp
             e == Ev("delta", s.index, s.type, s.kind, n)
             y == Passes(Before, e)
             pr == Progress(rspUp, s)
  <1>1. rspUp.at = "block" /\ rspUp' = u /\ AnthTo([s |-> t, v |-> <<e>>])
    BY DEF AnthDelta, AnthAt, AnthMore
  <1>2. /\ s.created /\ s.type = ItemOfBlock(rspUp.last) /\ s.type # "none"
        /\ n = (IF s.type = "function_call" THEN 1 ELSE 0) /\ n \in Nat /\ s.args \in Nat
    BY <1>1, AnthBefore DEF AnthTracks, ItemOfBlock, AnthStates
  <1>3. PICK m \in Nat : m = s.args + n
    BY <1>2
  <1>4. /\ t.index = s.index /\ t.outs = s.outs /\ t.type = s.type
        /\ t.created = s.created /\ t.kind = s.kind /\ t.args = m
        /\ t.completed = s.completed /\ t.stop = s.stop
    <2>1. t = [s EXCEPT !.args = m]
      BY <1>3 DEF AnthMore
    <2> HIDE DEF t
    <2> QED
      BY <2>1, AnthBefore DEF AnthStates
  <1>5. pr = (IF s.type = "message" THEN "open" ELSE "none")
    BY <1>1 DEF Progress
  <1> HIDE DEF t, pr, n
  <1>6. AnthFits(rspUp.special, t, pr, y) /\ y.to.seen.cut = Before.to.seen.cut
    <2>1. AnthFits(rspUp.special, s, pr, Before)
      BY AnthBefore DEF pr
    <2>2. s.type # "function_call" => n = 0
      BY <1>2
    <2>3. (s.type = "message" => pr = "open") /\ (s.type = "function_call" => pr = "none")
      BY <1>5
    <2> QED
      BY <1>2, <2>1, <2>2, <2>3, AnthBefore, DeltaFits DEF t
  <1>7. /\ u \in AnthUps /\ u.special = rspUp.special /\ u.at = rspUp.at /\ u.last = rspUp.last
        /\ u.end = rspUp.end /\ ToolsHeld(u.tools, t)
    <2>1. CASE s.type = "function_call"
      <3> DEFINE more == ToolMore(rspUp.tools, Len(rspUp.tools))
      <3>1. u = [rspUp EXCEPT !.tools = more]
        BY <1>2, <2>1 DEF ToolMore
      <3>2. rspUp.tools \in Seq([kind : Kinds, n : Nat])
        BY AnthBefore DEF AnthUps
      <3>3. t.args = s.args + 1
        BY <1>2, <1>3, <1>4, <2>1
      <3>4. ToolsHeld(more, t) /\ more \in Seq([kind : Kinds, n : Nat])
        BY <1>2, <1>4, <2>1, <3>2, <3>3, AnthBefore, HeldMore
      <3> HIDE DEF more, u
      <3>5. /\ u \in AnthUps /\ u.special = rspUp.special /\ u.at = rspUp.at /\ u.last = rspUp.last
            /\ u.end = rspUp.end /\ u.tools = more
        BY <3>1, <3>4, AnthBefore DEF AnthUps
      <3> QED
        BY <3>4, <3>5
    <2>2. CASE s.type # "function_call"
      <3>1. u = rspUp
        BY <1>2, <2>2
      <3>2. ToolsHeld(rspUp.tools, t)
        BY <1>4, <2>2, AnthBefore, HeldSteady
      <3> HIDE DEF u
      <3> QED
        BY <3>1, <3>2, AnthBefore
    <2> QED
      BY <2>1, <2>2
  <1> HIDE DEF u
  <1>8. Progress(u, t) = pr
    BY <1>4, <1>7 DEF Progress, pr
  <1>9. AnthTracks(u, t)
    BY <1>1, <1>4, <1>7, AnthBefore DEF AnthTracks
  <1>10. AnthAgrees(u, t, y)
    BY <1>6, <1>7, <1>8, <1>9, AnthBefore DEF AnthAgrees
  <1>11. FoldLeft(Passes, Before, <<e>>) = y
    BY PassesOne DEF Passed
  <1> HIDE DEF e, y
  <1> QED
    BY <1>1, <1>10, <1>11, AnthNext

LEMMA ItemClosedIs ==
  ASSUME NEW s
  PROVE  /\ s.type = "none" => ItemClosed(s) = [s |-> s, v |-> <<>>]
         /\ s.type # "none" =>
              ItemClosed(s) = [s |-> AnthClosed(s),
                               v |-> <<Ev("done", s.index, s.type, s.kind, s.args)>>]
  BY DEF ItemClosed, AnthClosed

LEMMA AnthBlockStopHolds ==
  ASSUME AnthHolds, AnthBlockStop PROVE AnthHolds' /\ rspChat' = rspChat
  <1> DEFINE s == rspAnth
             u == [rspUp EXCEPT !.at = "between"]
             e == Ev("part_done", s.index, s.type, s.kind, 0)
             d == Ev("done", s.index, s.type, s.kind, s.args)
             y == Passes(Before, e)
             pr == Progress(rspUp, s)
  <1>1. /\ rspUp.at = "block" /\ rspUp' = u
        /\ AnthTo(IF s.type = "message" THEN [s |-> s, v |-> <<e>>]
                  ELSE [ItemClosed(s) EXCEPT !.v = <<e>> \o @])
    BY DEF AnthBlockStop, AnthAt
  <1>2. s.created /\ s.type # "none" /\ s.type = ItemOfBlock(rspUp.last)
    BY <1>1, AnthBefore DEF AnthTracks
  <1>3. /\ u \in AnthUps /\ u.special = rspUp.special /\ u.at = "between" /\ u.last = rspUp.last
        /\ u.tools = rspUp.tools /\ u.end = rspUp.end
    BY AnthBefore DEF AnthUps
  <1>4. AnthFits(rspUp.special, s, "done", y) /\ y.to.seen.cut = Before.to.seen.cut
    <2>1. s.type = "function_call" => pr = "none"
      BY DEF Progress
    <2> HIDE DEF pr
    <2>2. AnthFits(rspUp.special, s, pr, Before)
      BY AnthBefore DEF pr
    <2> QED
      BY <1>2, <2>1, <2>2, AnthBefore, PartDoneFits
  <1> HIDE DEF e, y, u
  <1>5. CASE s.type = "message"
    <2>1. AnthTo([s |-> s, v |-> <<e>>])
      BY <1>1, <1>5
    <2>2. Progress(u, s) = "done"
      BY <1>3, <1>5 DEF Progress
    <2>3. AnthTracks(u, s)
      BY <1>1, <1>3, <1>5, AnthBefore DEF AnthTracks
    <2>4. AnthAgrees(u, s, y)
      BY <1>3, <1>4, <2>2, <2>3, AnthBefore DEF AnthAgrees
    <2>5. FoldLeft(Passes, Before, <<e>>) = y
      BY PassesOne DEF Passed, y
    <2> QED
      BY <1>1, <2>1, <2>4, <2>5, AnthNext
  <1>6. CASE s.type # "message"
    <2> DEFINE t == AnthClosed(s)
               z == Passes(y, d)
               p == ItemClosed(s)
    <2>1. AnthTo([s |-> t, v |-> <<e, d>>])
      <3>1. AnthTo([p EXCEPT !.v = <<e>> \o @])
        BY <1>1, <1>6
      <3>2. p = [s |-> t, v |-> <<d>>]
        BY <1>2, ItemClosedIs
      <3>3. <<e>> \o <<d>> = <<e, d>>
        BY Joins
      <3> HIDE DEF p, t, d
      <3>4. [p EXCEPT !.v = <<e>> \o @] = [s |-> t, v |-> <<e, d>>]
        BY <3>2, <3>3
      <3> QED
        BY <3>1, <3>4
    <2>2. /\ AnthFits(rspUp.special, t, "none", z)
          /\ z.to.seen.cut = y.to.seen.cut
      BY <1>2, <1>4, AnthBefore, DoneFits
    <2>3. t.type = "none" /\ t.created = s.created /\ t.stop = s.stop
      BY <1>2, AnthBefore, ClosedRules
    <2>4. ToolsHeld(rspUp.tools, t)
      BY <1>2, AnthBefore, HeldClosed
    <2> HIDE DEF t, z
    <2>5. Progress(u, t) = "none"
      BY <2>3 DEF Progress
    <2>6. AnthTracks(u, t)
      BY <1>1, <1>3, <2>3, AnthBefore DEF AnthTracks
    <2>7. AnthAgrees(u, t, z)
      BY <1>3, <1>4, <2>2, <2>4, <2>5, <2>6, AnthBefore DEF AnthAgrees
    <2> HIDE DEF d
    <2>8. FoldLeft(Passes, Before, <<e, d>>) = z
      <3>1. Passed(Before, e, y) /\ Passed(y, d, z)
        BY DEF y, z, Passed
      <3> QED
        BY <3>1, PassesTwo
    <2> QED
      BY <1>1, <2>1, <2>7, <2>8, AnthNext
  <1> QED
    BY <1>5, <1>6

LEMMA ThinkingHolds ==
  ASSUME AnthHolds, AnthBlock("thinking", "none") PROVE AnthHolds' /\ rspChat' = rspChat
  <1> DEFINE s == rspAnth
             t == AnthAdded(s, "reasoning", "none")
             u == [rspUp EXCEPT !.at = "block", !.last = "thinking"]
             e == Ev("added", s.index, "reasoning", "none", 0)
             y == Passes(Before, e)
  <1>1. /\ rspUp.at = "between" /\ rspUp.last # "text" /\ s.index < RspBlocks
        /\ rspUp' = [rspUp EXCEPT !.at = "block", !.last = "thinking", !.tools = @]
        /\ AnthTo([s |-> t, v |-> <<>> \o <<e>> \o <<>>])
    BY DEF AnthBlock, AnthAt, AnthAdded
  <1>2. s.created /\ s.type = "none"
    BY <1>1, AnthBefore DEF AnthTracks
  <1>3. rspUp' = u /\ AnthTo([s |-> t, v |-> <<e>>])
    <2>1. [rspUp EXCEPT !.at = "block", !.last = "thinking", !.tools = @] = u
      BY AnthBefore DEF AnthUps
    <2>2. <<>> \o <<e>> \o <<>> = <<e>>
      BY Joins
    <2> HIDE DEF e, t, u
    <2> QED
      BY <1>1, <2>1, <2>2
  <1>4. /\ u \in AnthUps /\ u.special = rspUp.special /\ u.at = "block" /\ u.last = "thinking"
        /\ u.tools = rspUp.tools /\ u.end = rspUp.end
    BY AnthBefore DEF AnthUps
  <1>5. /\ t.type = "reasoning" /\ t.index = s.index /\ t.outs = s.outs
        /\ t.created = s.created /\ t.stop = s.stop
    BY AnthBefore DEF AnthAdded, AnthStates
  <1>6. AnthFits(rspUp.special, t, "none", y) /\ y.to.seen.cut = Before.to.seen.cut
    <2> DEFINE pr == Progress(rspUp, s)
    <2>1. AnthFits(rspUp.special, s, pr, Before)
      BY AnthBefore
    <2> HIDE DEF pr
    <2>2. "reasoning" \in OutTypes /\ "none" \in Kinds \cup {"none"}
          /\ ("reasoning" = "function_call" <=> "none" # "none")
      BY DEF OutTypes
    <2> QED
      BY <1>1, <1>2, <2>1, <2>2, AnthBefore, AddedFits
  <1> HIDE DEF t, u
  <1>7. ToolsHeld(rspUp.tools, t)
    BY <1>2, <1>5, AnthBefore, HeldSteady
  <1>8. Progress(u, t) = "none"
    BY <1>5 DEF Progress
  <1>9. AnthTracks(u, t)
    BY <1>1, <1>2, <1>4, <1>5, AnthBefore DEF AnthTracks, ItemOfBlock
  <1>10. AnthAgrees(u, t, y)
    BY <1>4, <1>6, <1>7, <1>8, <1>9, AnthBefore DEF AnthAgrees
  <1>11. FoldLeft(Passes, Before, <<e>>) = y
    BY PassesOne DEF Passed
  <1> HIDE DEF e, y
  <1> QED
    BY <1>3, <1>10, <1>11, AnthNext

LEMMA TextHolds ==
  ASSUME AnthHolds, AnthBlock("text", "none") PROVE AnthHolds' /\ rspChat' = rspChat
  <1> DEFINE s == rspAnth
             t == AnthAdded(s, "message", "none")
             u == [rspUp EXCEPT !.at = "block", !.last = "text"]
             e == Ev("added", s.index, "message", "none", 0)
             d == Ev("part", s.index, "message", "none", 0)
             pr == Progress(rspUp, s)
  <1>1. /\ rspUp.at = "between" /\ s.index < RspBlocks
        /\ rspUp' = [rspUp EXCEPT !.at = "block", !.last = "text", !.tools = @]
        /\ AnthTo([s |-> t, v |-> <<>> \o (IF s.type = "message" THEN <<>> ELSE <<e>>) \o <<d>>])
    BY DEF AnthBlock, AnthAt, AnthAdded
  <1>2. s.created /\ s.type \in {"none", "message"}
    BY <1>1, AnthBefore DEF AnthTracks
  <1>3. rspUp' = u
    <2>1. [rspUp EXCEPT !.at = "block", !.last = "text", !.tools = @] = u
      BY AnthBefore DEF AnthUps
    <2> QED
      BY <1>1, <2>1
  <1>4. /\ u \in AnthUps /\ u.special = rspUp.special /\ u.at = "block" /\ u.last = "text"
        /\ u.tools = rspUp.tools /\ u.end = rspUp.end
    BY AnthBefore DEF AnthUps
  <1>5. /\ t.type = "message" /\ t.index = s.index /\ t.outs = s.outs
        /\ t.created = s.created /\ t.stop = s.stop /\ t.kind = "none"
        /\ s.type = "message" => t = s
    <2>1. s \in AnthStates /\ (s.type = "message" => s.kind = "none")
      BY AnthBefore DEF AnthRules
    <2>2. s.type = "message" => t = s
      BY <2>1 DEF AnthAdded, AnthStates
    <2> QED
      BY <2>1, <2>2 DEF AnthAdded, AnthStates
  <1>6. AnthFits(rspUp.special, s, pr, Before)
    BY AnthBefore
  <1> HIDE DEF t, u, pr
  <1>7. ToolsHeld(u.tools, t)
    <2>1. s.type # "function_call" /\ t.type # "function_call"
      BY <1>2, <1>5
    <2>2. ToolsHeld(rspUp.tools, t)
      BY <1>5, <2>1, AnthBefore, HeldSteady
    <2> QED
      BY <1>4, <2>2
  <1>8. Progress(u, t) = "open"
    BY <1>4, <1>5 DEF Progress
  <1>9. AnthTracks(u, t)
    BY <1>1, <1>2, <1>4, <1>5, AnthBefore DEF AnthTracks, ItemOfBlock
  <1>10. CASE s.type = "message"
    <2> DEFINE y == Passes(Before, d)
    <2>1. AnthTo([s |-> t, v |-> <<d>>])
      <3>1. <<>> \o <<>> \o <<d>> = <<d>>
        BY Joins
      <3> HIDE DEF d, e
      <3> QED
        BY <1>1, <1>10, <3>1
    <2>2. AnthFits(rspUp.special, s, "open", y) /\ y.to.seen.cut = Before.to.seen.cut
      <3>1. d = Ev("part", s.index, "message", s.kind, 0)
        BY <1>5, <1>10
      <3> HIDE DEF d
      <3> QED
        BY <1>2, <1>6, <1>10, <3>1, AnthBefore, PartFits
    <2> HIDE DEF y
    <2>3. AnthAgrees(u, t, y)
      BY <1>4, <1>5, <1>7, <1>8, <1>9, <1>10, <2>2, AnthBefore DEF AnthAgrees
    <2> HIDE DEF d
    <2>4. FoldLeft(Passes, Before, <<d>>) = y
      BY PassesOne DEF Passed, y
    <2> QED
      BY <1>3, <2>1, <2>3, <2>4, AnthNext
  <1>11. CASE s.type = "none"
    <2> DEFINE y == Passes(Before, e)
               z == Passes(y, d)
    <2>1. AnthTo([s |-> t, v |-> <<e, d>>])
      <3>1. <<>> \o <<e>> \o <<d>> = <<e, d>>
        BY Joins
      <3> HIDE DEF d, e
      <3> QED
        BY <1>1, <1>11, <3>1
    <2>2. AnthFits(rspUp.special, t, "none", y) /\ y.to.seen.cut = Before.to.seen.cut
      <3>1. "message" \in OutTypes /\ "none" \in Kinds \cup {"none"}
            /\ ("message" = "function_call" <=> "none" # "none")
        BY DEF OutTypes
      <3> QED
        BY <1>1, <1>2, <1>6, <1>11, <3>1, AnthBefore, AddedFits DEF t
    <2> HIDE DEF y
    <2>3. AnthFits(rspUp.special, t, "open", z) /\ z.to.seen.cut = y.to.seen.cut
      <3>1. d = Ev("part", t.index, "message", t.kind, 0) /\ t.created /\ t.type = "message"
        BY <1>2, <1>5
      <3> HIDE DEF d
      <3>2. z = Passes(y, Ev("part", t.index, "message", t.kind, 0))
        BY <3>1
      <3> HIDE DEF z
      <3> QED
        BY <2>2, <3>1, <3>2, AnthBefore, PartFits
    <2> HIDE DEF z
    <2>4. AnthAgrees(u, t, z)
      BY <1>4, <1>7, <1>8, <1>9, <2>2, <2>3, AnthBefore DEF AnthAgrees
    <2> HIDE DEF d, e
    <2>5. FoldLeft(Passes, Before, <<e, d>>) = z
      <3>1. Passed(Before, e, y) /\ Passed(y, d, z)
        BY DEF y, z, Passed
      <3> QED
        BY <3>1, PassesTwo
    <2> QED
      BY <1>3, <2>1, <2>4, <2>5, AnthNext
  <1> QED
    BY <1>2, <1>10, <1>11

LEMMA ToolUseHolds ==
  ASSUME AnthHolds, NEW kind \in Kinds, AnthBlock("tool_use", kind)
  PROVE  AnthHolds' /\ rspChat' = rspChat
  <1> DEFINE s == rspAnth
             p == ItemClosed(s)
             c == p.s
             t == AnthAdded(c, "function_call", kind)
             tools == Append(rspUp.tools, [kind |-> kind, n |-> 0])
             u == [rspUp EXCEPT !.at = "block", !.last = "tool_use", !.tools = tools]
             e == Ev("added", c.index, "function_call", kind, 0)
             pr == Progress(rspUp, s)
  <1>1. /\ rspUp.at = "between" /\ c.index < RspBlocks /\ rspUp' = u
        /\ AnthTo([s |-> t, v |-> p.v \o <<e>> \o <<>>])
    BY DEF AnthBlock, AnthAt, AnthAdded
  <1>2. s.created /\ s.type \in {"none", "message"}
    BY <1>1, AnthBefore DEF AnthTracks
  <1>3. /\ u \in AnthUps /\ u.special = rspUp.special /\ u.at = "block" /\ u.last = "tool_use"
        /\ u.tools = tools /\ u.end = rspUp.end
    <2>1. rspUp.tools \in Seq([kind : Kinds, n : Nat])
      BY AnthBefore DEF AnthUps
    <2>2. tools \in Seq([kind : Kinds, n : Nat])
      BY <2>1
    <2> HIDE DEF tools
    <2> QED
      BY <2>2, AnthBefore DEF AnthUps
  <1>4. PICK y, v : /\ FoldLeft(Passes, Before, v \o <<e>> \o <<>>) = Passes(y, e)
                    /\ v = p.v /\ AnthFits(rspUp.special, c, "none", y)
                    /\ y.to.seen.cut = Before.to.seen.cut /\ c.type = "none"
                    /\ c.created /\ c.stop = s.stop /\ ToolsHeld(rspUp.tools, c)
    <2>1. CASE s.type = "none"
      <3>1. p = [s |-> s, v |-> <<>>]
        BY <2>1, ItemClosedIs
      <3>2. pr = "none"
        BY <2>1 DEF Progress
      <3>3. AnthFits(rspUp.special, c, "none", Before)
        BY <3>1, <3>2, AnthBefore
      <3>4. <<>> \o <<e>> \o <<>> = <<e>>
        BY Joins
      <3>5. FoldLeft(Passes, Before, <<e>>) = Passes(Before, e)
        BY PassesOne DEF Passed
      <3>6. c = s /\ p.v = <<>>
        BY <3>1
      <3>7. ToolsHeld(rspUp.tools, c)
        BY <3>6, AnthBefore
      <3> HIDE DEF p, c, e
      <3>8. FoldLeft(Passes, Before, p.v \o <<e>> \o <<>>) = Passes(Before, e)
        BY <3>4, <3>5, <3>6
      <3> QED
        BY <1>2, <2>1, <3>3, <3>6, <3>7, <3>8
    <2>2. CASE s.type = "message"
      <3> DEFINE d == Ev("done", s.index, s.type, s.kind, s.args)
                 y == Passes(Before, d)
      <3>1. s.type # "none" /\ pr = "done"
        BY <1>1, <2>2 DEF Progress
      <3>2. p = [s |-> AnthClosed(s), v |-> <<d>>]
        BY <3>1, ItemClosedIs
      <3>3. c = AnthClosed(s) /\ p.v = <<d>>
        BY <3>2
      <3>4. AnthFits(rspUp.special, s, "done", Before)
        BY <3>1, AnthBefore
      <3> HIDE DEF p, c, e, pr
      <3>5. AnthFits(rspUp.special, c, "none", y) /\ y.to.seen.cut = Before.to.seen.cut
        BY <1>2, <3>1, <3>3, <3>4, AnthBefore, DoneFits
      <3>6. c.type = "none" /\ c.created = s.created /\ c.stop = s.stop
        BY <3>1, <3>3, AnthBefore, ClosedRules
      <3>7. ToolsHeld(rspUp.tools, c)
        BY <3>1, <3>3, AnthBefore, HeldClosed
      <3> HIDE DEF d
      <3>8. <<d>> \o <<e>> \o <<>> = <<d, e>>
        BY Joins
      <3>9. FoldLeft(Passes, Before, <<d, e>>) = Passes(y, e)
        <4> DEFINE x == Passes(y, e)
        <4>1. Passed(Before, d, y) /\ Passed(y, e, x)
          BY DEF Passed
        <4> HIDE DEF y, x
        <4>2. FoldLeft(Passes, Before, <<d, e>>) = x
          BY <4>1, PassesTwo
        <4> QED
          BY <4>2 DEF x
      <3> HIDE DEF y
      <3>10. FoldLeft(Passes, Before, p.v \o <<e>> \o <<>>) = Passes(y, e)
        BY <3>3, <3>8, <3>9
      <3> QED
        BY <1>2, <3>5, <3>6, <3>7, <3>10
    <2> QED
      BY <1>2, <2>1, <2>2
  <1> DEFINE z == Passes(y, e)
  <1> HIDE DEF p, c
  <1>5. AnthRules(c) /\ c \in AnthStates /\ c.index \in Nat
    BY <1>4, AnthIndex DEF AnthFits, AnthRules
  <1>6. /\ t.type = "function_call" /\ t.index = c.index /\ t.outs = c.outs /\ t.args = 0
        /\ t.created = c.created /\ t.stop = c.stop /\ t.kind = kind
    <2>1. c.args = 0
      BY <1>4, <1>5 DEF AnthRules
    <2> QED
      BY <1>5, <2>1 DEF AnthAdded, AnthStates
  <1>7. AnthFits(rspUp.special, t, "none", z) /\ z.to.seen.cut = y.to.seen.cut
    <2>1. "function_call" \in OutTypes /\ kind \in Kinds \cup {"none"}
          /\ ("function_call" = "function_call" <=> kind # "none")
      BY DEF OutTypes, Kinds
    <2> QED
      BY <1>1, <1>4, <2>1, AnthBefore, AddedFits
  <1> HIDE DEF t, z, u
  <1>8. ToolsHeld(tools, t)
    <2>1. rspUp.tools \in Seq([kind : Kinds, n : Nat]) /\ c.type # "function_call"
      BY <1>4, AnthBefore DEF AnthUps
    <2> QED
      BY <1>4, <1>5, <1>6, <2>1, HeldAdded
  <1> HIDE DEF tools
  <1>9. Progress(u, t) = "none"
    BY <1>6 DEF Progress
  <1>10. AnthTracks(u, t)
    BY <1>1, <1>2, <1>3, <1>4, <1>6, AnthBefore DEF AnthTracks, ItemOfBlock
  <1>11. AnthAgrees(u, t, z)
    BY <1>3, <1>4, <1>7, <1>8, <1>9, <1>10, AnthBefore DEF AnthAgrees
  <1> HIDE DEF e
  <1>12. FoldLeft(Passes, Before, p.v \o <<e>> \o <<>>) = z
    BY <1>4 DEF z
  <1> QED
    BY <1>1, <1>11, <1>12, AnthNext

-----------------------------------------------------------------------------
(* The end of an Anthropic message                                         *)

\* The calls read from an Anthropic stream are those sent.
LEMMA AnthCallsAgree ==
  ASSUME NEW s, NEW z, NEW u, u \in AnthUps, AnthFits(u.special, s, "none", z), s.type = "none",
         ToolsHeld(u.tools, s),
         NEW r, ReadersFit(r), r.seen.items = z.to.seen.items, ~r.seen.cut
  PROVE  CallsMatch(r.back.tools, u)
  <1> DEFINE sp == u.special
             sent == SentCalls(u)
             items == r.seen.items
  <1>1. PICK at \in [1 .. Len(u.tools) -> Nat] : ToolsPlaced(u.tools, s, at)
    BY DEF ToolsHeld
  <1>2. sp \in BOOLEAN /\ u.tools \in Seq([kind : Kinds, n : Nat])
    BY DEF AnthUps
  <1>3. PICK m \in Nat : m = Len(u.tools) /\ DOMAIN u.tools = 1 .. m
    BY <1>2
  <1>4. s.index \in Nat /\ 0 .. s.index - 1 \subseteq Items /\ s \in AnthStates
        /\ s.index = Len(s.outs)
    BY AnthIndex DEF AnthFits, AnthRules
  <1>5. ASSUME NEW i \in 0 .. s.index
        PROVE  /\ HeldAt(s, i).t = "function_call" =>
                    i \in 0 .. s.index - 1 /\ HeldAt(s, i) = s.outs[i + 1]
               /\ i # s.index => HeldAt(s, i) = s.outs[i + 1]
    BY <1>4 DEF HeldAt
  <1>6. ASSUME NEW i \in 0 .. s.index - 1
        PROVE  /\ items[i].type = TypeOf(sp, s.outs[i + 1].t, s.outs[i + 1].k)
               /\ items[i].n = s.outs[i + 1].n
               /\ s.outs[i + 1].t \in OutTypes /\ s.outs[i + 1].k \in Kinds \cup {"none"}
    <2>1. i + 1 \in 1 .. Len(s.outs) /\ s.outs \in Seq(AnthOuts)
      BY <1>4, <1>6 DEF AnthStates
    <2>2. s.outs[i + 1] \in AnthOuts
      BY <2>1
    <2>3. /\ items[i].type = TypeOf(sp, s.outs[i + 1].t, s.outs[i + 1].k)
          /\ items[i].n = s.outs[i + 1].n
      BY DEF AnthFits, AnthShows
    <2> QED
      BY <2>2, <2>3 DEF AnthOuts
  <1>7. ASSUME NEW o \in 1 .. m
        PROVE  /\ at[o] \in 0 .. s.index - 1 /\ at[o] \in Items
               /\ s.outs[at[o] + 1].t = "function_call"
               /\ s.outs[at[o] + 1].k = u.tools[o].kind
               /\ s.outs[at[o] + 1].n = u.tools[o].n
    <2>1. /\ at[o] \in 0 .. s.index
          /\ HeldAt(s, at[o]) = [t |-> "function_call", k |-> u.tools[o].kind, n |-> u.tools[o].n]
      BY <1>1, <1>3 DEF ToolsPlaced
    <2>2. HeldAt(s, at[o]).t = "function_call"
      BY <2>1
    <2>3. at[o] \in 0 .. s.index - 1 /\ HeldAt(s, at[o]) = s.outs[at[o] + 1]
      BY <1>5, <2>1, <2>2
    <2>4. /\ HeldAt(s, at[o]).t = "function_call" /\ HeldAt(s, at[o]).k = u.tools[o].kind
          /\ HeldAt(s, at[o]).n = u.tools[o].n
      BY <2>1
    <2> QED
      BY <1>4, <2>3, <2>4
  <1>8. ASSUME NEW o \in 1 .. m
        PROVE  /\ items[at[o]].n = u.tools[o].n
               /\ items[at[o]].type \in ChatCalls <=> o \in sent
    <2> DEFINE k == u.tools[o].kind
               j == at[o]
    <2>1. /\ s.outs[j + 1].t = "function_call" /\ s.outs[j + 1].k = k
          /\ s.outs[j + 1].n = u.tools[o].n
      BY <1>7
    <2>2. items[j].type = TypeOf(sp, "function_call", k) /\ items[j].n = u.tools[o].n
      BY <1>6, <1>7, <2>1
    <2>3. TypeOf(sp, "function_call", k) \in ChatCalls <=> (~sp \/ k # "search")
      BY <1>2 DEF TypeOf, Restored, ChatCalls
    <2>4. o \in sent <=> (~sp \/ k # "search")
      BY <1>3 DEF SentCalls
    <2> QED
      BY <2>2, <2>3, <2>4
  <1>9. ASSUME NEW i \in Items, items[i].type \in ChatCalls
        PROVE  \E o \in 1 .. m : at[o] = i
    <2>1. i < s.index
      <3>1. ASSUME ~(i < s.index) PROVE FALSE
        <4>1. i > s.index \/ (i = s.index /\ s.type = "none")
          BY <1>4, <3>1, RspAssumption DEF Items
        <4>2. items[i] = NoItem
          BY <4>1 DEF AnthFits, AnthShows
        <4> QED
          BY <1>9, <4>2 DEF NoItem, ChatCalls
      <3> QED
        BY <3>1
    <2>2. i \in 0 .. s.index - 1 /\ i \in 0 .. s.index /\ i # s.index
      BY <1>4, <2>1, RspAssumption DEF Items
    <2>3. s.outs[i + 1].t = "function_call"
      <3> DEFINE t == s.outs[i + 1].t
                 k == s.outs[i + 1].k
      <3>1. t \in OutTypes /\ TypeOf(sp, t, k) \in ChatCalls
        BY <1>6, <1>9, <2>2
      <3> HIDE DEF t, k
      <3>2. t = "function_call"
        BY <1>2, <3>1 DEF TypeOf, Restored, ChatCalls, OutTypes
      <3> QED
        BY <3>2 DEF t
    <2>4. HeldAt(s, i).t = "function_call"
      BY <1>5, <2>2, <2>3
    <2> QED
      BY <1>1, <1>3, <2>2, <2>4 DEF ToolsPlaced
  <1> DEFINE ix == [o \in sent |-> at[o]]
             pieces == [o \in sent |-> u.tools[o].n]
  <1>10. sent \in SUBSET (1 .. m)
    BY <1>3 DEF SentCalls
  <1>11. ix \in [sent -> Items] /\ \A o \in sent : ix[o] = at[o]
    BY <1>7, <1>10
  <1>12. \A o \in sent : pieces[o] = u.tools[o].n
    OBVIOUS
  <1>13. \A n : {o \in sent : pieces[o] = n} = {o \in sent : u.tools[o].n = n}
    BY <1>12
  <1> HIDE DEF ix, sent, pieces
  <1>14. ItemsSent(items, sent, ix, pieces)
    <2>1. ASSUME NEW o \in sent, NEW p \in sent, ix[o] = ix[p] PROVE o = p
      BY <1>1, <1>3, <1>10, <1>11, <2>1 DEF ToolsPlaced
    <2>2. ASSUME NEW i \in Items
          PROVE  items[i].type \in ChatCalls <=> \E o \in sent : ix[o] = i
      <3>1. ASSUME items[i].type \in ChatCalls PROVE \E o \in sent : ix[o] = i
        <4>1. PICK o \in 1 .. m : at[o] = i
          BY <1>9, <3>1
        <4>2. o \in sent
          BY <1>8, <3>1, <4>1
        <4> QED
          BY <1>11, <4>1, <4>2
      <3>2. ASSUME NEW o \in sent, ix[o] = i PROVE items[i].type \in ChatCalls
        BY <1>8, <1>10, <1>11, <3>2
      <3> QED
        BY <3>1, <3>2
    <2>3. \A o \in sent : items[ix[o]].n = pieces[o]
      BY <1>8, <1>10, <1>11, <1>12
    <2> QED
      BY <2>1, <2>2, <2>3 DEF ItemsSent
  <1>15. CallsSent(r.back.tools, sent, pieces)
    BY <1>10, <1>11, <1>14, CallsReturn
  <1> QED
    BY <1>13, <1>15 DEF CallsSent, CallsMatch, sent

\* The stream of s is over: what its readers r have.
Finished(u, s, r) ==
  /\ ReadersFit(r) /\ r.seen.created /\ r.seen.completed # "none"
  /\ \A i \in Items : r.seen.items[i].at # "open"
  /\ \A i \in Items : r.seen.items[i].at # "none" <=> i \in 0 .. s.index - 1
  /\ s.index \in Nat /\ s.index <= RspBlocks
  /\ r.seen.final = [k \in 1 .. s.index |-> [t |-> r.seen.items[k - 1].type,
                                             n |-> r.seen.items[k - 1].n]]
  /\ r.seen.cut => u.end = "none"
  /\ ~r.seen.cut => CallsMatch(r.back.tools, u)
  /\ u.end = "max_tokens" => r.back.finish = "length"

LEMMA EndFinishes ==
  ASSUME rspUp \in AnthUps,
         NEW s, NEW y, AnthFits(rspUp.special, s, "none", y), s.created, s.type = "none",
         ToolsHeld(rspUp.tools, s), s.stop = rspUp.end, y.to.seen.cut => rspUp.end = "none",
         NEW status, status = IF s.stop = "max_tokens" THEN "incomplete" ELSE "completed",
         NEW z, z = Passes(y, EvCompleted(status, s.outs))
  PROVE  Finished(rspUp, s, z.to)
  <1>1. rspUp.from = "anthropic" /\ rspUp.special \in BOOLEAN
    BY DEF AnthUps
  <1>2. status \in {"completed", "incomplete"}
    OBVIOUS
  <1>3. ReadersFit(z.to) /\ AnthEnded(s, y.to.seen, z.to.seen, status)
    BY <1>1, <1>2, EndFits
  <1> DEFINE c == y.to.seen
             d == z.to.seen
  <1>4. /\ d.created /\ d.cut = c.cut /\ d.items = c.items /\ d.completed = status
        /\ d.final = [k \in 1 .. s.index |-> [t |-> d.items[k - 1].type, n |-> d.items[k - 1].n]]
    BY <1>3 DEF AnthEnded, AnthFits
  <1>5. s.index \in Nat /\ s.index <= RspBlocks /\ 0 .. s.index - 1 \subseteq Items
    BY AnthIndex DEF AnthFits, AnthRules
  <1>6. ASSUME NEW i \in Items
        PROVE  /\ c.items[i].at # "open"
               /\ c.items[i].at # "none" <=> i \in 0 .. s.index - 1
    <2>1. CASE i < s.index
      <3>1. i \in 0 .. s.index - 1
        BY <1>5, <2>1, RspAssumption DEF Items
      <3>2. c.items[i].at = "done"
        BY <3>1 DEF AnthFits, AnthShows
      <3> QED
        BY <3>1, <3>2
    <2>2. CASE ~(i < s.index)
      <3>1. i > s.index \/ (i = s.index /\ s.type = "none")
        BY <1>5, <2>2, RspAssumption DEF Items
      <3>2. c.items[i] = NoItem
        BY <3>1 DEF AnthFits, AnthShows
      <3>3. i \notin 0 .. s.index - 1
        BY <1>5, <2>2, RspAssumption DEF Items
      <3> QED
        BY <3>2, <3>3 DEF NoItem
    <2> QED
      BY <2>1, <2>2
  <1>7. ~d.cut => CallsMatch(z.to.back.tools, rspUp)
    BY <1>3, <1>4, AnthCallsAgree
  <1>8. rspUp.end = "max_tokens" => z.to.back.finish = "length"
    <2>1. rspUp.end = "max_tokens" => d.completed = "incomplete"
      BY <1>4
    <2> QED
      BY <1>3, <2>1 DEF ReadersFit, ReadersAgree
  <1>9. d.completed # "none"
    BY <1>2, <1>4
  <1>10. d.cut => rspUp.end = "none"
    BY <1>4
  <1>11. /\ \A i \in Items : d.items[i].at # "open"
         /\ \A i \in Items : d.items[i].at # "none" <=> i \in 0 .. s.index - 1
    <2>1. d.items = c.items
      BY <1>4
    <2>2. /\ \A i \in Items : c.items[i].at # "open"
          /\ \A i \in Items : c.items[i].at # "none" <=> i \in 0 .. s.index - 1
      BY <1>6
    <2> HIDE DEF c, d
    <2> QED
      BY <2>1, <2>2
  <1>12. ReadersFit(z.to) /\ d.created
         /\ d.final = [k \in 1 .. s.index |-> [t |-> d.items[k - 1].type, n |-> d.items[k - 1].n]]
    BY <1>3, <1>4
  <1>13. s.index \in Nat /\ s.index <= RspBlocks
    BY <1>5
  <1> QED
    BY <1>7, <1>8, <1>9, <1>10, <1>11, <1>12, <1>13, Zenon DEF Finished

\* A stream that is over keeps what it promised.
LEMMA FinishedFits ==
  ASSUME rspUp \in AnthUps, NEW s, NEW r, Finished(rspUp, s, r),
         rspUp' = [rspUp EXCEPT !.at = "closed"],
         rspSeen' = r.seen, rspBack' = r.back, rspAcc' = r.acc
  PROVE  ResponsesStreamsFit'
  <1>1. rspUp'.from = "anthropic" /\ rspUp'.end = rspUp.end /\ rspUp'.special = rspUp.special
        /\ rspUp'.tools = rspUp.tools /\ rspUp'.ordered = TRUE /\ rspUp.end # "length"
    BY DEF AnthUps
  <1>2. ItemsInOrder'
    BY <1>1 DEF ItemsInOrder, Finished, ReadersFit
  <1>3. ItemsEnd'
    BY DEF ItemsEnd, Finished, Items
  <1>4. FinalAgrees'
    <2>1. PICK n \in 0 .. RspTools + RspBlocks + 2 : n = s.index
      BY RspAssumption DEF Finished
    <2>2. 0 .. n - 1 \subseteq Items
      BY <2>1, RspAssumption DEF Finished, Items
    <2>3. Known' = 0 .. n - 1
      BY <2>1, <2>2 DEF Known, Finished, Items
    <2>4. rspSeen'.final = Streamed(n)'
      BY <2>1 DEF Streamed, Finished
    <2> QED
      BY <2>3, <2>4 DEF FinalAgrees
  <1>5. CallsComeBack'
    <2>1. SentCalls(rspUp') = SentCalls(rspUp)
          /\ \A n : {o \in SentCalls(rspUp') : rspUp'.tools[o].n = n}
                     = {o \in SentCalls(rspUp) : rspUp.tools[o].n = n}
      BY <1>1 DEF SentCalls
    <2>2. ~r.seen.cut => CallsMatch(r.back.tools, rspUp')
      BY <2>1 DEF CallsMatch, Finished
    <2>3. /\ r.acc.calls = r.back.tools /\ r.back.finished
          /\ rspUp.end = "max_tokens" => r.back.finish = "length"
      BY DEF Finished, ReadersFit, ReadersAgree, Readers, Backs
    <2>4. 0 .. RspPieces \subseteq Nat
      BY RspAssumption
    <2> QED
      BY <1>1, <2>2, <2>3, <2>4 DEF CallsComeBack, CallsMatch, SentCalls
  <1> QED
    BY <1>2, <1>3, <1>4, <1>5 DEF ResponsesStreamsFit

LEMMA AnthEndFits ==
  ASSUME AnthHolds, NEW stopped \in BOOLEAN, AnthEnd(stopped)
  PROVE  ResponsesStreamsFit' /\ rspUp' = [rspUp EXCEPT !.at = "closed"]
  <1> DEFINE s == rspAnth
             p == ItemClosed(s)
             c == p.s
             status == IF s.stop = "max_tokens" THEN "incomplete" ELSE "completed"
             ev == EvCompleted(status, c.outs)
             pr == Progress(rspUp, s)
             d == Ev("done", s.index, s.type, s.kind, s.args)
  <1>1. /\ rspUp.at \in {"new", "between", "block", "ended"}
        /\ rspUp' = [rspUp EXCEPT !.at = "closed"] /\ ~s.completed
        /\ s.created => Emit(Append(p.v, ev))
        /\ ~s.created => Emit(<<>>)
    BY AnthBefore DEF AnthEnd, AnthAt, AnthTo, AnthRules
  <1>2. CASE ~s.created
    <2>1. FoldLeft(Passes, Before, <<>>) = Before
      BY PassesNone
    <2>2. rspSeen' = rspSeen
      BY <1>1, <1>2, <2>1 DEF Emit, Before, Now
    <2>3. ~rspSeen.created /\ ~rspSeen.astray /\ ~rspSeen.cut
      BY <1>2, AnthBefore DEF AnthFits, Before, Now, ReadersFit
    <2> QED
      BY <1>1, <2>2, <2>3
         DEF ResponsesStreamsFit, ItemsInOrder, ItemsEnd, FinalAgrees, CallsComeBack, RspClosed
  <1>3. CASE s.created
    <2>1. PICK y, K : /\ FoldLeft(Passes, Before, p.v) = y /\ p.v \in Seq(K)
                      /\ AnthFits(rspUp.special, c, "none", y)
                      /\ y.to.seen.cut => rspUp.end = "none"
                      /\ c.type = "none" /\ c.created /\ c.stop = s.stop
                      /\ ToolsHeld(rspUp.tools, c)
      <3>1. CASE s.type = "none"
        <4>1. p = [s |-> s, v |-> <<>>]
          BY <3>1, ItemClosedIs
        <4>2. c = s /\ p.v = <<>> /\ p.v \in Seq({d})
          BY <4>1
        <4>3. pr = "none"
          BY <3>1 DEF Progress
        <4>4. FoldLeft(Passes, Before, <<>>) = Before
          BY PassesNone
        <4> HIDE DEF p, c, d
        <4> QED
          BY <1>3, <3>1, <4>2, <4>3, <4>4, AnthBefore
      <3>2. CASE s.type # "none"
        <4> DEFINE y == Passes(Before, d)
        <4>1. p = [s |-> AnthClosed(s), v |-> <<d>>]
          BY <3>2, ItemClosedIs
        <4>2. c = AnthClosed(s) /\ p.v = <<d>> /\ p.v \in Seq({d})
          BY <4>1
        <4> HIDE DEF p, c
        <4>3. AnthFits(rspUp.special, s, pr, Before)
          BY AnthBefore
        <4>4. rspUp.at # "block" => pr = "done"
          BY <1>1, <3>2, AnthBefore DEF Progress, AnthTracks
        <4>5. rspUp.at = "block" => rspUp.end = "none"
          BY AnthBefore DEF AnthTracks
        <4> HIDE DEF pr
        <4>6. AnthFits(rspUp.special, c, "none", y) /\ (pr = "done" => y.to.seen.cut = Before.to.seen.cut)
          BY <1>3, <3>2, <4>2, <4>3, AnthBefore, DoneFits
        <4>7. c.type = "none" /\ c.created = s.created /\ c.stop = s.stop
          BY <3>2, <4>2, AnthBefore, ClosedRules
        <4>8. ToolsHeld(rspUp.tools, c)
          BY <3>2, <4>2, AnthBefore, HeldClosed
        <4>9. Passed(Before, d, y)
          BY DEF Passed
        <4> HIDE DEF y, d
        <4>10. FoldLeft(Passes, Before, <<d>>) = y
          BY <4>9, PassesOne
        <4>11. y.to.seen.cut => rspUp.end = "none"
          BY <4>4, <4>5, <4>6, AnthBefore
        <4> QED
          BY <1>3, <4>2, <4>6, <4>7, <4>8, <4>10, <4>11
      <3> QED
        BY <3>1, <3>2
    <2> DEFINE z == Passes(y, ev)
    <2>2. status = IF c.stop = "max_tokens" THEN "incomplete" ELSE "completed"
      BY <2>1
    <2>3. c.stop = rspUp.end /\ rspUp \in AnthUps
      BY <2>1, AnthBefore DEF AnthTracks
    <2> HIDE DEF status, p, c
    <2>4. Finished(rspUp, c, z.to)
      BY <2>1, <2>2, <2>3, EndFinishes
    <2> HIDE DEF ev
    <2>5. FoldLeft(Passes, Before, Append(p.v, ev)) = z
      <3>0. p.v \in Seq(K)
        BY <2>1
      <3>1. FoldLeft(Passes, Before, Append(p.v, ev)) = Passes(FoldLeft(Passes, Before, p.v), ev)
        BY <3>0, PassesAppend
      <3> QED
        BY <2>1, <3>1
    <2> HIDE DEF z
    <2>6. rspSeen' = z.to.seen /\ rspBack' = z.to.back /\ rspAcc' = z.to.acc
      BY <1>1, <1>3, <2>5 DEF Emit, Before, Now
    <2>7. ResponsesStreamsFit'
      BY <1>1, <2>3, <2>4, <2>6, FinishedFits
    <2> QED
      BY <1>1, <2>7
  <1> QED
    BY <1>2, <1>3

-----------------------------------------------------------------------------
(* The invariant: both converters keep it, and it says what must fit       *)

\* A stream is over and fits, or it is open and its converter is in step with it.
RspInv ==
  \/ rspUp.at = "closed" /\ ResponsesStreamsFit
  \/ ChatHolds
  \/ AnthHolds

LEMMA NothingShown ==
  ASSUME rspSeen.items = [i \in Items |-> NoItem]
  PROVE  \A i \in Items : rspSeen.items[i] = NoItem
  OBVIOUS

LEMMA ReadersBegin ==
  ASSUME RspInit PROVE ReadersFit(Now)
  <1>1. NoItem \in ItemStates
    BY DEF NoItem, ItemStates, Places
  <1>2. <<>> \in Seq(Nat) /\ <<>> \in Seq(Entry) /\ Len(<<>>) = 0
    BY EmptySeq
  <1>3. [i \in Items |-> NoItem] \in [Items -> ItemStates]
    BY <1>1
  <1>4. [i \in Items |-> Unset] \in [Items -> Nat \cup {Unset}]
    OBVIOUS
  <1>5. rspSeen \in Clients
    BY <1>2, <1>3 DEF RspInit, Clients
  <1>6. rspBack \in Backs
    BY <1>2, <1>4 DEF RspInit, Backs
  <1>7. rspAcc \in Accs
    BY <1>2, <1>4 DEF RspInit, Accs
  <1>8. \A i \in Items : rspSeen.items[i] = NoItem /\ rspBack.at[i] = Unset
    BY DEF RspInit
  <1>9. rspBack.tools = <<>> /\ rspAcc.calls = <<>> /\ rspAcc.at = rspBack.at
        /\ rspBack.finished = FALSE /\ rspSeen.completed = "none" /\ rspSeen.astray = FALSE
    BY DEF RspInit
  <1>10. NoItem.type \notin ChatCalls
    BY DEF NoItem, ChatCalls
  <1>11. Now \in Readers /\ Now.seen = rspSeen /\ Now.back = rspBack /\ Now.acc = rspAcc
    BY <1>5, <1>6, <1>7 DEF Readers, Now
  <1>12. ReadersAgree(Now)
    <2> DEFINE r == Now
    <2>1. /\ \A i \in Items : r.seen.items[i] = NoItem /\ r.back.at[i] = Unset
          /\ Len(r.back.tools) = 0 /\ r.acc.calls = r.back.tools /\ r.acc.at = r.back.at
          /\ r.back.finished = FALSE /\ r.seen.completed = "none"
      BY <1>2, <1>8, <1>9, <1>11
    <2> HIDE DEF r
    <2>2. \A i \in Items : /\ r.seen.items[i].at = "none" => r.seen.items[i] = NoItem
                           /\ ~(r.back.at[i] # Unset) /\ r.seen.items[i].type \notin ChatCalls
      BY <1>10, <2>1
    <2>3. 1 .. Len(r.back.tools) = {}
      BY <2>1
    <2>4. ReadersAgree(r)
      BY <2>1, <2>2, <2>3 DEF ReadersAgree
    <2> QED
      BY <2>4 DEF r
  <1> QED
    BY <1>9, <1>11, <1>12 DEF ReadersFit

LEMMA ChatBegins ==
  ASSUME RspInit, rspUp.from = "chat" PROVE ChatHolds
  <1> DEFINE s == rspChat
  <1>1. <<>> \in Seq([kind : Kinds \cup {"none"}, n : Nat]) /\ <<>> \in Seq(ChatTools)
        /\ Len(<<>>) = 0
    BY EmptySeq
  <1>2. rspUp \in ChatUps /\ rspUp.at = "new" /\ rspUp.tools = <<>> /\ rspUp.end = "none"
    BY <1>1 DEF RspInit, ChatUps
  <1>3. /\ s.created = FALSE /\ s.completed = FALSE /\ s.next = 0 /\ s.finish = "none"
        /\ s.reasoning = "none" /\ s.messageAt = Unset /\ s.text = FALSE /\ s.tools = <<>>
    BY DEF RspInit
  <1>4. s \in ChatStates
    BY <1>1 DEF RspInit, ChatStates, Places
  <1>5. ChatRules(s, -1)
    BY <1>1, <1>3, <1>4, RspAssumption DEF ChatRules, WithReasoning, WithMessage
  <1>6. Slots(s) = {}
    BY <1>1, <1>3 DEF Slots
  <1>7. \A i \in Items : rspSeen.items[i] = NoItem
    BY DEF RspInit
  <1>8. Shows(s, -1, rspSeen.items)
    <2>1. 0 \in 0 .. RspTools + RspBlocks + 2 /\ 0 .. 0 - 1 = {}
      BY RspAssumption
    <2> HIDE DEF s
    <2> QED
      BY <1>3, <1>6, <1>7, <2>1 DEF Shows
  <1>9. rspSeen.created = FALSE /\ rspSeen.completed = "none" /\ rspSeen.cut = FALSE
    BY DEF RspInit
  <1>10. ChatFits(s, -1, rspSeen)
    BY <1>3, <1>5, <1>8, <1>9 DEF ChatFits
  <1>11. Ranked(s)
    BY <1>1, <1>3 DEF Ranked
  <1>12. ChatTracks(rspUp, s)
    BY <1>1, <1>2, <1>3, <1>11 DEF ChatTracks, SameTools
  <1>13. Unforced(s)
    BY <1>1, <1>3 DEF Unforced
  <1> QED
    BY <1>2, <1>10, <1>12, <1>13, ReadersBegin DEF ChatHolds

LEMMA AnthBegins ==
  ASSUME RspInit, rspUp.from = "anthropic" PROVE AnthHolds
  <1> DEFINE s == rspAnth
             sp == rspUp.special
  <1>1. <<>> \in Seq([kind : Kinds, n : Nat]) /\ <<>> \in Seq(AnthOuts) /\ Len(<<>>) = 0
    BY EmptySeq
  <1>2. rspUp \in AnthUps /\ rspUp.at = "new" /\ rspUp.tools = <<>> /\ rspUp.end = "none"
    BY <1>1 DEF RspInit, AnthUps
  <1>3. /\ s.created = FALSE /\ s.completed = FALSE /\ s.index = 0 /\ s.type = "none"
        /\ s.kind = "none" /\ s.args = 0 /\ s.outs = <<>> /\ s.stop = "none"
    BY DEF RspInit
  <1>4. s \in AnthStates
    BY <1>1 DEF RspInit, AnthStates
  <1>5. AnthRules(s)
    BY <1>1, <1>3, <1>4, RspAssumption DEF AnthRules
  <1>6. \A i \in Items : rspSeen.items[i] = NoItem
    BY DEF RspInit
  <1>7. 0 .. 0 - 1 = {}
    OBVIOUS
  <1>8. rspCalls = [i \in Items |-> NoCall]
    BY DEF RspInit, NoCall
  <1>9. rspCalls = CallsOpen(sp, s)
    <2>1. Own(sp, s.type, s.kind) = FALSE
      BY <1>3 DEF Own
    <2>2. CallsOpen(sp, s) = [i \in Items |-> NoCall]
      BY <2>1 DEF CallsOpen
    <2> QED
      BY <1>8, <2>2
  <1>10. rspSeen.created = FALSE /\ rspSeen.completed = "none" /\ rspSeen.cut = FALSE
    BY DEF RspInit
  <1>11. /\ Before = [calls |-> Before.calls, to |-> Before.to] /\ Before.to = Now
         /\ Before.to.seen = rspSeen /\ Before.calls = rspCalls
    BY DEF Before, Now
  <1>12. Progress(rspUp, s) = "none"
    BY <1>3 DEF Progress
  <1>13. AnthTracks(rspUp, s)
    BY <1>2, <1>3 DEF AnthTracks
  <1>14. ToolsHeld(rspUp.tools, s)
    <2> DEFINE ix == [o \in 1 .. Len(<<>>) |-> 0]
    <2>1. \A o : o \notin 1 .. Len(<<>>)
      BY <1>1
    <2>2. \A i \in 0 .. s.index : HeldAt(s, i).t = "none"
      BY <1>3 DEF HeldAt
    <2>3. ix \in [1 .. Len(<<>>) -> Nat]
      OBVIOUS
    <2> HIDE DEF ix, s
    <2>4. ToolsPlaced(<<>>, s, ix)
      BY <1>3, <2>1, <2>2 DEF ToolsPlaced
    <2> QED
      BY <1>2, <2>3, <2>4 DEF ToolsHeld
  <1> HIDE DEF s, sp
  <1>15. AnthShows(sp, s, "none", Before.to.seen.items)
    BY <1>3, <1>6, <1>7, <1>11 DEF AnthShows
  <1>16. AnthFits(sp, s, "none", Before)
    BY <1>3, <1>5, <1>9, <1>10, <1>11, <1>15, ReadersBegin DEF AnthFits
  <1> QED
    BY <1>2, <1>10, <1>11, <1>12, <1>13, <1>14, <1>16 DEF AnthHolds, AnthAgrees, s, sp

LEMMA OpenIsFit ==
  ASSUME ChatHolds \/ AnthHolds PROVE ResponsesStreamsFit /\ rspUp.at # "closed"
  <1>1. ASSUME ChatHolds PROVE rspUp.at # "closed" /\ ~rspSeen.astray /\ ~rspSeen.cut
    BY <1>1 DEF ChatHolds, ChatUps, ReadersFit, ChatFits, Now
  <1>2. ASSUME AnthHolds PROVE rspUp.at # "closed" /\ ~rspSeen.astray /\ ~rspSeen.cut
    BY <1>2 DEF AnthHolds, AnthAgrees, AnthUps, AnthFits, ReadersFit, Before, Now
  <1> QED
    BY <1>1, <1>2
       DEF ResponsesStreamsFit, ItemsInOrder, ItemsEnd, FinalAgrees, CallsComeBack, RspClosed

LEMMA RspStays ==
  ASSUME RspInv, UNCHANGED rspVars PROVE RspInv'
  <1>1. /\ rspUp' = rspUp /\ rspChat' = rspChat /\ rspAnth' = rspAnth /\ rspCalls' = rspCalls
        /\ rspSeen' = rspSeen /\ rspBack' = rspBack /\ rspAcc' = rspAcc
    BY DEF rspVars
  <1>2. CASE rspUp.at = "closed" /\ ResponsesStreamsFit
    BY <1>1, <1>2 DEF RspInv, ResponsesStreamsFit, ItemsInOrder, ItemsEnd, FinalAgrees,
         CallsComeBack, RspClosed, Known, Streamed
  <1>3. Now' = Now /\ Before' = Before
    BY <1>1 DEF Now, Before
  <1>4. CASE ChatHolds
    <2>1. ChatRules(rspChat, -1)' <=> ChatRules(rspChat, -1)
      BY <1>1 DEF ChatRules, CallType, WithReasoning, WithMessage
    <2>2. Unforced(rspChat)' <=> Unforced(rspChat)
      BY <1>1 DEF Unforced
    <2> QED
      BY <1>1, <1>3, <1>4, <2>1, <2>2 DEF RspInv, ChatHolds, ChatFits
  <1>5. CASE AnthHolds
    BY <1>1, <1>3, <1>5 DEF RspInv, AnthHolds
  <1> QED
    BY <1>2, <1>4, <1>5 DEF RspInv

\* What goes on in an open stream of a chat.
LEMMA ChatGoesOn ==
  ASSUME ChatHolds, RspNext PROVE RspInv'
  <1>1. rspUp.from = "chat" /\ rspUp.at # "closed"
    BY DEF ChatHolds, ChatUps
  <1>2. CASE RspReasoning
    BY <1>2, ReasoningHolds DEF RspInv
  <1>3. CASE RspContent
    BY <1>3, ContentHolds DEF RspInv
  <1>4. CASE RspFinalize
    <2>1. ResponsesStreamsFit' /\ rspUp' = [rspUp EXCEPT !.at = "closed"]
      BY <1>4, FinalizeFits
    <2>2. rspUp \in ChatUps
      BY DEF ChatHolds
    <2>3. rspUp'.at = "closed"
      BY <2>1, <2>2 DEF ChatUps
    <2> QED
      BY <2>1, <2>3 DEF RspInv
  <1>5. CASE \E o \in 1 .. RspTools, name \in Kinds \cup {"none"}, piece \in BOOLEAN :
               RspTool(o, name, piece)
    BY <1>5, ToolHolds DEF RspInv
  <1>6. CASE \E reason \in {"stop", "length", "tool_calls"} : RspFinish(reason)
    BY <1>6, FinishHolds DEF RspInv
  <1>7. ~\E places : AnthAt(places)
    BY <1>1 DEF AnthAt
  <1> QED
    BY <1>2, <1>3, <1>4, <1>5, <1>6, <1>7
       DEF RspNext, AnthStart, AnthDelta, AnthBlockStop, AnthBlock, AnthMessageDelta, AnthEnd

\* And in one of an Anthropic message.
LEMMA AnthGoesOn ==
  ASSUME AnthHolds, RspNext PROVE RspInv'
  <1>1. rspUp.from = "anthropic" /\ rspUp.at # "closed" /\ rspUp \in AnthUps
    BY DEF AnthHolds, AnthAgrees, AnthUps
  <1>2. CASE AnthStart
    BY <1>2, StartHolds DEF RspInv
  <1>3. CASE AnthDelta
    BY <1>3, AnthDeltaHolds DEF RspInv
  <1>4. CASE AnthBlockStop
    BY <1>4, AnthBlockStopHolds DEF RspInv
  <1>5. CASE AnthBlock("thinking", "none")
    BY <1>5, ThinkingHolds DEF RspInv
  <1>6. CASE AnthBlock("text", "none")
    BY <1>6, TextHolds DEF RspInv
  <1>7. CASE \E kind \in Kinds : AnthBlock("tool_use", kind)
    BY <1>7, ToolUseHolds DEF RspInv
  <1>8. CASE \E stop \in {"end_turn", "max_tokens", "tool_use"} : AnthMessageDelta(stop)
    BY <1>8, AnthMessageDeltaHolds DEF RspInv
  <1>9. CASE \E stopped \in BOOLEAN : AnthEnd(stopped)
    <2>1. ResponsesStreamsFit' /\ rspUp' = [rspUp EXCEPT !.at = "closed"]
      BY <1>9, AnthEndFits
    <2>2. rspUp'.at = "closed"
      BY <1>1, <2>1 DEF AnthUps
    <2> QED
      BY <2>1, <2>2 DEF RspInv
  <1>10. ~(RspReasoning \/ RspContent \/ RspFinalize)
    BY <1>1 DEF RspReasoning, RspContent, RspFinalize, RspAt
  <1>11. ~\E o \in 1 .. RspTools, name \in Kinds \cup {"none"}, piece \in BOOLEAN :
            RspTool(o, name, piece)
    BY <1>1 DEF RspTool, RspAt
  <1>12. ~\E reason \in {"stop", "length", "tool_calls"} : RspFinish(reason)
    BY <1>1 DEF RspFinish, RspAt
  <1> QED
    BY <1>2, <1>3, <1>4, <1>5, <1>6, <1>7, <1>8, <1>9, <1>10, <1>11, <1>12 DEF RspNext

\* A stream that is over takes nothing more.
LEMMA ClosedIsOver ==
  ASSUME rspUp.at = "closed" PROVE ~RspNext
  <1>1. ~(RspReasoning \/ RspContent \/ RspFinalize)
    BY DEF RspReasoning, RspContent, RspFinalize, RspAt
  <1>2. ~\E o \in 1 .. RspTools, name \in Kinds \cup {"none"}, piece \in BOOLEAN :
            RspTool(o, name, piece)
    BY DEF RspTool, RspAt
  <1>3. ~\E reason \in {"stop", "length", "tool_calls"} : RspFinish(reason)
    BY DEF RspFinish, RspAt
  <1>4. ~(AnthStart \/ AnthDelta \/ AnthBlockStop)
    BY DEF AnthStart, AnthDelta, AnthBlockStop, AnthAt
  <1>5. ~(AnthBlock("thinking", "none") \/ AnthBlock("text", "none"))
    BY DEF AnthBlock, AnthAt
  <1>6. ~\E kind \in Kinds : AnthBlock("tool_use", kind)
    BY DEF AnthBlock, AnthAt
  <1>7. ~\E stop \in {"end_turn", "max_tokens", "tool_use"} : AnthMessageDelta(stop)
    BY DEF AnthMessageDelta, AnthAt
  <1>8. ~\E stopped \in BOOLEAN : AnthEnd(stopped)
    BY DEF AnthEnd, AnthAt
  <1> QED
    BY <1>1, <1>2, <1>3, <1>4, <1>5, <1>6, <1>7, <1>8 DEF RspNext

\* In whatever order the upstream writes, and wherever it breaks off, a Responses
\* stream is in order, is ended, carries its own answer, and loses no call.
THEOREM ResponsesStreamsHold == RspSpec => []ResponsesStreamsFit
  <1>1. RspInit => RspInv
    <2> SUFFICES ASSUME RspInit PROVE RspInv
      OBVIOUS
    <2>1. rspUp.from \in {"chat", "anthropic"}
      BY DEF RspInit
    <2> QED
      BY <2>1, ChatBegins, AnthBegins DEF RspInv
  <1>2. RspInv /\ [RspNext]_rspVars => RspInv'
    BY ChatGoesOn, AnthGoesOn, ClosedIsOver, RspStays DEF RspInv
  <1>3. RspInv => ResponsesStreamsFit
    BY OpenIsFit DEF RspInv
  <1> QED
    BY <1>1, <1>2, <1>3, PTL DEF RspSpec
=============================================================================
