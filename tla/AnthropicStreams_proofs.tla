---------------------- MODULE AnthropicStreams_proofs -----------------------
(***************************************************************************)
(* Theorems about AnthropicStreams, for any numbers of items, calls and    *)
(* pieces; about ClientTools, for any names and numbers of tools; and      *)
(* about Conversations, for histories of any length.                       *)
(***************************************************************************)
EXTENDS AnthropicStreams, ClientTools, Conversations, SequenceTheorems,
        WellFoundedInduction, TLAPS

-----------------------------------------------------------------------------
(* Anthropic streams: the inductive invariant                              *)

\* What an upstream, the two converters and a client can be.

AntItems == {"function", "reasoning", "message", "search"}
AntKinds == {"thinking", "text", "tool_use", "server_tool_use", "web_search_tool_result"}

AntUps ==
  [kind : {"responses", "chat"},
   at : {"new", "between", "in", "part", "whole", "done", "text", "tool", "closing",
         "ended", "closed"},
   output : Seq([item : AntItems, parts : Nat]), given : 0 .. AntPieces + 1,
   sent : [Tools -> Nat], signed : BOOLEAN, tools : 0 .. AntOutputs,
   end : {"none", "completed", "max_output", "incomplete", "failed", "bare",
          "stop", "length", "tool_calls"}]

AntResStates ==
  [started : BOOLEAN, stopped : BOOLEAN, index : Nat, open : BOOLEAN,
   type : AntKinds \cup {"none"}, read : BOOLEAN, args : Nat, had : BOOLEAN,
   signature : BOOLEAN, tool : BOOLEAN, block : [1 .. AntOutputs -> Nat \cup {NoBlock}]]

AntChatStates ==
  [started : BOOLEAN, stopped : BOOLEAN, index : Nat, open : BOOLEAN,
   type : AntKinds \cup {"none"}, had : BOOLEAN, tool : BOOLEAN,
   finish : {"none", "stop", "length", "tool_calls"},
   announced : SUBSET Tools, pending : SUBSET Tools,
   block : [Tools -> Nat \cup {NoBlock}], held : [Tools -> Nat]]

AntClients ==
  [started : BOOLEAN, stopped : BOOLEAN, open : AntKinds \cup {"none"},
   blocks : Seq(AntKinds), call : Tools \cup {NoBlock}, calls : SUBSET Tools,
   pieces : [Tools -> Nat], filled : BOOLEAN, empty : BOOLEAN, signed : BOOLEAN,
   reason : {"none", "end_turn", "max_tokens", "tool_use"}, astray : BOOLEAN]

AntTyped ==
  /\ antUp \in AntUps /\ antRes \in AntResStates
  /\ antChat \in AntChatStates /\ antSeen \in AntClients

AntSeenTools(c) == \E k \in DOMAIN c.blocks : c.blocks[k] = "tool_use"

\* The client is where the converter believes it to be.
AntFits(s, c) ==
  /\ c.started = s.started /\ c.stopped = s.stopped /\ ~c.astray
  /\ c.open = IF s.open THEN s.type ELSE "none"
  /\ Len(c.blocks) = IF s.open THEN s.index + 1 ELSE s.index
  /\ s.open => s.started /\ ~s.stopped /\ s.type # "none"
  /\ s.open /\ s.type = "tool_use" => c.call \in Tools

\* Where the upstream is, the converter has started and stopped accordingly.
ResPlaces ==
  /\ antUp.at \in {"new", "between", "in", "part", "whole", "done", "ended", "closed"}
  /\ antUp.at = "new" => ~antRes.started /\ Out = 0
  /\ antUp.at \notin {"new", "closed"} => antRes.started
  /\ antUp.at \in {"new", "between", "in", "part", "whole", "done"} => ~antRes.stopped
  /\ antUp.at \in {"ended", "closed"} /\ antRes.started => antRes.stopped
  /\ Out <= AntOutputs /\ antUp.tools <= Out
  /\ antUp.at \in {"in", "part", "whole", "done"} => Out > 0
  /\ antUp.at = "part" => Item = "message"
  /\ antUp.at \in {"whole", "done"} => Item = "function"
  /\ antRes.stopped \/ antUp.end = "none"

\* The item at work whose block is open.
InCall == antUp.at \in {"in", "whole"} /\ Item = "function"
InThought == antUp.at = "in" /\ Item = "reasoning"

\* The block that is open is the one of the item at work.
ResBlock ==
  /\ antUp.at = "part" => antRes.open /\ antRes.type = "text"
  /\ antUp.at \in {"new", "between", "done", "ended"} => ~antRes.open
  /\ antUp.at = "in" /\ Item \in {"message", "search"} => ~antRes.open
  /\ InCall \/ InThought => antRes.open /\ antRes.block[Out] = antRes.index
  /\ InThought => antRes.type = "thinking" /\ antRes.signature = antUp.signed
  /\ InCall => /\ antRes.type = "tool_use" /\ antUp.tools > 0
               /\ antSeen.call = antUp.tools - 1

\* The calls the client knows are those the upstream has begun.
ResCalls ==
  /\ antSeen.calls = 0 .. antUp.tools - 1
  /\ antRes.tool = AntSeenTools(antSeen)

\* Only the call at work may have pieces that are not with its client yet.
ResPieces ==
  \A o \in Tools :
     /\ antSeen.pieces[o] <= antUp.sent[o]
     /\ antUp.at # "closed" /\ ~(InCall /\ o = antUp.tools - 1)
          => antSeen.pieces[o] = antUp.sent[o]

\* Of the call at work all pieces are with the client, or all since its beginning are
\* kept, those of Read and those that only the done event will bring.
ResKept ==
  InCall =>
    LET o == antUp.tools - 1 IN
    IF antRes.had
    THEN /\ antSeen.pieces[o] = antUp.sent[o] /\ antUp.given > 0
         /\ antRes.read => antUp.at = "whole"
    ELSE /\ antUp.sent[o] = antSeen.pieces[o] + antUp.given
         /\ antRes.args = antUp.given
         /\ antRes.read \/ antUp.given = 0

\* All that holds between a Responses upstream, its converter and its client.
ResInv ==
  antUp.kind = "responses" =>
    /\ AntFits(antRes, antSeen)
    /\ ResPlaces /\ ResBlock /\ ResCalls /\ ResPieces /\ ResKept
    /\ SignatureKept /\ ReasonFits

\* The converter of chunks stops with its upstream, and knows of its tools.
ChatPlaces ==
  /\ antUp.at \in {"new", "text", "tool", "closing", "ended", "closed"}
  /\ antChat.stopped = (antUp.at = "closed")
  /\ antChat.finish = antUp.end
  /\ antChat.tool = (antUp.tools > 0)
  /\ antUp.end = "tool_calls" => antUp.tools > 0
  /\ antUp.end \in {"none", "stop", "length", "tool_calls"}

\* A call that has come is announced or waits for its name.
ChatCalls ==
  /\ antChat.announced \cap antChat.pending = {}
  /\ antChat.announced \cup antChat.pending = 0 .. antUp.tools - 1
  /\ antSeen.calls = antChat.announced
  /\ (antChat.announced # {}) = AntSeenTools(antSeen)
  /\ antChat.stopped => antChat.pending = {}

\* Pieces of a call find its block open, and no block of a call is left empty.
ChatBlock ==
  /\ antUp.at = "tool" => antUp.tools > 0
  /\ antUp.at = "tool" /\ antUp.tools - 1 \in antChat.announced =>
       /\ antChat.open /\ antChat.type = "tool_use"
       /\ antChat.block[antUp.tools - 1] = antChat.index
       /\ antSeen.call = antUp.tools - 1
  /\ antChat.open /\ antChat.type = "tool_use" /\ antChat.had => antSeen.filled
  /\ ~antSeen.empty

\* A piece is with the client or held back, and only for a call that waits.
ChatPieces ==
  \A o \in Tools : /\ antUp.sent[o] = antSeen.pieces[o] + antChat.held[o]
                   /\ o \notin antChat.pending => antChat.held[o] = 0

\* All that holds between a chat, its converter and its client.
ChatInv ==
  antUp.kind = "chat" =>
    /\ AntFits(antChat, antSeen)
    /\ ChatPlaces /\ ChatCalls /\ ChatBlock /\ ChatPieces
    /\ ReasonFits

\* The inductive invariant.
AntInv == AntTyped /\ ResInv /\ ChatInv

-----------------------------------------------------------------------------
(* What the client makes of each event, when it can place it               *)

LEMMA AntTakesStays ==
  ASSUME NEW c \in AntClients, NEW i \in Nat, NEW t, ~Misplaced(c, i, t)
  PROVE  Takes(c, i, t) = c
  <1>1. c.astray \in BOOLEAN
    BY DEF AntClients
  <1>2. (c.astray \/ Misplaced(c, i, t)) = c.astray
    BY <1>1
  <1>3. [c EXCEPT !.astray = c.astray] = c
    BY DEF AntClients
  <1> QED
    BY <1>2, <1>3 DEF Takes

LEMMA AntSignsFits ==
  ASSUME NEW c \in AntClients, NEW i \in Nat, ~Misplaced(c, i, "thinking")
  PROVE  Signs(c, i) = [c EXCEPT !.signed = TRUE]
  <1>1. c.astray \in BOOLEAN
    BY DEF AntClients
  <1>2. (c.astray \/ Misplaced(c, i, "thinking")) = c.astray
    BY <1>1
  <1>3. [c EXCEPT !.astray = c.astray, !.signed = TRUE] = [c EXCEPT !.signed = TRUE]
    BY DEF AntClients
  <1> QED
    BY <1>2, <1>3 DEF Signs

LEMMA AntClosesFits ==
  ASSUME NEW c \in AntClients, NEW i \in Nat, ~Misplaced(c, i, c.open), c.open # "none"
  PROVE  Closes(c, i) = [c EXCEPT !.open = "none",
                                  !.empty = @ \/ (c.open = "tool_use" /\ ~c.filled)]
  <1> DEFINE e == c.empty \/ (c.open = "tool_use" /\ ~c.filled)
  <1>1. c.astray \in BOOLEAN
    BY DEF AntClients
  <1>2. (c.astray \/ Misplaced(c, i, c.open) \/ c.open = "none") = c.astray
    BY <1>1
  <1> HIDE DEF e
  <1>3. [c EXCEPT !.open = "none", !.empty = e, !.astray = c.astray]
          = [c EXCEPT !.open = "none", !.empty = e]
    BY DEF AntClients
  <1> QED
    BY <1>2, <1>3 DEF Closes, e

LEMMA AntArgsFit ==
  ASSUME NEW c \in AntClients, NEW i \in Nat, NEW n \in Nat,
         ~Misplaced(c, i, "tool_use"), c.call \in Tools
  PROVE  /\ TakesArgs(c, i, n) = [c EXCEPT !.filled = TRUE, !.pieces[c.call] = @ + n]
         /\ TakesArgs(c, i, n) \in AntClients
  <1>1. c.astray \in BOOLEAN /\ c.pieces \in [Tools -> Nat] /\ c.pieces[c.call] + n \in Nat
    BY DEF AntClients
  <1>2. (c.astray \/ Misplaced(c, i, "tool_use")) = c.astray
    BY <1>1
  <1> DEFINE f == [c.pieces EXCEPT ![c.call] = @ + n]
  <1>3. f \in [Tools -> Nat]
    BY <1>1
  <1> HIDE DEF f
  <1>4. [c EXCEPT !.astray = c.astray, !.filled = TRUE, !.pieces = f]
          = [c EXCEPT !.filled = TRUE, !.pieces = f]
    BY DEF AntClients
  <1>5. [c EXCEPT !.filled = TRUE, !.pieces = f] \in AntClients
    BY <1>3 DEF AntClients
  <1> QED
    BY <1>2, <1>4, <1>5 DEF TakesArgs, f

\* What a client is after a block has been opened.
AntOpened(c, d, t) ==
  /\ d.started = c.started /\ d.stopped = c.stopped /\ d.open = t
  /\ d.blocks = Append(c.blocks, t) /\ d.pieces = c.pieces /\ d.empty = c.empty
  /\ d.reason = c.reason /\ ~d.astray

LEMMA AntOpensFit ==
  ASSUME NEW c \in AntClients, NEW i \in Nat, NEW t \in AntKinds,
         c.started, ~c.stopped, ~c.astray, c.open = "none", i = Len(c.blocks)
  PROVE  /\ Opens(c, i, t) \in AntClients
         /\ AntOpened(c, Opens(c, i, t), t)
         /\ Opens(c, i, t).calls = c.calls /\ Opens(c, i, t).call = c.call
  <1> DEFINE a == c.astray \/ ~c.started \/ c.stopped \/ c.open # "none" \/ i # Len(c.blocks)
  <1>1. a = FALSE
    BY DEF AntClients
  <1>2. Append(c.blocks, t) \in Seq(AntKinds)
    BY AppendProperties DEF AntClients
  <1> DEFINE b == Append(c.blocks, t)
  <1>3. Opens(c, i, t) = [c EXCEPT !.open = t, !.blocks = b, !.filled = FALSE,
                                   !.signed = FALSE, !.astray = a]
    BY DEF Opens
  <1> HIDE DEF a, b
  <1>4. b \in Seq(AntKinds)
    BY <1>2 DEF b
  <1>5. [c EXCEPT !.open = t, !.blocks = b, !.filled = FALSE,
                  !.signed = FALSE, !.astray = a] \in AntClients
    BY <1>1, <1>4 DEF AntClients
  <1>6. AntOpened(c, Opens(c, i, t), t)
    BY <1>1, <1>3 DEF AntOpened, AntClients, b
  <1>7. Opens(c, i, t).calls = c.calls /\ Opens(c, i, t).call = c.call
    BY <1>3 DEF AntClients
  <1> QED
    BY <1>3, <1>5, <1>6, <1>7

LEMMA AntOpensCallFits ==
  ASSUME NEW c \in AntClients, NEW i \in Nat, NEW o \in Tools, o \notin c.calls,
         c.started, ~c.stopped, ~c.astray, c.open = "none", i = Len(c.blocks)
  PROVE  /\ OpensCall(c, i, o) \in AntClients
         /\ AntOpened(c, OpensCall(c, i, o), "tool_use")
         /\ OpensCall(c, i, o).calls = c.calls \cup {o} /\ OpensCall(c, i, o).call = o
  <1> DEFINE d == Opens(c, i, "tool_use")
             a == d.astray \/ o \in c.calls
             s == d.calls \cup {o}
  <1>1. d \in AntClients /\ AntOpened(c, d, "tool_use") /\ d.calls = c.calls
    BY AntOpensFit DEF AntKinds
  <1>2. a = FALSE
    BY <1>1 DEF AntOpened, AntClients
  <1>3. s \in SUBSET Tools /\ s = c.calls \cup {o}
    BY <1>1 DEF AntClients
  <1>4. OpensCall(c, i, o) = [d EXCEPT !.call = o, !.calls = s, !.astray = a]
    BY DEF OpensCall
  <1> HIDE DEF d, a, s
  <1>5. [d EXCEPT !.call = o, !.calls = s, !.astray = a] \in AntClients
    BY <1>1, <1>2, <1>3 DEF AntClients
  <1>6. AntOpened(c, OpensCall(c, i, o), "tool_use")
    BY <1>1, <1>2, <1>4 DEF AntOpened, AntClients
  <1>7. OpensCall(c, i, o).calls = s /\ OpensCall(c, i, o).call = o
    BY <1>1, <1>4 DEF AntClients
  <1> QED
    BY <1>3, <1>4, <1>5, <1>6, <1>7

LEMMA AntEndsFits ==
  ASSUME NEW c \in AntClients, NEW r \in {"none", "end_turn", "max_tokens", "tool_use"},
         c.started, ~c.stopped, ~c.astray, c.open = "none"
  PROVE  Ends(c, r) = [c EXCEPT !.stopped = TRUE, !.reason = r]
  <1>1. c.astray \in BOOLEAN
    BY DEF AntClients
  <1>2. (c.astray \/ ~c.started \/ c.stopped \/ c.open # "none") = c.astray
    BY <1>1
  <1>3. [c EXCEPT !.stopped = TRUE, !.reason = r, !.astray = c.astray]
          = [c EXCEPT !.stopped = TRUE, !.reason = r]
    BY DEF AntClients
  <1> QED
    BY <1>2, <1>3 DEF Ends

LEMMA AntStartsFits ==
  ASSUME NEW c \in AntClients, ~c.started
  PROVE  Starts(c) = [c EXCEPT !.started = TRUE]
  <1>1. c.astray \in BOOLEAN
    BY DEF AntClients
  <1>2. (c.astray \/ c.started) = c.astray
    BY <1>1
  <1>3. [c EXCEPT !.started = TRUE, !.astray = c.astray] = [c EXCEPT !.started = TRUE]
    BY DEF AntClients
  <1> QED
    BY <1>2, <1>3 DEF Starts

LEMMA AntToolsAppend ==
  ASSUME NEW c \in AntClients, NEW d, NEW t \in AntKinds, d.blocks = Append(c.blocks, t)
  PROVE  AntSeenTools(d) = (AntSeenTools(c) \/ t = "tool_use")
  <1> DEFINE b == c.blocks
             n == Len(b)
  <1>1. b \in Seq(AntKinds) /\ n \in Nat /\ DOMAIN b = 1 .. n
    BY LenProperties DEF AntClients
  <1>2. /\ Len(Append(b, t)) = n + 1 /\ Append(b, t)[n + 1] = t
        /\ \A k \in 1 .. n : Append(b, t)[k] = b[k]
        /\ DOMAIN Append(b, t) = 1 .. n + 1
    BY <1>1, AppendProperties, LenProperties
  <1> HIDE DEF b, n
  <1>3. \A k \in 1 .. n + 1 : k \in 1 .. n \/ k = n + 1
    BY <1>1
  <1>4. n + 1 \in 1 .. n + 1 /\ \A k \in 1 .. n : k \in 1 .. n + 1
    BY <1>1
  <1> QED
    BY <1>1, <1>2, <1>3, <1>4 DEF AntSeenTools, b

-----------------------------------------------------------------------------
(* From Responses events                                                   *)

\* The client of a block is the one of the converter: what each delta relies on.
LEMMA AntFitsPlace ==
  ASSUME NEW s \in AntResStates \cup AntChatStates, NEW c \in AntClients, AntFits(s, c),
         s.open, NEW t, s.type = t
  PROVE  ~Misplaced(c, s.index, t)
  <1>1. s.index \in Nat
    BY DEF AntResStates, AntChatStates
  <1> QED
    BY <1>1 DEF AntFits, Misplaced

\* What closing the block leaves as it was.
AntLeft(s, c, p) ==
  /\ p.s.started = s.started /\ p.s.stopped = s.stopped /\ p.s.tool = s.tool
  /\ p.s.block = s.block /\ ~p.s.open
  /\ p.c.calls = c.calls /\ p.c.blocks = c.blocks
  /\ p.c.reason = c.reason

LEMMA ResClosedFits ==
  ASSUME NEW s \in AntResStates, NEW c \in AntClients, AntFits(s, c)
  PROVE  /\ ResClosed(s, c).s \in AntResStates /\ ResClosed(s, c).c \in AntClients
         /\ AntFits(ResClosed(s, c).s, ResClosed(s, c).c)
         /\ AntLeft(s, c, ResClosed(s, c)) /\ ResClosed(s, c).c.pieces = c.pieces
         /\ (s.open /\ s.type = "thinking" /\ s.signature => ResClosed(s, c).c.signed)
  <1> DEFINE p == ResClosed(s, c)
             f == s.signature /\ s.type # "thinking"
             r == [s EXCEPT !.open = FALSE, !.index = s.index + 1, !.read = FALSE,
                            !.args = 0, !.had = FALSE, !.signature = f]
             signs == s.type = "thinking" /\ s.signature
             d == IF signs THEN Signs(c, s.index) ELSE c
  <1>1. CASE ~s.open
    <2>1. p = [s |-> s, c |-> c]
      BY <1>1 DEF ResClosed
    <2> QED
      BY <1>1, <2>1 DEF AntLeft
  <1>2. CASE s.open
    <2>1. s.index \in Nat /\ f \in BOOLEAN /\ s.type # "none"
      BY <1>2 DEF AntResStates, AntFits
    <2>2. ~Misplaced(c, s.index, s.type)
      BY <1>2, AntFitsPlace
    <2>3. d = c \/ (signs /\ d = [c EXCEPT !.signed = TRUE])
      BY <2>1, <2>2, AntSignsFits
    <2>4. d \in AntClients
      BY <2>3 DEF AntClients
    <2>5. /\ d.started = c.started /\ d.stopped = c.stopped /\ d.open = c.open
          /\ d.blocks = c.blocks /\ d.calls = c.calls /\ d.call = c.call
          /\ d.pieces = c.pieces /\ d.reason = c.reason /\ d.astray = c.astray
          /\ d.filled = c.filled /\ d.empty = c.empty
      BY <2>3 DEF AntClients
    <2>6. signs => d.signed
      BY <2>1, <2>2, AntSignsFits DEF AntClients
    <2>7. p = [s |-> r, c |-> Closes(d, s.index)]
      BY <1>2 DEF ResClosed
    <2> HIDE DEF d, f
    <2>8. ~Misplaced(d, s.index, d.open) /\ d.open # "none"
      BY <1>2, <2>1, <2>2, <2>5 DEF Misplaced, AntFits
    <2> DEFINE e == d.empty \/ (d.open = "tool_use" /\ ~d.filled)
               g == [d EXCEPT !.open = "none", !.empty = e]
    <2>9. Closes(d, s.index) = g
      BY <2>1, <2>4, <2>8, AntClosesFits
    <2>10. e \in BOOLEAN
      BY <2>4 DEF AntClients
    <2> HIDE DEF e
    <2>11. g \in AntClients
      BY <2>4, <2>10 DEF AntClients, AntKinds
    <2>12. r \in AntResStates
      <3> DEFINE j == s.index + 1
      <3>1. j \in Nat
        BY <2>1
      <3> HIDE DEF j
      <3>2. [s EXCEPT !.open = FALSE, !.index = j, !.read = FALSE, !.args = 0,
                      !.had = FALSE, !.signature = f] \in AntResStates
        BY <2>1, <3>1 DEF AntResStates
      <3> QED
        BY <3>2 DEF j
    <2>13. /\ r.started = s.started /\ r.stopped = s.stopped /\ r.tool = s.tool
           /\ r.block = s.block /\ ~r.open /\ r.index = s.index + 1
      BY DEF AntResStates
    <2>14. /\ g.started = d.started /\ g.stopped = d.stopped /\ g.open = "none"
           /\ g.blocks = d.blocks /\ g.calls = d.calls /\ g.pieces = d.pieces
           /\ g.reason = d.reason /\ g.astray = d.astray /\ g.signed = d.signed
      BY <2>4 DEF AntClients
    <2> HIDE DEF g, r
    <2>15. AntFits(r, g)
      BY <1>2, <2>5, <2>13, <2>14 DEF AntFits
    <2> HIDE DEF p
    <2>16. AntLeft(s, c, p)
      BY <2>5, <2>7, <2>9, <2>13, <2>14 DEF AntLeft
    <2>17. p.s = r /\ p.c = g
      BY <2>7, <2>9
    <2>18. p.c.signed \/ ~signs
      BY <2>6, <2>14, <2>17
    <2>19. p.c.pieces = c.pieces
      BY <2>5, <2>14, <2>17
    <2> QED
      BY <2>11, <2>12, <2>15, <2>16, <2>17, <2>18, <2>19 DEF p
  <1>3. s.open \in BOOLEAN
    BY DEF AntResStates
  <1> QED
    BY <1>1, <1>2, <1>3

LEMMA ResOpenedFits ==
  ASSUME NEW s \in AntResStates, NEW c \in AntClients, AntFits(s, c),
         ~s.open, s.started, ~s.stopped, NEW t \in {"tool_use", "thinking", "text"},
         t = "tool_use" => antUp.tools \in Tools /\ antUp.tools \notin c.calls
  PROVE  LET p == ResOpened([s |-> s, c |-> c], t) IN
         /\ p.s \in AntResStates /\ p.c \in AntClients /\ AntFits(p.s, p.c)
         /\ p.s = [s EXCEPT !.open = TRUE, !.type = t]
         /\ AntOpened(c, p.c, t)
         /\ IF t = "tool_use"
            THEN p.c.call = antUp.tools /\ p.c.calls = c.calls \cup {antUp.tools}
            ELSE p.c.calls = c.calls
  <1> DEFINE d == IF t = "tool_use" THEN OpensCall(c, s.index, antUp.tools)
                  ELSE Opens(c, s.index, t)
             r == [s EXCEPT !.open = TRUE, !.type = t]
  <1>1. ResOpened([s |-> s, c |-> c], t) = [s |-> r, c |-> d]
    BY DEF ResOpened
  <1>2. s.index \in Nat /\ t \in AntKinds
    BY DEF AntResStates, AntKinds
  <1>3. c.started /\ ~c.stopped /\ ~c.astray /\ c.open = "none" /\ s.index = Len(c.blocks)
    BY DEF AntFits
  <1>4. /\ d \in AntClients /\ AntOpened(c, d, t)
        /\ IF t = "tool_use"
           THEN d.call = antUp.tools /\ d.calls = c.calls \cup {antUp.tools}
           ELSE d.calls = c.calls
    <2>1. CASE t = "tool_use"
      <3>1. d = OpensCall(c, s.index, antUp.tools)
        BY <2>1
      <3> HIDE DEF d
      <3> QED
        BY <2>1, <3>1, <1>2, <1>3, AntOpensCallFits
    <2>2. CASE t # "tool_use"
      <3>1. d = Opens(c, s.index, t)
        BY <2>2
      <3> HIDE DEF d
      <3> QED
        BY <2>2, <3>1, <1>2, <1>3, AntOpensFit
    <2> QED
      BY <2>1, <2>2
  <1> HIDE DEF d
  <1>5. r \in AntResStates
    BY <1>2 DEF AntResStates
  <1>6. /\ r.started = s.started /\ r.stopped = s.stopped /\ r.open /\ r.type = t
        /\ r.index = s.index
    BY DEF AntResStates
  <1> HIDE DEF r
  <1>7. Len(d.blocks) = s.index + 1
    <2>1. c.blocks \in Seq(AntKinds)
      BY DEF AntClients
    <2>2. Len(Append(c.blocks, t)) = Len(c.blocks) + 1
      BY <2>1, <1>2, AppendProperties
    <2> QED
      BY <2>2, <1>3, <1>4 DEF AntOpened
  <1>8. AntFits(r, d)
    BY <1>3, <1>4, <1>6, <1>7 DEF AntFits, AntOpened
  <1> QED
    BY <1>1, <1>4, <1>5, <1>8 DEF r

\* The end of a message, wherever its block stands.
LEMMA ResStoppedFits ==
  ASSUME NEW s \in AntResStates, NEW c \in AntClients, AntFits(s, c), s.started, ~s.stopped,
         NEW reason \in {"end_turn", "max_tokens", "tool_use"}
  PROVE  LET p == ResStopped(s, c, reason) IN
         /\ p.s \in AntResStates /\ p.c \in AntClients /\ AntFits(p.s, p.c)
         /\ p.s.stopped /\ p.s.started /\ ~p.s.open /\ p.s.tool = s.tool
         /\ p.c.pieces = c.pieces /\ p.c.calls = c.calls /\ p.c.blocks = c.blocks
         /\ p.c.reason = reason
  <1> DEFINE p == ResClosed(s, c)
             t == p.s
             d == p.c
             r == [t EXCEPT !.stopped = TRUE]
             g == [d EXCEPT !.stopped = TRUE, !.reason = reason]
             q == ResStopped(s, c, reason)
  <1>1. /\ t \in AntResStates /\ d \in AntClients /\ AntFits(t, d) /\ AntLeft(s, c, p)
        /\ d.pieces = c.pieces
    BY ResClosedFits
  <1>2. q = [s |-> r, c |-> Ends(d, reason)]
    BY DEF ResStopped
  <1>3. /\ t.started = s.started /\ t.stopped = s.stopped /\ t.tool = s.tool /\ ~t.open
        /\ d.calls = c.calls /\ d.blocks = c.blocks
    BY <1>1 DEF AntLeft
  <1> HIDE DEF p, t, d
  <1>4. d.started /\ ~d.stopped /\ ~d.astray /\ d.open = "none"
    BY <1>1, <1>3 DEF AntFits
  <1>5. Ends(d, reason) = g
    BY <1>1, <1>4, AntEndsFits
  <1>6. r \in AntResStates /\ g \in AntClients
    BY <1>1 DEF AntResStates, AntClients
  <1>7. /\ r.started = t.started /\ r.stopped /\ r.open = t.open /\ r.tool = t.tool
        /\ r.index = t.index
    BY <1>1 DEF AntResStates
  <1>8. /\ g.started = d.started /\ g.stopped /\ g.open = d.open /\ g.blocks = d.blocks
        /\ g.calls = d.calls /\ g.pieces = d.pieces /\ g.reason = reason
        /\ g.astray = d.astray
    BY <1>1 DEF AntClients
  <1> HIDE DEF r, g
  <1>9. AntFits(r, g)
    BY <1>1, <1>3, <1>4, <1>7, <1>8 DEF AntFits
  <1>10. q.s = r /\ q.c = g
    BY <1>2, <1>5
  <1> HIDE DEF q
  <1> QED
    BY <1>1, <1>3, <1>6, <1>7, <1>8, <1>9, <1>10 DEF q

\* What an action of a converter must show.
AntGoal == AntTyped' /\ ResInv' /\ ChatInv'

\* An item of the upstream's output.
AntEntry == [item : AntItems, parts : Nat]

LEMMA AntOutputFacts ==
  ASSUME AntTyped
  PROVE  /\ Out \in Nat /\ antUp.tools \in Nat /\ AntOutputs \in Nat
         /\ Out > 0 => Out \in 1 .. Out /\ antUp.output[Out] \in AntEntry
  <1>1. antUp.output \in Seq(AntEntry)
    BY DEF AntTyped, AntUps, AntEntry
  <1>2. Out \in Nat /\ DOMAIN antUp.output = 1 .. Out
    BY <1>1, LenProperties DEF Out
  <1>3. antUp.tools \in Nat /\ AntOutputs \in Nat
    BY AntAssumption DEF AntTyped, AntUps
  <1>4. ASSUME Out > 0 PROVE Out \in 1 .. Out /\ antUp.output[Out] \in AntEntry
    <2>1. Out \in 1 .. Out
      BY <1>2, <1>4
    <2> QED
      BY <1>1, <1>2, <2>1, ElementOfSeq
  <1> QED
    BY <1>2, <1>3, <1>4

\* The entry of the item at work may change its parts only.
LEMMA AntPartsChange ==
  ASSUME AntTyped, Out > 0, NEW n \in Nat
  PROVE  LET f == [antUp.output EXCEPT ![Out].parts = n] IN
         /\ f \in Seq(AntEntry) /\ Len(f) = Out /\ f[Out].item = Item
  <1> DEFINE f == [antUp.output EXCEPT ![Out].parts = n]
             e == [antUp.output[Out] EXCEPT !.parts = n]
  <1>1. antUp.output \in Seq(AntEntry)
    BY DEF AntTyped, AntUps, AntEntry
  <1>2. Out \in Nat /\ Out \in 1 .. Len(antUp.output) /\ antUp.output[Out] \in AntEntry
    BY AntOutputFacts DEF Out
  <1>3. e \in AntEntry /\ e.item = Item
    BY <1>2 DEF AntEntry, Item
  <1>4. f = [antUp.output EXCEPT ![Out] = e]
    OBVIOUS
  <1> HIDE DEF e, f
  <1>5. f \in Seq(AntEntry) /\ Len(f) = Len(antUp.output) /\ f[Out] = e
    BY <1>1, <1>2, <1>3, <1>4, ExceptSeq
  <1> QED
    BY <1>3, <1>5 DEF Out, f

LEMMA ResRunning ==
  ASSUME AntTyped', AntFits(antRes', antSeen'), ~antRes'.stopped
  PROVE  ReasonFits'
  <1>1. ~antSeen'.stopped
    BY DEF AntFits, AntTyped, AntClients, AntResStates
  <1> QED
    BY <1>1 DEF ReasonFits

LEMMA ResCreatedKeeps ==
  ASSUME AntInv, antUp.kind = "responses", ResCreated
  PROVE  AntGoal
  <1>1. /\ antUp \in AntUps /\ antRes \in AntResStates /\ antChat \in AntChatStates
        /\ antSeen \in AntClients
    BY DEF AntInv, AntTyped
  <1>2. /\ antUp.at = "new" /\ antChat' = antChat
        /\ antUp' = [antUp EXCEPT !.at = "between"]
        /\ antRes' = [antRes EXCEPT !.started = TRUE]
        /\ antSeen' = Starts(antSeen)
    BY DEF ResCreated, ResTo, ResAt
  <1>3. /\ AntFits(antRes, antSeen) /\ ResPlaces /\ ResBlock /\ ResCalls /\ ResPieces
    BY DEF AntInv, ResInv
  <1>4. ~antRes.started /\ Out = 0 /\ ~antRes.stopped /\ ~antRes.open
    BY <1>2, <1>3 DEF ResPlaces, ResBlock
  <1>5. antSeen' = [antSeen EXCEPT !.started = TRUE]
    BY <1>1, <1>2, <1>3, <1>4, AntStartsFits DEF AntFits
  <1>6. AntTyped'
    BY <1>1, <1>2, <1>5 DEF AntTyped, AntUps, AntResStates, AntClients
  <1>7. /\ antUp'.kind = "responses" /\ antUp'.at = "between" /\ antUp'.output = antUp.output
        /\ antUp'.sent = antUp.sent /\ antUp'.tools = antUp.tools /\ antUp'.end = antUp.end
    BY <1>1, <1>2 DEF AntUps
  <1>8. /\ antRes'.started /\ antRes'.stopped = antRes.stopped /\ antRes'.open = antRes.open
        /\ antRes'.index = antRes.index /\ antRes'.tool = antRes.tool
    BY <1>1, <1>2 DEF AntResStates
  <1>9. /\ antSeen'.started /\ antSeen'.stopped = antSeen.stopped
        /\ antSeen'.open = antSeen.open /\ antSeen'.blocks = antSeen.blocks
        /\ antSeen'.calls = antSeen.calls /\ antSeen'.pieces = antSeen.pieces
        /\ antSeen'.astray = antSeen.astray
    BY <1>1, <1>5 DEF AntClients
  <1>10. AntFits(antRes', antSeen')
    BY <1>3, <1>4, <1>8, <1>9 DEF AntFits
  <1>11. ResPlaces'
    BY <1>3, <1>4, <1>7, <1>8 DEF ResPlaces, Out
  <1>12. ResBlock'
    BY <1>4, <1>7, <1>8 DEF ResBlock, InCall, InThought
  <1>13. ResCalls'
    BY <1>3, <1>7, <1>8, <1>9 DEF ResCalls, AntSeenTools
  <1>14. ResPieces'
    BY <1>2, <1>3, <1>7, <1>9 DEF ResPieces, InCall
  <1>15. ResKept' /\ ChatInv'
    BY <1>7 DEF ResKept, InCall, ChatInv
  <1>16. SignatureKept'
    BY <1>4, <1>7 DEF SignatureKept, Out
  <1>17. ReasonFits'
    BY <1>4, <1>6, <1>8, <1>10, ResRunning
  <1> QED
    BY <1>6, <1>10, <1>11, <1>12, <1>13, <1>14, <1>15, <1>16, <1>17 DEF AntGoal, ResInv

\* The upstream after it has begun an item.
AntBegun(item, signed) ==
  /\ antUp'.kind = "responses" /\ antUp'.at = "in" /\ antUp'.given = 0
  /\ antUp'.sent = antUp.sent /\ antUp'.end = antUp.end /\ antUp'.signed = signed
  /\ antUp'.tools = (IF item = "function" THEN antUp.tools + 1 ELSE antUp.tools)
  /\ Out' = Out + 1 /\ Item' = item /\ antUp' \in AntUps

LEMMA AntItemBegins ==
  ASSUME AntInv, antUp.kind = "responses", NEW item \in AntItems,
         NEW signed \in BOOLEAN, NEW read \in BOOLEAN, ResAdded(item, signed, read)
  PROVE  AntBegun(item, signed)
  <1> DEFINE e == [item |-> item, parts |-> 0]
             b == Append(antUp.output, e)
             n == IF item = "function" THEN antUp.tools + 1 ELSE antUp.tools
  <1>1. antUp \in AntUps
    BY DEF AntInv, AntTyped
  <1>2. /\ antUp' = [antUp EXCEPT !.at = "in", !.given = 0, !.signed = signed,
                                  !.output = b, !.tools = n]
        /\ Out < AntOutputs
    BY DEF ResAdded
  <1>3. antUp.output \in Seq(AntEntry) /\ e \in AntEntry
    BY <1>1 DEF AntUps, AntEntry
  <1>4. b \in Seq(AntEntry) /\ Len(b) = Len(antUp.output) + 1 /\ b[Len(antUp.output) + 1] = e
    BY <1>3, AppendProperties
  <1>5. antUp.tools <= Out
    BY DEF AntInv, ResInv, ResPlaces
  <1>6. n \in 0 .. AntOutputs /\ 0 \in 0 .. AntPieces + 1
    BY <1>2, <1>5, AntOutputFacts, AntAssumption DEF AntInv
  <1> HIDE DEF b, n
  <1>7. antUp' \in AntUps
    BY <1>1, <1>2, <1>4, <1>6 DEF AntUps, AntEntry
  <1>8. /\ antUp'.kind = antUp.kind /\ antUp'.at = "in" /\ antUp'.given = 0
        /\ antUp'.sent = antUp.sent /\ antUp'.end = antUp.end /\ antUp'.signed = signed
        /\ antUp'.tools = n /\ antUp'.output = b
    BY <1>1, <1>2 DEF AntUps
  <1>9. Out' = Out + 1
    BY <1>4, <1>8 DEF Out
  <1>10. Item' = e.item
    BY <1>4, <1>8 DEF Item, Out
  <1> QED
    BY <1>7, <1>8, <1>9, <1>10 DEF AntBegun, n

\* What a beginning owes, once its block stands.
LEMMA ResBegunKeeps ==
  ASSUME AntInv, antUp.kind = "responses", antUp.at = "between", Out < AntOutputs,
         NEW item \in AntItems, NEW signed \in BOOLEAN, AntBegun(item, signed),
         antRes' \in AntResStates, antSeen' \in AntClients, antChat' = antChat,
         AntFits(antRes', antSeen'), antRes'.started, ~antRes'.stopped,
         ResBlock', ResCalls', antSeen'.pieces = antSeen.pieces,
         item = "function" => ~antRes'.had /\ antRes'.args = 0
  PROVE  AntGoal
  <1>1. AntTyped'
    BY DEF AntInv, AntTyped, AntBegun
  <1>2. ResPlaces /\ ResPieces
    BY DEF AntInv, ResInv
  <1>3. ResPlaces'
    <2>1. antUp'.tools <= Out'
      BY <1>2, AntOutputFacts DEF AntInv, ResPlaces, AntBegun
    <2>2. antUp'.end = "none"
      BY <1>2 DEF ResPlaces, AntBegun
    <2>3. Out' <= AntOutputs /\ Out' > 0
      BY AntOutputFacts DEF AntBegun, AntInv
    <2> QED
      BY <2>1, <2>2, <2>3 DEF ResPlaces, AntBegun
  <1>4. \A o \in Tools : antSeen'.pieces[o] = antUp'.sent[o] /\ antUp.sent[o] \in Nat
    BY <1>2 DEF ResPieces, InCall, AntBegun, AntInv, AntTyped, AntUps
  <1>5. ResPieces'
    BY <1>4 DEF ResPieces, AntBegun
  <1>6. ResKept'
    <2> SUFFICES ASSUME InCall' PROVE ResKept'
      BY DEF ResKept
    <2>1. item = "function" /\ antUp'.tools - 1 = antUp.tools
      BY AntOutputFacts DEF InCall, AntBegun, AntInv
    <2>2. antUp.tools \in Tools
      BY <1>2, AntOutputFacts DEF ResPlaces, AntInv, Tools
    <2>3. antSeen'.pieces[antUp.tools] = antUp'.sent[antUp.tools]
          /\ antUp.sent[antUp.tools] \in Nat
      BY <1>4, <2>2
    <2>4. ~antRes'.had /\ antRes'.args = 0 /\ antUp'.given = 0 /\ antUp'.sent = antUp.sent
      BY <2>1 DEF AntBegun
    <2> QED
      BY <2>1, <2>3, <2>4 DEF ResKept
  <1>7. SignatureKept' /\ ChatInv'
    BY DEF SignatureKept, ResAt, AntBegun, ChatInv
  <1>8. ReasonFits'
    BY <1>1, ResRunning
  <1> QED
    BY <1>1, <1>3, <1>5, <1>6, <1>7, <1>8 DEF AntGoal, ResInv, AntBegun

LEMMA ResAddedKeeps ==
  ASSUME AntInv, antUp.kind = "responses", NEW item \in AntItems,
         NEW signed \in BOOLEAN, NEW read \in BOOLEAN, ResAdded(item, signed, read)
  PROVE  AntGoal
  <1>1. /\ antUp \in AntUps /\ antRes \in AntResStates /\ antSeen \in AntClients
    BY DEF AntInv, AntTyped
  <1>2. AntFits(antRes, antSeen) /\ ResPlaces /\ ResBlock /\ ResCalls
    BY DEF AntInv, ResInv
  <1>3. antUp.at = "between" /\ Out < AntOutputs
    BY DEF ResAdded, ResAt
  <1>4. antRes.started /\ ~antRes.stopped /\ ~antRes.open
    BY <1>2, <1>3 DEF ResPlaces, ResBlock
  <1>5. AntBegun(item, signed)
    BY AntItemBegins
  <1>6. antUp.tools \in Tools /\ antUp.tools \notin antSeen.calls
    BY <1>2, <1>3, AntOutputFacts DEF ResPlaces, ResCalls, Tools, AntInv
  <1>7. ResClosed(antRes, antSeen) = [s |-> antRes, c |-> antSeen]
    BY <1>4 DEF ResClosed
  <1> DEFINE t == IF item = "function" THEN "tool_use" ELSE "thinking"
             p == ResOpened([s |-> antRes, c |-> antSeen], t)
             i == antRes.index
             b == [antRes.block EXCEPT ![Out + 1] = i]
  <1>8. /\ p.s \in AntResStates /\ p.c \in AntClients /\ AntFits(p.s, p.c)
        /\ p.s = [antRes EXCEPT !.open = TRUE, !.type = t]
        /\ AntOpened(antSeen, p.c, t)
        /\ IF t = "tool_use"
           THEN p.c.call = antUp.tools /\ p.c.calls = antSeen.calls \cup {antUp.tools}
           ELSE p.c.calls = antSeen.calls
    BY <1>1, <1>2, <1>4, <1>6, ResOpenedFits
  <1>9. i \in Nat /\ antRes.block \in [1 .. AntOutputs -> Nat \cup {NoBlock}]
    BY <1>1 DEF AntResStates
  <1>10. Out + 1 \in 1 .. AntOutputs
    BY <1>3, AntOutputFacts DEF AntInv
  <1>11. b \in [1 .. AntOutputs -> Nat \cup {NoBlock}] /\ b[Out + 1] = i
    BY <1>9, <1>10
  <1>12. p.s.index = i /\ p.s.block = antRes.block
    BY <1>1, <1>8 DEF AntResStates
  <1>13. DOMAIN p = {"s", "c"}
    BY DEF ResOpened
  <1>14. AntSeenTools(p.c) = (AntSeenTools(antSeen) \/ t = "tool_use")
    <2>1. t \in AntKinds /\ p.c.blocks = Append(antSeen.blocks, t)
      BY <1>8 DEF AntOpened, AntKinds
    <2> HIDE DEF p, t
    <2> QED
      BY <2>1, <1>1, AntToolsAppend
  <1>15. CASE item = "function"
    <2> DEFINE r == [antRes EXCEPT !.open = TRUE, !.type = "tool_use", !.block = b,
                                   !.read = read, !.args = 0, !.had = FALSE, !.tool = TRUE]
    <2>1. antRes' = r /\ antSeen' = p.c /\ antChat' = antChat
      <3>1. /\ antRes' = [[p.s EXCEPT !.block[Out + 1] = p.s.index]
                            EXCEPT !.read = read, !.args = 0, !.had = FALSE, !.tool = TRUE]
            /\ antSeen' = p.c /\ antChat' = antChat
        BY <1>7, <1>15, <1>13 DEF ResAdded, ResTo
      <3>2. antRes' = [antRes EXCEPT !.open = TRUE, !.type = t,
                         !.block[Out + 1] = i, !.read = read, !.args = 0, !.had = FALSE,
                         !.tool = TRUE]
        <4> HIDE DEF p
        <4> QED
          BY <3>1, <1>8, <1>12, <1>1 DEF AntResStates
      <3> QED
        BY <3>1, <3>2, <1>15
    <2> HIDE DEF b, p
    <2>2. r \in AntResStates
      BY <1>1, <1>11 DEF AntResStates, AntKinds
    <2>3. /\ r.open /\ r.type = "tool_use" /\ r.block = b /\ ~r.had /\ r.args = 0 /\ r.tool
          /\ r.started = antRes.started /\ r.stopped = antRes.stopped /\ r.index = i
      BY <1>1 DEF AntResStates
    <2>4. p.s.started = antRes.started /\ p.s.stopped = antRes.stopped /\ p.s.open
          /\ p.s.type = "tool_use"
      BY <1>1, <1>8, <1>15 DEF AntResStates
    <2> HIDE DEF r
    <2>5. AntFits(r, p.c)
      BY <1>8, <1>12, <2>3, <2>4 DEF AntFits
    <2>6. ResBlock'
      <3>1. InCall' /\ ~InThought'
        BY <1>5, <1>15 DEF InCall, InThought, AntBegun
      <3>2. antRes'.block[Out'] = antRes'.index
        BY <1>5, <1>11, <2>1, <2>3 DEF AntBegun
      <3>3. antUp'.tools > 0 /\ antSeen'.call = antUp'.tools - 1
        BY <1>5, <1>8, <1>15, <2>1, AntOutputFacts DEF AntBegun, AntInv
      <3> QED
        BY <1>5, <1>15, <2>1, <2>3, <3>1, <3>2, <3>3 DEF ResBlock, AntBegun
    <2>7. ResCalls'
      <3>1. antSeen'.calls = 0 .. antUp'.tools - 1
        <4>1. antUp.tools \in Nat /\ antUp'.tools = antUp.tools + 1
          BY <1>5, <1>15, AntOutputFacts DEF AntBegun, AntInv
        <4>2. (0 .. antUp.tools - 1) \cup {antUp.tools} = 0 .. antUp.tools
          BY <4>1
        <4>3. antUp'.tools - 1 = antUp.tools
          BY <4>1
        <4> QED
          BY <1>2, <1>8, <1>15, <2>1, <4>2, <4>3 DEF ResCalls
      <3>2. AntSeenTools(antSeen') /\ antRes'.tool = TRUE
        BY <1>14, <1>15, <2>1, <2>3, <2>2 DEF AntResStates
      <3> QED
        BY <3>1, <3>2 DEF ResCalls, AntSeenTools
    <2>8. antSeen'.pieces = antSeen.pieces
      BY <1>8, <2>1 DEF AntOpened
    <2> QED
      BY <1>3, <1>4, <1>5, <1>8, <2>1, <2>2, <2>3, <2>5, <2>6, <2>7, <2>8, ResBegunKeeps
  <1>16. CASE item = "reasoning"
    <2> DEFINE r == [antRes EXCEPT !.open = TRUE, !.type = "thinking", !.block = b,
                                   !.signature = signed]
    <2>1. antRes' = r /\ antSeen' = p.c /\ antChat' = antChat
      <3>1. /\ antRes' = [[p.s EXCEPT !.block[Out + 1] = p.s.index]
                            EXCEPT !.signature = signed]
            /\ antSeen' = p.c /\ antChat' = antChat
        BY <1>7, <1>16, <1>13 DEF ResAdded, ResTo
      <3>2. antRes' = [antRes EXCEPT !.open = TRUE, !.type = t,
                         !.block[Out + 1] = i, !.signature = signed]
        <4> HIDE DEF p
        <4> QED
          BY <3>1, <1>8, <1>12, <1>1 DEF AntResStates
      <3> QED
        BY <3>1, <3>2, <1>16
    <2> HIDE DEF b, p
    <2>2. r \in AntResStates
      BY <1>1, <1>11 DEF AntResStates, AntKinds
    <2>3. /\ r.open /\ r.type = "thinking" /\ r.block = b /\ r.signature = signed
          /\ r.started = antRes.started /\ r.stopped = antRes.stopped /\ r.index = i
          /\ r.tool = antRes.tool
      BY <1>1 DEF AntResStates
    <2>4. p.s.started = antRes.started /\ p.s.stopped = antRes.stopped /\ p.s.open
          /\ p.s.type = "thinking"
      BY <1>1, <1>8, <1>16 DEF AntResStates
    <2> HIDE DEF r
    <2>5. AntFits(r, p.c)
      BY <1>8, <1>12, <2>3, <2>4 DEF AntFits
    <2>6. ResBlock'
      <3>1. ~InCall'
        BY <1>5, <1>16 DEF InCall, AntBegun
      <3>2. antRes'.block[Out'] = antRes'.index
        BY <1>5, <1>11, <2>1, <2>3 DEF AntBegun
      <3>3. antRes'.signature = antUp'.signed
        BY <1>5, <2>1, <2>3 DEF AntBegun
      <3> QED
        BY <1>5, <1>16, <2>1, <2>3, <3>1, <3>2, <3>3 DEF ResBlock, AntBegun
    <2>7. ResCalls'
      <3>1. antSeen'.calls = 0 .. antUp'.tools - 1
        BY <1>2, <1>5, <1>8, <1>16, <2>1 DEF ResCalls, AntBegun
      <3>2. AntSeenTools(antSeen') = AntSeenTools(antSeen) /\ antRes'.tool = antRes.tool
        BY <1>14, <1>16, <2>1, <2>3 DEF AntSeenTools
      <3> QED
        BY <1>2, <3>1, <3>2 DEF ResCalls, AntSeenTools
    <2>8. antSeen'.pieces = antSeen.pieces
      BY <1>8, <2>1 DEF AntOpened
    <2> QED
      BY <1>3, <1>4, <1>5, <1>8, <1>16, <2>1, <2>2, <2>3, <2>5, <2>6, <2>7, <2>8, ResBegunKeeps
  <1>17. CASE item \notin {"function", "reasoning"}
    <2>1. antRes' = antRes /\ antSeen' = antSeen /\ antChat' = antChat
      BY <1>17 DEF ResAdded
    <2>2. ResBlock'
      BY <1>4, <1>5, <1>17, <2>1 DEF ResBlock, InCall, InThought, AntBegun
    <2>3. ResCalls'
      BY <1>2, <1>5, <1>17, <2>1 DEF ResCalls, AntBegun, AntSeenTools
    <2> QED
      BY <1>1, <1>2, <1>3, <1>4, <1>5, <1>17, <2>1, <2>2, <2>3, ResBegunKeeps
  <1> QED
    BY <1>15, <1>16, <1>17

\* The upstream moves within an item, or leaves it.
AntMoves(place) ==
  /\ antUp'.kind = "responses" /\ antUp'.at = place
  /\ antUp'.sent = antUp.sent /\ antUp'.end = antUp.end /\ antUp'.tools = antUp.tools
  /\ Out' = Out /\ Item' = Item /\ antUp' \in AntUps


LEMMA ResMoves ==
  ASSUME AntInv, antUp.kind = "responses", antUp.at \in {"in", "part", "done"}, ~InCall,
         NEW place \in {"in", "part", "between"}, AntMoves(place), ~InCall',
         place = "part" => Item = "message",
         antRes' \in AntResStates, antSeen' \in AntClients, antChat' = antChat,
         AntFits(antRes', antSeen'),
         antRes'.started = antRes.started, antRes'.stopped = antRes.stopped,
         ResBlock', antRes'.tool = AntSeenTools(antSeen'),
         antSeen'.calls = antSeen.calls, antSeen'.pieces = antSeen.pieces,
         SignatureKept'
  PROVE  AntGoal
  <1>1. AntTyped'
    BY DEF AntInv, AntTyped, AntMoves
  <1>2. ResPlaces /\ ResPieces /\ ResCalls
    BY DEF AntInv, ResInv
  <1>3. antRes'.started /\ ~antRes'.stopped
    BY <1>2 DEF ResPlaces
  <1>4. ResPlaces'
    BY <1>2, <1>3 DEF ResPlaces, AntMoves
  <1>5. ResCalls'
    BY <1>2 DEF ResCalls, AntMoves
  <1>6. ResPieces'
    BY <1>2 DEF ResPieces, AntMoves
  <1>7. ResKept' /\ ChatInv'
    BY DEF ResKept, ChatInv, AntMoves
  <1>8. ReasonFits'
    BY <1>1, <1>3, ResRunning
  <1> QED
    BY <1>1, <1>4, <1>5, <1>6, <1>7, <1>8 DEF AntGoal, ResInv, AntMoves

LEMMA ResTextKeeps ==
  ASSUME AntInv, antUp.kind = "responses", ResText
  PROVE  AntGoal
  <1>1. /\ antUp \in AntUps /\ antRes \in AntResStates /\ antSeen \in AntClients
    BY DEF AntInv, AntTyped
  <1>2. AntFits(antRes, antSeen) /\ ResPlaces /\ ResBlock /\ ResCalls
    BY DEF AntInv, ResInv
  <1>3. antUp.at \in {"in", "part"} /\ Item = "message" /\ Out > 0
    BY <1>2 DEF ResText, ResAt, ResPlaces
  <1>4. antRes.started /\ ~antRes.stopped /\ ~InCall
    BY <1>2, <1>3 DEF ResPlaces, InCall
  <1>5. AntMoves("part")
    <2> DEFINE n == IF antUp.at = "in" THEN antUp.output[Out].parts + 1
                    ELSE antUp.output[Out].parts
               f == [antUp.output EXCEPT ![Out].parts = n]
    <2>1. antUp' = [antUp EXCEPT !.at = "part", !.output = f]
      BY DEF ResText
    <2>2. n \in Nat
      BY <1>3, AntOutputFacts DEF AntInv, AntEntry
    <2> HIDE DEF n
    <2>3. f \in Seq(AntEntry) /\ Len(f) = Out /\ f[Out].item = Item
      BY <1>3, <2>2, AntPartsChange DEF AntInv
    <2> HIDE DEF f
    <2>4. antUp' \in AntUps
      BY <1>1, <2>1, <2>3 DEF AntUps, AntEntry
    <2>5. /\ antUp'.kind = antUp.kind /\ antUp'.at = "part" /\ antUp'.sent = antUp.sent
          /\ antUp'.end = antUp.end /\ antUp'.tools = antUp.tools /\ antUp'.output = f
      BY <1>1, <2>1 DEF AntUps
    <2>6. Out' = Out
      BY <2>3, <2>5 DEF Out
    <2>7. Item' = Item
      BY <2>3, <2>5, <2>6 DEF Item
    <2> QED
      BY <2>4, <2>5, <2>6, <2>7 DEF AntMoves
  <1>6. ~InCall' /\ ~InThought' /\ SignatureKept'
    BY <1>3, <1>5 DEF InCall, InThought, SignatureKept, ResAt, AntMoves
  <1>7. CASE antUp.at = "part"
    <2>1. antRes.open /\ antRes.type = "text"
      BY <1>2, <1>7 DEF ResBlock
    <2>2. antRes' = antRes /\ antSeen' = Takes(antSeen, antRes.index, "text")
          /\ antChat' = antChat
      BY <2>1 DEF ResText, ResTo
    <2>3. antSeen' = antSeen
      BY <1>1, <1>2, <2>1, <2>2, AntFitsPlace, AntTakesStays DEF AntResStates
    <2>4. ResBlock'
      BY <1>5, <1>6, <2>1, <2>2 DEF ResBlock, AntMoves
    <2>5. antRes'.tool = AntSeenTools(antSeen')
      BY <1>2, <2>2, <2>3 DEF ResCalls
    <2> QED
      BY <1>1, <1>2, <1>3, <1>4, <1>5, <1>6, <2>2, <2>3, <2>4, <2>5, ResMoves
  <1>8. CASE antUp.at = "in"
    <2>1. ~antRes.open
      BY <1>2, <1>3, <1>8 DEF ResBlock
    <2> DEFINE p == ResOpened([s |-> antRes, c |-> antSeen], "text")
    <2>2. /\ p.s \in AntResStates /\ p.c \in AntClients /\ AntFits(p.s, p.c)
          /\ p.s = [antRes EXCEPT !.open = TRUE, !.type = "text"]
          /\ AntOpened(antSeen, p.c, "text") /\ p.c.calls = antSeen.calls
      BY <1>1, <1>2, <1>4, <2>1, ResOpenedFits
    <2>3. ResClosed(antRes, antSeen) = [s |-> antRes, c |-> antSeen]
      BY <2>1 DEF ResClosed
    <2>4. DOMAIN p = {"s", "c"} /\ p = [s |-> p.s, c |-> p.c]
      BY DEF ResOpened
    <2>5. antRes' = p.s /\ antSeen' = Takes(p.c, p.s.index, "text") /\ antChat' = antChat
      BY <2>1, <2>3, <2>4 DEF ResText, ResTo
    <2> HIDE DEF p
    <2>6. /\ p.s.open /\ p.s.type = "text" /\ p.s.started = antRes.started
          /\ p.s.stopped = antRes.stopped /\ p.s.tool = antRes.tool /\ p.s.index \in Nat
      BY <1>1, <2>2 DEF AntResStates
    <2>7. antSeen' = p.c
      <3> DEFINE s == p.s
                 c == p.c
      <3>1. /\ s \in AntResStates /\ c \in AntClients /\ AntFits(s, c) /\ s.open
            /\ s.type = "text" /\ s.index \in Nat
        BY <2>2, <2>6
      <3>2. antSeen' = Takes(c, s.index, "text")
        BY <2>5
      <3> HIDE DEF s, c
      <3>3. ~Misplaced(c, s.index, "text")
        BY <3>1, AntFitsPlace
      <3>4. Takes(c, s.index, "text") = c
        BY <3>1, <3>3, AntTakesStays
      <3> QED
        BY <3>2, <3>4 DEF c
    <2>8. ResBlock'
      BY <1>5, <1>6, <2>5, <2>6 DEF ResBlock, AntMoves
    <2>9. antRes'.tool = AntSeenTools(antSeen')
      <3>1. AntSeenTools(p.c) = AntSeenTools(antSeen)
        <4>1. p.c.blocks = Append(antSeen.blocks, "text") /\ "text" \in AntKinds
          BY <2>2 DEF AntOpened, AntKinds
        <4>2. AntSeenTools(p.c) = (AntSeenTools(antSeen) \/ "text" = "tool_use")
          BY <4>1, <1>1, AntToolsAppend
        <4> QED
          BY <4>2 DEF AntSeenTools
      <3> QED
        BY <1>2, <3>1, <2>5, <2>6, <2>7 DEF ResCalls
    <2>10. antSeen'.pieces = antSeen.pieces
      BY <2>2, <2>7 DEF AntOpened
    <2> QED
      BY <1>3, <1>4, <1>5, <1>6, <2>2, <2>5, <2>6, <2>7, <2>8, <2>9, <2>10, ResMoves
  <1> QED
    BY <1>3, <1>7, <1>8

LEMMA ResTextDoneKeeps ==
  ASSUME AntInv, antUp.kind = "responses", ResTextDone
  PROVE  AntGoal
  <1> DEFINE p == ResClosed(antRes, antSeen)
  <1>1. /\ antUp \in AntUps /\ antRes \in AntResStates /\ antSeen \in AntClients
    BY DEF AntInv, AntTyped
  <1>2. AntFits(antRes, antSeen) /\ ResPlaces /\ ResCalls
    BY DEF AntInv, ResInv
  <1>3. antUp.at = "part" /\ Item = "message" /\ ~InCall
    BY <1>2 DEF ResTextDone, ResAt, ResPlaces, InCall
  <1>4. /\ antUp' = [antUp EXCEPT !.at = "in"] /\ antRes' = p.s /\ antSeen' = p.c
        /\ antChat' = antChat
    BY DEF ResTextDone, ResTo
  <1>5. /\ p.s \in AntResStates /\ p.c \in AntClients /\ AntFits(p.s, p.c)
        /\ AntLeft(antRes, antSeen, p) /\ p.c.pieces = antSeen.pieces
    BY <1>1, <1>2, ResClosedFits
  <1> HIDE DEF p
  <1>6. AntMoves("in")
    <2>1. antUp' \in AntUps
      BY <1>1, <1>4 DEF AntUps
    <2>2. /\ antUp'.kind = antUp.kind /\ antUp'.at = "in" /\ antUp'.sent = antUp.sent
          /\ antUp'.end = antUp.end /\ antUp'.tools = antUp.tools
          /\ antUp'.output = antUp.output
      BY <1>1, <1>4 DEF AntUps
    <2> QED
      BY <2>1, <2>2 DEF AntMoves, Out, Item
  <1>7. ~InCall' /\ ~InThought' /\ SignatureKept'
    BY <1>3, <1>6 DEF InCall, InThought, SignatureKept, ResAt, AntMoves
  <1>8. /\ antRes'.started = antRes.started /\ antRes'.stopped = antRes.stopped
        /\ ~antRes'.open /\ antSeen'.calls = antSeen.calls /\ antRes'.tool = antRes.tool
        /\ antSeen'.blocks = antSeen.blocks
    BY <1>4, <1>5 DEF AntLeft
  <1>9. ResBlock'
    BY <1>6, <1>7, <1>8 DEF ResBlock, AntMoves
  <1>10. antRes'.tool = AntSeenTools(antSeen')
    BY <1>2, <1>8 DEF ResCalls, AntSeenTools
  <1>11. antSeen'.pieces = antSeen.pieces
    BY <1>4, <1>5
  <1> QED
    BY <1>3, <1>4, <1>5, <1>6, <1>7, <1>8, <1>9, <1>10, <1>11, ResMoves

LEMMA ResReasoningKeeps ==
  ASSUME AntInv, antUp.kind = "responses", ResReasoning
  PROVE  antUp' = antUp /\ antRes' = antRes /\ antChat' = antChat /\ antSeen' = antSeen
  <1>1. antRes \in AntResStates /\ antSeen \in AntClients
    BY DEF AntInv, AntTyped
  <1>2. InThought /\ AntFits(antRes, antSeen) /\ ResBlock
    BY DEF ResReasoning, ResAt, InThought, AntInv, ResInv
  <1>3. /\ antRes.open /\ antRes.type = "thinking" /\ antRes.block[Out] = antRes.index
        /\ antRes.index \in Nat
    BY <1>1, <1>2 DEF ResBlock, AntResStates
  <1>4. ~Misplaced(antSeen, antRes.index, "thinking")
    BY <1>1, <1>2, <1>3, AntFitsPlace
  <1>5. Takes(antSeen, antRes.index, "thinking") = antSeen
    BY <1>1, <1>3, <1>4, AntTakesStays
  <1> QED
    BY <1>3, <1>5 DEF ResReasoning

\* A block that is opened and closed at once.
LEMMA AntBlockAlone ==
  ASSUME NEW c \in AntClients, NEW i \in Nat, NEW t \in AntKinds, t # "tool_use",
         c.started, ~c.stopped, ~c.astray, c.open = "none", i = Len(c.blocks)
  PROVE  LET d == Closes(Opens(c, i, t), i) IN
         /\ d \in AntClients /\ d.started /\ ~d.stopped /\ ~d.astray /\ d.open = "none"
         /\ d.blocks = Append(c.blocks, t) /\ Len(d.blocks) = i + 1
         /\ d.calls = c.calls /\ d.pieces = c.pieces /\ d.reason = c.reason
         /\ AntSeenTools(d) = AntSeenTools(c)
  <1> DEFINE o == Opens(c, i, t)
             d == Closes(o, i)
  <1>1. o \in AntClients /\ AntOpened(c, o, t) /\ o.calls = c.calls
    BY AntOpensFit
  <1> HIDE DEF o
  <1>2. Len(o.blocks) = i + 1 /\ t # "none"
    <2>1. c.blocks \in Seq(AntKinds) /\ o.blocks = Append(c.blocks, t)
      BY <1>1 DEF AntClients, AntOpened
    <2>2. Len(Append(c.blocks, t)) = Len(c.blocks) + 1
      BY <2>1, AppendProperties
    <2> QED
      BY <2>1, <2>2 DEF AntKinds
  <1>3. ~Misplaced(o, i, o.open) /\ o.open # "none"
    BY <1>1, <1>2 DEF Misplaced, AntOpened
  <1> DEFINE e == o.empty \/ (o.open = "tool_use" /\ ~o.filled)
  <1>4. d = [o EXCEPT !.open = "none", !.empty = e]
    BY <1>1, <1>3, AntClosesFits
  <1>5. e \in BOOLEAN
    BY <1>1 DEF AntClients
  <1> HIDE DEF e, d
  <1>6. d \in AntClients
    BY <1>1, <1>4, <1>5 DEF AntClients
  <1>7. /\ d.started = o.started /\ d.stopped = o.stopped /\ d.astray = o.astray
        /\ d.open = "none" /\ d.blocks = o.blocks /\ d.calls = o.calls
        /\ d.pieces = o.pieces /\ d.reason = o.reason
    BY <1>1, <1>4 DEF AntClients
  <1>8. AntSeenTools(d) = AntSeenTools(c)
    <2>1. d.blocks = Append(c.blocks, t)
      BY <1>1, <1>7 DEF AntOpened
    <2>2. AntSeenTools(d) = (AntSeenTools(c) \/ t = "tool_use")
      BY <2>1, AntToolsAppend
    <2> QED
      BY <2>2 DEF AntSeenTools
  <1>9. /\ d.started /\ ~d.stopped /\ ~d.astray /\ d.blocks = Append(c.blocks, t)
        /\ Len(d.blocks) = i + 1 /\ d.calls = c.calls /\ d.pieces = c.pieces
        /\ d.reason = c.reason
    BY <1>1, <1>2, <1>7 DEF AntOpened
  <1> QED
    BY <1>6, <1>7, <1>8, <1>9 DEF d, o

LEMMA ResSearchedFits ==
  ASSUME NEW s \in AntResStates, NEW c \in AntClients, AntFits(s, c),
         ~s.open, s.started, ~s.stopped
  PROVE  LET p == ResSearched([s |-> s, c |-> c]) IN
         /\ p.s \in AntResStates /\ p.c \in AntClients /\ AntFits(p.s, p.c)
         /\ ~p.s.open /\ p.s.started = s.started /\ p.s.stopped = s.stopped
         /\ p.s.tool = s.tool /\ p.c.calls = c.calls /\ p.c.pieces = c.pieces
         /\ AntSeenTools(p.c) = AntSeenTools(c)
  <1> DEFINE i == s.index
             call == Closes(Opens(c, i, "server_tool_use"), i)
             d == Closes(Opens(call, i + 1, "web_search_tool_result"), i + 1)
             r == [s EXCEPT !.index = i + 2]
             p == ResSearched([s |-> s, c |-> c])
  <1>1. i \in Nat /\ i + 1 \in Nat /\ i + 2 \in Nat
    BY DEF AntResStates
  <1>2. p = [s |-> r, c |-> d]
    BY DEF ResSearched
  <1>3. /\ c.started /\ ~c.stopped /\ ~c.astray /\ c.open = "none" /\ i = Len(c.blocks)
        /\ "server_tool_use" \in AntKinds /\ "web_search_tool_result" \in AntKinds
    BY DEF AntFits, AntKinds
  <1>4. r \in AntResStates
    <2> DEFINE j == i + 2
    <2> HIDE DEF j
    <2>1. j \in Nat => [s EXCEPT !.index = j] \in AntResStates
      BY DEF AntResStates
    <2> QED
      BY <1>1, <2>1 DEF j
  <1>5. /\ ~r.open /\ r.started = s.started /\ r.stopped = s.stopped /\ r.tool = s.tool
        /\ r.index = i + 2
    BY DEF AntResStates
  <1> HIDE DEF i, r, p
  <1>6. /\ call \in AntClients /\ call.started /\ ~call.stopped /\ ~call.astray
        /\ call.open = "none" /\ Len(call.blocks) = i + 1 /\ call.calls = c.calls
        /\ call.pieces = c.pieces /\ AntSeenTools(call) = AntSeenTools(c)
    BY <1>1, <1>3, AntBlockAlone
  <1> HIDE DEF call
  <1>7. /\ d \in AntClients /\ d.started /\ ~d.stopped /\ ~d.astray
        /\ d.open = "none" /\ Len(d.blocks) = i + 1 + 1 /\ d.calls = call.calls
        /\ d.pieces = call.pieces /\ AntSeenTools(d) = AntSeenTools(call)
    BY <1>1, <1>3, <1>6, AntBlockAlone
  <1> HIDE DEF d
  <1>8. i + 1 + 1 = i + 2
    BY <1>1
  <1>9. r.started \in BOOLEAN /\ r.stopped \in BOOLEAN /\ d.started \in BOOLEAN
        /\ d.stopped \in BOOLEAN
    BY <1>4, <1>7 DEF AntResStates, AntClients
  <1>10. d.started = r.started /\ d.stopped = r.stopped
    BY <1>5, <1>7, <1>9
  <1>11. AntFits(r, d)
    BY <1>5, <1>7, <1>8, <1>10 DEF AntFits
  <1>12. p.s = r /\ p.c = d
    BY <1>2
  <1>13. d.calls = c.calls /\ d.pieces = c.pieces /\ AntSeenTools(d) = AntSeenTools(c)
    BY <1>6, <1>7
  <1> HIDE DEF p
  <1> QED
    BY <1>4, <1>5, <1>7, <1>11, <1>12, <1>13 DEF p

LEMMA ResItemDoneKeeps ==
  ASSUME AntInv, antUp.kind = "responses", NEW signed \in BOOLEAN, NEW completed \in BOOLEAN,
         Out > 0, ResItemDone(signed, completed)
  PROVE  AntGoal
  <1>1. /\ antUp \in AntUps /\ antRes \in AntResStates /\ antSeen \in AntClients
    BY DEF AntInv, AntTyped
  <1>2. AntFits(antRes, antSeen) /\ ResPlaces /\ ResBlock /\ ResCalls
    BY DEF AntInv, ResInv
  <1>3. antUp.at \in {"in", "part", "done"} /\ (Item = "function" => antUp.at = "done")
    BY DEF ResItemDone, ResAt
  <1>4. ~InCall /\ antRes.started /\ ~antRes.stopped
    BY <1>2, <1>3 DEF InCall, ResPlaces
  <1> DEFINE n == IF Item = "search" /\ completed THEN 1 ELSE antUp.output[Out].parts
             f == [antUp.output EXCEPT ![Out].parts = n]
             x == antUp.signed \/ signed
  <1>5. antUp' = [antUp EXCEPT !.at = "between", !.signed = x, !.output = f]
    BY DEF ResItemDone
  <1>6. n \in Nat /\ x \in BOOLEAN
    BY <1>1, AntOutputFacts DEF AntInv, AntEntry, AntUps
  <1> HIDE DEF n, x
  <1>7. f \in Seq(AntEntry) /\ Len(f) = Out /\ f[Out].item = Item
    BY <1>6, AntPartsChange DEF AntInv
  <1> HIDE DEF f
  <1>8. AntMoves("between") /\ antUp'.signed = x
    <2>1. antUp' \in AntUps
      BY <1>1, <1>5, <1>6, <1>7 DEF AntUps, AntEntry
    <2>2. /\ antUp'.kind = antUp.kind /\ antUp'.at = "between" /\ antUp'.sent = antUp.sent
          /\ antUp'.end = antUp.end /\ antUp'.tools = antUp.tools /\ antUp'.output = f
          /\ antUp'.signed = x
      BY <1>1, <1>5 DEF AntUps
    <2>3. Out' = Out
      BY <1>7, <2>2 DEF Out
    <2>4. Item' = Item
      BY <1>7, <2>2, <2>3 DEF Item
    <2> QED
      BY <2>1, <2>2, <2>3, <2>4 DEF AntMoves
  <1>9. ~InCall' /\ ~InThought'
    BY <1>8 DEF InCall, InThought, AntMoves
  <1>10. CASE Item = "search" /\ completed
    <2> DEFINE q == ResSearched([s |-> antRes, c |-> antSeen])
    <2>1. ~antRes.open
      BY <1>2, <1>3, <1>10 DEF ResBlock, ResPlaces
    <2>2. ResClosed(antRes, antSeen) = [s |-> antRes, c |-> antSeen]
      BY <2>1 DEF ResClosed
    <2>3. antRes' = q.s /\ antSeen' = q.c /\ antChat' = antChat
      BY <1>10, <2>2 DEF ResItemDone, ResTo
    <2>4. /\ q.s \in AntResStates /\ q.c \in AntClients /\ AntFits(q.s, q.c)
          /\ ~q.s.open /\ q.s.started = antRes.started /\ q.s.stopped = antRes.stopped
          /\ q.s.tool = antRes.tool /\ q.c.calls = antSeen.calls
          /\ q.c.pieces = antSeen.pieces /\ AntSeenTools(q.c) = AntSeenTools(antSeen)
      BY <1>1, <1>2, <1>4, <2>1, ResSearchedFits
    <2> HIDE DEF q
    <2>5. ResBlock'
      BY <1>8, <1>9, <2>3, <2>4 DEF ResBlock, AntMoves
    <2>6. SignatureKept'
      BY <1>8, <1>10 DEF SignatureKept, AntMoves
    <2>7. antRes'.tool = AntSeenTools(antSeen')
      BY <1>2, <2>3, <2>4 DEF ResCalls
    <2> QED
      BY <1>3, <1>4, <1>8, <1>9, <2>3, <2>4, <2>5, <2>6, <2>7, ResMoves
  <1>11. CASE ~(Item = "search" /\ completed)
    <2> DEFINE g == antRes.signature \/ (Item = "reasoning" /\ signed)
               kept == [antRes EXCEPT !.signature = g]
               p == ResClosed(kept, antSeen)
    <2>1. antRes' = p.s /\ antSeen' = p.c /\ antChat' = antChat
      BY <1>11 DEF ResItemDone, ResTo
    <2>2. g \in BOOLEAN
      BY <1>1 DEF AntResStates
    <2>3. Item = "reasoning" => kept.open /\ kept.type = "thinking" /\ kept.signature = x
      <3> SUFFICES ASSUME Item = "reasoning" PROVE kept.open /\ kept.type = "thinking" /\ g = x
        BY <1>1 DEF AntResStates
      <3>1. InThought
        BY <1>2, <1>3 DEF InThought, ResPlaces
      <3>2. antRes.open /\ antRes.type = "thinking" /\ antRes.signature = antUp.signed
        BY <1>2, <3>1 DEF ResBlock
      <3> QED
        BY <1>1, <3>2 DEF AntResStates, x
    <2> HIDE DEF g
    <2>4. kept \in AntResStates
      BY <1>1, <2>2 DEF AntResStates
    <2>5. /\ kept.started = antRes.started /\ kept.stopped = antRes.stopped
          /\ kept.open = antRes.open /\ kept.type = antRes.type /\ kept.index = antRes.index
          /\ kept.tool = antRes.tool
      BY <1>1 DEF AntResStates
    <2> HIDE DEF kept
    <2>6. AntFits(kept, antSeen)
      BY <1>2, <2>5 DEF AntFits
    <2>7. /\ p.s \in AntResStates /\ p.c \in AntClients /\ AntFits(p.s, p.c)
          /\ AntLeft(kept, antSeen, p) /\ p.c.pieces = antSeen.pieces
          /\ (kept.open /\ kept.type = "thinking" /\ kept.signature => p.c.signed)
      BY <1>1, <2>4, <2>6, ResClosedFits
    <2> HIDE DEF p
    <2>8. /\ antRes'.started = antRes.started /\ antRes'.stopped = antRes.stopped
          /\ ~antRes'.open /\ antSeen'.calls = antSeen.calls /\ antRes'.tool = antRes.tool
          /\ antSeen'.blocks = antSeen.blocks /\ antSeen'.pieces = antSeen.pieces
      BY <2>1, <2>5, <2>7 DEF AntLeft
    <2>9. ResBlock'
      BY <1>8, <1>9, <2>8 DEF ResBlock, AntMoves
    <2>10. SignatureKept'
      <3>1. Item = "reasoning" /\ x => antSeen'.signed
        BY <2>1, <2>3, <2>7
      <3> QED
        BY <1>8, <3>1 DEF SignatureKept, AntMoves
    <2>11. antRes'.tool = AntSeenTools(antSeen')
      BY <1>2, <2>8 DEF ResCalls, AntSeenTools
    <2>12. antRes' \in AntResStates /\ antSeen' \in AntClients /\ AntFits(antRes', antSeen')
      BY <2>1, <2>7
    <2> QED
      BY <1>3, <1>4, <1>8, <1>9, <2>1, <2>8, <2>9, <2>10, <2>11, <2>12, ResMoves
  <1> QED
    BY <1>10, <1>11

\* Arguments for the tool whose block is open reach its call.
LEMMA AntArgsTaken ==
  ASSUME NEW s \in AntResStates \cup AntChatStates, NEW c \in AntClients, AntFits(s, c),
         s.open, s.type = "tool_use", NEW n \in Nat
  PROVE  LET d == TakesArgs(c, s.index, n) IN
         /\ d \in AntClients /\ AntFits(s, d) /\ d.filled
         /\ d.pieces = [c.pieces EXCEPT ![c.call] = @ + n] /\ c.call \in Tools
         /\ d.call = c.call /\ d.calls = c.calls /\ d.blocks = c.blocks
         /\ d.reason = c.reason /\ d.empty = c.empty
  <1> DEFINE d == TakesArgs(c, s.index, n)
             f == [c.pieces EXCEPT ![c.call] = @ + n]
  <1>1. s.index \in Nat
    BY DEF AntResStates, AntChatStates
  <1>2. ~Misplaced(c, s.index, "tool_use")
    BY AntFitsPlace
  <1>3. c.call \in Tools
    BY DEF AntFits
  <1>4. d = [c EXCEPT !.filled = TRUE, !.pieces = f] /\ d \in AntClients
    <2> DEFINE i == s.index
    <2>1. i \in Nat /\ ~Misplaced(c, i, "tool_use") /\ c.call \in Tools
      BY <1>1, <1>2, <1>3
    <2> HIDE DEF i
    <2>2. /\ TakesArgs(c, i, n) = [c EXCEPT !.filled = TRUE, !.pieces[c.call] = @ + n]
          /\ TakesArgs(c, i, n) \in AntClients
      BY <2>1, AntArgsFit
    <2> QED
      BY <2>2 DEF i
  <1> HIDE DEF d, f
  <1>5. /\ d.filled /\ d.pieces = f /\ d.started = c.started /\ d.stopped = c.stopped
        /\ d.open = c.open /\ d.blocks = c.blocks /\ d.call = c.call /\ d.calls = c.calls
        /\ d.reason = c.reason /\ d.empty = c.empty /\ d.astray = c.astray
    BY <1>4 DEF AntClients
  <1>6. AntFits(s, d)
    BY <1>5 DEF AntFits
  <1> QED
    BY <1>3, <1>4, <1>5, <1>6 DEF d, f

\* Where a call's arguments come.
LEMMA ResCallFacts ==
  ASSUME AntInv, antUp.kind = "responses", InCall
  PROVE  /\ antRes.open /\ antRes.type = "tool_use" /\ antRes.block[Out] = antRes.index
         /\ antRes.index \in Nat /\ antRes.index # NoBlock
         /\ antUp.tools - 1 \in Tools /\ antSeen.call = antUp.tools - 1
         /\ antUp.sent[antUp.tools - 1] \in Nat /\ antSeen.pieces[antUp.tools - 1] \in Nat
         /\ antUp.given \in Nat /\ antRes.args \in Nat
         /\ antRes.started /\ ~antRes.stopped /\ antUp.end = "none" /\ Out > 0
         /\ antRes.had \in BOOLEAN /\ antRes.read \in BOOLEAN
  <1>1. ResPlaces /\ ResBlock /\ antUp \in AntUps /\ antRes \in AntResStates
        /\ antSeen \in AntClients
    BY DEF AntInv, ResInv, AntTyped
  <1>2. /\ antRes.open /\ antRes.type = "tool_use" /\ antRes.block[Out] = antRes.index
        /\ antSeen.call = antUp.tools - 1 /\ antUp.tools > 0
    BY <1>1 DEF ResBlock
  <1>3. antRes.index \in Nat /\ antUp.given \in Nat /\ antRes.args \in Nat
        /\ antRes.had \in BOOLEAN /\ antRes.read \in BOOLEAN
    BY <1>1, AntAssumption DEF AntUps, AntResStates
  <1>4. antRes.index # NoBlock
    BY <1>3 DEF NoBlock
  <1>5. antUp.tools - 1 \in Tools
    BY <1>1, <1>2, AntOutputFacts DEF AntInv, ResPlaces, Tools
  <1>6. antUp.sent[antUp.tools - 1] \in Nat /\ antSeen.pieces[antUp.tools - 1] \in Nat
    BY <1>1, <1>5 DEF AntUps, AntClients
  <1>7. antRes.started /\ ~antRes.stopped /\ antUp.end = "none" /\ Out > 0
    BY <1>1 DEF ResPlaces, InCall
  <1> QED
    BY <1>2, <1>3, <1>4, <1>5, <1>6, <1>7

LEMMA ResArgsKeeps ==
  ASSUME AntInv, antUp.kind = "responses", NEW last \in BOOLEAN, ResArgs(last)
  PROVE  AntGoal
  <1> DEFINE o == antUp.tools - 1
             reads == antRes.read
             keeps == reads /\ (antRes.had \/ ~last)
             a == IF reads THEN antRes.args + 1 ELSE antRes.args
             h == antRes.had \/ ~keeps
             n == IF reads THEN antRes.args + 1 ELSE 1
             f == [antUp.sent EXCEPT ![o] = @ + 1]
             place == IF last THEN "whole" ELSE antUp.at
  <1>1. /\ antUp \in AntUps /\ antRes \in AntResStates /\ antSeen \in AntClients
        /\ antChat \in AntChatStates
    BY DEF AntInv, AntTyped
  <1>2. AntFits(antRes, antSeen) /\ ResPlaces /\ ResCalls /\ ResPieces /\ ResKept
    BY DEF AntInv, ResInv
  <1>3. antUp.at = "in" /\ Item = "function" /\ InCall /\ antUp.given < AntPieces
    BY DEF ResArgs, ResAt, InCall
  <1>4. /\ antRes.open /\ antRes.type = "tool_use" /\ antRes.block[Out] = antRes.index
        /\ antRes.index \in Nat /\ antRes.index # NoBlock
        /\ o \in Tools /\ antSeen.call = o
        /\ antUp.sent[o] \in Nat /\ antSeen.pieces[o] \in Nat
        /\ antUp.given \in Nat /\ antRes.args \in Nat
        /\ antRes.started /\ ~antRes.stopped /\ antUp.end = "none" /\ Out > 0
        /\ antRes.had \in BOOLEAN /\ antRes.read \in BOOLEAN
    BY <1>3, ResCallFacts
  <1>5. antUp' = [antUp EXCEPT !.at = place, !.given = antUp.given + 1, !.sent = f]
    BY DEF ResArgs
  <1>6. antRes' = [antRes EXCEPT !.args = a, !.had = h] /\ antChat' = antChat
    <2>1. (antRes.had \/ (~keeps /\ antRes.type = "tool_use"
             /\ (reads => antRes.block[Out] # NoBlock))) = h
      BY <1>4
    <2> QED
      BY <1>4, <2>1 DEF ResArgs, ResTo
  <1>7. antSeen' = IF keeps THEN antSeen ELSE TakesArgs(antSeen, antRes.index, n)
    BY <1>4 DEF ResArgs, ResTo
  <1>8. f \in [Tools -> Nat] /\ place \in {"in", "whole"} /\ antUp.given + 1 \in 0 .. AntPieces + 1
    BY <1>1, <1>3, <1>4, AntAssumption DEF AntUps
  <1>9. f[o] = antUp.sent[o] + 1 /\ \A q \in Tools \ {o} : f[q] = antUp.sent[q]
    BY <1>1, <1>4 DEF AntUps
  <1>10. a \in Nat /\ h \in BOOLEAN /\ n \in Nat
    BY <1>4
  <1>11. antUp' \in AntUps
    <2> DEFINE g == antUp.given + 1
    <2> HIDE DEF f, place, g
    <2> QED
      BY <1>1, <1>5, <1>8 DEF AntUps, g
  <1>12. /\ antUp'.kind = "responses" /\ antUp'.at = place /\ antUp'.given = antUp.given + 1
         /\ antUp'.sent = f /\ antUp'.tools = antUp.tools /\ antUp'.end = antUp.end
         /\ antUp'.output = antUp.output
    <2> HIDE DEF f, place
    <2> QED
      BY <1>1, <1>5 DEF AntUps
  <1>13. Out' = Out /\ Item' = Item
    BY <1>12 DEF Out, Item
  <1>14. antRes' \in AntResStates
    <2> HIDE DEF a, h
    <2> QED
      BY <1>1, <1>6, <1>10 DEF AntResStates
  <1>15. /\ antRes'.args = a /\ antRes'.had = h /\ antRes'.started = antRes.started
         /\ antRes'.stopped = antRes.stopped /\ antRes'.index = antRes.index
         /\ antRes'.open = antRes.open /\ antRes'.type = antRes.type
         /\ antRes'.read = antRes.read /\ antRes'.tool = antRes.tool
         /\ antRes'.block = antRes.block
    <2> HIDE DEF a, h
    <2> QED
      BY <1>1, <1>6 DEF AntResStates
  <1> DEFINE d == TakesArgs(antSeen, antRes.index, n)
  <1>16. /\ d \in AntClients /\ AntFits(antRes, d) /\ d.pieces = [antSeen.pieces EXCEPT ![o] = @ + n]
         /\ d.call = antSeen.call /\ d.calls = antSeen.calls /\ d.blocks = antSeen.blocks
    <2> HIDE DEF n
    <2> QED
      BY <1>1, <1>2, <1>4, <1>10, AntArgsTaken
  <1>17. /\ antSeen' \in AntClients /\ AntFits(antRes, antSeen')
         /\ antSeen'.call = o /\ antSeen'.calls = antSeen.calls
         /\ antSeen'.blocks = antSeen.blocks
         /\ antSeen'.pieces = IF keeps THEN antSeen.pieces
                              ELSE [antSeen.pieces EXCEPT ![o] = @ + n]
    <2> HIDE DEF d, keeps
    <2>1. CASE keeps
      BY <1>1, <1>2, <1>4, <1>7, <2>1
    <2>2. CASE ~keeps
      <3>1. antSeen' = d
        BY <1>7, <2>2 DEF d
      <3> QED
        BY <1>4, <1>16, <2>2, <3>1
    <2> QED
      BY <2>1, <2>2
  <1>18. AntTyped'
    BY <1>1, <1>6, <1>11, <1>14, <1>17 DEF AntTyped
  <1>19. AntFits(antRes', antSeen')
    BY <1>15, <1>17 DEF AntFits
  <1>20. InCall' /\ ~InThought'
    BY <1>3, <1>8, <1>12, <1>13 DEF InCall, InThought
  <1>21. ResPlaces'
    BY <1>2, <1>3, <1>4, <1>8, <1>12, <1>13, <1>15 DEF ResPlaces
  <1>22. ResBlock'
    <2>1. antRes'.open /\ antRes'.type = "tool_use" /\ antRes'.block[Out'] = antRes'.index
      BY <1>4, <1>13, <1>15
    <2>2. antUp'.tools - 1 = o /\ antUp'.tools > 0 /\ antSeen'.call = o
      BY <1>1, <1>4, <1>12, <1>17, AntOutputFacts DEF Tools, AntInv
    <2>3. antUp'.at \in {"in", "whole"} /\ Item' = "function"
      BY <1>3, <1>8, <1>12, <1>13
    <2> HIDE DEF o
    <2> QED
      BY <1>20, <2>1, <2>2, <2>3 DEF ResBlock
  <1>23. ResCalls'
    BY <1>2, <1>12, <1>15, <1>17 DEF ResCalls, AntSeenTools
  <1>24. /\ \A q \in Tools \ {o} : antSeen'.pieces[q] = antSeen.pieces[q]
         /\ antSeen'.pieces[o] = IF keeps THEN antSeen.pieces[o] ELSE antSeen.pieces[o] + n
    <2> HIDE DEF n, keeps
    <2>1. antSeen.pieces \in [Tools -> Nat]
      BY <1>1 DEF AntClients
    <2> QED
      BY <1>4, <1>10, <1>17, <2>1
  <1>25. IF antRes.had
         THEN antSeen.pieces[o] = antUp.sent[o] /\ antUp.given > 0 /\ ~antRes.read
         ELSE /\ antUp.sent[o] = antSeen.pieces[o] + antUp.given
              /\ antRes.args = antUp.given /\ (antRes.read \/ antUp.given = 0)
    BY <1>2, <1>3 DEF ResKept
  <1>26. IF h THEN /\ antSeen'.pieces[o] = f[o]
                   /\ reads => last
         ELSE /\ f[o] = antSeen'.pieces[o] + antUp.given + 1
              /\ a = antUp.given + 1 /\ reads
    <2>1. CASE keeps
      BY <1>4, <1>9, <1>24, <1>25, <2>1
    <2>2. CASE ~keeps
      BY <1>4, <1>9, <1>24, <1>25, <2>2
    <2> QED
      BY <2>1, <2>2
  <1>27. ResKept'
    <2>1. antUp'.tools - 1 = o
      BY <1>12
    <2>2. antUp'.given > 0 /\ antUp'.at = place
      BY <1>4, <1>12
    <2>3. antRes'.read = reads /\ antRes'.had = h /\ antRes'.args = a
      BY <1>15
    <2>4. antUp'.sent[o] = f[o] /\ antUp'.given = antUp.given + 1
      BY <1>12
    <2>5. last => place = "whole"
      OBVIOUS
    <2>6. antSeen'.pieces[o] \in Nat
      BY <1>4, <1>10, <1>24
    <2> HIDE DEF h, f, a, place, o, reads
    <2>7. antUp'.sent[o] = antSeen'.pieces[o] + antUp'.given \/ h
      BY <1>4, <1>26, <2>4, <2>6
    <2> QED
      BY <1>26, <2>1, <2>2, <2>3, <2>4, <2>5, <2>7 DEF ResKept
  <1>28. ResPieces'
    <2> SUFFICES ASSUME NEW q \in Tools
                 PROVE  /\ antSeen'.pieces[q] <= antUp'.sent[q]
                        /\ q # o => antSeen'.pieces[q] = antUp'.sent[q]
      BY <1>12, <1>20 DEF ResPieces
    <2>1. CASE q = o
      <3>1. antSeen'.pieces[o] \in Nat /\ f[o] \in Nat /\ antUp'.sent = f
        BY <1>4, <1>9, <1>10, <1>12, <1>24
      <3>2. antSeen'.pieces[o] <= f[o]
        <4> HIDE DEF f, h, o, a
        <4> QED
          BY <1>4, <1>26, <3>1
      <3> QED
        BY <2>1, <3>1, <3>2
    <2>2. CASE q # o
      <3>1. antSeen.pieces[q] = antUp.sent[q] /\ antUp.sent[q] \in Nat
        BY <1>1, <1>2, <1>3, <2>2 DEF ResPieces, AntUps
      <3>2. antSeen'.pieces[q] = antSeen.pieces[q] /\ antUp'.sent[q] = antUp.sent[q]
        BY <1>9, <1>12, <1>24, <2>2
      <3> QED
        BY <2>2, <3>1, <3>2
    <2> QED
      BY <2>1, <2>2
  <1>29. SignatureKept' /\ ChatInv'
    BY <1>8, <1>12 DEF SignatureKept, ResAt, ChatInv
  <1>30. ReasonFits'
    BY <1>4, <1>15, <1>18, <1>19, ResRunning
  <1> HIDE DEF a, h, n, d, f
  <1> QED
    BY <1>18, <1>19, <1>21, <1>22, <1>23, <1>27, <1>28, <1>29, <1>30 DEF AntGoal, ResInv

LEMMA ResArgsDoneKeeps ==
  ASSUME AntInv, antUp.kind = "responses", NEW given \in 0 .. AntPieces, NEW whole \in BOOLEAN,
         ResArgsDone(given, whole)
  PROVE  AntGoal
  <1> DEFINE o == antUp.tools - 1
             n == IF whole THEN given ELSE antRes.args
             skips == n = 0 \/ antRes.had
             f == [antUp.sent EXCEPT ![o] = @ + given - antUp.given]
             e == TakesArgs(antSeen, antRes.index, n)
             d == IF skips THEN antSeen ELSE e
             p == ResClosed(antRes, d)
  <1>1. /\ antUp \in AntUps /\ antRes \in AntResStates /\ antSeen \in AntClients
        /\ antChat \in AntChatStates
    BY DEF AntInv, AntTyped
  <1>2. AntFits(antRes, antSeen) /\ ResPlaces /\ ResCalls /\ ResPieces /\ ResKept
    BY DEF AntInv, ResInv
  <1>3. antUp.at \in {"in", "whole"} /\ Item = "function" /\ InCall
    BY DEF ResArgsDone, ResAt, InCall
  <1>4. /\ antRes.open /\ antRes.type = "tool_use" /\ antRes.block[Out] = antRes.index
        /\ antRes.index \in Nat /\ antRes.index # NoBlock
        /\ o \in Tools /\ antSeen.call = o
        /\ antUp.sent[o] \in Nat /\ antSeen.pieces[o] \in Nat
        /\ antUp.given \in Nat /\ antRes.args \in Nat
        /\ antRes.started /\ ~antRes.stopped /\ antUp.end = "none" /\ Out > 0
        /\ antRes.had \in BOOLEAN /\ antRes.read \in BOOLEAN
    BY <1>3, ResCallFacts
  <1>5. given \in Nat /\ (given = antUp.given \/ (antUp.given = 0 /\ whole))
        /\ given \in 0 .. AntPieces + 1
    BY AntAssumption DEF ResArgsDone
  <1>6. antUp' = [antUp EXCEPT !.at = "done", !.given = given, !.sent = f]
    BY DEF ResArgsDone
  <1>7. antRes' = p.s /\ antSeen' = p.c /\ antChat' = antChat
    BY <1>4 DEF ResArgsDone, ResTo
  <1>8. n \in Nat
    BY <1>4, <1>5
  <1>9. antUp.sent[o] + given - antUp.given \in Nat
    BY <1>4, <1>5
  <1>10. /\ f \in [Tools -> Nat] /\ f[o] = antUp.sent[o] + given - antUp.given
         /\ \A q \in Tools \ {o} : f[q] = antUp.sent[q]
    BY <1>1, <1>4, <1>9 DEF AntUps
  <1>11. antUp' \in AntUps
    <2> HIDE DEF f
    <2> QED
      BY <1>1, <1>5, <1>6, <1>10 DEF AntUps
  <1>12. /\ antUp'.kind = "responses" /\ antUp'.at = "done" /\ antUp'.sent = f
         /\ antUp'.tools = antUp.tools /\ antUp'.end = antUp.end
         /\ antUp'.output = antUp.output
    <2> HIDE DEF f
    <2> QED
      BY <1>1, <1>6 DEF AntUps
  <1>13. Out' = Out /\ Item' = Item
    BY <1>12 DEF Out, Item
  <1>14. /\ e \in AntClients /\ AntFits(antRes, e)
         /\ e.pieces = [antSeen.pieces EXCEPT ![o] = @ + n]
         /\ e.calls = antSeen.calls /\ e.blocks = antSeen.blocks
    <2> HIDE DEF n
    <2> QED
      BY <1>1, <1>2, <1>4, <1>8, AntArgsTaken
  <1>15. /\ d \in AntClients /\ AntFits(antRes, d)
         /\ d.calls = antSeen.calls /\ d.blocks = antSeen.blocks
         /\ d.pieces = IF skips THEN antSeen.pieces ELSE [antSeen.pieces EXCEPT ![o] = @ + n]
    <2> HIDE DEF e, skips
    <2> QED
      BY <1>1, <1>2, <1>14
  <1>16. /\ p.s \in AntResStates /\ p.c \in AntClients /\ AntFits(p.s, p.c)
         /\ AntLeft(antRes, d, p) /\ p.c.pieces = d.pieces
    <2> HIDE DEF d
    <2> QED
      BY <1>1, <1>15, ResClosedFits
  <1> DEFINE g == d.pieces
  <1>17. /\ antRes' \in AntResStates /\ antSeen' \in AntClients /\ AntFits(antRes', antSeen')
         /\ antRes'.started = antRes.started /\ antRes'.stopped = antRes.stopped
         /\ ~antRes'.open /\ antRes'.tool = antRes.tool
         /\ antSeen'.calls = antSeen.calls /\ antSeen'.blocks = antSeen.blocks
         /\ antSeen'.pieces = g
    <2> HIDE DEF p, d
    <2> QED
      BY <1>7, <1>15, <1>16 DEF AntLeft
  <1>18. /\ \A q \in Tools \ {o} : g[q] = antSeen.pieces[q]
         /\ g[o] = IF skips THEN antSeen.pieces[o] ELSE antSeen.pieces[o] + n
    <2> HIDE DEF skips, n
    <2>1. antSeen.pieces \in [Tools -> Nat]
      BY <1>1 DEF AntClients
    <2> QED
      BY <1>4, <1>8, <1>15, <2>1
  <1>19. IF antRes.had
         THEN antSeen.pieces[o] = antUp.sent[o] /\ antUp.given > 0
         ELSE /\ antUp.sent[o] = antSeen.pieces[o] + antUp.given
              /\ antRes.args = antUp.given
    BY <1>2, <1>3 DEF ResKept
  <1>20. g[o] = f[o]
    <2> HIDE DEF f, d, o
    <2>1. CASE antRes.had
      BY <1>4, <1>5, <1>10, <1>18, <1>19, <2>1
    <2>2. CASE ~antRes.had
      BY <1>4, <1>5, <1>10, <1>18, <1>19, <2>2
    <2> QED
      BY <2>1, <2>2
  <1> HIDE DEF p, d, n, f, g, e
  <1>21. AntTyped'
    BY <1>1, <1>7, <1>11, <1>17 DEF AntTyped
  <1>22. ~InCall' /\ ~InThought'
    BY <1>12 DEF InCall, InThought
  <1>23. ResPlaces'
    BY <1>2, <1>3, <1>4, <1>12, <1>13, <1>17 DEF ResPlaces
  <1>24. ResBlock'
    BY <1>12, <1>17, <1>22 DEF ResBlock
  <1>25. ResCalls'
    BY <1>2, <1>12, <1>17 DEF ResCalls, AntSeenTools
  <1>26. ResPieces'
    <2> SUFFICES ASSUME NEW q \in Tools PROVE antSeen'.pieces[q] = antUp'.sent[q]
                                              /\ antUp'.sent[q] \in Nat
      BY DEF ResPieces
    <2>1. antUp'.sent[q] \in Nat
      BY <1>10, <1>12
    <2>2. CASE q = o
      BY <1>12, <1>17, <1>20, <2>1, <2>2
    <2>3. CASE q # o
      <3>1. antSeen.pieces[q] = antUp.sent[q]
        BY <1>2, <1>3, <2>3 DEF ResPieces
      <3> QED
        BY <1>10, <1>12, <1>17, <1>18, <2>1, <2>3, <3>1
    <2> QED
      BY <2>2, <2>3
  <1>27. ResKept' /\ SignatureKept' /\ ChatInv'
    BY <1>12, <1>22 DEF ResKept, SignatureKept, ResAt, ChatInv
  <1>28. ReasonFits'
    BY <1>4, <1>17, <1>21, ResRunning
  <1> QED
    BY <1>17, <1>21, <1>23, <1>24, <1>25, <1>26, <1>27, <1>28 DEF AntGoal, ResInv

LEMMA ResCompletedKeeps ==
  ASSUME AntInv, antUp.kind = "responses",
         NEW status \in {"completed", "max_output", "incomplete", "failed", "bare"},
         ResCompleted(status)
  PROVE  AntGoal
  <1> DEFINE reason == CASE status = "max_output" -> "max_tokens"
                         [] status = "completed" /\ antRes.tool -> "tool_use"
                         [] OTHER -> "end_turn"
             p == ResStopped(antRes, antSeen, reason)
  <1>1. /\ antUp \in AntUps /\ antRes \in AntResStates /\ antSeen \in AntClients
        /\ antChat \in AntChatStates
    BY DEF AntInv, AntTyped
  <1>2. AntFits(antRes, antSeen) /\ ResPlaces /\ ResCalls /\ ResPieces
    BY DEF AntInv, ResInv
  <1>3. antUp.at = "between" /\ antRes.started /\ ~antRes.stopped /\ ~InCall
    BY <1>2 DEF ResCompleted, ResAt, ResPlaces, InCall
  <1>4. /\ antUp' = [antUp EXCEPT !.at = "ended", !.end = status]
        /\ antRes' = p.s /\ antSeen' = p.c /\ antChat' = antChat
    BY <1>3 DEF ResCompleted, ResTo
  <1>5. /\ antUp'.kind = "responses" /\ antUp'.at = "ended" /\ antUp'.sent = antUp.sent
        /\ antUp'.tools = antUp.tools /\ antUp'.end = status
        /\ antUp'.output = antUp.output /\ antUp' \in AntUps
    BY <1>1, <1>4 DEF AntUps
  <1>6. Out' = Out /\ Item' = Item
    BY <1>5 DEF Out, Item
  <1>7. /\ reason \in {"end_turn", "max_tokens", "tool_use"}
        /\ status = "completed" => ((reason = "tool_use") = antRes.tool)
    BY <1>1 DEF AntResStates
  <1> HIDE DEF reason
  <1>8. /\ p.s \in AntResStates /\ p.c \in AntClients /\ AntFits(p.s, p.c)
        /\ p.s.stopped /\ p.s.started /\ ~p.s.open /\ p.s.tool = antRes.tool
        /\ p.c.pieces = antSeen.pieces /\ p.c.calls = antSeen.calls
        /\ p.c.blocks = antSeen.blocks /\ p.c.reason = reason
    BY <1>1, <1>2, <1>3, <1>7, ResStoppedFits
  <1> HIDE DEF p
  <1>9. AntTyped'
    BY <1>1, <1>4, <1>5, <1>8 DEF AntTyped
  <1>10. ~InCall' /\ ~InThought'
    BY <1>5 DEF InCall, InThought
  <1>11. ResPlaces'
    BY <1>2, <1>4, <1>5, <1>6, <1>8 DEF ResPlaces
  <1>12. ResBlock'
    BY <1>4, <1>5, <1>8, <1>10 DEF ResBlock
  <1>13. ResCalls'
    BY <1>2, <1>4, <1>5, <1>8 DEF ResCalls, AntSeenTools
  <1>14. ResPieces'
    BY <1>2, <1>3, <1>4, <1>5, <1>8 DEF ResPieces
  <1>15. ResKept' /\ SignatureKept' /\ ChatInv'
    BY <1>5, <1>10 DEF ResKept, SignatureKept, ResAt, ChatInv
  <1>16. ReasonFits'
    <2> SUFFICES ASSUME antUp'.end \in {"completed", "stop", "tool_calls"}
                 PROVE  (antSeen'.reason = "tool_use") = AntSeenTools(antSeen')
      BY DEF ReasonFits, AntSeenTools
    <2>1. status = "completed"
      BY <1>5
    <2>2. AntSeenTools(antSeen') = AntSeenTools(antSeen)
      BY <1>4, <1>8 DEF AntSeenTools
    <2>3. (reason = "tool_use") = antRes.tool /\ antRes.tool = AntSeenTools(antSeen)
      BY <1>2, <1>7, <2>1 DEF ResCalls
    <2>4. antSeen'.reason = reason
      BY <1>4, <1>8
    <2> QED
      BY <2>2, <2>3, <2>4
  <1>17. AntFits(antRes', antSeen')
    BY <1>4, <1>8
  <1> QED
    BY <1>9, <1>11, <1>12, <1>13, <1>14, <1>15, <1>16, <1>17 DEF AntGoal, ResInv

LEMMA ResFinalizeKeeps ==
  ASSUME AntInv, antUp.kind = "responses", ResFinalize
  PROVE  AntGoal
  <1> DEFINE idle == ~antRes.started \/ antRes.stopped
             reason == IF antRes.tool THEN "tool_use" ELSE "end_turn"
             p == ResStopped(antRes, antSeen, reason)
  <1>1. /\ antUp \in AntUps /\ antRes \in AntResStates /\ antSeen \in AntClients
        /\ antChat \in AntChatStates
    BY DEF AntInv, AntTyped
  <1>2. AntFits(antRes, antSeen) /\ ResPlaces /\ ResCalls /\ ResPieces /\ ReasonFits
    BY DEF AntInv, ResInv
  <1>3. /\ antUp' = [antUp EXCEPT !.at = "closed"] /\ antChat' = antChat
        /\ IF idle THEN antRes' = antRes /\ antSeen' = antSeen
           ELSE antRes' = p.s /\ antSeen' = p.c
    BY DEF ResFinalize, ResTo
  <1>4. /\ antUp'.kind = "responses" /\ antUp'.at = "closed" /\ antUp'.sent = antUp.sent
        /\ antUp'.tools = antUp.tools /\ antUp'.end = antUp.end
        /\ antUp'.output = antUp.output /\ antUp' \in AntUps
    BY <1>1, <1>3 DEF AntUps
  <1>5. Out' = Out /\ Item' = Item
    BY <1>4 DEF Out, Item
  <1>6. ~idle => /\ p.s \in AntResStates /\ p.c \in AntClients /\ AntFits(p.s, p.c)
                 /\ p.s.stopped /\ p.s.started /\ ~p.s.open /\ p.s.tool = antRes.tool
                 /\ p.c.pieces = antSeen.pieces /\ p.c.calls = antSeen.calls
                 /\ p.c.blocks = antSeen.blocks
    BY <1>1, <1>2, ResStoppedFits
  <1> HIDE DEF p
  <1>7. /\ antRes' \in AntResStates /\ antSeen' \in AntClients /\ AntFits(antRes', antSeen')
        /\ antRes'.started => antRes'.stopped
        /\ antRes'.tool = antRes.tool /\ antSeen'.pieces = antSeen.pieces
        /\ antSeen'.calls = antSeen.calls /\ antSeen'.blocks = antSeen.blocks
        /\ ~idle => antRes'.stopped
        /\ antRes.stopped => antRes'.stopped
    BY <1>1, <1>2, <1>3, <1>6
  <1>8. AntTyped'
    BY <1>1, <1>3, <1>4, <1>7 DEF AntTyped
  <1>9. ~InCall' /\ ~InThought'
    BY <1>4 DEF InCall, InThought
  <1>10. ResPlaces'
    <2>1. antRes'.stopped \/ antUp'.end = "none"
      BY <1>2, <1>4, <1>7 DEF ResPlaces
    <2> QED
      BY <1>2, <1>4, <1>5, <1>7, <2>1 DEF ResPlaces
  <1>11. ResBlock'
    BY <1>4, <1>9 DEF ResBlock
  <1>12. ResCalls'
    BY <1>2, <1>4, <1>7 DEF ResCalls, AntSeenTools
  <1>13. ResPieces'
    BY <1>2, <1>4, <1>7 DEF ResPieces
  <1>14. ResKept' /\ SignatureKept' /\ ChatInv'
    BY <1>4, <1>9 DEF ResKept, SignatureKept, ResAt, ChatInv
  <1>15. ReasonFits'
    <2>1. CASE idle
      <3>1. antSeen' = antSeen /\ antUp'.end = antUp.end
        BY <1>3, <1>4, <2>1
      <3> HIDE DEF idle
      <3> QED
        BY <1>2, <3>1 DEF ReasonFits
    <2>2. CASE ~idle
      <3>1. antUp'.end = "none"
        BY <1>2, <1>4, <2>2 DEF ResPlaces
      <3> QED
        BY <3>1 DEF ReasonFits
    <2> QED
      BY <2>1, <2>2
  <1> QED
    BY <1>4, <1>7, <1>8, <1>10, <1>11, <1>12, <1>13, <1>14, <1>15 DEF AntGoal, ResInv

LEMMA ResKeeps ==
  ASSUME AntInv, ResNext
  PROVE  AntInv'
  <1>1. antUp.kind = "responses"
    BY DEF ResNext, ResCreated, ResText, ResTextDone, ResReasoning, ResFinalize, ResAdded,
           ResArgs, ResArgsDone, ResItemDone, ResCompleted, ResAt
  <1>2. CASE ResCreated
    BY <1>1, <1>2, ResCreatedKeeps DEF AntGoal, AntInv
  <1>3. CASE ResText
    BY <1>1, <1>3, ResTextKeeps DEF AntGoal, AntInv
  <1>4. CASE ResTextDone
    BY <1>1, <1>4, ResTextDoneKeeps DEF AntGoal, AntInv
  <1>5. CASE ResReasoning
    <2>1. antUp' = antUp /\ antRes' = antRes /\ antChat' = antChat /\ antSeen' = antSeen
      BY <1>1, <1>5, ResReasoningKeeps
    <2>2. AntTyped' /\ ChatInv'
      BY <1>1, <2>1 DEF AntInv, AntTyped, ChatInv
    <2>3. ResInv'
      BY <1>1, <2>1 DEF AntInv, ResInv, ResPlaces, ResBlock, ResCalls, ResPieces, ResKept,
                        SignatureKept, ReasonFits, InCall, InThought, Out, Item, ResAt
    <2> QED
      BY <2>2, <2>3 DEF AntInv
  <1>6. CASE ResFinalize
    BY <1>1, <1>6, ResFinalizeKeeps DEF AntGoal, AntInv
  <1>7. CASE \E item \in AntItems, b \in BOOLEAN :
               IF item = "function" THEN ResAdded(item, FALSE, b) ELSE ResAdded(item, b, FALSE)
    <2>1. PICK item \in AntItems, signed \in BOOLEAN, read \in BOOLEAN :
                 ResAdded(item, signed, read)
      BY <1>7
    <2> QED
      BY <1>1, <2>1, ResAddedKeeps DEF AntGoal, AntInv
  <1>8. CASE \E last \in BOOLEAN : ResArgs(last)
    BY <1>1, <1>8, ResArgsKeeps DEF AntGoal, AntInv
  <1>9. CASE \E given \in 0 .. AntPieces, whole \in BOOLEAN : ResArgsDone(given, whole)
    BY <1>1, <1>9, ResArgsDoneKeeps DEF AntGoal, AntInv
  <1>10. CASE \E b, d \in BOOLEAN : Out > 0 /\ ResItemDone(b, d)
    BY <1>1, <1>10, ResItemDoneKeeps DEF AntGoal, AntInv
  <1>11. CASE \E st \in {"completed", "max_output", "incomplete", "failed", "bare"} :
                ResCompleted(st)
    BY <1>1, <1>11, ResCompletedKeeps DEF AntGoal, AntInv
  <1> QED
    BY <1>2, <1>3, <1>4, <1>5, <1>6, <1>7, <1>8, <1>9, <1>10, <1>11 DEF ResNext, AntItems

-----------------------------------------------------------------------------
(* From Chat Completions chunks                                            *)

\* The converter of chunks and its client agree, the calls held back included.
ChatPair(s, c) ==
  /\ s \in AntChatStates /\ c \in AntClients /\ AntFits(s, c)
  /\ s.announced \cap s.pending = {} /\ c.calls = s.announced
  /\ (s.announced # {}) = AntSeenTools(c)
  /\ s.open /\ s.type = "tool_use" /\ s.had => c.filled
  /\ ~c.empty
  /\ \A o \in Tools : o \notin s.pending => s.held[o] = 0

\* What the parts of a step leave as it was: a piece is held, or with the client.
ChatSame(s, c, t, d) ==
  /\ t.stopped = s.stopped /\ t.finish = s.finish /\ t.tool = s.tool
  /\ t.announced \cup t.pending = s.announced \cup s.pending
  /\ \A o \in Tools : d.pieces[o] + t.held[o] = c.pieces[o] + s.held[o]

ChatCalm(s, t) ==
  /\ t.announced = s.announced /\ t.pending = s.pending /\ t.block = s.block
  /\ t.held = s.held

LEMMA ChatStartedFits ==
  ASSUME NEW s, NEW c, ChatPair(s, c), ~s.stopped
  PROVE  LET p == ChatStarted(s, c) IN
         /\ ChatPair(p.s, p.c) /\ ChatSame(s, c, p.s, p.c) /\ p.s.started
         /\ ChatCalm(s, p.s) /\ p.c.call = c.call /\ p.c.blocks = c.blocks
         /\ p.s.open = s.open /\ p.s.type = s.type /\ p.s.index = s.index
  <1> DEFINE p == ChatStarted(s, c)
             r == [s EXCEPT !.started = TRUE]
             d == [c EXCEPT !.started = TRUE]
  <1>1. s \in AntChatStates /\ c \in AntClients /\ AntFits(s, c) /\ s.started \in BOOLEAN
    BY DEF ChatPair, AntChatStates
  <1>2. CASE s.started
    <2>1. p = [s |-> s, c |-> c]
      BY <1>2 DEF ChatStarted
    <2> QED
      BY <1>1, <1>2, <2>1 DEF ChatSame, ChatCalm
  <1>3. CASE ~s.started
    <2>1. p = [s |-> r, c |-> Starts(c)]
      BY <1>3 DEF ChatStarted
    <2>2. Starts(c) = d
      BY <1>1, <1>3, AntStartsFits DEF AntFits
    <2>3. r \in AntChatStates /\ d \in AntClients
      BY <1>1 DEF AntChatStates, AntClients
    <2>4. /\ r.started /\ r.stopped = s.stopped /\ r.index = s.index /\ r.open = s.open
          /\ r.type = s.type /\ r.had = s.had /\ r.tool = s.tool /\ r.finish = s.finish
          /\ ChatCalm(s, r)
      BY <1>1 DEF AntChatStates, ChatCalm
    <2>5. /\ d.started /\ d.stopped = c.stopped /\ d.open = c.open /\ d.blocks = c.blocks
          /\ d.call = c.call /\ d.calls = c.calls /\ d.pieces = c.pieces
          /\ d.filled = c.filled /\ d.empty = c.empty /\ d.astray = c.astray
      BY <1>1 DEF AntClients
    <2>6. p.s = r /\ p.c = d
      BY <2>1, <2>2
    <2> HIDE DEF p, r, d
    <2>7. ~r.open /\ AntFits(r, d)
      BY <1>1, <1>3, <2>4, <2>5 DEF AntFits
    <2>8. AntSeenTools(d) = AntSeenTools(c)
      BY <2>5 DEF AntSeenTools
    <2>9. ChatPair(r, d)
      BY <2>3, <2>4, <2>5, <2>7, <2>8 DEF ChatPair, ChatCalm
    <2>10. ChatSame(s, c, r, d)
      BY <2>4, <2>5 DEF ChatSame, ChatCalm
    <2> QED
      BY <2>4, <2>5, <2>6, <2>9, <2>10 DEF p
  <1> QED
    BY <1>1, <1>2, <1>3

LEMMA ChatClosedFits ==
  ASSUME NEW s, NEW c, ChatPair(s, c)
  PROVE  LET p == ChatClosed(s, c) IN
         /\ ChatPair(p.s, p.c) /\ ChatSame(s, c, p.s, p.c) /\ p.s.started = s.started
         /\ ChatCalm(s, p.s) /\ ~p.s.open /\ p.c.blocks = c.blocks
  <1> DEFINE p == ChatClosed(s, c)
             r == [s EXCEPT !.open = FALSE, !.index = s.index + 1, !.type = "none",
                            !.had = FALSE]
             tops == s.type = "tool_use" /\ ~s.had
             d == IF tops THEN TakesArgs(c, s.index, 0) ELSE c
  <1>1. s \in AntChatStates /\ c \in AntClients /\ AntFits(s, c) /\ s.open \in BOOLEAN
    BY DEF ChatPair, AntChatStates
  <1>2. CASE ~s.open
    <2>1. p = [s |-> s, c |-> c]
      BY <1>2 DEF ChatClosed
    <2> QED
      BY <1>1, <1>2, <2>1 DEF ChatSame, ChatCalm
  <1>3. CASE s.open
    <2>1. p = [s |-> r, c |-> Closes(d, s.index)]
      BY <1>3 DEF ChatClosed
    <2>2. s.index \in Nat /\ s.had \in BOOLEAN /\ s.type # "none"
      BY <1>1, <1>3 DEF AntChatStates, AntFits
    <2>3. /\ d \in AntClients /\ AntFits(s, d) /\ d.pieces = c.pieces /\ d.calls = c.calls
          /\ d.blocks = c.blocks /\ d.empty = c.empty
          /\ (s.type = "tool_use" => d.filled)
      <3>1. CASE tops
        <4> DEFINE e == TakesArgs(c, s.index, 0)
        <4>1. /\ e \in AntClients /\ AntFits(s, e) /\ e.filled
              /\ e.pieces = [c.pieces EXCEPT ![c.call] = @ + 0] /\ c.call \in Tools
              /\ e.calls = c.calls /\ e.blocks = c.blocks /\ e.empty = c.empty
          BY <1>1, <1>3, <3>1, AntArgsTaken
        <4>2. c.pieces \in [Tools -> Nat]
          BY <1>1 DEF AntClients
        <4> HIDE DEF e
        <4>3. e.pieces = c.pieces
          BY <4>1, <4>2
        <4>4. d = e
          BY <3>1 DEF e
        <4> QED
          BY <4>1, <4>3, <4>4
      <3>2. CASE ~tops
        BY <1>1, <1>3, <2>2, <3>2 DEF ChatPair
      <3> QED
        BY <3>1, <3>2
    <2> HIDE DEF d
    <2>4. ~Misplaced(d, s.index, d.open) /\ d.open # "none" /\ d.open = s.type
      <3>1. ~Misplaced(d, s.index, s.type)
        BY <1>1, <1>3, <2>3, AntFitsPlace
      <3> QED
        BY <1>3, <2>2, <2>3, <3>1 DEF AntFits
    <2> DEFINE e == d.empty \/ (d.open = "tool_use" /\ ~d.filled)
               g == [d EXCEPT !.open = "none", !.empty = e]
    <2>5. Closes(d, s.index) = g
      BY <2>2, <2>3, <2>4, AntClosesFits
    <2>6. e = FALSE
      <3>1. d.empty = FALSE
        BY <2>3 DEF ChatPair, AntClients
      <3> QED
        BY <2>3, <2>4, <3>1
    <2> HIDE DEF e
    <2>7. g \in AntClients
      BY <2>3, <2>6 DEF AntClients
    <2>8. r \in AntChatStates
      <3> DEFINE j == s.index + 1
      <3>1. j \in Nat
        BY <2>2
      <3> HIDE DEF j
      <3>2. [s EXCEPT !.open = FALSE, !.index = j, !.type = "none", !.had = FALSE]
              \in AntChatStates
        BY <1>1, <3>1 DEF AntChatStates
      <3> QED
        BY <3>2 DEF j
    <2>9. /\ r.started = s.started /\ r.stopped = s.stopped /\ r.tool = s.tool
          /\ r.finish = s.finish /\ ~r.open /\ r.index = s.index + 1 /\ ChatCalm(s, r)
      BY <1>1 DEF AntChatStates, ChatCalm
    <2>10. /\ g.started = d.started /\ g.stopped = d.stopped /\ g.open = "none"
           /\ g.blocks = d.blocks /\ g.calls = d.calls /\ g.pieces = d.pieces
           /\ ~g.empty /\ g.astray = d.astray
      BY <2>3, <2>6 DEF AntClients
    <2>11. p.s = r /\ p.c = g
      BY <2>1, <2>5
    <2> HIDE DEF p, r, g
    <2>12. AntFits(r, g)
      BY <1>3, <2>3, <2>9, <2>10 DEF AntFits
    <2>13. AntSeenTools(g) = AntSeenTools(c)
      BY <2>3, <2>10 DEF AntSeenTools
    <2>14. ChatPair(r, g)
      BY <2>3, <2>7, <2>8, <2>9, <2>10, <2>12, <2>13 DEF ChatPair, ChatCalm
    <2>15. ChatSame(s, c, r, g)
      BY <2>3, <2>9, <2>10 DEF ChatSame, ChatCalm
    <2>16. g.blocks = c.blocks
      BY <2>3, <2>10
    <2> QED
      BY <2>9, <2>11, <2>14, <2>15, <2>16 DEF p
  <1> QED
    BY <1>1, <1>2, <1>3

\* The block that is open is the one of call o.
ChatAtCall(s, c, o) ==
  s.open /\ s.type = "tool_use" /\ s.block[o] = s.index /\ c.call = o

LEMMA ChatAnnouncedFits ==
  ASSUME NEW s, NEW c, ChatPair(s, c), s.started, ~s.stopped, ~s.open,
         NEW o \in Tools, o \notin s.announced
  PROVE  LET p == ChatAnnounced([s |-> s, c |-> c], o) IN
         /\ ChatPair(p.s, p.c) /\ ChatAtCall(p.s, p.c, o)
         /\ p.s.started /\ p.s.stopped = s.stopped /\ p.s.finish = s.finish
         /\ p.s.tool = s.tool
         /\ p.s.announced = s.announced \cup {o} /\ p.s.pending = s.pending \ {o}
         /\ \A q \in Tools : p.c.pieces[q] + p.s.held[q] = c.pieces[q] + s.held[q]
  <1> DEFINE p == ChatAnnounced([s |-> s, c |-> c], o)
             i == s.index
             n == s.held[o]
             b == [s.block EXCEPT ![o] = i]
             h == [s.held EXCEPT ![o] = 0]
             an == s.announced \cup {o}
             pe == s.pending \ {o}
             had == n > 0
             d == OpensCall(c, i, o)
             g == IF n > 0 THEN TakesArgs(d, i, n) ELSE d
             r == [s EXCEPT !.block = b, !.announced = an, !.pending = pe, !.had = had,
                            !.held = h, !.open = TRUE, !.type = "tool_use"]
  <1>1. /\ s \in AntChatStates /\ c \in AntClients /\ AntFits(s, c)
        /\ c.calls = s.announced
    BY DEF ChatPair
  <1>2. p = [s |-> r, c |-> g]
    BY DEF ChatAnnounced
  <1>3. /\ i \in Nat /\ s.block \in [Tools -> Nat \cup {NoBlock}] /\ s.held \in [Tools -> Nat]
        /\ s.announced \subseteq Tools /\ s.pending \subseteq Tools
    BY <1>1 DEF AntChatStates
  <1>4. /\ n \in Nat /\ b \in [Tools -> Nat \cup {NoBlock}] /\ h \in [Tools -> Nat]
        /\ an \in SUBSET Tools /\ pe \in SUBSET Tools /\ b[o] = i /\ h[o] = 0
        /\ \A q \in Tools \ {o} : h[q] = s.held[q]
        /\ had \in BOOLEAN
    BY <1>3
  <1>5. c.started /\ ~c.stopped /\ ~c.astray /\ c.open = "none" /\ i = Len(c.blocks)
    BY <1>1 DEF AntFits
  <1>6. /\ d \in AntClients /\ AntOpened(c, d, "tool_use")
        /\ d.calls = c.calls \cup {o} /\ d.call = o
    BY <1>1, <1>3, <1>5, AntOpensCallFits
  <1>7. r \in AntChatStates
    <2> HIDE DEF b, h, an, pe, had
    <2> QED
      BY <1>1, <1>4 DEF AntChatStates, AntKinds
  <1>8. /\ r.started = s.started /\ r.stopped = s.stopped /\ r.finish = s.finish
        /\ r.tool = s.tool /\ r.open /\ r.type = "tool_use" /\ r.index = i
        /\ r.block = b /\ r.held = h /\ r.announced = an /\ r.pending = pe
        /\ r.had = had
    <2> HIDE DEF b, h, an, pe, had
    <2> QED
      BY <1>1 DEF AntChatStates
  <1> HIDE DEF d, r, i, b, h, n
  <1>9. AntFits(r, d)
    <2>1. Len(d.blocks) = i + 1
      <3>1. c.blocks \in Seq(AntKinds) /\ d.blocks = Append(c.blocks, "tool_use")
            /\ "tool_use" \in AntKinds
        BY <1>1, <1>6 DEF AntClients, AntOpened, AntKinds
      <3>2. Len(Append(c.blocks, "tool_use")) = Len(c.blocks) + 1
        BY <3>1, AppendProperties
      <3> QED
        BY <1>5, <3>1, <3>2
    <2> QED
      BY <1>1, <1>6, <1>8, <2>1 DEF AntFits, AntOpened
  <1>10. /\ g \in AntClients /\ AntFits(r, g) /\ g.call = o /\ g.calls = d.calls
         /\ g.blocks = d.blocks /\ g.empty = d.empty /\ (had => g.filled)
         /\ g.pieces \in [Tools -> Nat] /\ g.pieces[o] = c.pieces[o] + n
         /\ \A q \in Tools \ {o} : g.pieces[q] = c.pieces[q]
    <2>1. d.pieces = c.pieces /\ c.pieces \in [Tools -> Nat]
      BY <1>1, <1>6 DEF AntOpened, AntClients
    <2>2. CASE n > 0
      <3> DEFINE e == TakesArgs(d, r.index, n)
      <3>1. /\ e \in AntClients /\ AntFits(r, e) /\ e.filled
            /\ e.pieces = [d.pieces EXCEPT ![d.call] = @ + n]
            /\ e.call = d.call /\ e.calls = d.calls /\ e.blocks = d.blocks
            /\ e.empty = d.empty
        BY <1>4, <1>6, <1>7, <1>8, <1>9, AntArgsTaken
      <3>2. g = e
        BY <1>8, <2>2
      <3> HIDE DEF e, g
      <3>3. e.pieces \in [Tools -> Nat] /\ e.pieces[o] = c.pieces[o] + n
            /\ \A q \in Tools \ {o} : e.pieces[q] = c.pieces[q]
        BY <1>4, <1>6, <2>1, <3>1
      <3> QED
        BY <1>6, <3>1, <3>2, <3>3
    <2>3. CASE ~(n > 0)
      <3>1. g = d /\ n = 0
        BY <1>4, <2>3
      <3> HIDE DEF g
      <3> QED
        BY <1>4, <1>6, <1>9, <2>1, <2>3, <3>1
    <2> QED
      BY <2>2, <2>3
  <1> HIDE DEF g, had
  <1>11. AntSeenTools(g)
    <2>1. AntSeenTools(d) = (AntSeenTools(c) \/ "tool_use" = "tool_use")
      <3>1. d.blocks = Append(c.blocks, "tool_use") /\ "tool_use" \in AntKinds
        BY <1>6 DEF AntOpened, AntKinds
      <3> QED
        BY <1>1, <3>1, AntToolsAppend
    <2> QED
      BY <1>10, <2>1 DEF AntSeenTools
  <1>12. ChatPair(r, g)
    <2>1. an \cap pe = {}
      BY DEF ChatPair
    <2>2. ~g.empty
      BY <1>6, <1>10 DEF ChatPair, AntOpened
    <2>3. \A q \in Tools : q \notin pe => h[q] = 0
      BY <1>4 DEF ChatPair
    <2>4. g.calls = an
      BY <1>1, <1>6, <1>10
    <2>5. (an # {}) = AntSeenTools(g)
      <3>1. an # {}
        OBVIOUS
      <3> HIDE DEF an
      <3> QED
        BY <1>11, <3>1 DEF AntSeenTools
    <2> HIDE DEF an, pe
    <2> QED
      BY <1>7, <1>8, <1>10, <2>1, <2>2, <2>3, <2>4, <2>5 DEF ChatPair
  <1>13. \A q \in Tools : g.pieces[q] + r.held[q] = c.pieces[q] + s.held[q]
    <2> SUFFICES ASSUME NEW q \in Tools
                 PROVE  g.pieces[q] + h[q] = c.pieces[q] + s.held[q]
      BY <1>8
    <2>1. c.pieces[q] \in Nat
      BY <1>1 DEF AntClients
    <2>2. CASE q = o
      BY <1>4, <1>10, <2>1, <2>2 DEF n
    <2>3. CASE q # o
      BY <1>4, <1>10, <2>3
    <2> QED
      BY <2>2, <2>3
  <1>14. ChatAtCall(r, g, o)
    BY <1>4, <1>8, <1>10 DEF ChatAtCall
  <1>15. p.s = r /\ p.c = g
    BY <1>2
  <1> HIDE DEF p
  <1> QED
    BY <1>8, <1>12, <1>13, <1>14, <1>15 DEF p

LEMMA ChatWritesFits ==
  ASSUME NEW s, NEW c, ChatPair(s, c), s.started, ~s.stopped, NEW t \in {"thinking", "text"}
  PROVE  LET p == ChatWrites([s |-> s, c |-> c], t) IN
         ChatPair(p.s, p.c) /\ ChatSame(s, c, p.s, p.c) /\ ChatCalm(s, p.s)
  <1> DEFINE p == ChatWrites([s |-> s, c |-> c], t)
             q == ChatClosed(s, c)
             u == q.s
             d == q.c
             r == [u EXCEPT !.open = TRUE, !.type = t]
             g == Opens(d, u.index, t)
  <1>1. /\ s \in AntChatStates /\ c \in AntClients /\ AntFits(s, c) /\ s.open \in BOOLEAN
        /\ s.index \in Nat
    BY DEF ChatPair, AntChatStates
  <1>2. CASE s.open /\ s.type = t
    <2>1. p = [s |-> s, c |-> Takes(c, s.index, t)]
      BY <1>2 DEF ChatWrites
    <2>2. ~Misplaced(c, s.index, t)
      BY <1>1, <1>2, AntFitsPlace
    <2>3. Takes(c, s.index, t) = c
      BY <1>1, <2>2, AntTakesStays
    <2>4. p.s = s /\ p.c = c
      BY <2>1, <2>3
    <2> HIDE DEF p
    <2> QED
      BY <2>4 DEF p, ChatSame, ChatCalm
  <1>3. CASE ~(s.open /\ s.type = t)
    <2>1. p = [s |-> r, c |-> Takes(g, r.index, t)]
      BY <1>3 DEF ChatWrites
    <2>2. /\ ChatPair(u, d) /\ ChatSame(s, c, u, d) /\ u.started = s.started
          /\ ChatCalm(s, u) /\ ~u.open
      BY ChatClosedFits
    <2> HIDE DEF u, d
    <2>3. u \in AntChatStates /\ d \in AntClients /\ AntFits(u, d) /\ u.index \in Nat
      BY <2>2 DEF ChatPair, AntChatStates
    <2>4. /\ d.started /\ ~d.stopped /\ ~d.astray /\ d.open = "none" /\ u.index = Len(d.blocks)
          /\ t \in AntKinds /\ t # "tool_use" /\ t # "none"
      BY <2>2, <2>3 DEF AntFits, ChatSame, AntKinds
    <2>5. /\ g \in AntClients /\ AntOpened(d, g, t) /\ g.calls = d.calls
      BY <2>3, <2>4, AntOpensFit
    <2>6. r \in AntChatStates
      BY <2>3, <2>4 DEF AntChatStates
    <2>7. /\ r.started = u.started /\ r.stopped = u.stopped /\ r.finish = u.finish
          /\ r.tool = u.tool /\ r.open /\ r.type = t /\ r.index = u.index /\ ChatCalm(u, r)
      BY <2>3 DEF AntChatStates, ChatCalm
    <2> HIDE DEF r, g
    <2>8. AntFits(r, g)
      <3>1. d.blocks \in Seq(AntKinds)
        BY <2>3 DEF AntClients
      <3>2. Len(Append(d.blocks, t)) = Len(d.blocks) + 1
        BY <2>4, <3>1, AppendProperties
      <3> QED
        BY <2>2, <2>3, <2>4, <2>5, <2>7, <3>2 DEF AntFits, AntOpened, ChatSame
    <2>9. AntSeenTools(g) = AntSeenTools(d)
      <3>1. g.blocks = Append(d.blocks, t)
        BY <2>5 DEF AntOpened
      <3>2. AntSeenTools(g) = (AntSeenTools(d) \/ t = "tool_use")
        BY <2>3, <2>4, <3>1, AntToolsAppend
      <3> QED
        BY <2>4, <3>2 DEF AntSeenTools
    <2>10. ChatPair(r, g)
      BY <2>2, <2>4, <2>5, <2>6, <2>7, <2>8, <2>9 DEF ChatPair, ChatCalm, AntOpened
    <2>11. Takes(g, r.index, t) = g
      <3>1. ~Misplaced(g, r.index, t)
        BY <2>5, <2>6, <2>7, <2>8, AntFitsPlace
      <3> QED
        BY <2>3, <2>5, <2>7, <3>1, AntTakesStays
    <2>12. ChatSame(s, c, r, g) /\ ChatCalm(s, r)
      BY <2>2, <2>5, <2>7 DEF ChatSame, ChatCalm, AntOpened
    <2>13. p.s = r /\ p.c = g
      BY <2>1, <2>11
    <2> HIDE DEF p
    <2> QED
      BY <2>10, <2>12, <2>13 DEF p
  <1> QED
    BY <1>2, <1>3

LEMMA AntChatPair ==
  ASSUME AntInv, antUp.kind = "chat"
  PROVE  /\ ChatPair(antChat, antSeen) /\ antUp \in AntUps /\ antRes \in AntResStates
         /\ ChatPlaces /\ ChatCalls /\ ChatBlock /\ ChatPieces /\ ReasonFits
  <1>1. /\ antUp \in AntUps /\ antRes \in AntResStates /\ antChat \in AntChatStates
        /\ antSeen \in AntClients
    BY DEF AntInv, AntTyped
  <1>2. /\ AntFits(antChat, antSeen) /\ ChatPlaces /\ ChatCalls /\ ChatBlock /\ ChatPieces
        /\ ReasonFits
    BY DEF AntInv, ChatInv
  <1>3. ChatPair(antChat, antSeen)
    BY <1>1, <1>2 DEF ChatPair, ChatCalls, ChatBlock, ChatPieces
  <1> QED
    BY <1>1, <1>2, <1>3

LEMMA ChatBuilds ==
  ASSUME AntInv, antUp.kind = "chat", antUp'.kind = "chat", antUp' \in AntUps,
         antRes' = antRes, ChatPair(antChat', antSeen'), ChatPlaces', ReasonFits',
         antChat'.announced \cup antChat'.pending = 0 .. antUp'.tools - 1,
         antChat'.stopped => antChat'.pending = {},
         antUp'.at = "tool" =>
           /\ antUp'.tools > 0
           /\ antUp'.tools - 1 \in antChat'.announced
                => ChatAtCall(antChat', antSeen', antUp'.tools - 1),
         \A o \in Tools : antUp'.sent[o] = antSeen'.pieces[o] + antChat'.held[o]
  PROVE  AntGoal
  <1>1. AntTyped'
    BY DEF AntInv, AntTyped, ChatPair
  <1>2. AntFits(antChat', antSeen') /\ ChatCalls'
    BY DEF ChatPair, ChatCalls
  <1>3. ChatBlock'
    BY DEF ChatPair, ChatBlock, ChatAtCall
  <1>4. ChatPieces'
    BY DEF ChatPair, ChatPieces
  <1> QED
    BY <1>1, <1>2, <1>3, <1>4 DEF AntGoal, ResInv, ChatInv

\* A chat that is not over has no reason for its end yet.
LEMMA ChatRunning ==
  ASSUME ChatPair(antChat', antSeen'), ~antChat'.stopped
  PROVE  ReasonFits'
  <1>1. ~antSeen'.stopped
    BY DEF ChatPair, AntFits, AntChatStates, AntClients
  <1> QED
    BY <1>1 DEF ReasonFits

LEMMA ChatTextKeeps ==
  ASSUME AntInv, antUp.kind = "chat", NEW t \in {"thinking", "text"}, ChatText(t)
  PROVE  AntGoal
  <1> DEFINE p == ChatStarted(antChat, antSeen)
             s == p.s
             c == p.c
             q == ChatWrites([s |-> s, c |-> c], t)
  <1>1. /\ ChatPair(antChat, antSeen) /\ antUp \in AntUps /\ ChatPlaces /\ ChatCalls
        /\ ChatPieces
    BY AntChatPair
  <1>2. antUp.at \in {"new", "text", "tool"} /\ ~antChat.stopped
    BY <1>1 DEF ChatText, ChatOpen, ChatPlaces
  <1>3. p = [s |-> s, c |-> c]
    BY DEF ChatStarted
  <1>4. /\ antUp' = [antUp EXCEPT !.at = "text"] /\ antChat' = q.s /\ antSeen' = q.c
        /\ antRes' = antRes
    BY <1>3 DEF ChatText, ChatTo
  <1>5. /\ ChatPair(s, c) /\ ChatSame(antChat, antSeen, s, c) /\ s.started
        /\ ChatCalm(antChat, s)
    BY <1>1, <1>2, ChatStartedFits
  <1> HIDE DEF s, c
  <1>6. ChatPair(q.s, q.c) /\ ChatSame(s, c, q.s, q.c) /\ ChatCalm(s, q.s)
    BY <1>2, <1>5, ChatWritesFits DEF ChatSame
  <1> HIDE DEF q
  <1>7. /\ antUp' \in AntUps /\ antUp'.kind = "chat" /\ antUp'.at = "text"
        /\ antUp'.sent = antUp.sent /\ antUp'.tools = antUp.tools /\ antUp'.end = antUp.end
    BY <1>1, <1>4 DEF AntUps
  <1>8. /\ antChat'.stopped = antChat.stopped /\ antChat'.finish = antChat.finish
        /\ antChat'.tool = antChat.tool
        /\ antChat'.announced = antChat.announced /\ antChat'.pending = antChat.pending
        /\ \A o \in Tools : antSeen'.pieces[o] + antChat'.held[o]
                              = antSeen.pieces[o] + antChat.held[o]
    BY <1>4, <1>5, <1>6 DEF ChatSame, ChatCalm
  <1>9. ChatPlaces'
    BY <1>1, <1>2, <1>7, <1>8 DEF ChatPlaces
  <1>10. ChatPair(antChat', antSeen')
    BY <1>4, <1>6
  <1>11. ReasonFits'
    BY <1>2, <1>8, <1>10, ChatRunning
  <1>12. antChat'.announced \cup antChat'.pending = 0 .. antUp'.tools - 1
    BY <1>1, <1>7, <1>8 DEF ChatCalls
  <1>13. \A o \in Tools : antUp'.sent[o] = antSeen'.pieces[o] + antChat'.held[o]
    BY <1>1, <1>7, <1>8 DEF ChatPieces
  <1>14. ~antChat'.stopped
    BY <1>2, <1>8
  <1> QED
    BY <1>4, <1>7, <1>9, <1>10, <1>11, <1>12, <1>13, <1>14, ChatBuilds

LEMMA ChatFinishKeeps ==
  ASSUME AntInv, antUp.kind = "chat", NEW reason \in {"stop", "length", "tool_calls"},
         ChatFinish(reason)
  PROVE  AntGoal
  <1> DEFINE p == ChatStarted(antChat, antSeen)
             s == p.s
             c == p.c
             r == [s EXCEPT !.finish = reason]
  <1>1. /\ ChatPair(antChat, antSeen) /\ antUp \in AntUps /\ ChatPlaces /\ ChatCalls
        /\ ChatPieces
    BY AntChatPair
  <1>2. antUp.at \in {"new", "text", "tool"} /\ ~antChat.stopped
    BY <1>1 DEF ChatFinish, ChatOpen, ChatPlaces
  <1>3. p = [s |-> s, c |-> c]
    BY DEF ChatStarted
  <1>4. /\ antUp' = [antUp EXCEPT !.at = "ended", !.end = reason] /\ antChat' = r
        /\ antSeen' = c /\ antRes' = antRes /\ (reason = "tool_calls" => antUp.tools > 0)
    BY <1>3 DEF ChatFinish, ChatTo
  <1>5. /\ ChatPair(s, c) /\ ChatSame(antChat, antSeen, s, c) /\ s.started
        /\ ChatCalm(antChat, s)
    BY <1>1, <1>2, ChatStartedFits
  <1> HIDE DEF s, c
  <1>6. s \in AntChatStates
    BY <1>5 DEF ChatPair
  <1>7. /\ r \in AntChatStates /\ r.finish = reason /\ r.started = s.started
        /\ r.stopped = s.stopped /\ r.open = s.open /\ r.type = s.type /\ r.index = s.index
        /\ r.had = s.had /\ r.tool = s.tool /\ ChatCalm(s, r)
    BY <1>6 DEF AntChatStates, ChatCalm
  <1> HIDE DEF r
  <1>8. ChatPair(r, c)
    <2>1. AntFits(r, c)
      BY <1>5, <1>7 DEF ChatPair, AntFits
    <2> QED
      BY <1>5, <1>7, <2>1 DEF ChatPair, ChatCalm
  <1>9. /\ antUp' \in AntUps /\ antUp'.kind = "chat" /\ antUp'.at = "ended"
        /\ antUp'.sent = antUp.sent /\ antUp'.tools = antUp.tools /\ antUp'.end = reason
    BY <1>1, <1>4 DEF AntUps
  <1>10. /\ antChat'.stopped = antChat.stopped /\ antChat'.finish = reason
         /\ antChat'.tool = antChat.tool
         /\ antChat'.announced = antChat.announced /\ antChat'.pending = antChat.pending
         /\ \A o \in Tools : antSeen'.pieces[o] + antChat'.held[o]
                               = antSeen.pieces[o] + antChat.held[o]
    BY <1>4, <1>5, <1>7 DEF ChatSame, ChatCalm
  <1>11. ChatPlaces'
    BY <1>1, <1>2, <1>4, <1>9, <1>10 DEF ChatPlaces
  <1>12. ChatPair(antChat', antSeen')
    BY <1>4, <1>8
  <1>13. ReasonFits'
    BY <1>2, <1>10, <1>12, ChatRunning
  <1>14. antChat'.announced \cup antChat'.pending = 0 .. antUp'.tools - 1
    BY <1>1, <1>9, <1>10 DEF ChatCalls
  <1>15. \A o \in Tools : antUp'.sent[o] = antSeen'.pieces[o] + antChat'.held[o]
    BY <1>1, <1>9, <1>10 DEF ChatPieces
  <1>16. ~antChat'.stopped
    BY <1>2, <1>10
  <1> QED
    BY <1>4, <1>9, <1>11, <1>12, <1>13, <1>14, <1>15, <1>16, ChatBuilds

\* A set of tool calls that is not empty has a lowest one.
LEMMA AntLowest ==
  ASSUME NEW S \in SUBSET Tools, S # {}
  PROVE  (CHOOSE k \in S : \A j \in S : k <= j) \in S
  <1>1. IsWellFoundedOn(OpToRel(<, Nat), Nat)
    BY NatLessThanWellFounded
  <1>2. S \subseteq Nat
    BY AntAssumption DEF Tools
  <1>3. PICK x \in S : \A y \in S : ~(<<y, x>> \in OpToRel(<, Nat))
    BY <1>1, <1>2, WFMin
  <1>4. \A y \in S : <<y, x>> \in OpToRel(<, Nat) \/ x <= y
    BY <1>2 DEF OpToRel
  <1> QED
    BY <1>3, <1>4

LEMMA ChatFinalizeToolKeeps ==
  ASSUME AntInv, antUp.kind = "chat", ChatFinalizeTool
  PROVE  AntGoal
  <1> DEFINE p == ChatStarted(antChat, antSeen)
             q == ChatClosed(p.s, p.c)
             s == q.s
             c == q.c
             o == CHOOSE k \in antChat.pending : \A j \in antChat.pending : k <= j
             r == ChatAnnounced([s |-> s, c |-> c], o)
  <1>1. /\ ChatPair(antChat, antSeen) /\ antUp \in AntUps /\ ChatPlaces /\ ChatCalls
        /\ ChatPieces
    BY AntChatPair
  <1>2. antUp.at # "closed" /\ antChat.pending # {} /\ ~antChat.stopped
    BY <1>1 DEF ChatFinalizeTool, ChatPlaces
  <1>3. q = [s |-> s, c |-> c]
    BY DEF ChatClosed
  <1>4. /\ antUp' = [antUp EXCEPT !.at = "closing"] /\ antRes' = antRes
        /\ antChat' = r.s /\ antSeen' = r.c
    BY <1>3 DEF ChatFinalizeTool, ChatTo
  <1>5. /\ ChatPair(p.s, p.c) /\ ChatSame(antChat, antSeen, p.s, p.c) /\ p.s.started
        /\ ChatCalm(antChat, p.s)
    BY <1>1, <1>2, ChatStartedFits
  <1>6. antChat.pending \subseteq Tools /\ antChat.pending \in SUBSET Tools
    BY <1>1 DEF ChatPair, AntChatStates
  <1>7. o \in antChat.pending
    BY <1>2, <1>6, AntLowest
  <1> HIDE DEF p, o
  <1>8. /\ ChatPair(s, c) /\ ChatSame(p.s, p.c, s, c) /\ s.started = p.s.started
        /\ ChatCalm(p.s, s) /\ ~s.open
    BY <1>5, ChatClosedFits
  <1> HIDE DEF q, s, c
  <1>9. /\ s.started /\ ~s.stopped /\ o \in Tools /\ o \notin s.announced
        /\ s.announced = antChat.announced /\ s.pending = antChat.pending
        /\ s.finish = antChat.finish /\ s.tool = antChat.tool /\ s.stopped = antChat.stopped
        /\ \A k \in Tools : c.pieces[k] + s.held[k] = antSeen.pieces[k] + antChat.held[k]
    BY <1>1, <1>2, <1>5, <1>6, <1>7, <1>8 DEF ChatSame, ChatCalm, ChatPair
  <1>10. /\ ChatPair(r.s, r.c) /\ r.s.stopped = s.stopped /\ r.s.finish = s.finish
         /\ r.s.tool = s.tool
         /\ r.s.announced = s.announced \cup {o} /\ r.s.pending = s.pending \ {o}
         /\ \A k \in Tools : r.c.pieces[k] + r.s.held[k] = c.pieces[k] + s.held[k]
    BY <1>8, <1>9, ChatAnnouncedFits
  <1> HIDE DEF r
  <1>11. /\ antUp' \in AntUps /\ antUp'.kind = "chat" /\ antUp'.at = "closing"
         /\ antUp'.sent = antUp.sent /\ antUp'.tools = antUp.tools /\ antUp'.end = antUp.end
    BY <1>1, <1>4 DEF AntUps
  <1>12. /\ antChat'.stopped = antChat.stopped /\ antChat'.finish = antChat.finish
         /\ antChat'.tool = antChat.tool
         /\ antChat'.announced \cup antChat'.pending = antChat.announced \cup antChat.pending
         /\ \A k \in Tools : antSeen'.pieces[k] + antChat'.held[k]
                               = antSeen.pieces[k] + antChat.held[k]
    <2>1. antChat'.announced \cup antChat'.pending = antChat.announced \cup antChat.pending
      BY <1>4, <1>7, <1>9, <1>10
    <2> QED
      BY <1>4, <1>9, <1>10, <2>1
  <1>13. ChatPlaces'
    BY <1>1, <1>2, <1>11, <1>12 DEF ChatPlaces
  <1>14. ChatPair(antChat', antSeen')
    BY <1>4, <1>10
  <1>15. ReasonFits'
    BY <1>2, <1>12, <1>14, ChatRunning
  <1>16. antChat'.announced \cup antChat'.pending = 0 .. antUp'.tools - 1
    BY <1>1, <1>11, <1>12 DEF ChatCalls
  <1>17. \A k \in Tools : antUp'.sent[k] = antSeen'.pieces[k] + antChat'.held[k]
    BY <1>1, <1>11, <1>12 DEF ChatPieces
  <1>18. ~antChat'.stopped
    BY <1>2, <1>12
  <1> QED
    BY <1>4, <1>11, <1>13, <1>14, <1>15, <1>16, <1>17, <1>18, ChatBuilds

LEMMA ChatFinalizeKeeps ==
  ASSUME AntInv, antUp.kind = "chat", ChatFinalize
  PROVE  AntGoal
  <1> DEFINE p == ChatStarted(antChat, antSeen)
             q == ChatClosed(p.s, p.c)
             s == q.s
             c == q.c
             f == antChat.finish
             reason == CASE f = "length" -> "max_tokens"
                         [] f = "tool_calls" \/ s.tool -> "tool_use"
                         [] OTHER -> "end_turn"
             r == [s EXCEPT !.stopped = TRUE]
             g == [c EXCEPT !.stopped = TRUE, !.reason = reason]
  <1>1. /\ ChatPair(antChat, antSeen) /\ antUp \in AntUps /\ ChatPlaces /\ ChatCalls
        /\ ChatPieces
    BY AntChatPair
  <1>2. antUp.at # "closed" /\ antChat.pending = {} /\ ~antChat.stopped
    BY <1>1 DEF ChatFinalize, ChatPlaces
  <1>3. /\ antUp' = [antUp EXCEPT !.at = "closed"] /\ antRes' = antRes
        /\ antChat' = r /\ antSeen' = Ends(c, reason)
    BY DEF ChatFinalize, ChatTo
  <1>4. /\ ChatPair(p.s, p.c) /\ ChatSame(antChat, antSeen, p.s, p.c) /\ p.s.started
        /\ ChatCalm(antChat, p.s)
    BY <1>1, <1>2, ChatStartedFits
  <1> HIDE DEF p
  <1>5. /\ ChatPair(s, c) /\ ChatSame(p.s, p.c, s, c) /\ s.started = p.s.started
        /\ ChatCalm(p.s, s) /\ ~s.open
    BY <1>4, ChatClosedFits
  <1>6. reason \in {"end_turn", "max_tokens", "tool_use"}
    OBVIOUS
  <1>7. f \in {"stop", "tool_calls"} => ((reason = "tool_use") = (f = "tool_calls" \/ s.tool))
    OBVIOUS
  <1> HIDE DEF q, s, c, reason
  <1>8. /\ s.started /\ ~s.stopped
        /\ s.announced = antChat.announced /\ s.pending = {}
        /\ s.finish = f /\ s.tool = antChat.tool
        /\ \A k \in Tools : c.pieces[k] + s.held[k] = antSeen.pieces[k] + antChat.held[k]
    BY <1>2, <1>4, <1>5 DEF ChatSame, ChatCalm
  <1>9. s \in AntChatStates /\ c \in AntClients /\ AntFits(s, c)
    BY <1>5 DEF ChatPair
  <1>10. Ends(c, reason) = g
    <2>1. c.started /\ ~c.stopped /\ ~c.astray /\ c.open = "none"
      BY <1>5, <1>8, <1>9 DEF AntFits
    <2> QED
      BY <1>6, <1>9, <2>1, AntEndsFits
  <1>11. /\ r \in AntChatStates /\ r.stopped /\ r.started = s.started /\ r.open = s.open
         /\ r.type = s.type /\ r.index = s.index /\ r.had = s.had /\ r.tool = s.tool
         /\ r.finish = s.finish /\ ChatCalm(s, r)
    BY <1>9 DEF AntChatStates, ChatCalm
  <1>12. /\ g \in AntClients /\ g.started = c.started /\ g.stopped /\ g.open = c.open
         /\ g.blocks = c.blocks /\ g.calls = c.calls /\ g.pieces = c.pieces
         /\ g.astray = c.astray /\ g.empty = c.empty /\ g.filled = c.filled
         /\ g.reason = reason
    BY <1>6, <1>9 DEF AntClients
  <1> HIDE DEF r, g
  <1>13. AntFits(r, g)
    <2>1. r.started \in BOOLEAN /\ r.stopped \in BOOLEAN /\ g.stopped \in BOOLEAN
      BY <1>11, <1>12 DEF AntChatStates, AntClients
    <2>2. g.stopped = r.stopped
      BY <1>11, <1>12, <2>1
    <2> QED
      BY <1>5, <1>9, <1>11, <1>12, <2>2 DEF AntFits
  <1>14. AntSeenTools(g) = AntSeenTools(c)
    BY <1>12 DEF AntSeenTools
  <1>15. ChatPair(r, g)
    BY <1>5, <1>11, <1>12, <1>13, <1>14 DEF ChatPair, ChatCalm
  <1>16. /\ antUp' \in AntUps /\ antUp'.kind = "chat" /\ antUp'.at = "closed"
         /\ antUp'.sent = antUp.sent /\ antUp'.tools = antUp.tools /\ antUp'.end = antUp.end
    BY <1>1, <1>3 DEF AntUps
  <1>17. antChat' = r /\ antSeen' = g
    BY <1>3, <1>10
  <1>18. ChatPlaces'
    <2>1. antChat'.finish = antUp'.end /\ antChat'.tool = (antUp'.tools > 0)
      BY <1>1, <1>8, <1>11, <1>16, <1>17 DEF ChatPlaces
    <2>2. antChat'.stopped = TRUE
      BY <1>11, <1>17 DEF AntChatStates
    <2>3. antChat'.stopped = (antUp'.at = "closed")
      BY <1>16, <2>2
    <2>4. /\ antUp'.end = "tool_calls" => antUp'.tools > 0
          /\ antUp'.end \in {"none", "stop", "length", "tool_calls"}
      BY <1>1, <1>16 DEF ChatPlaces
    <2> QED
      BY <1>16, <2>1, <2>3, <2>4 DEF ChatPlaces
  <1>19. antChat'.announced = 0 .. antUp'.tools - 1 /\ antChat'.pending = {}
    BY <1>1, <1>2, <1>8, <1>11, <1>16, <1>17 DEF ChatCalls, ChatCalm
  <1>20. ReasonFits'
    <2> SUFFICES ASSUME antUp'.end \in {"completed", "stop", "tool_calls"}
                 PROVE  (reason = "tool_use") = AntSeenTools(g)
      BY <1>12, <1>17 DEF ReasonFits, AntSeenTools
    <2>1. f \in {"stop", "tool_calls"}
      BY <1>1, <1>16 DEF ChatPlaces
    <2>2. antUp.tools \in Nat
      BY <1>1, AntAssumption DEF AntUps
    <2>3. (antChat.announced # {}) = (antUp.tools > 0)
      <3>1. antChat.announced = 0 .. antUp.tools - 1
        BY <1>1, <1>2 DEF ChatCalls
      <3>2. antUp.tools > 0 => 0 \in antChat.announced
        BY <2>2, <3>1
      <3>3. ~(antUp.tools > 0) => antChat.announced = {}
        BY <2>2, <3>1
      <3> QED
        BY <3>2, <3>3
    <2>4. f = "tool_calls" => antUp.tools > 0
      BY <1>1 DEF ChatPlaces
    <2>5. s.tool = (antUp.tools > 0)
      BY <1>1, <1>8 DEF ChatPlaces
    <2>6. (reason = "tool_use") = (antUp.tools > 0)
      <3>1. CASE antUp.tools > 0
        <4>1. s.tool
          BY <2>5, <3>1
        <4> QED
          BY <1>7, <2>1, <3>1, <4>1
      <3>2. CASE ~(antUp.tools > 0)
        <4>1. ~s.tool /\ f # "tool_calls"
          BY <2>4, <2>5, <3>2
        <4> QED
          BY <1>7, <2>1, <3>2, <4>1
      <3> QED
        BY <3>1, <3>2
    <2>7. AntSeenTools(g) = (antUp.tools > 0)
      <3>1. (s.announced # {}) = AntSeenTools(c)
        BY <1>5 DEF ChatPair
      <3> QED
        BY <1>8, <1>14, <2>3, <3>1
    <2> QED
      BY <2>6, <2>7
  <1>21. \A k \in Tools : antUp'.sent[k] = antSeen'.pieces[k] + antChat'.held[k]
    BY <1>1, <1>8, <1>11, <1>12, <1>16, <1>17 DEF ChatPieces, ChatCalm
  <1>22. antChat'.announced \cup antChat'.pending = 0 .. antUp'.tools - 1
    BY <1>19
  <1>23. ChatPair(antChat', antSeen')
    BY <1>15, <1>17
  <1> QED
    BY <1>3, <1>16, <1>18, <1>19, <1>20, <1>21, <1>22, <1>23, ChatBuilds

\* What is with the client and with the converter r once call o has its place.
ChatPlaced(r, o) ==
  /\ r = [s |-> r.s, c |-> r.c]
  /\ ChatPair(r.s, r.c) /\ ~r.s.stopped /\ r.s.finish = antChat.finish
  /\ r.s.announced \cup r.s.pending = 0 .. o
  /\ o \in r.s.announced => ChatAtCall(r.s, r.c, o)
  /\ \A k \in Tools : r.c.pieces[k] + r.s.held[k] = antUp.sent[k]

\* A part of call o comes: its block, or its place among those that wait.
LEMMA ChatToolPlaced ==
  ASSUME AntInv, antUp.kind = "chat", antUp.at \in {"new", "text", "tool"},
         NEW o \in Tools, NEW named \in BOOLEAN,
         o = antUp.tools \/ (o = antUp.tools - 1 /\ antUp.at = "tool")
  PROVE  LET p == ChatStarted(antChat, antSeen)
             new == o \notin p.s.announced \cup p.s.pending
             late == o \in p.s.pending /\ named
             q == IF new \/ late \/ p.s.type = "thinking" THEN ChatClosed(p.s, p.c) ELSE p
             r == IF (new \/ late) /\ named THEN ChatAnnounced(q, o)
                  ELSE IF new THEN [q EXCEPT !.s.pending = @ \cup {o}] ELSE q
         IN
         new = (o = antUp.tools) /\ ChatPlaced(r, o)
  <1> DEFINE p == ChatStarted(antChat, antSeen)
             new == o \notin p.s.announced \cup p.s.pending
             late == o \in p.s.pending /\ named
             q == IF new \/ late \/ p.s.type = "thinking" THEN ChatClosed(p.s, p.c) ELSE p
             s == q.s
             c == q.c
             r == IF (new \/ late) /\ named THEN ChatAnnounced(q, o)
                  ELSE IF new THEN [q EXCEPT !.s.pending = @ \cup {o}] ELSE q
  <1>1. /\ ChatPair(antChat, antSeen) /\ antUp \in AntUps /\ ChatPlaces /\ ChatCalls
        /\ ChatPieces /\ ChatBlock
    BY AntChatPair
  <1>2. ~antChat.stopped /\ antUp.tools \in Nat /\ o \in Nat
    <2>1. antUp.at # "closed" /\ antUp.tools \in Nat /\ o \in Nat
      BY <1>1, AntAssumption DEF AntUps, Tools
    <2>2. antChat.stopped = (antUp.at = "closed")
      BY <1>1 DEF ChatPlaces
    <2> QED
      BY <2>1, <2>2
  <1>3. /\ ChatPair(p.s, p.c) /\ ChatSame(antChat, antSeen, p.s, p.c) /\ p.s.started
        /\ ChatCalm(antChat, p.s) /\ p.c.call = antSeen.call
        /\ p.s.open = antChat.open /\ p.s.type = antChat.type /\ p.s.index = antChat.index
    BY <1>1, <1>2, ChatStartedFits
  <1>4. p = [s |-> p.s, c |-> p.c]
    BY DEF ChatStarted
  <1>5. p.s.announced \cup p.s.pending = 0 .. antUp.tools - 1
    BY <1>1, <1>3 DEF ChatCalls, ChatCalm
  <1>6. new = (o = antUp.tools)
    BY <1>2, <1>5
  <1>7. o \in p.s.announced => ChatAtCall(p.s, p.c, o)
    <2> SUFFICES ASSUME o \in p.s.announced PROVE ChatAtCall(p.s, p.c, o)
      OBVIOUS
    <2>1. o = antUp.tools - 1 /\ antUp.at = "tool" /\ o \in antChat.announced
      BY <1>3, <1>6 DEF ChatCalm
    <2>2. ChatAtCall(antChat, antSeen, o)
      BY <1>1, <2>1 DEF ChatBlock, ChatAtCall
    <2> QED
      BY <1>3, <2>2 DEF ChatAtCall, ChatCalm
  <1>8. 0 .. o = (p.s.announced \cup p.s.pending) \cup {o}
    BY <1>2, <1>5
  <1> DEFINE an == p.s.announced
             pe == p.s.pending
             closes == new \/ late \/ p.s.type = "thinking"
  <1>9. ChatPair(ChatClosed(p.s, p.c).s, ChatClosed(p.s, p.c).c)
        /\ ChatSame(p.s, p.c, ChatClosed(p.s, p.c).s, ChatClosed(p.s, p.c).c)
        /\ ChatClosed(p.s, p.c).s.started = p.s.started
        /\ ChatCalm(p.s, ChatClosed(p.s, p.c).s) /\ ~ChatClosed(p.s, p.c).s.open
        /\ DOMAIN ChatClosed(p.s, p.c) = {"s", "c"}
        /\ ChatClosed(p.s, p.c)
             = [s |-> ChatClosed(p.s, p.c).s, c |-> ChatClosed(p.s, p.c).c]
    <2>1. DOMAIN ChatClosed(p.s, p.c) = {"s", "c"}
          /\ ChatClosed(p.s, p.c)
               = [s |-> ChatClosed(p.s, p.c).s, c |-> ChatClosed(p.s, p.c).c]
      BY DEF ChatClosed
    <2> HIDE DEF p
    <2> QED
      BY <1>3, <2>1, ChatClosedFits
  <1>10. q = IF closes THEN ChatClosed(p.s, p.c) ELSE p
    OBVIOUS
  <1>11. /\ ChatPair(s, c) /\ ChatSame(p.s, p.c, s, c) /\ s.started /\ ChatCalm(p.s, s)
         /\ q = [s |-> s, c |-> c]
         /\ closes => ~s.open
         /\ ~closes => s = p.s /\ c = p.c
    <2> HIDE DEF p, q, closes
    <2>1. CASE closes
      <3>1. q = ChatClosed(p.s, p.c)
        BY <1>10, <2>1
      <3> QED
        BY <1>3, <1>9, <2>1, <3>1
    <2>2. CASE ~closes
      <3>1. q = p
        BY <1>10, <2>2
      <3> QED
        BY <1>3, <1>4, <2>2, <3>1 DEF ChatSame, ChatCalm
    <2> QED
      BY <2>1, <2>2
  <1>12. r = IF (new \/ late) /\ named THEN ChatAnnounced(q, o)
             ELSE IF new THEN [q EXCEPT !.s.pending = @ \cup {o}] ELSE q
    OBVIOUS
  <1>13. /\ s.stopped = antChat.stopped /\ s.finish = antChat.finish /\ s.tool = antChat.tool
         /\ s.announced = an /\ s.pending = pe
         /\ \A k \in Tools : c.pieces[k] + s.held[k] = antUp.sent[k]
    <2>1. \A k \in Tools : antUp.sent[k] = antSeen.pieces[k] + antChat.held[k]
      BY <1>1 DEF ChatPieces
    <2> HIDE DEF p, s, c
    <2> QED
      BY <1>3, <1>11, <2>1 DEF ChatSame, ChatCalm
  <1>14. an \cap pe = {} /\ an \subseteq Tools /\ pe \subseteq Tools
    BY <1>3 DEF ChatPair, AntChatStates
  <1>15. new = (o \notin an \cup pe) /\ late = (o \in pe /\ named)
    OBVIOUS
  <1>16. 0 .. o = (an \cup pe) \cup {o}
    BY <1>8
  <1>17. (new \/ late) => closes
    OBVIOUS
  <1>18. ASSUME (new \/ late) /\ named PROVE ChatPlaced(r, o)
    <2> DEFINE w == ChatAnnounced([s |-> s, c |-> c], o)
    <2>1. r = w
      <3> HIDE DEF s, c, new, late, r, q
      <3> QED
        BY <1>11, <1>12, <1>18
    <2>2. ~s.open /\ o \notin s.announced /\ ~s.stopped
      <3> HIDE DEF s, c, q, p, closes, an, pe, new, late
      <3> QED
        BY <1>2, <1>11, <1>13, <1>14, <1>15, <1>17, <1>18
    <2>3. w = [s |-> w.s, c |-> w.c]
      BY DEF ChatAnnounced
    <2> HIDE DEF s, c, q, p, r, closes, an, pe, new, late
    <2>4. /\ ChatPair(w.s, w.c) /\ ChatAtCall(w.s, w.c, o)
          /\ w.s.stopped = s.stopped /\ w.s.finish = s.finish
          /\ w.s.announced = s.announced \cup {o} /\ w.s.pending = s.pending \ {o}
          /\ \A k \in Tools : w.c.pieces[k] + w.s.held[k] = c.pieces[k] + s.held[k]
      BY <1>11, <2>2, ChatAnnouncedFits
    <2> HIDE DEF w
    <2>5. w.s.announced \cup w.s.pending = 0 .. o
      BY <1>13, <1>16, <2>4
    <2> QED
      BY <1>2, <1>13, <2>1, <2>3, <2>4, <2>5 DEF ChatPlaced
  <1>19. ASSUME new /\ ~named PROVE ChatPlaced(r, o)
    <2> DEFINE pend == s.pending \cup {o}
               t == [s EXCEPT !.pending = pend]
    <2>1. r = [s |-> t, c |-> c]
      <3> HIDE DEF s, c, new, late, r, q
      <3>1. r = [q EXCEPT !.s.pending = @ \cup {o}]
        BY <1>12, <1>19
      <3>2. q = [s |-> s, c |-> c]
        BY <1>11
      <3> QED
        BY <3>1, <3>2
    <2> HIDE DEF s, c, q, p, r, closes, an, pe, new, late
    <2>2. s \in AntChatStates /\ pend \in SUBSET Tools
      BY <1>11, <1>13, <1>14 DEF ChatPair
    <2> HIDE DEF pend
    <2>3. /\ t \in AntChatStates /\ t.pending = pend /\ t.announced = s.announced
          /\ t.stopped = s.stopped /\ t.finish = s.finish /\ t.held = s.held
          /\ t.started = s.started /\ t.open = s.open /\ t.type = s.type
          /\ t.index = s.index /\ t.had = s.had
      BY <2>2 DEF AntChatStates
    <2> HIDE DEF t
    <2>4. ChatPair(t, c)
      <3>1. AntFits(t, c)
        BY <1>11, <2>3 DEF ChatPair, AntFits
      <3>2. s.announced \cap pend = {}
        BY <1>13, <1>14, <1>15, <1>19 DEF pend
      <3>3. \A k \in Tools : k \notin pend => s.held[k] = 0
        BY <1>11 DEF ChatPair, pend
      <3> QED
        BY <1>11, <2>3, <3>1, <3>2, <3>3 DEF ChatPair
    <2>5. o \notin t.announced
      BY <1>13, <1>15, <1>19, <2>3
    <2>6. t.announced \cup t.pending = 0 .. o
      BY <1>13, <1>16, <2>3 DEF pend
    <2>7. \A k \in Tools : c.pieces[k] + t.held[k] = antUp.sent[k]
      BY <1>13, <2>3
    <2>8. r.s = t /\ r.c = c /\ r = [s |-> r.s, c |-> r.c]
      BY <2>1
    <2>9. ~t.stopped /\ t.finish = antChat.finish
      BY <1>2, <1>13, <2>3
    <2> QED
      BY <2>4, <2>5, <2>6, <2>7, <2>8, <2>9 DEF ChatPlaced
  <1>20. ASSUME ~new /\ ~late PROVE ChatPlaced(r, o)
    <2> HIDE DEF s, c, q, p, r, closes, an, pe
    <2>1. r = q
      <3> HIDE DEF new, late
      <3> QED
        BY <1>12, <1>20
    <2> HIDE DEF new, late
    <2>2. an \cup pe = 0 .. o
      BY <1>15, <1>16, <1>20
    <2>3. o \in an => ChatAtCall(s, c, o)
      <3> SUFFICES ASSUME o \in an PROVE ChatAtCall(s, c, o)
        OBVIOUS
      <3>1. ChatAtCall(p.s, p.c, o)
        BY <1>7 DEF an
      <3>2. ~closes
        BY <1>20, <3>1 DEF ChatAtCall, closes
      <3> QED
        BY <1>11, <3>1, <3>2
    <2>4. r.s = s /\ r.c = c /\ r = [s |-> r.s, c |-> r.c]
      BY <1>11, <2>1
    <2> QED
      BY <1>2, <1>11, <1>13, <2>2, <2>3, <2>4 DEF ChatPlaced, an, pe
  <1>21. named \/ ~late
    OBVIOUS
  <1>22. ((new \/ late) /\ named) \/ (new /\ ~named) \/ (~new /\ ~late)
    <2> HIDE DEF new, late
    <2> QED
      BY <1>21
  <1>23. ChatPlaced(r, o)
    <2> HIDE DEF new, late, r, q, p
    <2> QED
      BY <1>18, <1>19, <1>20, <1>22
  <1> QED
    BY <1>6, <1>23

\* A piece of the arguments of call o, if there is one.
ChatPieced(r, o, piece) ==
  IF ~piece THEN [r EXCEPT !.s.tool = TRUE]
  ELSE IF o \in r.s.announced
  THEN [s |-> [r.s EXCEPT !.tool = TRUE,
                          !.had = @ \/ (r.s.open /\ r.s.block[o] = r.s.index)],
        c |-> TakesArgs(r.c, r.s.block[o], 1)]
  ELSE [r EXCEPT !.s.tool = TRUE, !.s.held[o] = @ + 1]

LEMMA ChatPiecedFits ==
  ASSUME NEW s, NEW c, ChatPair(s, c), ~s.stopped, NEW o \in Tools, NEW piece \in BOOLEAN,
         o \in s.announced \cup s.pending, o \in s.announced => ChatAtCall(s, c, o)
  PROVE  LET t == ChatPieced([s |-> s, c |-> c], o, piece) IN
         /\ ChatPair(t.s, t.c) /\ ~t.s.stopped /\ t.s.finish = s.finish /\ t.s.tool
         /\ t.s.announced = s.announced /\ t.s.pending = s.pending
         /\ o \in s.announced => ChatAtCall(t.s, t.c, o)
         /\ \A k \in Tools : t.c.pieces[k] + t.s.held[k]
              = c.pieces[k] + s.held[k] + (IF piece /\ k = o THEN 1 ELSE 0)
  <1> DEFINE t == ChatPieced([s |-> s, c |-> c], o, piece)
  <1>1. /\ s \in AntChatStates /\ c \in AntClients /\ AntFits(s, c)
        /\ c.pieces \in [Tools -> Nat] /\ s.held \in [Tools -> Nat]
        /\ s.had \in BOOLEAN
    BY DEF ChatPair, AntChatStates, AntClients
  <1>2. CASE ~piece
    <2> DEFINE u == [s EXCEPT !.tool = TRUE]
    <2>1. t = [s |-> u, c |-> c]
      BY <1>2 DEF ChatPieced
    <2>2. u \in AntChatStates
      BY <1>1 DEF AntChatStates
    <2>3. /\ u.started = s.started /\ u.stopped = s.stopped /\ u.finish = s.finish /\ u.tool
          /\ u.open = s.open /\ u.type = s.type /\ u.index = s.index /\ u.had = s.had
          /\ ChatCalm(s, u)
      BY <1>1 DEF AntChatStates, ChatCalm
    <2> HIDE DEF u
    <2>4. t.s = u /\ t.c = c
      BY <2>1
    <2> HIDE DEF t
    <2>5. ChatPair(u, c)
      <3>1. AntFits(u, c)
        BY <1>1, <2>3 DEF AntFits
      <3> QED
        BY <2>2, <2>3, <3>1 DEF ChatPair, ChatCalm
    <2>6. o \in s.announced => ChatAtCall(u, c, o)
      BY <2>3 DEF ChatAtCall, ChatCalm
    <2>7. \A k \in Tools : c.pieces[k] + u.held[k]
            = c.pieces[k] + s.held[k] + (IF piece /\ k = o THEN 1 ELSE 0)
      BY <1>1, <1>2, <2>3 DEF ChatCalm
    <2> QED
      BY <2>3, <2>4, <2>5, <2>6, <2>7 DEF t, ChatCalm
  <1>3. CASE piece /\ o \in s.announced
    <2> DEFINE i == s.block[o]
               h == s.had \/ (s.open /\ i = s.index)
               u == [s EXCEPT !.tool = TRUE, !.had = h]
               d == TakesArgs(c, s.index, 1)
    <2>1. s.open /\ s.type = "tool_use" /\ i = s.index /\ c.call = o
      BY <1>3 DEF ChatAtCall
    <2>2. t = [s |-> u, c |-> d]
      BY <1>3, <2>1 DEF ChatPieced
    <2>3. h = TRUE
      BY <2>1
    <2> HIDE DEF h
    <2>4. /\ u \in AntChatStates /\ u.started = s.started /\ u.stopped = s.stopped
          /\ u.finish = s.finish /\ u.tool /\ u.open = s.open /\ u.type = s.type
          /\ u.index = s.index /\ u.had /\ ChatCalm(s, u)
      BY <1>1, <2>3 DEF AntChatStates, ChatCalm
    <2>5. /\ d \in AntClients /\ AntFits(s, d) /\ d.filled
          /\ d.pieces = [c.pieces EXCEPT ![c.call] = @ + 1]
          /\ d.call = c.call /\ d.calls = c.calls /\ d.blocks = c.blocks
          /\ d.empty = c.empty
      BY <1>1, <2>1, AntArgsTaken
    <2>6. t.s = u /\ t.c = d
      BY <2>2
    <2> HIDE DEF t, u, d
    <2>7. ChatPair(u, d)
      <3>1. AntFits(u, d)
        BY <2>4, <2>5 DEF AntFits
      <3>2. AntSeenTools(d) = AntSeenTools(c)
        BY <2>5 DEF AntSeenTools
      <3> QED
        BY <2>4, <2>5, <3>1, <3>2 DEF ChatPair, ChatCalm
    <2>8. ChatAtCall(u, d, o)
      BY <2>1, <2>4, <2>5 DEF ChatAtCall, ChatCalm
    <2>9. \A k \in Tools : d.pieces[k] + u.held[k]
            = c.pieces[k] + s.held[k] + (IF piece /\ k = o THEN 1 ELSE 0)
      <3> SUFFICES ASSUME NEW k \in Tools
                   PROVE  d.pieces[k] + s.held[k]
                            = c.pieces[k] + s.held[k] + (IF piece /\ k = o THEN 1 ELSE 0)
        BY <2>4 DEF ChatCalm
      <3>1. d.pieces[k] = IF k = o THEN c.pieces[k] + 1 ELSE c.pieces[k]
        BY <1>1, <2>1, <2>5
      <3>2. c.pieces[k] \in Nat /\ s.held[k] \in Nat
        BY <1>1
      <3> QED
        BY <1>3, <3>1, <3>2
    <2> QED
      BY <2>4, <2>6, <2>7, <2>8, <2>9 DEF t, ChatCalm
  <1>4. CASE piece /\ o \notin s.announced
    <2> DEFINE h == [s.held EXCEPT ![o] = @ + 1]
               u == [s EXCEPT !.tool = TRUE, !.held = h]
    <2>1. t = [s |-> u, c |-> c]
      BY <1>4 DEF ChatPieced
    <2>2. h \in [Tools -> Nat] /\ o \in s.pending
      BY <1>1, <1>4
    <2>3. \A k \in Tools : h[k] = IF k = o THEN s.held[k] + 1 ELSE s.held[k]
      BY <1>1
    <2> HIDE DEF h
    <2>4. /\ u \in AntChatStates /\ u.started = s.started /\ u.stopped = s.stopped
          /\ u.finish = s.finish /\ u.tool /\ u.open = s.open /\ u.type = s.type
          /\ u.index = s.index /\ u.had = s.had /\ u.announced = s.announced
          /\ u.pending = s.pending /\ u.block = s.block /\ u.held = h
      BY <1>1, <2>2 DEF AntChatStates
    <2>5. t.s = u /\ t.c = c
      BY <2>1
    <2> HIDE DEF t, u
    <2>6. ChatPair(u, c)
      <3>1. AntFits(u, c)
        BY <1>1, <2>4 DEF AntFits
      <3>2. \A k \in Tools : k \notin s.pending => h[k] = 0
        BY <2>2, <2>3 DEF ChatPair
      <3> QED
        BY <2>4, <3>1, <3>2 DEF ChatPair
    <2>7. \A k \in Tools : c.pieces[k] + u.held[k]
            = c.pieces[k] + s.held[k] + (IF piece /\ k = o THEN 1 ELSE 0)
      <3> SUFFICES ASSUME NEW k \in Tools
                   PROVE  c.pieces[k] + h[k]
                            = c.pieces[k] + s.held[k] + (IF piece /\ k = o THEN 1 ELSE 0)
        BY <2>4
      <3>1. c.pieces[k] \in Nat /\ s.held[k] \in Nat
        BY <1>1
      <3> QED
        BY <1>4, <2>3, <3>1
    <2> QED
      BY <1>4, <2>4, <2>5, <2>6, <2>7 DEF t
  <1> QED
    BY <1>2, <1>3, <1>4

LEMMA ChatToolKeeps ==
  ASSUME AntInv, antUp.kind = "chat", NEW o \in Tools, NEW named \in BOOLEAN,
         NEW piece \in BOOLEAN, ChatTool(o, named, piece)
  PROVE  AntGoal
  <1> DEFINE p == ChatStarted(antChat, antSeen)
             new == o \notin p.s.announced \cup p.s.pending
             late == o \in p.s.pending /\ named
             q == IF new \/ late \/ p.s.type = "thinking" THEN ChatClosed(p.s, p.c) ELSE p
             r == IF (new \/ late) /\ named THEN ChatAnnounced(q, o)
                  ELSE IF new THEN [q EXCEPT !.s.pending = @ \cup {o}] ELSE q
             s == r.s
             c == r.c
             t == ChatPieced(r, o, piece)
             f == [antUp.sent EXCEPT ![o] = IF piece THEN @ + 1 ELSE @]
             g == (IF new THEN 0 ELSE antUp.given) + (IF piece THEN 1 ELSE 0)
  <1>1. /\ ChatPair(antChat, antSeen) /\ antUp \in AntUps /\ antRes \in AntResStates
        /\ ChatPlaces /\ ChatCalls /\ ChatPieces
    BY AntChatPair
  <1>2. /\ antUp.at \in {"new", "text", "tool"}
        /\ (o = antUp.tools \/ (o = antUp.tools - 1 /\ antUp.at = "tool"))
        /\ (piece => antUp.given < AntPieces \/ o = antUp.tools)
    BY DEF ChatTool, ChatOpen
  <1>3. new = (o = antUp.tools) /\ ChatPlaced(r, o)
    BY <1>2, ChatToolPlaced
  <1>4. /\ antUp' = [antUp EXCEPT !.at = "tool", !.tools = o + 1, !.sent = f, !.given = g]
        /\ antRes' = antRes
    BY DEF ChatTool, ChatTo
  <1>5. antChat' = t.s /\ antSeen' = t.c
    BY DEF ChatTool, ChatTo, ChatPieced
  <1> HIDE DEF p, q, new, late, r
  <1>6. /\ o \in Nat /\ o + 1 \in 0 .. AntOutputs
        /\ antUp.tools \in Nat /\ antUp.given \in 0 .. AntPieces + 1 /\ AntPieces \in Nat
    BY <1>1, AntAssumption DEF AntUps, Tools
  <1>7. /\ antUp.sent \in [Tools -> Nat] /\ f \in [Tools -> Nat]
        /\ \A k \in Tools : f[k] = antUp.sent[k] + (IF piece /\ k = o THEN 1 ELSE 0)
    <2>1. antUp.sent \in [Tools -> Nat]
      BY <1>1 DEF AntUps
    <2> QED
      BY <2>1
  <1>8. g \in 0 .. AntPieces + 1
    <2>1. CASE new
      BY <1>6, <2>1
    <2>2. CASE ~new
      BY <1>2, <1>3, <1>6, <2>2
    <2> QED
      BY <2>1, <2>2
  <1> HIDE DEF f, g
  <1>9. antUp' \in AntUps
    <2> DEFINE n == o + 1
    <2> HIDE DEF n
    <2>1. n \in 0 .. AntOutputs
      BY <1>6 DEF n
    <2>2. [antUp EXCEPT !.at = "tool", !.tools = n, !.sent = f, !.given = g] \in AntUps
      BY <1>1, <1>7, <1>8, <2>1 DEF AntUps
    <2> QED
      BY <1>4, <2>2 DEF n
  <1>10. /\ antUp'.kind = "chat" /\ antUp'.at = "tool" /\ antUp'.sent = f
         /\ antUp'.tools = o + 1 /\ antUp'.end = antUp.end
    BY <1>1, <1>4 DEF AntUps
  <1>11. /\ r = [s |-> s, c |-> c] /\ ChatPair(s, c) /\ ~s.stopped
         /\ s.finish = antChat.finish /\ s.announced \cup s.pending = 0 .. o
         /\ o \in s.announced => ChatAtCall(s, c, o)
         /\ \A k \in Tools : c.pieces[k] + s.held[k] = antUp.sent[k]
    BY <1>3 DEF ChatPlaced
  <1> HIDE DEF s, c
  <1>12. o \in s.announced \cup s.pending
    BY <1>6, <1>11
  <1>13. /\ ChatPair(t.s, t.c) /\ ~t.s.stopped /\ t.s.finish = s.finish /\ t.s.tool
         /\ t.s.announced = s.announced /\ t.s.pending = s.pending
         /\ o \in s.announced => ChatAtCall(t.s, t.c, o)
         /\ \A k \in Tools : t.c.pieces[k] + t.s.held[k]
              = c.pieces[k] + s.held[k] + (IF piece /\ k = o THEN 1 ELSE 0)
    <2> DEFINE w == ChatPieced([s |-> s, c |-> c], o, piece)
    <2>1. t = w
      BY <1>11
    <2>2. /\ ChatPair(w.s, w.c) /\ ~w.s.stopped /\ w.s.finish = s.finish /\ w.s.tool
          /\ w.s.announced = s.announced /\ w.s.pending = s.pending
          /\ o \in s.announced => ChatAtCall(w.s, w.c, o)
          /\ \A k \in Tools : w.c.pieces[k] + w.s.held[k]
               = c.pieces[k] + s.held[k] + (IF piece /\ k = o THEN 1 ELSE 0)
      BY <1>11, <1>12, ChatPiecedFits
    <2> HIDE DEF t, w
    <2> QED
      BY <2>1, <2>2
  <1> HIDE DEF t
  <1>14. ChatPair(antChat', antSeen') /\ ~antChat'.stopped
    BY <1>5, <1>13
  <1>15. ChatPlaces'
    <2>1. antChat'.stopped \in BOOLEAN /\ antChat'.tool \in BOOLEAN
      BY <1>14 DEF ChatPair, AntChatStates
    <2>2. antChat'.tool = (antUp'.tools > 0)
      <3>1. antChat'.tool
        BY <1>5, <1>13
      <3>2. antUp'.tools > 0
        BY <1>6, <1>10
      <3> QED
        BY <2>1, <3>1, <3>2
    <2>3. antChat'.stopped = (antUp'.at = "closed")
      BY <1>10, <1>14, <2>1
    <2>4. antChat'.finish = antUp'.end
      BY <1>1, <1>5, <1>10, <1>11, <1>13 DEF ChatPlaces
    <2>5. /\ antUp'.end = "tool_calls" => antUp'.tools > 0
          /\ antUp'.end \in {"none", "stop", "length", "tool_calls"}
      BY <1>1, <1>6, <1>10 DEF ChatPlaces
    <2> QED
      BY <1>10, <2>2, <2>3, <2>4, <2>5 DEF ChatPlaces
  <1>16. ReasonFits'
    BY <1>14, ChatRunning
  <1>17. antUp'.tools - 1 = o /\ antUp'.tools > 0
    BY <1>6, <1>10
  <1>18. antChat'.announced \cup antChat'.pending = 0 .. antUp'.tools - 1
    BY <1>5, <1>11, <1>13, <1>17
  <1>19. antUp'.tools - 1 \in antChat'.announced => ChatAtCall(antChat', antSeen', antUp'.tools - 1)
    BY <1>5, <1>13, <1>17
  <1>20. \A k \in Tools : antUp'.sent[k] = antSeen'.pieces[k] + antChat'.held[k]
    BY <1>5, <1>7, <1>10, <1>11, <1>13
  <1> QED
    BY <1>4, <1>9, <1>10, <1>14, <1>15, <1>16, <1>17, <1>18, <1>19, <1>20, ChatBuilds

LEMMA ChatKeeps ==
  ASSUME AntInv, ChatNext
  PROVE  AntInv'
  <1>1. antUp.kind = "chat"
    <2>1. ASSUME NEW t, ChatText(t) PROVE antUp.kind = "chat"
      BY <2>1 DEF ChatText, ChatOpen
    <2>2. ASSUME NEW o, NEW named, NEW piece, ChatTool(o, named, piece)
          PROVE  antUp.kind = "chat"
      BY <2>2 DEF ChatTool, ChatOpen
    <2>3. ASSUME NEW reason, ChatFinish(reason) PROVE antUp.kind = "chat"
      BY <2>3 DEF ChatFinish, ChatOpen
    <2>4. ChatFinalizeTool \/ ChatFinalize => antUp.kind = "chat"
      BY DEF ChatFinalizeTool, ChatFinalize
    <2> QED
      BY <2>1, <2>2, <2>3, <2>4 DEF ChatNext
  <1>2. CASE \E t \in {"thinking", "text"} : ChatText(t)
    BY <1>1, <1>2, ChatTextKeeps DEF AntGoal, AntInv
  <1>3. CASE \E o \in Tools, named, piece \in BOOLEAN : ChatTool(o, named, piece)
    BY <1>1, <1>3, ChatToolKeeps DEF AntGoal, AntInv
  <1>4. CASE \E reason \in {"stop", "length", "tool_calls"} : ChatFinish(reason)
    BY <1>1, <1>4, ChatFinishKeeps DEF AntGoal, AntInv
  <1>5. CASE ChatFinalizeTool
    BY <1>1, <1>5, ChatFinalizeToolKeeps DEF AntGoal, AntInv
  <1>6. CASE ChatFinalize
    BY <1>1, <1>6, ChatFinalizeKeeps DEF AntGoal, AntInv
  <1> QED
    BY <1>2, <1>3, <1>4, <1>5, <1>6 DEF ChatNext

LEMMA AntStarts == AntInit => AntInv
  <1> SUFFICES ASSUME AntInit PROVE AntInv
    OBVIOUS
  <1> USE DEF AntInit
  <1>1. AntOutputs \in Nat /\ AntPieces \in Nat /\ 0 \in 0 .. AntOutputs
        /\ 0 \in 0 .. AntPieces + 1
    BY AntAssumption
  <1>2. AntTyped
    <2>1. antUp \in AntUps
      <3>1. <<>> \in Seq([item : AntItems, parts : Nat])
        OBVIOUS
      <3>2. [o \in Tools |-> 0] \in [Tools -> Nat]
        OBVIOUS
      <3> QED
        BY <1>1, <3>1, <3>2 DEF AntUps
    <2>2. antRes \in AntResStates
      BY DEF AntResStates
    <2>3. antChat \in AntChatStates
      BY DEF AntChatStates
    <2>4. antSeen \in AntClients
      BY DEF AntClients
    <2> QED
      BY <2>1, <2>2, <2>3, <2>4 DEF AntTyped
  <1>3. /\ antUp.at = "new" /\ antUp.tools = 0 /\ antUp.end = "none" /\ Out = 0
        /\ antUp.sent = [o \in Tools |-> 0]
    BY DEF Out
  <1>4. ~AntSeenTools(antSeen) /\ ~InCall /\ ~InThought
    BY <1>3 DEF AntSeenTools, InCall, InThought
  <1>5. 0 .. antUp.tools - 1 = {}
    BY <1>3
  <1>6. ResInv
    <2>1. AntFits(antRes, antSeen)
      BY DEF AntFits
    <2>2. ResPlaces
      BY <1>1, <1>3 DEF ResPlaces
    <2>3. ResBlock
      BY <1>3, <1>4 DEF ResBlock
    <2>4. ResCalls
      <3>1. antSeen.calls = 0 .. antUp.tools - 1 /\ antRes.tool = FALSE
        BY <1>5
      <3>2. antRes.tool = AntSeenTools(antSeen)
        BY <1>4, <3>1 DEF AntSeenTools
      <3> QED
        BY <3>1, <3>2 DEF ResCalls
    <2>5. ResPieces
      BY <1>3 DEF ResPieces
    <2>6. ResKept /\ SignatureKept /\ ReasonFits
      BY <1>3, <1>4 DEF ResKept, SignatureKept, ResAt, ReasonFits
    <2> QED
      BY <2>1, <2>2, <2>3, <2>4, <2>5, <2>6 DEF ResInv
  <1>7. ChatInv
    <2>1. AntFits(antChat, antSeen)
      BY DEF AntFits
    <2>2. ChatPlaces
      <3>1. antChat.stopped = FALSE /\ antChat.tool = FALSE /\ antChat.finish = "none"
        OBVIOUS
      <3>2. (antUp.at = "closed") = FALSE
        BY <1>3
      <3>3. (antUp.tools > 0) = FALSE
        BY <1>3
      <3>4. antChat.stopped = (antUp.at = "closed")
        BY <3>1, <3>2, Zenon
      <3>5. antChat.tool = (antUp.tools > 0)
        BY <3>1, <3>3, Zenon
      <3> HIDE DEF AntInit
      <3> QED
        BY <1>3, <3>1, <3>4, <3>5 DEF ChatPlaces
    <2>4. ChatCalls
      <3>1. /\ antChat.announced = {} /\ antChat.pending = {} /\ antSeen.calls = {}
            /\ antChat.stopped = FALSE
        OBVIOUS
      <3>2. (antChat.announced # {}) = AntSeenTools(antSeen)
        BY <1>4, <3>1 DEF AntSeenTools
      <3> QED
        BY <1>5, <3>1, <3>2 DEF ChatCalls
    <2>3. ChatBlock /\ ChatPieces /\ ReasonFits
      BY <1>3 DEF ChatBlock, ChatPieces, ReasonFits
    <2> QED
      BY <2>1, <2>2, <2>3, <2>4 DEF ChatInv
  <1> QED
    BY <1>2, <1>6, <1>7 DEF AntInv

LEMMA AntStays == AntInv /\ [AntNext]_antVars => AntInv'
  <1> SUFFICES ASSUME AntInv, [AntNext]_antVars PROVE AntInv'
    OBVIOUS
  <1>1. CASE ResNext
    BY <1>1, ResKeeps
  <1>2. CASE ChatNext
    BY <1>2, ChatKeeps
  <1>3. CASE UNCHANGED antVars
    <2>1. AntTyped'
      BY <1>3 DEF AntInv, AntTyped, antVars
    <2>2. ResInv'
      BY <1>3 DEF AntInv, antVars, ResInv, ResPlaces, ResBlock, ResCalls, ResPieces, ResKept,
                  SignatureKept, ReasonFits, InCall, InThought, Out, Item, ResAt
    <2>3. ChatInv'
      BY <1>3 DEF AntInv, antVars, ChatInv, ChatPlaces, ChatCalls, ChatBlock, ChatPieces,
                  ReasonFits
    <2> QED
      BY <2>1, <2>2, <2>3 DEF AntInv
  <1> QED
    BY <1>1, <1>2, <1>3 DEF AntNext

\* What ClientStreamFits says but for the answer read whole.
StreamFits ==
  /\ AntTypeOK /\ InOrder /\ EndsOnce /\ PiecesArrive /\ CallsShown /\ ReasonFits
  /\ SignatureKept

LEMMA AntClientFits == AntInv => StreamFits
  <1> SUFFICES ASSUME AntInv PROVE StreamFits
    OBVIOUS
  <1>1. /\ antUp \in AntUps /\ antRes \in AntResStates /\ antChat \in AntChatStates
        /\ antSeen \in AntClients
    BY DEF AntInv, AntTyped
  <1>2. AntTypeOK
    BY <1>1, AntAssumption DEF AntTypeOK, AntUps, AntResStates, AntChatStates, AntClients
  <1>3. antUp.kind = "responses" \/ antUp.kind = "chat"
    BY <1>1 DEF AntUps
  <1>4. CASE antUp.kind = "responses"
    <2>1. /\ AntFits(antRes, antSeen) /\ ResPlaces /\ ResCalls /\ ResPieces
          /\ SignatureKept /\ ReasonFits
      BY <1>4 DEF AntInv, ResInv
    <2>2. InOrder
      BY <2>1 DEF InOrder, AntFits
    <2>3. EndsOnce
      BY <2>1 DEF EndsOnce, AntFits, ResPlaces
    <2>4. AllArrived => antUp.at \in {"between", "ended"}
      BY <1>4 DEF AllArrived, ResAt
    <2>5. PiecesArrive
      BY <2>1, <2>4 DEF PiecesArrive, ResPieces, InCall
    <2>6. CallsShown
      BY <1>4, <2>1 DEF CallsShown, ResCalls
    <2> QED
      BY <1>2, <2>1, <2>2, <2>3, <2>5, <2>6 DEF StreamFits
  <1>5. CASE antUp.kind = "chat"
    <2>1. /\ AntFits(antChat, antSeen) /\ ChatPlaces /\ ChatCalls /\ ChatBlock /\ ChatPieces
          /\ ReasonFits
      BY <1>5 DEF AntInv, ChatInv
    <2>2. InOrder
      BY <2>1 DEF InOrder, AntFits
    <2>3. antUp.at = "closed" => antChat.stopped /\ antSeen.stopped
      BY <2>1 DEF ChatPlaces, AntFits
    <2>4. EndsOnce
      BY <2>3 DEF EndsOnce
    <2>5. AllArrived => antChat.stopped
      BY <1>5, <2>3 DEF AllArrived, ResAt
    <2>6. PiecesArrive
      <3> SUFFICES ASSUME NEW o \in Tools
                   PROVE  /\ antSeen.pieces[o] <= antUp.sent[o]
                          /\ AllArrived => antSeen.pieces[o] = antUp.sent[o]
        BY DEF PiecesArrive
      <3>1. antSeen.pieces[o] \in Nat /\ antChat.held[o] \in Nat
        BY <1>1 DEF AntClients, AntChatStates
      <3>2. antUp.sent[o] = antSeen.pieces[o] + antChat.held[o]
        BY <2>1 DEF ChatPieces
      <3>3. AllArrived => antChat.held[o] = 0
        BY <2>1, <2>5 DEF ChatPieces, ChatCalls
      <3> QED
        BY <3>1, <3>2, <3>3
    <2>7. CallsShown
      BY <2>1, <2>5 DEF CallsShown, ChatCalls, ChatBlock
    <2>8. SignatureKept
      BY <1>5 DEF SignatureKept, ResAt
    <2> QED
      BY <1>2, <2>1, <2>2, <2>4, <2>6, <2>7, <2>8 DEF StreamFits
  <1> QED
    BY <1>3, <1>4, <1>5

\* A set of numbers with 0 that has the next of each of its members has them all.
LEMMA NatStepwise ==
  ASSUME NEW S, 0 \in S, \A n \in Nat : n \in S => n + 1 \in S
  PROVE  Nat \subseteq S
  <1> DEFINE T == Nat \ S
  <1> SUFFICES ASSUME T # {} PROVE FALSE
    OBVIOUS
  <1>1. PICK x \in T : \A y \in T : ~(<<y, x>> \in OpToRel(<, Nat))
    BY NatLessThanWellFounded, WFMin
  <1>2. \A y \in T : ~(y < x)
    BY <1>1 DEF OpToRel
  <1>3. x \in Nat /\ x # 0 /\ x - 1 \in Nat /\ (x - 1) + 1 = x /\ x - 1 < x
    OBVIOUS
  <1>4. x - 1 \in S
    BY <1>2, <1>3
  <1> QED
    BY <1>3, <1>4

-----------------------------------------------------------------------------
(* Sequences laid end to end *)

\* a, b and c can be laid end to end from either side.
Associates(a, b, c) == (a \o b) \o c = a \o (b \o c)

LEMMA KindsAssociate ==
  ASSUME NEW S, NEW a \in Seq(S), NEW b \in Seq(S), NEW c \in Seq(S)
  PROVE  Associates(a, b, c)
  BY ConcatAssociative DEF Associates

\* f has the first n members of s end to end.
Flattens(f, s, n) ==
  f = [i \in 1 .. n |-> IF i = 1 THEN s[i] ELSE f[i - 1] \o s[i]]

LEMMA FlattensAgree ==
  ASSUME NEW s, NEW t, NEW n \in Nat, NEW m \in Nat, NEW f, NEW g, m <= n,
         Flattens(f, s, n), Flattens(g, t, m), \A i \in 1 .. m : s[i] = t[i]
  PROVE  \A i \in 1 .. m : f[i] = g[i]
  <1> DEFINE S == {k \in Nat : k \in 1 .. m => f[k] = g[k]}
  <1>1. 0 \in S
    OBVIOUS
  <1>2. ASSUME NEW k \in Nat, k \in S PROVE k + 1 \in S
    <2> SUFFICES ASSUME k + 1 \in 1 .. m PROVE f[k + 1] = g[k + 1]
      OBVIOUS
    <2>1. k + 1 \in 1 .. n /\ (k + 1) - 1 = k
      OBVIOUS
    <2>2. f[k + 1] = IF k + 1 = 1 THEN s[k + 1] ELSE f[k] \o s[k + 1]
      BY <2>1 DEF Flattens
    <2>3. g[k + 1] = IF k + 1 = 1 THEN t[k + 1] ELSE g[k] \o t[k + 1]
      BY <2>1 DEF Flattens
    <2>4. k + 1 = 1 \/ f[k] = g[k]
      BY <1>2
    <2> QED
      BY <2>2, <2>3, <2>4
  <1> HIDE DEF S
  <1>3. Nat \subseteq S
    BY <1>1, <1>2, NatStepwise
  <1> QED
    BY <1>3 DEF S

LEMMA FlattensExist ==
  ASSUME NEW s, NEW n \in Nat
  PROVE  \E f : Flattens(f, s, n)
  <1> DEFINE S == {k \in Nat : \E f : Flattens(f, s, k)}
  <1>1. 0 \in S
    <2>1. Flattens([i \in {} |-> 0], s, 0)
      BY DEF Flattens
    <2> QED
      BY <2>1
  <1>2. ASSUME NEW k \in Nat, k \in S PROVE k + 1 \in S
    <2>1. PICK f : Flattens(f, s, k)
      BY <1>2
    <2> DEFINE e == IF k + 1 = 1 THEN s[k + 1] ELSE f[k] \o s[k + 1]
               g == [i \in 1 .. k + 1 |-> IF i = k + 1 THEN e ELSE f[i]]
    <2>2. ASSUME NEW i \in 1 .. k + 1
          PROVE  g[i] = IF i = 1 THEN s[i] ELSE g[i - 1] \o s[i]
      <3>1. CASE i = k + 1
        <4>1. k # 0 => g[k] = f[k] /\ i - 1 = k
          BY <3>1
        <4> QED
          BY <3>1, <4>1
      <3>2. CASE i # k + 1
        <4>1. i \in 1 .. k /\ g[i] = f[i] /\ (i # 1 => g[i - 1] = f[i - 1])
          BY <3>2
        <4>2. f[i] = IF i = 1 THEN s[i] ELSE f[i - 1] \o s[i]
          BY <2>1, <4>1 DEF Flattens
        <4> QED
          BY <4>1, <4>2
      <3> QED
        BY <3>1, <3>2
    <2>3. Flattens(g, s, k + 1)
      BY <2>2 DEF Flattens
    <2> QED
      BY <2>3
  <1> HIDE DEF S
  <1>3. Nat \subseteq S
    BY <1>1, <1>2, NatStepwise
  <1> QED
    BY <1>3 DEF S

LEMMA FlattenSeqIs ==
  ASSUME NEW s, NEW n \in Nat, Len(s) = n, n > 0
  PROVE  \E f : Flattens(f, s, n) /\ FlattenSeq(s) = f[n]
  <1> DEFINE f == CHOOSE g : g = [i \in 1 .. n |-> IF i = 1 THEN s[i] ELSE g[i - 1] \o s[i]]
  <1>1. Flattens(f, s, n)
    BY FlattensExist DEF Flattens
  <1>2. FlattenSeq(s) = f[n]
    BY DEF FlattenSeq
  <1> QED
    BY <1>1, <1>2

LEMMA FlattenFront ==
  ASSUME NEW s, NEW t, NEW n \in Nat, NEW f, NEW g, n > 0,
         Flattens(g, t, n + 1), Flattens(f, s, n), \A i \in 1 .. n : t[i] = s[i]
  PROVE  g[n] = f[n]
  <1>1. n + 1 \in Nat /\ n <= n + 1 /\ n \in 1 .. n
    OBVIOUS
  <1>2. \A i \in 1 .. n : g[i] = f[i]
    BY <1>1, FlattensAgree
  <1> QED
    BY <1>1, <1>2

\* What is appended comes last.
LEMMA FlattenAppend ==
  ASSUME NEW K, NEW s \in Seq(Seq(K)), NEW x \in Seq(K)
  PROVE  FlattenSeq(Append(s, x)) = FlattenSeq(s) \o x
  <1> DEFINE n == Len(s)
             t == Append(s, x)
  <1>1. n \in Nat
    OBVIOUS
  <1>2. Len(t) = n + 1 /\ t[n + 1] = x /\ \A i \in 1 .. n : t[i] = s[i]
    BY AppendProperties
  <1> HIDE DEF n, t
  <1>7. n + 1 \in Nat /\ n + 1 > 0 /\ n + 1 \in 1 .. n + 1 /\ (n + 1) - 1 = n /\ n <= n + 1
    BY <1>1
  <1>3. PICK g : Flattens(g, t, n + 1) /\ FlattenSeq(t) = g[n + 1]
    BY <1>2, <1>7, FlattenSeqIs
  <1>4. g[n + 1] = IF n + 1 = 1 THEN t[n + 1] ELSE g[n] \o t[n + 1]
    BY <1>3, <1>7 DEF Flattens
  <1>5. CASE n = 0
    <2>1. s = <<>> /\ FlattenSeq(s) = s
      BY <1>5, EmptySeq DEF FlattenSeq, n
    <2>2. <<>> \o x = x
      BY ConcatEmptySeq
    <2> QED
      BY <1>2, <1>3, <1>4, <1>5, <2>1, <2>2 DEF t
  <1>6. CASE n > 0
    <2>1. PICK f : Flattens(f, s, n) /\ FlattenSeq(s) = f[n]
      BY <1>1, <1>6, FlattenSeqIs DEF n
    <2>3. n \in 1 .. n
      BY <1>1, <1>6
    <2>2. g[n] = f[n]
      BY <1>1, <1>2, <1>3, <1>6, <2>1, FlattenFront
    <2> QED
      BY <1>2, <1>3, <1>4, <1>6, <1>7, <2>1, <2>2 DEF t
  <1> QED
    BY <1>1, <1>5, <1>6
LEMMA FlattenTyped ==
  ASSUME NEW K, NEW s \in Seq(Seq(K))
  PROVE  FlattenSeq(s) \in Seq(K)
  <1>1. PICK n \in Nat : n = Len(s)
    OBVIOUS
  <1>2. \A i \in 1 .. n : s[i] \in Seq(K)
    BY <1>1, ElementOfSeq
  <1>3. CASE n = 0
    BY <1>1, <1>3, EmptySeq DEF FlattenSeq
  <1>4. CASE n > 0
    <2>1. PICK f : Flattens(f, s, n) /\ FlattenSeq(s) = f[n]
      BY <1>1, <1>4, FlattenSeqIs
    <2> DEFINE S == {k \in Nat : k \in 1 .. n => f[k] \in Seq(K)}
    <2>2. 0 \in S
      OBVIOUS
    <2>3. ASSUME NEW k \in Nat, k \in S PROVE k + 1 \in S
      <3> SUFFICES ASSUME k + 1 \in 1 .. n PROVE f[k + 1] \in Seq(K)
        OBVIOUS
      <3>1. f[k + 1] = IF k + 1 = 1 THEN s[k + 1] ELSE f[k] \o s[k + 1]
        <4>1. (k + 1) - 1 = k
          OBVIOUS
        <4> QED
          BY <2>1, <4>1 DEF Flattens
      <3>2. k + 1 # 1 => f[k] \in Seq(K)
        BY <2>3
      <3> QED
        BY <1>2, <3>1, <3>2, ConcatProperties
    <2> HIDE DEF S
    <2>4. Nat \subseteq S
      BY <2>2, <2>3, NatStepwise
    <2> QED
      BY <1>4, <2>1, <2>4 DEF S
  <1> QED
    BY <1>3, <1>4

-----------------------------------------------------------------------------
(* Anthropic streams: the blocks of a stream and of the answer read whole  *)

\* The blocks of an item that have been shown: a search has none until it is done.
ShownOf(o) == IF o.item = "search" /\ o.parts = 0 THEN <<>> ELSE BlocksOf(o)
Shown(output) == [k \in DOMAIN output |-> ShownOf(output[k])]

\* What holds in every state, and gives SameBlocks at the end.
BlocksShown ==
  antUp.kind = "responses" => antSeen.blocks = FlattenSeq(Shown(antUp.output))

LEMMA ShownOfTyped ==
  ASSUME NEW o \in AntEntry
  PROVE  ShownOf(o) \in Seq(AntKinds) /\ BlocksOf(o) \in Seq(AntKinds)
  <1>1. o.item \in AntItems /\ o.parts \in Nat
    BY DEF AntEntry
  <1>2. [k \in 1 .. o.parts |-> "text"] \in Seq(AntKinds)
    BY <1>1, SeqDef DEF AntKinds
  <1>3. /\ <<"thinking">> \in Seq(AntKinds) /\ <<"tool_use">> \in Seq(AntKinds)
        /\ <<>> \in Seq(AntKinds)
        /\ <<"server_tool_use", "web_search_tool_result">> \in Seq(AntKinds)
    BY DEF AntKinds
  <1> QED
    BY <1>1, <1>2, <1>3 DEF ShownOf, BlocksOf, AntItems

LEMMA ShownTyped ==
  ASSUME NEW output \in Seq(AntEntry)
  PROVE  Shown(output) \in Seq(Seq(AntKinds)) /\ Len(Shown(output)) = Len(output)
  <1>1. Len(output) \in Nat /\ DOMAIN output = 1 .. Len(output)
    BY LenProperties
  <1>2. \A k \in 1 .. Len(output) : ShownOf(output[k]) \in Seq(AntKinds)
    BY ElementOfSeq, ShownOfTyped
  <1> QED
    BY <1>1, <1>2, SeqDef DEF Shown

LEMMA ShownAppend ==
  ASSUME NEW output \in Seq(AntEntry), NEW e \in AntEntry
  PROVE  Shown(Append(output, e)) = Append(Shown(output), ShownOf(e))
  <1> DEFINE n == Len(output)
             a == Append(output, e)
             b == Append(Shown(output), ShownOf(e))
  <1>1. n \in Nat
    OBVIOUS
  <1>2. /\ Shown(output) \in Seq(Seq(AntKinds)) /\ Len(Shown(output)) = n
        /\ ShownOf(e) \in Seq(AntKinds)
    BY ShownTyped, ShownOfTyped
  <1>3. /\ a \in Seq(AntEntry) /\ Len(a) = n + 1 /\ a[n + 1] = e
        /\ DOMAIN a = 1 .. n + 1 /\ \A k \in 1 .. n : a[k] = output[k]
    BY AppendProperties, LenProperties
  <1>4. /\ b \in Seq(Seq(AntKinds)) /\ Len(b) = n + 1 /\ b[n + 1] = ShownOf(e)
        /\ DOMAIN b = 1 .. n + 1 /\ \A k \in 1 .. n : b[k] = Shown(output)[k]
    BY <1>2, AppendProperties, LenProperties
  <1>5. \A k \in 1 .. n : Shown(output)[k] = ShownOf(output[k])
    BY LenProperties DEF Shown
  <1>6. b = [k \in 1 .. n + 1 |-> b[k]]
    <2>1. b \in [1 .. Len(b) -> Seq(AntKinds)]
      BY <1>4, LenProperties
    <2> HIDE DEF b
    <2> QED
      BY <1>4, <2>1
  <1> HIDE DEF n, a, b
  <1>7. \A k \in 1 .. n + 1 : k \in 1 .. n \/ k = n + 1
    BY <1>1
  <1>8. \A k \in 1 .. n + 1 : b[k] = ShownOf(a[k])
    BY <1>3, <1>4, <1>5, <1>7
  <1>9. Shown(a) = [k \in 1 .. n + 1 |-> ShownOf(a[k])]
    BY <1>3 DEF Shown
  <1> QED
    BY <1>6, <1>8, <1>9 DEF a, b

\* The items before the last one stay as they are.
LEMMA ShownLast ==
  ASSUME NEW output \in Seq(AntEntry), Len(output) > 0
  PROVE  \E m \in Seq(Seq(AntKinds)) : \A e \in AntEntry :
            Shown([output EXCEPT ![Len(output)] = e]) = Append(m, ShownOf(e))
  <1> DEFINE n == Len(output)
             front == [k \in 1 .. n - 1 |-> output[k]]
  <1>1. n \in Nat /\ n - 1 \in Nat /\ DOMAIN output = 1 .. n /\ n \in 1 .. n
    BY LenProperties
  <1>2. \A k \in 1 .. n : output[k] \in AntEntry
    BY ElementOfSeq
  <1>3. front \in Seq(AntEntry) /\ Len(front) = n - 1
    BY <1>1, <1>2, SeqDef
  <1>4. Shown(front) \in Seq(Seq(AntKinds))
    BY <1>3, ShownTyped
  <1>5. ASSUME NEW e \in AntEntry
        PROVE  Shown([output EXCEPT ![n] = e]) = Append(Shown(front), ShownOf(e))
    <2> DEFINE x == [output EXCEPT ![n] = e]
               y == Append(front, e)
    <2>1. DOMAIN x = 1 .. n /\ x[n] = e /\ \A k \in 1 .. n - 1 : x[k] = output[k]
      <3> HIDE DEF n
      <3>1. DOMAIN x = 1 .. n /\ x[n] = e
        BY <1>1
      <3>2. \A k \in 1 .. n - 1 : k \in 1 .. n /\ k # n
        BY <1>1
      <3> QED
        BY <1>1, <3>1, <3>2
    <2>2. /\ y \in Seq(AntEntry) /\ Len(y) = (n - 1) + 1 /\ y[(n - 1) + 1] = e
          /\ \A k \in 1 .. n - 1 : y[k] = front[k]
      BY <1>3, AppendProperties
    <2>3. DOMAIN y = 1 .. n /\ y[n] = e /\ \A k \in 1 .. n - 1 : y[k] = output[k]
      BY <1>1, <2>2, LenProperties
    <2>4. x \in Seq(AntEntry)
      BY <1>1, ExceptSeq
    <2> HIDE DEF n, front, x, y
    <2>5. \A k \in 1 .. n : k \in 1 .. n - 1 \/ k = n
      BY <1>1
    <2>6. \A k \in 1 .. n : x[k] = y[k]
      BY <2>1, <2>3, <2>5
    <2>7. Shown(x) = Shown(y)
      BY <2>1, <2>3, <2>6 DEF Shown
    <2>8. Shown(y) = Append(Shown(front), ShownOf(e))
      BY <1>3, ShownAppend DEF y
    <2> QED
      BY <2>7, <2>8 DEF x
  <1> QED
    BY <1>4, <1>5

-----------------------------------------------------------------------------
(* Only the beginning of a block adds one *)

HasBlocks(c, b) == "blocks" \in DOMAIN c /\ c.blocks = b

LEMMA BlocksStay ==
  ASSUME NEW c, NEW b, HasBlocks(c, b), NEW i, NEW t
  PROVE  /\ HasBlocks(Starts(c), b) /\ HasBlocks(Takes(c, i, t), b)
         /\ HasBlocks(TakesArgs(c, i, t), b) /\ HasBlocks(Signs(c, i), b)
         /\ HasBlocks(Closes(c, i), b) /\ HasBlocks(Ends(c, t), b)
  BY DEF HasBlocks, Starts, Takes, TakesArgs, Signs, Closes, Ends

LEMMA BlocksAdded ==
  ASSUME NEW c, NEW b, HasBlocks(c, b), NEW i, NEW t, NEW o
  PROVE  /\ HasBlocks(Opens(c, i, t), Append(b, t))
         /\ HasBlocks(OpensCall(c, i, o), Append(b, "tool_use"))
  <1>1. \A x : HasBlocks(Opens(c, i, x), Append(b, x))
    BY DEF HasBlocks, Opens
  <1> QED
    BY <1>1 DEF HasBlocks, OpensCall

LEMMA BlocksClosed ==
  ASSUME NEW c, NEW b, HasBlocks(c, b), NEW s
  PROVE  HasBlocks(ResClosed(s, c).c, b)
  <1>1. HasBlocks(IF s.type = "thinking" /\ s.signature THEN Signs(c, s.index) ELSE c, b)
    BY BlocksStay
  <1> DEFINE d == IF s.type = "thinking" /\ s.signature THEN Signs(c, s.index) ELSE c
  <1>2. HasBlocks(d, b)
    BY <1>1
  <1>3. ResClosed(s, c).c = IF ~s.open THEN c ELSE Closes(d, s.index)
    BY DEF ResClosed
  <1> HIDE DEF d
  <1> QED
    BY <1>2, <1>3, BlocksStay

LEMMA BlocksOpened ==
  ASSUME NEW p, NEW b, HasBlocks(p.c, b), NEW t
  PROVE  HasBlocks(ResOpened(p, t).c, Append(b, t))
  BY BlocksAdded DEF ResOpened

LEMMA BlocksSearched ==
  ASSUME NEW p, NEW b, HasBlocks(p.c, b)
  PROVE  HasBlocks(ResSearched(p).c,
                   Append(Append(b, "server_tool_use"), "web_search_tool_result"))
  <1> DEFINE i == p.s.index
             call == Closes(Opens(p.c, i, "server_tool_use"), i)
  <1>1. HasBlocks(call, Append(b, "server_tool_use"))
    BY BlocksAdded, BlocksStay
  <1>2. ResSearched(p).c = Closes(Opens(call, i + 1, "web_search_tool_result"), i + 1)
    BY DEF ResSearched
  <1> HIDE DEF call
  <1> QED
    BY <1>1, <1>2, BlocksAdded, BlocksStay

LEMMA BlocksStopped ==
  ASSUME NEW c, NEW b, HasBlocks(c, b), NEW s, NEW reason
  PROVE  HasBlocks(ResStopped(s, c, reason).c, b)
  BY BlocksClosed, BlocksStay DEF ResStopped

\* The search at work is not done.
SearchWaits ==
  antUp.kind = "responses" /\ antUp.at \in {"in", "part"} /\ Item = "search"
    => antUp.output[Out].parts = 0

LEMMA BlocksHeld ==
  ASSUME AntInv
  PROVE  /\ HasBlocks(antSeen, antSeen.blocks) /\ antUp.output \in Seq(AntEntry)
         /\ antUp \in AntUps
  BY DEF AntInv, AntTyped, AntClients, HasBlocks, AntUps, AntEntry

LEMMA BlocksSame ==
  ASSUME BlocksShown, antUp.kind = "responses", antUp'.output = antUp.output,
         HasBlocks(antSeen', antSeen.blocks)
  PROVE  BlocksShown'
  BY DEF BlocksShown, HasBlocks

LEMMA BlocksQuiet ==
  ASSUME AntInv, BlocksShown, antUp.kind = "responses",
         \/ ResCreated \/ ResTextDone \/ ResReasoning \/ ResFinalize
         \/ \E last \in BOOLEAN : ResArgs(last)
         \/ \E given \in 0 .. AntPieces, whole \in BOOLEAN : ResArgsDone(given, whole)
         \/ \E st \in {"completed", "max_output", "incomplete", "failed", "bare"} :
              ResCompleted(st)
  PROVE  BlocksShown'
  <1>1. /\ HasBlocks(antSeen, antSeen.blocks) /\ antUp \in AntUps
    BY BlocksHeld
  <1>2. \A s : HasBlocks(ResClosed(s, antSeen).c, antSeen.blocks)
    BY <1>1, BlocksClosed
  <1>3. \A i, n : HasBlocks(TakesArgs(antSeen, i, n), antSeen.blocks)
    BY <1>1, BlocksStay
  <1>4. \A s, i, n : HasBlocks(ResClosed(s, TakesArgs(antSeen, i, n)).c, antSeen.blocks)
    BY <1>3, BlocksClosed
  <1>5. \A s, r : HasBlocks(ResStopped(s, antSeen, r).c, antSeen.blocks)
    BY <1>1, BlocksStopped
  <1>6. CASE ResCreated
    <2>1. antUp'.output = antUp.output
      BY <1>1, <1>6 DEF ResCreated, AntUps
    <2>2. antSeen' = Starts(antSeen)
      BY <1>6 DEF ResCreated, ResTo
    <2> QED
      BY <1>1, <2>1, <2>2, BlocksStay, BlocksSame
  <1>7. CASE ResTextDone
    <2>1. antUp'.output = antUp.output
      BY <1>1, <1>7 DEF ResTextDone, AntUps
    <2>2. antSeen' = ResClosed(antRes, antSeen).c
      BY <1>7 DEF ResTextDone, ResTo
    <2> QED
      BY <1>2, <2>1, <2>2, BlocksSame
  <1>8. CASE ResReasoning
    BY <1>1, <1>8, ResReasoningKeeps, BlocksSame
  <1>9. CASE ResFinalize
    <2>1. antUp'.output = antUp.output
      BY <1>1, <1>9 DEF ResFinalize, AntUps
    <2>2. antSeen' = antSeen \/ \E r : antSeen' = ResStopped(antRes, antSeen, r).c
      BY <1>9 DEF ResFinalize, ResTo
    <2> QED
      BY <1>1, <1>5, <2>1, <2>2, BlocksSame
  <1>10. ASSUME NEW last \in BOOLEAN, ResArgs(last) PROVE BlocksShown'
    <2>1. antUp'.output = antUp.output
      BY <1>1, <1>10 DEF ResArgs, AntUps
    <2>2. antSeen' = antSeen \/ \E i, n : antSeen' = TakesArgs(antSeen, i, n)
      BY <1>10 DEF ResArgs, ResTo
    <2> QED
      BY <1>1, <1>3, <2>1, <2>2, BlocksSame
  <1>11. ASSUME NEW given \in 0 .. AntPieces, NEW whole \in BOOLEAN, ResArgsDone(given, whole)
         PROVE  BlocksShown'
    <2>1. antUp'.output = antUp.output
      BY <1>1, <1>11 DEF ResArgsDone, AntUps
    <2>2. \/ antSeen' = antSeen \/ antSeen' = ResClosed(antRes, antSeen).c
          \/ \E i, n : antSeen' = ResClosed(antRes, TakesArgs(antSeen, i, n)).c
      BY <1>11 DEF ResArgsDone, ResTo
    <2> QED
      BY <1>1, <1>2, <1>4, <2>1, <2>2, BlocksSame
  <1>12. ASSUME NEW st, ResCompleted(st) PROVE BlocksShown'
    <2>1. antUp'.output = antUp.output
      BY <1>1, <1>12 DEF ResCompleted, AntUps
    <2>2. antSeen' = antSeen \/ \E r : antSeen' = ResStopped(antRes, antSeen, r).c
      BY <1>12 DEF ResCompleted, ResTo
    <2> QED
      BY <1>1, <1>5, <2>1, <2>2, BlocksSame
  <1> QED
    BY <1>6, <1>7, <1>8, <1>9, <1>10, <1>11, <1>12

\* An item at its beginning has the blocks of its first event.
LEMMA BlocksOfAdded ==
  ASSUME AntInv, BlocksShown, antUp.kind = "responses", NEW item \in AntItems,
         NEW signed \in BOOLEAN, NEW read \in BOOLEAN, ResAdded(item, signed, read)
  PROVE  BlocksShown'
  <1> DEFINE e == [item |-> item, parts |-> 0]
             b == antSeen.blocks
  <1>1. /\ HasBlocks(antSeen, b) /\ antUp \in AntUps /\ antUp.output \in Seq(AntEntry)
        /\ e \in AntEntry
    BY BlocksHeld DEF AntEntry
  <1>2. antUp'.output = Append(antUp.output, e)
    BY <1>1 DEF ResAdded, AntUps
  <1>3. Shown(antUp') = Shown(antUp') /\ b \in Seq(AntKinds)
    BY DEF AntInv, AntTyped, AntClients
  <1>4. FlattenSeq(Shown(antUp'.output)) = b \o ShownOf(e)
    <2>1. Shown(antUp.output) \in Seq(Seq(AntKinds)) /\ ShownOf(e) \in Seq(AntKinds)
      BY <1>1, ShownTyped, ShownOfTyped
    <2>2. Shown(antUp'.output) = Append(Shown(antUp.output), ShownOf(e))
      BY <1>1, <1>2, ShownAppend
    <2>3. b = FlattenSeq(Shown(antUp.output))
      BY DEF BlocksShown
    <2> HIDE DEF b, e
    <2> QED
      BY <2>1, <2>2, <2>3, FlattenAppend
  <1>5. ~antRes.open
    BY DEF AntInv, ResInv, ResBlock, ResAdded, ResAt
  <1>6. \A t : HasBlocks(ResOpened(ResClosed(antRes, antSeen), t).c, Append(b, t))
    BY <1>1, BlocksClosed, BlocksOpened
  <1>7. CASE item = "function"
    <2>1. antSeen' = ResOpened(ResClosed(antRes, antSeen), "tool_use").c
      <3>1. antSeen' = [ResOpened(ResClosed(antRes, antSeen), "tool_use")
                          EXCEPT !.s = antRes'].c
        BY <1>7 DEF ResAdded, ResTo
      <3> QED
        BY <3>1 DEF ResOpened
    <2>2. ShownOf(e) = <<"tool_use">>
      BY <1>7 DEF ShownOf, BlocksOf
    <2>3. b \o <<"tool_use">> = Append(b, "tool_use")
      BY <1>3, AppendIsConcat DEF AntKinds
    <2> QED
      BY <1>4, <1>6, <2>1, <2>2, <2>3 DEF BlocksShown, HasBlocks
  <1>8. CASE item = "reasoning"
    <2>1. antSeen' = ResOpened(ResClosed(antRes, antSeen), "thinking").c
      <3>1. antSeen' = [ResOpened(ResClosed(antRes, antSeen), "thinking")
                          EXCEPT !.s = antRes'].c
        BY <1>8 DEF ResAdded, ResTo
      <3> QED
        BY <3>1 DEF ResOpened
    <2>2. ShownOf(e) = <<"thinking">>
      BY <1>8 DEF ShownOf, BlocksOf
    <2>3. b \o <<"thinking">> = Append(b, "thinking")
      BY <1>3, AppendIsConcat DEF AntKinds
    <2> QED
      BY <1>4, <1>6, <2>1, <2>2, <2>3 DEF BlocksShown, HasBlocks
  <1>9. CASE item \in {"message", "search"}
    <2>1. antSeen' = antSeen
      BY <1>9 DEF ResAdded
    <2>2. ShownOf(e) = <<>>
      <3>1. [k \in 1 .. 0 |-> "text"] = <<>>
        OBVIOUS
      <3> QED
        BY <1>9, <3>1 DEF ShownOf, BlocksOf
    <2>3. b \o <<>> = b
      BY <1>3, ConcatEmptySeq
    <2> QED
      BY <1>4, <2>1, <2>2, <2>3 DEF BlocksShown
  <1> QED
    BY <1>7, <1>8, <1>9 DEF AntItems

\* Of the item at work the blocks x have been added.
LEMMA BlocksGrow ==
  ASSUME AntInv, BlocksShown, antUp.kind = "responses", Out > 0, NEW n \in Nat,
         antUp' = [antUp EXCEPT !.at = antUp'.at, !.signed = antUp'.signed,
                                !.output[Out].parts = n],
         NEW x \in Seq(AntKinds), HasBlocks(antSeen', antSeen.blocks \o x),
         ShownOf([antUp.output[Out] EXCEPT !.parts = n]) = ShownOf(antUp.output[Out]) \o x
  PROVE  BlocksShown'
  <1> DEFINE e == antUp.output[Out]
             f == [antUp.output[Out] EXCEPT !.parts = n]
  <1>1. /\ antUp \in AntUps /\ antUp.output \in Seq(AntEntry) /\ Len(antUp.output) = Out
        /\ Out \in 1 .. Len(antUp.output) /\ e \in AntEntry
    BY BlocksHeld, AntOutputFacts DEF Out, AntInv
  <1>2. f \in AntEntry
    BY <1>1 DEF AntEntry
  <1>3. antUp'.output = [antUp.output EXCEPT ![Out] = f]
    BY <1>1 DEF AntUps
  <1>4. PICK m \in Seq(Seq(AntKinds)) : \A y \in AntEntry :
               Shown([antUp.output EXCEPT ![Out] = y]) = Append(m, ShownOf(y))
    BY <1>1, ShownLast DEF Out
  <1>5. [antUp.output EXCEPT ![Out] = e] = antUp.output
    BY <1>1, LenProperties
  <1>6. ShownOf(e) \in Seq(AntKinds) /\ ShownOf(f) \in Seq(AntKinds)
    BY <1>1, <1>2, ShownOfTyped
  <1>7. Shown(antUp.output) = Append(m, ShownOf(e)) /\ Shown(antUp'.output) = Append(m, ShownOf(f))
    BY <1>1, <1>2, <1>3, <1>4, <1>5
  <1>8. ShownOf(f) = ShownOf(e) \o x
    OBVIOUS
  <1> HIDE DEF e, f
  <1>9. /\ FlattenSeq(Shown(antUp.output)) = FlattenSeq(m) \o ShownOf(e)
        /\ FlattenSeq(Shown(antUp'.output)) = FlattenSeq(m) \o ShownOf(f)
    BY <1>6, <1>7, FlattenAppend
  <1>10. FlattenSeq(m) \in Seq(AntKinds)
    BY FlattenTyped
  <1>11. FlattenSeq(m) \o (ShownOf(e) \o x) = (FlattenSeq(m) \o ShownOf(e)) \o x
    <2> DEFINE y == FlattenSeq(m)
               z == ShownOf(e)
    <2>1. y \in Seq(AntKinds) /\ z \in Seq(AntKinds) /\ x \in Seq(AntKinds)
      BY <1>6, <1>10
    <2> HIDE DEF y, z
    <2>2. Associates(y, z, x)
      BY <2>1, KindsAssociate, Zenon
    <2> QED
      BY <2>2 DEF Associates, y, z
  <1>12. antSeen.blocks = FlattenSeq(m) \o ShownOf(e)
    BY <1>9 DEF BlocksShown
  <1> QED
    BY <1>8, <1>9, <1>11, <1>12 DEF BlocksShown, HasBlocks

\* A text of a message that begins adds its block.
LEMMA BlocksOfText ==
  ASSUME AntInv, BlocksShown, antUp.kind = "responses", ResText
  PROVE  BlocksShown'
  <1> DEFINE b == antSeen.blocks
             e == antUp.output[Out]
  <1>1. /\ HasBlocks(antSeen, b) /\ antUp \in AntUps /\ b \in Seq(AntKinds)
    BY BlocksHeld DEF AntInv, AntTyped, AntClients
  <1>2. antUp.at \in {"in", "part"} /\ Item = "message" /\ Out > 0
    BY DEF ResText, ResAt, AntInv, ResInv, ResPlaces
  <1>3. e \in AntEntry /\ e.item = "message" /\ e.parts \in Nat
    BY <1>2, AntOutputFacts DEF AntInv, AntEntry, Item
  <1>4. CASE antUp.at = "part"
    <2>1. antRes.open /\ antRes.type = "text"
      BY <1>4 DEF AntInv, ResInv, ResBlock
    <2>2. antSeen' = Takes(antSeen, antRes.index, "text")
      BY <2>1 DEF ResText, ResTo
    <2>3. antUp' = [antUp EXCEPT !.at = "part", !.output[Out].parts = e.parts]
      BY <1>4 DEF ResText
    <2>4. [antUp.output EXCEPT ![Out].parts = e.parts] = antUp.output
      <3>1. antUp.output \in Seq(AntEntry)
        BY BlocksHeld
      <3>2. [e EXCEPT !.parts = e.parts] = e
        BY <1>3 DEF AntEntry
      <3>3. [antUp.output EXCEPT ![Out] = e] = antUp.output
        BY <3>1, LenProperties
      <3> QED
        BY <3>2, <3>3
    <2>5. antUp'.output = antUp.output
      BY <1>1, <2>3, <2>4 DEF AntUps
    <2> QED
      BY <1>1, <2>2, <2>5, BlocksStay, BlocksSame
  <1>5. CASE antUp.at = "in"
    <2> DEFINE n == e.parts + 1
               p == ResOpened(ResClosed(antRes, antSeen), "text")
    <2>1. ~antRes.open
      BY <1>2, <1>5 DEF AntInv, ResInv, ResBlock
    <2>2. antSeen' = Takes(p.c, p.s.index, "text")
      <3>1. antSeen' = [p EXCEPT !.c = Takes(@, p.s.index, "text")].c
        BY <2>1 DEF ResText, ResTo
      <3> QED
        BY <3>1 DEF ResOpened
    <2>3. HasBlocks(antSeen', Append(b, "text"))
      <3>1. HasBlocks(p.c, Append(b, "text"))
        BY <1>1, BlocksClosed, BlocksOpened
      <3> HIDE DEF p
      <3> QED
        BY <2>2, <3>1, BlocksStay
    <2>4. <<"text">> \in Seq(AntKinds) /\ "text" \in AntKinds
      BY DEF AntKinds
    <2>5. Append(b, "text") = b \o <<"text">>
      BY <1>1, <2>4, AppendIsConcat
    <2>6. ShownOf([e EXCEPT !.parts = n]) = ShownOf(e) \o <<"text">>
      <3> DEFINE x == [k \in 1 .. e.parts |-> "text"]
                 y == [k \in 1 .. n |-> "text"]
      <3>1. [e EXCEPT !.parts = n].item = "message" /\ [e EXCEPT !.parts = n].parts = n
        BY <1>3 DEF AntEntry
      <3>2. ShownOf(e) = x /\ ShownOf([e EXCEPT !.parts = n]) = y
        BY <1>3, <3>1 DEF ShownOf, BlocksOf
      <3> HIDE DEF e
      <3>3. x \in Seq(AntKinds) /\ y \in Seq(AntKinds) /\ Len(x) = e.parts /\ Len(y) = n
        BY <1>3, <2>4, SeqDef
      <3>4. /\ Append(x, "text") \in Seq(AntKinds) /\ Len(Append(x, "text")) = n
            /\ Append(x, "text")[n] = "text"
            /\ \A k \in 1 .. e.parts : Append(x, "text")[k] = "text"
        <4>1. /\ Append(x, "text") \in Seq(AntKinds)
              /\ Len(Append(x, "text")) = e.parts + 1
              /\ Append(x, "text")[e.parts + 1] = "text"
              /\ \A k \in 1 .. e.parts : Append(x, "text")[k] = x[k]
          <5> HIDE DEF x
          <5> QED
            BY <2>4, <3>3, AppendProperties
        <4> QED
          BY <4>1
      <3>5. \A k \in 1 .. n : (k \in 1 .. e.parts \/ k = n) /\ y[k] = "text"
        BY <1>3
      <3>6. \A k \in 1 .. n : Append(x, "text")[k] = y[k]
        BY <3>4, <3>5
      <3>7. y = Append(x, "text")
        BY <3>3, <3>4, <3>6, SeqEqual
      <3>8. Append(x, "text") = x \o <<"text">>
        BY <2>4, <3>3, AppendIsConcat
      <3> QED
        BY <3>2, <3>7, <3>8
    <2>7. n \in Nat
      BY <1>3
    <2>8. antUp' = [antUp EXCEPT !.at = antUp'.at, !.signed = antUp'.signed,
                                 !.output[Out].parts = n]
      <3>1. antUp' = [antUp EXCEPT !.at = "part", !.output[Out].parts = n]
        BY <1>5 DEF ResText
      <3> HIDE DEF n
      <3> QED
        BY <1>1, <3>1 DEF AntUps
    <2> QED
      BY <1>2, <2>3, <2>4, <2>5, <2>6, <2>7, <2>8, BlocksGrow
  <1> QED
    BY <1>2, <1>4, <1>5

\* A search that is done adds its two blocks, any other item none.
LEMMA BlocksOfDone ==
  ASSUME AntInv, BlocksShown, SearchWaits, antUp.kind = "responses", NEW signed \in BOOLEAN,
         NEW completed \in BOOLEAN, Out > 0, ResItemDone(signed, completed)
  PROVE  BlocksShown'
  <1> DEFINE b == antSeen.blocks
             e == antUp.output[Out]
             n == IF Item = "search" /\ completed THEN 1 ELSE e.parts
             both == <<"server_tool_use", "web_search_tool_result">>
  <1>1. /\ HasBlocks(antSeen, b) /\ antUp \in AntUps /\ b \in Seq(AntKinds)
    BY BlocksHeld DEF AntInv, AntTyped, AntClients
  <1>2. e \in AntEntry /\ e.item = Item /\ e.parts \in Nat
    BY AntOutputFacts DEF AntInv, AntEntry, Item
  <1>3. n \in Nat
    BY <1>2
  <1>4. antUp' = [antUp EXCEPT !.at = antUp'.at, !.signed = antUp'.signed,
                               !.output[Out].parts = n]
    <2>1. antUp' = [antUp EXCEPT !.at = "between", !.signed = antUp.signed \/ signed,
                                 !.output[Out].parts = n]
      BY DEF ResItemDone
    <2> HIDE DEF n
    <2> QED
      BY <1>1, <2>1 DEF AntUps
  <1>5. CASE Item = "search" /\ completed
    <2>1. antSeen' = ResSearched(ResClosed(antRes, antSeen)).c
      BY <1>5 DEF ResItemDone, ResTo
    <2>2. HasBlocks(antSeen', Append(Append(b, "server_tool_use"), "web_search_tool_result"))
      BY <1>1, <2>1, BlocksClosed, BlocksSearched
    <2>3. Append(Append(b, "server_tool_use"), "web_search_tool_result") = b \o both
      BY <1>1 DEF AntKinds
    <2>4. both \in Seq(AntKinds)
      BY DEF AntKinds
    <2>5. e.parts = 0
      BY <1>5 DEF SearchWaits, ResItemDone, ResAt
    <2>6. ShownOf([e EXCEPT !.parts = n]) = ShownOf(e) \o both
      <3>1. [e EXCEPT !.parts = n].item = "search" /\ [e EXCEPT !.parts = n].parts = 1
        BY <1>2, <1>5 DEF AntEntry
      <3>2. ShownOf(e) = <<>> /\ ShownOf([e EXCEPT !.parts = n]) = both
        BY <1>2, <1>5, <2>5, <3>1 DEF ShownOf, BlocksOf
      <3> QED
        BY <2>4, <3>2, ConcatEmptySeq
    <2> QED
      BY <1>3, <1>4, <2>2, <2>3, <2>4, <2>6, BlocksGrow
  <1>6. CASE ~(Item = "search" /\ completed)
    <2>1. \E s : antSeen' = ResClosed(s, antSeen).c
      BY <1>6 DEF ResItemDone, ResTo
    <2>2. HasBlocks(antSeen', b)
      BY <1>1, <2>1, BlocksClosed
    <2>3. [antUp.output EXCEPT ![Out].parts = e.parts] = antUp.output
      <3>1. antUp.output \in Seq(AntEntry)
        BY BlocksHeld
      <3>2. [e EXCEPT !.parts = e.parts] = e
        BY <1>2 DEF AntEntry
      <3>3. [antUp.output EXCEPT ![Out] = e] = antUp.output
        BY <3>1, LenProperties
      <3> QED
        BY <3>2, <3>3
    <2>4. antUp'.output = antUp.output
      BY <1>1, <1>4, <1>6, <2>3 DEF AntUps
    <2> QED
      BY <2>2, <2>4, BlocksSame
  <1> QED
    BY <1>5, <1>6
LEMMA SearchStillWaits ==
  ASSUME AntInv, SearchWaits, antUp.kind = "responses", ResNext
  PROVE  SearchWaits'
  <1>1. antUp \in AntUps /\ antUp.output \in Seq(AntEntry)
    BY BlocksHeld
  <1>2. ASSUME antUp' = [antUp EXCEPT !.at = antUp'.at], antUp'.at \notin {"in", "part"}
        PROVE  SearchWaits'
    BY <1>2 DEF SearchWaits
  <1>3. ASSUME antUp'.at \notin {"in", "part"} PROVE SearchWaits'
    BY <1>3 DEF SearchWaits
  <1>4. ASSUME Item # "search", antUp'.output = antUp.output PROVE SearchWaits'
    BY <1>4 DEF SearchWaits, Item, Out
  <1>5. CASE ResCreated \/ ResFinalize
    BY <1>1, <1>3, <1>5 DEF ResCreated, ResFinalize, AntUps
  <1>6. CASE ResTextDone
    <2>1. Item = "message" /\ antUp'.output = antUp.output
      BY <1>1, <1>6 DEF ResTextDone, ResAt, AntInv, ResInv, ResPlaces, AntUps
    <2> QED
      BY <1>4, <2>1
  <1>7. CASE ResReasoning
    <2>1. Item = "reasoning" /\ antUp'.output = antUp.output
      BY <1>7 DEF ResReasoning
    <2> QED
      BY <1>4, <2>1
  <1>8. CASE ResText
    <2>1. Out > 0 /\ Item = "message"
      BY <1>8 DEF ResText, ResAt, AntInv, ResInv, ResPlaces
    <2> DEFINE n == IF antUp.at = "in" THEN antUp.output[Out].parts + 1
                    ELSE antUp.output[Out].parts
               f == [antUp.output EXCEPT ![Out].parts = n]
    <2>2. antUp'.output = f
      BY <1>1, <1>8 DEF ResText, AntUps
    <2>3. n \in Nat
      BY <2>1, AntOutputFacts DEF AntInv, AntEntry
    <2> HIDE DEF n
    <2>4. Len(f) = Out /\ f[Out].item = "message"
      BY <2>1, <2>3, AntPartsChange DEF AntInv
    <2> HIDE DEF f
    <2>5. Item' = "message"
      BY <2>2, <2>4 DEF Item, Out
    <2> QED
      BY <2>5 DEF SearchWaits
  <1>9. ASSUME NEW item, NEW signed, NEW read, ResAdded(item, signed, read),
               item \in AntItems
        PROVE  SearchWaits'
    <2> DEFINE e == [item |-> item, parts |-> 0]
    <2>1. antUp'.output = Append(antUp.output, e) /\ e \in AntEntry
      BY <1>1, <1>9 DEF ResAdded, AntUps, AntEntry
    <2>2. antUp'.output[Out'] = e
      BY <1>1, <2>1, AppendProperties DEF Out
    <2> QED
      BY <2>2 DEF SearchWaits
  <1>10. ASSUME NEW last, ResArgs(last) PROVE SearchWaits'
    <2>1. Item = "function" /\ antUp'.output = antUp.output
      BY <1>1, <1>10 DEF ResArgs, AntUps
    <2> QED
      BY <1>4, <2>1
  <1>11. ASSUME NEW given, NEW whole, ResArgsDone(given, whole) PROVE SearchWaits'
    BY <1>1, <1>3, <1>11 DEF ResArgsDone, AntUps
  <1>12. ASSUME NEW b, NEW d, ResItemDone(b, d) PROVE SearchWaits'
    BY <1>1, <1>3, <1>12 DEF ResItemDone, AntUps
  <1>13. ASSUME NEW st, ResCompleted(st) PROVE SearchWaits'
    BY <1>1, <1>3, <1>13 DEF ResCompleted, AntUps
  <1> QED
    BY <1>5, <1>6, <1>7, <1>8, <1>9, <1>10, <1>11, <1>12, <1>13 DEF ResNext, AntItems

\* The stronger invariant.
AntShown == AntInv /\ BlocksShown /\ SearchWaits

LEMMA ShownStarts == AntInit => AntShown
  <1> SUFFICES ASSUME AntInit PROVE AntShown
    OBVIOUS
  <1>1. antUp.output = <<>> /\ antUp.at = "new" /\ antSeen.blocks = <<>>
    BY DEF AntInit
  <1>2. Shown(<<>>) \in Seq(Seq(AntKinds)) /\ Len(Shown(<<>>)) = 0
    BY ShownTyped, EmptySeq
  <1>3. FlattenSeq(Shown(<<>>)) = <<>>
    BY <1>2, EmptySeq DEF FlattenSeq
  <1>4. BlocksShown /\ SearchWaits
    BY <1>1, <1>3 DEF BlocksShown, SearchWaits
  <1> QED
    BY <1>4, AntStarts DEF AntShown

LEMMA ShownStays == AntShown /\ [AntNext]_antVars => AntShown'
  <1> SUFFICES ASSUME AntShown, [AntNext]_antVars PROVE AntShown'
    OBVIOUS
  <1>1. AntInv /\ BlocksShown /\ SearchWaits /\ AntInv'
    BY AntStays DEF AntShown
  <1>2. CASE ResNext
    <2>1. antUp.kind = "responses"
      BY <1>2 DEF ResNext, ResCreated, ResText, ResTextDone, ResReasoning, ResFinalize,
                  ResAdded, ResArgs, ResArgsDone, ResItemDone, ResCompleted, ResAt
    <2>2. SearchWaits'
      BY <1>1, <1>2, <2>1, SearchStillWaits
    <2>3. ASSUME NEW item \in AntItems, NEW signed \in BOOLEAN, NEW read \in BOOLEAN,
                 ResAdded(item, signed, read)
          PROVE  BlocksShown'
      BY <1>1, <2>1, <2>3, BlocksOfAdded
    <2>4. ASSUME NEW signed \in BOOLEAN, NEW completed \in BOOLEAN,
                 Out > 0, ResItemDone(signed, completed)
          PROVE  BlocksShown'
      BY <1>1, <2>1, <2>4, BlocksOfDone
    <2>5. ResText => BlocksShown'
      BY <1>1, <2>1, BlocksOfText
    <2>6. BlocksShown'
      BY <1>1, <1>2, <2>1, <2>3, <2>4, <2>5, BlocksQuiet DEF ResNext, AntItems
    <2> QED
      BY <1>1, <2>2, <2>6 DEF AntShown
  <1>3. CASE ChatNext
    <2>1. antUp \in AntUps
      BY <1>1, BlocksHeld
    <2>2. ASSUME NEW t, ChatText(t) PROVE antUp'.kind = "chat"
      BY <2>1, <2>2 DEF ChatText, ChatOpen, AntUps
    <2>3. ASSUME NEW o, NEW named, NEW piece, ChatTool(o, named, piece)
          PROVE  antUp'.kind = "chat"
      BY <2>1, <2>3 DEF ChatTool, ChatOpen, AntUps
    <2>4. ASSUME NEW reason, ChatFinish(reason) PROVE antUp'.kind = "chat"
      BY <2>1, <2>4 DEF ChatFinish, ChatOpen, AntUps
    <2>5. ChatFinalizeTool \/ ChatFinalize => antUp'.kind = "chat"
      BY <2>1 DEF ChatFinalizeTool, ChatFinalize, AntUps
    <2>6. antUp'.kind = "chat"
      BY <1>3, <2>2, <2>3, <2>4, <2>5 DEF ChatNext
    <2> QED
      BY <1>1, <2>6 DEF AntShown, BlocksShown, SearchWaits
  <1>4. CASE UNCHANGED antVars
    BY <1>1, <1>4 DEF antVars, AntShown, BlocksShown, SearchWaits, Item, Out
  <1> QED
    BY <1>2, <1>3, <1>4 DEF AntNext

LEMMA ShownGivesSame == AntShown => SameBlocks
  <1> SUFFICES ASSUME AntShown, ResAt({"ended"}),
                      \A k \in DOMAIN antUp.output :
                         antUp.output[k].item = "search" => antUp.output[k].parts = 1
               PROVE  \/ antSeen.blocks = ResBlocks(antUp.output)
                      \/ antSeen.blocks = <<>> /\ ResBlocks(antUp.output) = <<"text">>
    BY DEF SameBlocks
  <1>1. antSeen.blocks = FlattenSeq(Shown(antUp.output))
    BY DEF AntShown, BlocksShown, ResAt
  <1>2. Shown(antUp.output) = [k \in DOMAIN antUp.output |-> BlocksOf(antUp.output[k])]
    BY DEF Shown, ShownOf
  <1> QED
    BY <1>1, <1>2 DEF ResBlocks

\* Whatever an upstream sends and wherever it breaks off, an Anthropic client can
\* place all it is sent, is told of one end, has a block for every call, and holds
\* every piece of the arguments that has been settled, once and with its call; and
\* an answer that was finished has the blocks it has when it is read whole.
THEOREM ClientStreamsFit == AntSpec => []ClientStreamFits
  <1>1. AntSpec => []AntInv
    BY AntStarts, AntStays, PTL DEF AntSpec
  <1>2. AntSpec => []AntShown
    BY ShownStarts, ShownStays, PTL DEF AntSpec
  <1>3. AntInv /\ AntShown => ClientStreamFits
    BY AntClientFits, ShownGivesSame DEF ClientStreamFits, StreamFits
  <1> QED
    BY <1>1, <1>2, <1>3, PTL

-----------------------------------------------------------------------------
(* Tools of the client                                                     *)

LEMMA CtTypeKept == ASSUME CtTypeOK, [CtNext]_ctVars PROVE CtTypeOK'
BY DEF CtTypeOK, CtNext, CtDeclare, ctVars

\* The four sorts of calls a client can make, told apart by their fields.
PlainCall(c) == c = ClientCall("function_call", <<>>, c.name) /\ c.name \in NamesOf("function")
CustomCall(c) == c = ClientCall("custom_tool_call", <<>>, c.name) /\ c.name \in NamesOf("custom")
SearchCall(c) == c = ClientCall("tool_search_call", <<>>, <<>>) /\ Search
SpacedCall(c) == /\ c = ClientCall("function_call", c.space, c.name)
                 /\ c.space \in CtSpaces /\ c.name \in CtNames

LEMMA CallSorts ==
  ASSUME CtTypeOK, NEW c \in Callable
  PROVE PlainCall(c) \/ CustomCall(c) \/ SearchCall(c) \/ SpacedCall(c)
<1>1. PICK t \in ToSet(ctTools) : c \in CallsOf(t)
  BY DEF Callable
<1>2. t \in Declared
  BY DEF CtTypeOK, ToSet
<1>3. CASE t.type = "function"
  BY <1>1, <1>3 DEF CallsOf, PlainCall, ClientCall, NamesOf
<1>4. CASE t.type = "custom"
  BY <1>1, <1>4 DEF CallsOf, CustomCall, ClientCall, NamesOf
<1>5. CASE t.type = "tool_search"
  BY <1>1, <1>5 DEF CallsOf, SearchCall, ClientCall, NamesOf, Search
<1>6. CASE t.type = "namespace"
  <2>1. t.name \in CtSpaces /\ t.children \subseteq CtNames
    BY <1>2, <1>6 DEF Declared
  <2>2. QED
    BY <1>1, <1>6, <2>1 DEF CallsOf, SpacedCall, ClientCall
<1>7. CASE t.type = "web_search"
  BY <1>1, <1>7 DEF CallsOf
<1>8. QED
  BY <1>2, <1>3, <1>4, <1>5, <1>6, <1>7 DEF Declared

LEMMA DeclaredCalls ==
  ASSUME CtTypeOK
  PROVE  /\ \A n \in NamesOf("function") : ClientCall("function_call", <<>>, n) \in Callable
         /\ \A n \in NamesOf("custom") : ClientCall("custom_tool_call", <<>>, n) \in Callable
         /\ Search => ClientCall("tool_search_call", <<>>, <<>>) \in Callable
<1>1. \A n \in NamesOf("function") : ClientCall("function_call", <<>>, n) \in Callable
  BY DEF Callable, NamesOf, CallsOf
<1>2. \A n \in NamesOf("custom") : ClientCall("custom_tool_call", <<>>, n) \in Callable
  BY DEF Callable, NamesOf, CallsOf
<1>3. Search => ClientCall("tool_search_call", <<>>, <<>>) \in Callable
  BY DEF Callable, NamesOf, CallsOf, Search
<1>4. QED
  BY <1>1, <1>2, <1>3

\* A flattened name has three parts at least, that of the search one.
LEMMA FlatIsNotProxy ==
  ASSUME NEW s \in CtSpaces, NEW n \in CtNames
  PROVE  Flat(s, n) # Proxy
<1> DEFINE Parts == STRING \cup {"__"}
           bar == <<"__">>
<1>1. s \in Seq(STRING) /\ n \in Seq(STRING) /\ s # <<>> /\ n # <<>>
  BY ClientToolsAssumption
<1>2. s \in Seq(Parts) /\ n \in Seq(Parts) /\ bar \in Seq(Parts)
  BY <1>1
<1>3. Len(Proxy) = 1
  BY DEF Proxy
<1>4. Flat(s, n) = (s \o bar) \o n
  BY DEF Flat
<1> HIDE DEF Parts, bar
<1>5. s \o bar \in Seq(Parts) /\ Len(s \o bar) = Len(s) + Len(bar)
  BY <1>2, ConcatProperties
<1>6. Len(Flat(s, n)) = Len(s) + Len(bar) + Len(n)
  BY <1>2, <1>4, <1>5, ConcatProperties
<1>7. Len(s) \in Nat \ {0} /\ Len(n) \in Nat \ {0} /\ Len(bar) \in Nat
  BY <1>1, <1>2, EmptySeq, LenProperties
<1>8. \A a, b, c \in Nat : a # 0 /\ c # 0 => a + b + c # 1
  OBVIOUS
<1>9. Len(Flat(s, n)) # 1
  BY <1>6, <1>7, <1>8
<1>10. QED
  BY <1>3, <1>9

\* What the four sorts are lowered to, and whether they are of a namespace.
LEMMA SortsLowered ==
  ASSUME CtTypeOK, NEW c \in Callable
  PROVE  /\ PlainCall(c) \/ CustomCall(c) => c \notin Spaced /\ LoweredNames(c) = c.name
         /\ SearchCall(c) => c \notin Spaced /\ LoweredNames(c) = Proxy
         /\ SpacedCall(c) => /\ c \in Spaced /\ LoweredNames(c) = Flat(c.space, c.name)
                             /\ LoweredNames(c) # Proxy
<1>1. <<>> \notin CtSpaces
  BY ClientToolsAssumption
<1>2. SpacedCall(c) => Flat(c.space, c.name) # Proxy
  BY FlatIsNotProxy DEF SpacedCall
<1>3. QED
  BY <1>1, <1>2 DEF PlainCall, CustomCall, SearchCall, SpacedCall, Spaced, LoweredNames, ClientCall

LEMMA SpacedSort ==
  ASSUME CtTypeOK, NEW c \in Spaced
  PROVE  c \in Callable /\ SpacedCall(c)
BY CallSorts DEF Spaced, PlainCall, CustomCall, SearchCall, ClientCall

\* Two tools get one name only where a bridge would refuse them.
LEMMA ClashesAreSeen ==
  ASSUME CtTypeOK, ~ Twins, ~ SearchClash, ~ FlatClash
  PROVE  Distinct
<1> SUFFICES ASSUME NEW c \in Callable, NEW d \in Callable, c # d,
                    LoweredNames(c) = LoweredNames(d)
             PROVE  FALSE
  BY DEF Distinct
<1>1. /\ PlainCall(c) \/ CustomCall(c) \/ SearchCall(c) \/ SpacedCall(c)
      /\ PlainCall(d) \/ CustomCall(d) \/ SearchCall(d) \/ SpacedCall(d)
  BY CallSorts
<1>2. CASE (PlainCall(c) \/ CustomCall(c)) /\ (PlainCall(d) \/ CustomCall(d))
  <2>1. c.name = d.name
    BY <1>2, SortsLowered
  <2>2. QED
    BY <1>2, <2>1 DEF PlainCall, CustomCall, Twins
<1>3. CASE SearchCall(c) /\ SearchCall(d)
  BY <1>3 DEF SearchCall
<1>4. CASE SpacedCall(c) /\ SpacedCall(d)
  BY <1>4, SortsLowered DEF FlatClash
<1>5. CASE SearchCall(c) /\ ~ SearchCall(d)
  BY <1>1, <1>5, SortsLowered DEF SearchClash, TopLevel, SearchCall, PlainCall, CustomCall
<1>6. CASE SearchCall(d) /\ ~ SearchCall(c)
  BY <1>1, <1>6, SortsLowered DEF SearchClash, TopLevel, SearchCall, PlainCall, CustomCall
<1>7. CASE SpacedCall(c) /\ (PlainCall(d) \/ CustomCall(d))
  BY <1>7, SortsLowered DEF FlatClash, TopLevel, PlainCall, CustomCall
<1>8. CASE SpacedCall(d) /\ (PlainCall(c) \/ CustomCall(c))
  BY <1>8, SortsLowered DEF FlatClash, TopLevel, PlainCall, CustomCall
<1>9. QED
  BY <1>1, <1>2, <1>3, <1>4, <1>5, <1>6, <1>7, <1>8

LEMMA ClashesAreReal ==
  ASSUME CtTypeOK, Distinct
  PROVE  ~ Twins /\ ~ SearchClash /\ ~ FlatClash /\ ~ FlatSearchClash
<1>1. ~ Twins
  <2> SUFFICES ASSUME NEW n \in NamesOf("function") \cap NamesOf("custom")
               PROVE  FALSE
    BY DEF Twins
  <2> DEFINE c == ClientCall("function_call", <<>>, n)
             d == ClientCall("custom_tool_call", <<>>, n)
  <2>1. c \in Callable /\ d \in Callable
    BY DeclaredCalls
  <2>2. c # d /\ LoweredNames(c) = LoweredNames(d)
    BY DEF ClientCall, LoweredNames
  <2>3. QED
    BY <2>1, <2>2 DEF Distinct
<1>2. ~ SearchClash
  <2> SUFFICES ASSUME Search, Proxy \in TopLevel
               PROVE  FALSE
    BY DEF SearchClash
  <2> DEFINE d == ClientCall("tool_search_call", <<>>, <<>>)
  <2>1. PICK c \in Callable : c.type # "tool_search_call" /\ c.space = <<>> /\ c.name = Proxy
    BY DeclaredCalls DEF TopLevel, ClientCall
  <2>2. d \in Callable
    BY DeclaredCalls
  <2>3. c # d /\ LoweredNames(c) = LoweredNames(d)
    BY <2>1 DEF ClientCall, LoweredNames
  <2>4. QED
    BY <2>2, <2>3 DEF Distinct
<1>3. \A c \in Spaced : Flat(c.space, c.name) \notin TopLevel
  <2> SUFFICES ASSUME NEW c \in Spaced, Flat(c.space, c.name) \in TopLevel
               PROVE  FALSE
    OBVIOUS
  <2>1. PICK d \in Callable : /\ d.type # "tool_search_call" /\ d.space = <<>>
                              /\ d.name = Flat(c.space, c.name)
    BY DeclaredCalls DEF TopLevel, ClientCall
  <2>2. c \in Callable /\ c # d /\ LoweredNames(c) = Flat(c.space, c.name)
    BY <2>1, SpacedSort, SortsLowered DEF Spaced
  <2>3. LoweredNames(d) = d.name
    BY <2>1 DEF LoweredNames
  <2>4. QED
    BY <2>1, <2>2, <2>3 DEF Distinct
<1>4. \A c, d \in Spaced : c # d => Flat(c.space, c.name) # Flat(d.space, d.name)
  BY SpacedSort, SortsLowered DEF Distinct
<1>5. ~ FlatSearchClash
  BY SpacedSort, FlatIsNotProxy DEF FlatSearchClash, SpacedCall
<1>6. QED
  BY <1>1, <1>2, <1>3, <1>4, <1>5 DEF FlatClash

LEMMA RefusalsAlwaysFit == ASSUME CtTypeOK PROVE RefusalsFit
<1>1. ~ Twins /\ ~ SearchClash /\ ~ FlatClash => Distinct
  BY ClashesAreSeen
<1>2. Distinct => ~ Twins /\ ~ SearchClash /\ ~ FlatClash /\ ~ FlatSearchClash
  BY ClashesAreReal
<1>3. QED
  BY <1>1, <1>2 DEF RefusalsFit, NativeRefuses, ChatRefuses

\* Where no two tools have one name, a call is restored by its name.
LEMMA CallsComeBackByName ==
  ASSUME CtTypeOK, Distinct, NEW c \in Callable
  PROVE  RestoredCall(LoweredNames(c)) = c
<1>1. ~ Twins /\ ~ SearchClash /\ ~ FlatClash /\ ~ FlatSearchClash
  BY ClashesAreReal
<1>2. CASE PlainCall(c)
  <2>1. c.name \notin NamesOf("custom")
    BY <1>1, <1>2 DEF Twins, PlainCall
  <2>2. ~ (Search /\ c.name = Proxy) /\ c.name \in TopLevel
    BY <1>1, <1>2 DEF SearchClash, PlainCall, TopLevel
  <2>3. ~ \E d \in Spaced : Flat(d.space, d.name) = c.name
    BY <1>1, <2>2 DEF FlatClash
  <2>4. QED
    BY <1>2, <2>1, <2>2, <2>3, SortsLowered DEF RestoredCall, PlainCall
<1>3. CASE CustomCall(c)
  BY <1>3, SortsLowered DEF RestoredCall, CustomCall
<1>4. CASE SearchCall(c)
  <2>1. Proxy \notin NamesOf("custom") /\ Search
    BY <1>1, <1>4 DEF SearchClash, TopLevel, SearchCall
  <2>2. QED
    BY <1>4, <2>1, SortsLowered DEF RestoredCall, SearchCall
<1>5. CASE SpacedCall(c)
  <2>1. c \in Spaced /\ LoweredNames(c) = Flat(c.space, c.name) /\ LoweredNames(c) # Proxy
    BY <1>5, SortsLowered
  <2>2. LoweredNames(c) \notin NamesOf("custom")
    BY <1>1, <2>1 DEF FlatClash, TopLevel
  <2>3. \A d \in Spaced : Flat(d.space, d.name) = LoweredNames(c) => d = c
    BY <1>1, <2>1 DEF FlatClash
  <2>4. (CHOOSE d \in Spaced : Flat(d.space, d.name) = LoweredNames(c)) = c
    BY <2>1, <2>3
  <2>5. QED
    BY <2>1, <2>2, <2>4 DEF RestoredCall
<1>6. QED
  BY <1>2, <1>3, <1>4, <1>5, CallSorts

LEMMA NativeCallsFit ==
  ASSUME CtTypeOK, NEW c \in Callable
  PROVE  /\ ~ NativeRefuses => NativeLowers(c) = ClientCall("function_call", <<>>, LoweredNames(c))
         /\ NativeOutput(c) = "function_call_output"
<1>1. CASE PlainCall(c)
  BY <1>1, SortsLowered DEF PlainCall, NativeLowers, NativeOutput, ClientCall, Spaced
<1>2. CASE CustomCall(c)
  BY <1>2, SortsLowered DEF CustomCall, NativeLowers, NativeOutput, ClientCall
<1>3. CASE SearchCall(c)
  BY <1>3, SortsLowered DEF SearchCall, NativeLowers, NativeOutput, ClientCall
<1>4. CASE SpacedCall(c)
  BY <1>4, SortsLowered DEF SpacedCall, NativeLowers, NativeOutput, ClientCall, Spaced
<1>5. QED
  BY <1>1, <1>2, <1>3, <1>4, CallSorts

LEMMA ToolsAlwaysComeBack == ASSUME CtTypeOK PROVE ToolsComeBack
<1>1. ASSUME ~ NativeRefuses
      PROVE  /\ ComesBack
             /\ \A c \in Callable :
                  /\ NativeLowers(c) = ClientCall("function_call", <<>>, LoweredNames(c))
                  /\ NativeOutput(c) = "function_call_output"
                  /\ NativeChoice(c) \in Lowered
  <2>1. Distinct
    BY <1>1, RefusalsAlwaysFit DEF RefusalsFit
  <2>2. ComesBack
    BY <2>1, CallsComeBackByName DEF ComesBack
  <2>3. QED
    BY <1>1, <2>2, NativeCallsFit DEF NativeChoice, Lowered, ClientCall
<1>2. ASSUME ~ ChatRefuses, ~ Twins
      PROVE  /\ ComesBack
             /\ \A c \in Callable : ChatLowers(c).name \in Lowered
             /\ \A c \in Callable \ Spaced : RestoredCall(ChatChoice(c)) = c
  <2>1. Distinct
    BY <1>2, RefusalsAlwaysFit DEF RefusalsFit
  <2>2. ComesBack
    BY <2>1, CallsComeBackByName DEF ComesBack
  <2>3. \A c \in Callable : ChatLowers(c).name \in Lowered
    BY DEF ChatLowers, Lowered, ClientCall
  <2>4. ASSUME NEW c \in Callable \ Spaced
        PROVE  ChatChoice(c) = LoweredNames(c)
    BY <2>4, CallSorts, SortsLowered DEF ChatChoice, Lowered, LoweredNames, Spaced
  <2>5. QED
    BY <2>1, <2>2, <2>3, <2>4, CallsComeBackByName
<1>3. QED
  BY <1>1, <1>2 DEF ToolsComeBack

\* Whatever tools a client declares: a request is refused exactly when two of them
\* would get one name, and of one that is accepted every call comes back as the call
\* of the tool that was meant.
THEOREM ToolsAreToldApart == CtSpec => []ClientToolsFit
<1>1. CtInit => CtTypeOK
  BY DEF CtInit, CtTypeOK
<1>2. CtTypeOK /\ [CtNext]_ctVars => CtTypeOK'
  BY CtTypeKept
<1>3. CtTypeOK => ClientToolsFit
  BY RefusalsAlwaysFit, ToolsAlwaysComeBack DEF ClientToolsFit
<1>4. QED
  BY <1>1, <1>2, <1>3, PTL DEF CtSpec

-----------------------------------------------------------------------------
(* Conversations: folds                                                    *)

\* The highest number of a set that has n + 1 and nothing above it.
LEMMA MaxOfPrefix ==
  ASSUME NEW n \in Nat, NEW s \in SUBSET (1 .. n + 1), n + 1 \in s
  PROVE  Max(s) = n + 1
  <1>1. \A y \in s : n + 1 >= y
    OBVIOUS
  <1>2. \A x \in s : (\A y \in s : x >= y) => x = n + 1
    OBVIOUS
  <1> QED
    BY <1>1, <1>2 DEF Max

-----------------------------------------------------------------------------
(* Sequences whose members each give a sequence *)

\* A set of sequences with the empty one that has what follows each of its
\* members has them all.
LEMMA SeqStepwise ==
  ASSUME NEW K, NEW S, <<>> \in S,
         \A s \in Seq(K), e \in K : s \in S => Append(s, e) \in S
  PROVE  Seq(K) \subseteq S
  <1> DEFINE T == {n \in Nat : \A s \in Seq(K) : Len(s) = n => s \in S}
  <1>1. 0 \in T
    BY EmptySeq
  <1>2. ASSUME NEW n \in Nat, n \in T PROVE n + 1 \in T
    <2> SUFFICES ASSUME NEW s \in Seq(K), Len(s) = n + 1 PROVE s \in S
      OBVIOUS
    <2>1. s # <<>>
      BY EmptySeq
    <2>2. PICK t \in Seq(K), e \in K : s = Append(t, e)
      BY <2>1, SequenceEmptyOrAppend
    <2>3. Len(t) \in Nat /\ Len(s) = Len(t) + 1
      BY <2>2, AppendProperties, LenProperties
    <2>4. Len(t) = n
      BY <2>3
    <2> QED
      BY <1>2, <2>2, <2>4
  <1> HIDE DEF T
  <1>3. Nat \subseteq T
    BY <1>1, <1>2, NatStepwise
  <1> QED
    BY <1>3, LenProperties DEF T

\* g gives a member of L for each of K.
Gives(g, K, L) == g \in [K -> L]

\* What g makes of the members of s, end to end.
Mapped(g, s) == FlattenSeq([i \in DOMAIN s |-> g[s[i]]])

LEMMA MapTyped ==
  ASSUME NEW K, NEW L, NEW g, Gives(g, K, L), NEW s \in Seq(K)
  PROVE  /\ [i \in DOMAIN s |-> g[s[i]]] \in Seq(L)
         /\ Len([i \in DOMAIN s |-> g[s[i]]]) = Len(s)
  <1>1. DOMAIN s = 1 .. Len(s) /\ Len(s) \in Nat /\ \A i \in DOMAIN s : s[i] \in K
    BY LenProperties, ElementOfSeq
  <1>2. [i \in DOMAIN s |-> g[s[i]]] \in [1 .. Len(s) -> L]
    BY <1>1 DEF Gives
  <1> QED
    BY <1>1, <1>2

LEMMA MappedNone ==
  ASSUME NEW g PROVE Mapped(g, <<>>) = <<>>
  <1>1. [i \in DOMAIN <<>> |-> g[<<>>[i]]] = <<>>
    OBVIOUS
  <1>2. Len(<<>>) = 0
    OBVIOUS
  <1> QED
    BY <1>1, <1>2 DEF Mapped, FlattenSeq

LEMMA MappedTyped ==
  ASSUME NEW K, NEW L, NEW g, Gives(g, K, Seq(L)), NEW s \in Seq(K)
  PROVE  Mapped(g, s) \in Seq(L)
  <1>1. PICK m : m = [i \in DOMAIN s |-> g[s[i]]]
    OBVIOUS
  <1>2. m \in Seq(Seq(L))
    BY <1>1, MapTyped
  <1> QED
    BY <1>1, <1>2, FlattenTyped DEF Mapped

LEMMA MappedAppend ==
  ASSUME NEW K, NEW L, NEW g, Gives(g, K, Seq(L)), NEW s \in Seq(K), NEW x \in K
  PROVE  Mapped(g, Append(s, x)) = Mapped(g, s) \o g[x]
  <1> DEFINE m(t) == [i \in DOMAIN t |-> g[t[i]]]
             a == Append(s, x)
  <1>1. m(s) \in Seq(Seq(L)) /\ Len(m(s)) = Len(s)
    BY MapTyped
  <1>2. a \in Seq(K) /\ Len(a) = Len(s) + 1 /\ a[Len(s) + 1] = x
        /\ \A i \in 1 .. Len(s) : a[i] = s[i]
    BY AppendProperties
  <1>3. m(a) \in Seq(Seq(L)) /\ Len(m(a)) = Len(a)
    <2>1. PICK b \in Seq(K) : b = a
      BY <1>2
    <2>2. m(b) \in Seq(Seq(L)) /\ Len(m(b)) = Len(b)
      BY MapTyped
    <2> QED
      BY <2>1, <2>2
  <1>4. DOMAIN a = 1 .. Len(s) + 1 /\ DOMAIN s = 1 .. Len(s) /\ Len(s) \in Nat
    BY <1>2, LenProperties
  <1>5. g[x] \in Seq(L)
    BY DEF Gives
  <1>6. m(a) = Append(m(s), g[x])
    <2>1. Append(m(s), g[x]) \in Seq(Seq(L)) /\ Len(Append(m(s), g[x])) = Len(s) + 1
          /\ Append(m(s), g[x])[Len(s) + 1] = g[x]
          /\ \A i \in 1 .. Len(s) : Append(m(s), g[x])[i] = m(s)[i]
      BY <1>1, <1>5, AppendProperties
    <2>2. \A i \in 1 .. Len(s) : m(a)[i] = m(s)[i]
      BY <1>2, <1>4
    <2>3. m(a)[Len(s) + 1] = g[x]
      BY <1>2, <1>4
    <2>4. \A i \in 1 .. Len(s) + 1 : i \in 1 .. Len(s) \/ i = Len(s) + 1
      BY <1>4
    <2>5. \A i \in 1 .. Len(s) + 1 : m(a)[i] = Append(m(s), g[x])[i]
      BY <2>1, <2>2, <2>3, <2>4
    <2> HIDE DEF m, a
    <2>6. PICK u \in Seq(Seq(L)), v \in Seq(Seq(L)) : u = m(a) /\ v = Append(m(s), g[x])
      BY <1>3, <2>1
    <2>7. Len(u) = Len(v) /\ Len(u) = Len(s) + 1
      BY <1>2, <1>3, <2>1, <2>6
    <2>8. \A i \in 1 .. Len(u) : u[i] = v[i]
      BY <2>5, <2>6, <2>7
    <2> QED
      BY <2>6, <2>7, <2>8, SeqEqual
  <1> HIDE DEF m, a
  <1>7. FlattenSeq(m(a)) = FlattenSeq(m(s)) \o g[x]
    BY <1>1, <1>5, <1>6, FlattenAppend
  <1> QED
    BY <1>7 DEF m, a, Mapped

LEMMA MappedConcat ==
  ASSUME NEW K, NEW L, NEW g, Gives(g, K, Seq(L)), NEW s \in Seq(K), NEW t \in Seq(K)
  PROVE  Mapped(g, s \o t) = Mapped(g, s) \o Mapped(g, t)
  <1> DEFINE S == {u \in Seq(K) : Mapped(g, s \o u) = Mapped(g, s) \o Mapped(g, u)}
  <1>1. <<>> \in S
    <2>1. s \o <<>> = s /\ <<>> \in Seq(K)
      BY ConcatEmptySeq, EmptySeq
    <2>2. Mapped(g, s) \o <<>> = Mapped(g, s)
      BY MappedTyped, ConcatEmptySeq
    <2> QED
      BY <2>1, <2>2, MappedNone
  <1>2. ASSUME NEW u \in Seq(K), NEW e \in K, u \in S PROVE Append(u, e) \in S
    <2>1. s \o Append(u, e) = Append(s \o u, e) /\ s \o u \in Seq(K) /\ Append(u, e) \in Seq(K)
      <3>1. Append(u, e) = u \o <<e>> /\ Append(s \o u, e) = (s \o u) \o <<e>>
        BY AppendIsConcat, ConcatProperties
      <3>2. <<e>> \in Seq(K) /\ Append(u, e) \in Seq(K) /\ s \o u \in Seq(K)
        BY AppendProperties, ConcatProperties
      <3> QED
        BY <3>1, <3>2, ConcatAssociative
    <2>2. Mapped(g, Append(s \o u, e)) = Mapped(g, s \o u) \o g[e]
      <3>1. PICK a \in Seq(K) : a = s \o u
        BY <2>1
      <3>2. Mapped(g, Append(a, e)) = Mapped(g, a) \o g[e]
        BY MappedAppend
      <3> QED
        BY <3>1, <3>2
    <2>3. Mapped(g, Append(u, e)) = Mapped(g, u) \o g[e]
      BY MappedAppend
    <2>4. Mapped(g, s) \in Seq(L) /\ Mapped(g, u) \in Seq(L) /\ g[e] \in Seq(L)
      BY MappedTyped DEF Gives
    <2>5. (Mapped(g, s) \o Mapped(g, u)) \o g[e] = Mapped(g, s) \o (Mapped(g, u) \o g[e])
      <3>1. Associates(Mapped(g, s), Mapped(g, u), g[e])
        BY <2>4, KindsAssociate
      <3> QED
        BY <3>1 DEF Associates
    <2> QED
      BY <1>2, <2>1, <2>2, <2>3, <2>5
  <1> HIDE DEF S
  <1>3. Seq(K) \subseteq S
    BY <1>1, <1>2, SeqStepwise
  <1> QED
    BY <1>3 DEF S

\* Of one member.
LEMMA MappedOne ==
  ASSUME NEW K, NEW L, NEW g, Gives(g, K, Seq(L)), NEW x \in K
  PROVE  Mapped(g, <<x>>) = g[x]
  <1>1. <<>> \in Seq(K) /\ <<x>> = Append(<<>>, x)
    BY EmptySeq
  <1>2. PICK e \in Seq(K) : e = <<>>
    BY <1>1
  <1>3. Mapped(g, Append(e, x)) = Mapped(g, e) \o g[x]
    BY MappedAppend
  <1>4. g[x] \in Seq(L)
    BY DEF Gives
  <1>5. Mapped(g, e) = <<>>
    BY <1>2, MappedNone
  <1> QED
    BY <1>1, <1>2, <1>3, <1>4, <1>5, ConcatEmptySeq

LEMMA MappedTwice ==
  ASSUME NEW K, NEW L, NEW M, NEW g, Gives(g, K, Seq(L)), NEW h, Gives(h, L, Seq(M)),
         NEW s \in Seq(K)
  PROVE  Mapped(h, Mapped(g, s)) = Mapped([x \in K |-> Mapped(h, g[x])], s)
  <1> DEFINE d == [x \in K |-> Mapped(h, g[x])]
             S == {u \in Seq(K) : Mapped(h, Mapped(g, u)) = Mapped(d, u)}
  <1>1. Gives(d, K, Seq(M))
    <2>1. \A x \in K : Mapped(h, g[x]) \in Seq(M)
      BY MappedTyped DEF Gives
    <2> QED
      BY <2>1 DEF Gives
  <1>2. <<>> \in S
    BY MappedNone, EmptySeq
  <1>3. ASSUME NEW u \in Seq(K), NEW e \in K, u \in S PROVE Append(u, e) \in S
    <2>1. Mapped(g, Append(u, e)) = Mapped(g, u) \o g[e]
      BY MappedAppend
    <2>2. Mapped(g, u) \in Seq(L) /\ g[e] \in Seq(L) /\ Append(u, e) \in Seq(K)
      BY MappedTyped, AppendProperties DEF Gives
    <2>3. Mapped(h, Mapped(g, u) \o g[e]) = Mapped(h, Mapped(g, u)) \o Mapped(h, g[e])
      <3>1. PICK a \in Seq(L) : a = Mapped(g, u)
        BY <2>2
      <3>2. PICK b \in Seq(L) : b = g[e]
        BY <2>2
      <3>3. Mapped(h, a \o b) = Mapped(h, a) \o Mapped(h, b)
        BY MappedConcat
      <3> QED
        BY <3>1, <3>2, <3>3
    <2>4. Mapped(d, Append(u, e)) = Mapped(d, u) \o d[e]
      <3> HIDE DEF d
      <3> QED
        BY <1>1, MappedAppend
    <2>5. d[e] = Mapped(h, g[e])
      OBVIOUS
    <2>6. Mapped(h, Mapped(g, u)) = Mapped(d, u)
      BY <1>3
    <2> HIDE DEF d
    <2>7. Mapped(h, Mapped(g, Append(u, e))) = Mapped(d, Append(u, e))
      BY <2>1, <2>3, <2>4, <2>5, <2>6
    <2> QED
      BY <2>2, <2>7
  <1> HIDE DEF S, d
  <1>4. Seq(K) \subseteq S
    BY <1>2, <1>3, SeqStepwise
  <1> QED
    BY <1>4 DEF S, d

\* The members of what the members give.
LEMMA ConcatSet ==
  ASSUME NEW K, NEW s \in Seq(K), NEW t \in Seq(K)
  PROVE  ToSet(s \o t) = ToSet(s) \cup ToSet(t)
  <1>1. s \o t \in Seq(K) /\ Len(s \o t) = Len(s) + Len(t)
        /\ \A i \in 1 .. Len(s) + Len(t) :
             (s \o t)[i] = IF i <= Len(s) THEN s[i] ELSE t[i - Len(s)]
    BY ConcatProperties
  <1>2. /\ DOMAIN s = 1 .. Len(s) /\ DOMAIN t = 1 .. Len(t)
        /\ DOMAIN (s \o t) = 1 .. Len(s) + Len(t) /\ Len(s) \in Nat /\ Len(t) \in Nat
    BY <1>1, LenProperties
  <1>3. ASSUME NEW x \in ToSet(s \o t) PROVE x \in ToSet(s) \cup ToSet(t)
    <2>1. PICK i \in 1 .. Len(s) + Len(t) : x = (s \o t)[i]
      BY <1>2, <1>3 DEF ToSet
    <2>2. CASE i <= Len(s)
      BY <1>1, <1>2, <2>1, <2>2 DEF ToSet
    <2>3. CASE ~(i <= Len(s))
      <3>1. i - Len(s) \in 1 .. Len(t)
        BY <1>2, <2>3
      <3> QED
        BY <1>1, <1>2, <2>1, <2>3, <3>1 DEF ToSet
    <2> QED
      BY <2>2, <2>3
  <1>4. ASSUME NEW x \in ToSet(s) PROVE x \in ToSet(s \o t)
    <2>1. PICK i \in 1 .. Len(s) : x = s[i]
      BY <1>2, <1>4 DEF ToSet
    <2>2. i \in 1 .. Len(s) + Len(t) /\ i <= Len(s)
      BY <1>2
    <2> QED
      BY <1>1, <1>2, <2>1, <2>2 DEF ToSet
  <1>5. ASSUME NEW x \in ToSet(t) PROVE x \in ToSet(s \o t)
    <2>1. PICK i \in 1 .. Len(t) : x = t[i]
      BY <1>2, <1>5 DEF ToSet
    <2>2. Len(s) + i \in 1 .. Len(s) + Len(t) /\ ~(Len(s) + i <= Len(s)) /\ (Len(s) + i) - Len(s) = i
      BY <1>2
    <2>3. (s \o t)[Len(s) + i] = t[i]
      BY <1>1, <2>2
    <2> QED
      BY <1>2, <2>1, <2>2, <2>3 DEF ToSet
  <1> QED
    BY <1>3, <1>4, <1>5

LEMMA AppendSet ==
  ASSUME NEW K, NEW s \in Seq(K), NEW e \in K
  PROVE  ToSet(Append(s, e)) = ToSet(s) \cup {e}
  <1>1. Append(s, e) \in Seq(K) /\ Len(Append(s, e)) = Len(s) + 1
        /\ Append(s, e)[Len(s) + 1] = e /\ \A i \in 1 .. Len(s) : Append(s, e)[i] = s[i]
    BY AppendProperties
  <1>2. DOMAIN s = 1 .. Len(s) /\ DOMAIN Append(s, e) = 1 .. Len(s) + 1 /\ Len(s) \in Nat
    BY <1>1, LenProperties
  <1>3. \A i \in 1 .. Len(s) + 1 : i \in 1 .. Len(s) \/ i = Len(s) + 1
    BY <1>2
  <1>4. \A i \in 1 .. Len(s) : i \in 1 .. Len(s) + 1
    BY <1>2
  <1>5. Len(s) + 1 \in 1 .. Len(s) + 1
    BY <1>2
  <1> QED
    BY <1>1, <1>2, <1>3, <1>4, <1>5 DEF ToSet

LEMMA MappedSet ==
  ASSUME NEW K, NEW L, NEW g, Gives(g, K, Seq(L)), NEW s \in Seq(K)
  PROVE  ToSet(Mapped(g, s)) = UNION {ToSet(g[x]) : x \in ToSet(s)}
  <1> DEFINE S == {u \in Seq(K) : ToSet(Mapped(g, u)) = UNION {ToSet(g[x]) : x \in ToSet(u)}}
  <1>1. <<>> \in S
    BY MappedNone, EmptySeq DEF ToSet
  <1>2. ASSUME NEW u \in Seq(K), NEW e \in K, u \in S PROVE Append(u, e) \in S
    <2>1. Mapped(g, Append(u, e)) = Mapped(g, u) \o g[e]
      BY MappedAppend
    <2>2. Mapped(g, u) \in Seq(L) /\ g[e] \in Seq(L) /\ Append(u, e) \in Seq(K)
      BY MappedTyped, AppendProperties DEF Gives
    <2>3. ToSet(Mapped(g, u) \o g[e]) = ToSet(Mapped(g, u)) \cup ToSet(g[e])
      BY <2>2, ConcatSet
    <2>4. ToSet(Append(u, e)) = ToSet(u) \cup {e}
      BY AppendSet
    <2>5. ToSet(Mapped(g, u)) = UNION {ToSet(g[x]) : x \in ToSet(u)}
      BY <1>2
    <2>6. UNION {ToSet(g[x]) : x \in ToSet(u) \cup {e}}
            = (UNION {ToSet(g[x]) : x \in ToSet(u)}) \cup ToSet(g[e])
      OBVIOUS
    <2> QED
      BY <2>1, <2>2, <2>3, <2>4, <2>5, <2>6
  <1> HIDE DEF S
  <1>3. Seq(K) \subseteq S
    BY <1>1, <1>2, SeqStepwise
  <1> QED
    BY <1>3 DEF S

-----------------------------------------------------------------------------
(* The merging of turns, one turn after another *)

\* f is what FoldLeft computes with, over the first n turns.
MergedIter(f, c, v, n) ==
  f = [s \in SUBSET (1 .. n) |->
         IF s = {} THEN c ELSE LET x == Max(s) IN MergedWith(f[s \ {x}], v[x])]

LEMMA MergedIterExists ==
  ASSUME NEW c, NEW v, NEW n \in Nat
  PROVE  \E f : MergedIter(f, c, v, n)
  <1> DEFINE S == {k \in Nat : \E f : MergedIter(f, c, v, k)}
  <1>1. 0 \in S
    <2>1. MergedIter([s \in SUBSET (1 .. 0) |-> c], c, v, 0)
      <3>1. \A s \in SUBSET (1 .. 0) : s = {}
        OBVIOUS
      <3> QED
        BY <3>1 DEF MergedIter
    <2> QED
      BY <2>1
  <1>2. ASSUME NEW k \in Nat, k \in S PROVE k + 1 \in S
    <2>1. PICK f : MergedIter(f, c, v, k)
      BY <1>2
    <2> DEFINE g == [s \in SUBSET (1 .. k + 1) |->
                       IF k + 1 \in s THEN MergedWith(f[s \ {k + 1}], v[k + 1]) ELSE f[s]]
    <2>2. ASSUME NEW s \in SUBSET (1 .. k + 1)
          PROVE  g[s] = IF s = {} THEN c ELSE LET x == Max(s) IN MergedWith(g[s \ {x}], v[x])
      <3>1. CASE k + 1 \in s
        <4>1. Max(s) = k + 1
          BY <3>1, MaxOfPrefix
        <4>2. g[s \ {k + 1}] = f[s \ {k + 1}]
          OBVIOUS
        <4>3. g[s] = MergedWith(f[s \ {k + 1}], v[k + 1]) /\ s # {}
          BY <3>1
        <4> QED
          BY <4>1, <4>2, <4>3
      <3>2. CASE k + 1 \notin s
        <4>1. s \in SUBSET (1 .. k) /\ g[s] = f[s]
          <5>1. \A i \in 1 .. k + 1 : i \in 1 .. k \/ i = k + 1
            OBVIOUS
          <5> QED
            BY <3>2, <5>1
        <4>2. \A x : g[s \ {x}] = f[s \ {x}]
          BY <3>2
        <4>3. f[s] = IF s = {} THEN c ELSE LET x == Max(s) IN MergedWith(f[s \ {x}], v[x])
          BY <2>1, <4>1 DEF MergedIter
        <4> QED
          BY <4>1, <4>2, <4>3
      <3> QED
        BY <3>1, <3>2
    <2>3. MergedIter(g, c, v, k + 1)
      BY <2>2 DEF MergedIter
    <2> QED
      BY <2>3
  <1> HIDE DEF S
  <1> QED
    BY <1>1, <1>2, NatStepwise DEF S

\* What becomes of the turns merged, turn by turn.
MergedChain(h, c, v, n) == h[0] = c /\ \A k \in 1 .. n : h[k] = MergedWith(h[k - 1], v[k])

LEMMA MergedChainIs ==
  ASSUME NEW c, NEW v, NEW n \in Nat, DOMAIN v = 1 .. n
  PROVE  \E h : MergedChain(h, c, v, n) /\ FoldLeft(MergedWith, c, v) = h[n]
  <1> DEFINE f == CHOOSE g : g = [s \in SUBSET (DOMAIN v) |->
                    IF s = {} THEN c ELSE LET x == Max(s) IN MergedWith(g[s \ {x}], v[x])]
             h == [k \in 0 .. n |-> f[1 .. k]]
  <1>1. MergedIter(f, c, v, n)
    <2>1. \E g : g = [s \in SUBSET (DOMAIN v) |->
                      IF s = {} THEN c ELSE LET x == Max(s) IN MergedWith(g[s \ {x}], v[x])]
      <3>1. PICK g : MergedIter(g, c, v, n)
        BY MergedIterExists
      <3>2. g = [s \in SUBSET (DOMAIN v) |->
                   IF s = {} THEN c ELSE LET x == Max(s) IN MergedWith(g[s \ {x}], v[x])]
        BY <3>1 DEF MergedIter
      <3> QED
        BY <3>2
    <2>2. f = [s \in SUBSET (DOMAIN v) |->
                 IF s = {} THEN c ELSE LET x == Max(s) IN MergedWith(f[s \ {x}], v[x])]
      BY <2>1
    <2> QED
      BY <2>2 DEF MergedIter
  <1>2. FoldLeft(MergedWith, c, v) = f[DOMAIN v]
    BY DEF FoldLeft, MapThenFoldSet
  <1> HIDE DEF f
  <1>3. h[0] = c
    <2>1. {} \in SUBSET (1 .. n) /\ 1 .. 0 = {}
      OBVIOUS
    <2>2. f[{}] = c
      BY <1>1, <2>1 DEF MergedIter
    <2> QED
      BY <2>1, <2>2
  <1>4. ASSUME NEW k \in 1 .. n PROVE h[k] = MergedWith(h[k - 1], v[k])
    <2>1. 1 .. k \in SUBSET (1 .. n) /\ 1 .. k # {} /\ (1 .. k) \ {k} = 1 .. k - 1
      OBVIOUS
    <2>2. Max(1 .. k) = k
      <3>1. k - 1 \in Nat /\ (k - 1) + 1 = k /\ k \in 1 .. k
        OBVIOUS
      <3> QED
        BY <3>1, MaxOfPrefix
    <2>3. f[1 .. k] = MergedWith(f[(1 .. k) \ {k}], v[k])
      BY <1>1, <2>1, <2>2 DEF MergedIter
    <2>4. h[k] = f[1 .. k] /\ h[k - 1] = f[1 .. k - 1]
      <3>1. k \in 0 .. n /\ k - 1 \in 0 .. n
        OBVIOUS
      <3> QED
        BY <3>1
    <2> QED
      BY <2>1, <2>3, <2>4
  <1>5. h[n] = f[DOMAIN v]
    OBVIOUS
  <1> HIDE DEF h
  <1>6. MergedChain(h, c, v, n)
    BY <1>3, <1>4 DEF MergedChain
  <1> QED
    BY <1>2, <1>5, <1>6

LEMMA MergedChainsAgree ==
  ASSUME NEW c, NEW v, NEW w, NEW n \in Nat, NEW h, NEW g,
         MergedChain(h, c, v, n), MergedChain(g, c, w, n + 1), \A i \in 1 .. n : w[i] = v[i]
  PROVE  g[n] = h[n]
  <1> DEFINE S == {k \in Nat : k <= n => g[k] = h[k]}
  <1>1. 0 \in S
    BY DEF MergedChain
  <1>2. ASSUME NEW k \in Nat, k \in S PROVE k + 1 \in S
    <2> SUFFICES ASSUME k + 1 <= n PROVE g[k + 1] = h[k + 1]
      OBVIOUS
    <2>1. k + 1 \in 1 .. n /\ k + 1 \in 1 .. n + 1 /\ (k + 1) - 1 = k /\ k <= n
      OBVIOUS
    <2>2. h[k + 1] = MergedWith(h[k], v[k + 1]) /\ g[k + 1] = MergedWith(g[k], w[k + 1])
      BY <2>1 DEF MergedChain
    <2> QED
      BY <1>2, <2>1, <2>2
  <1> HIDE DEF S
  <1>3. n \in S
    BY <1>1, <1>2, NatStepwise
  <1> QED
    BY <1>3 DEF S

LEMMA MergedNothing ==
  ASSUME NEW c PROVE FoldLeft(MergedWith, c, <<>>) = c
  <1>1. DOMAIN <<>> = 1 .. 0
    OBVIOUS
  <1>2. PICK h : MergedChain(h, c, <<>>, 0) /\ FoldLeft(MergedWith, c, <<>>) = h[0]
    BY <1>1, MergedChainIs
  <1> QED
    BY <1>2 DEF MergedChain

LEMMA MergedAppend ==
  ASSUME NEW c, NEW K, NEW v \in Seq(K), NEW e
  PROVE  FoldLeft(MergedWith, c, Append(v, e)) = MergedWith(FoldLeft(MergedWith, c, v), e)
  <1>1. PICK n \in Nat : n = Len(v)
    OBVIOUS
  <1>2. PICK w : w = Append(v, e)
    OBVIOUS
  <1>3. v \in Seq(K \cup {e}) /\ e \in K \cup {e}
    OBVIOUS
  <1>4. DOMAIN v = 1 .. n /\ DOMAIN w = 1 .. n + 1 /\ w[n + 1] = e /\ \A i \in 1 .. n : w[i] = v[i]
    BY <1>1, <1>2, <1>3, AppendProperties, LenProperties
  <1>5. PICK h : MergedChain(h, c, v, n) /\ FoldLeft(MergedWith, c, v) = h[n]
    BY <1>4, MergedChainIs
  <1>6. PICK g : MergedChain(g, c, w, n + 1) /\ FoldLeft(MergedWith, c, w) = g[n + 1]
    BY <1>4, MergedChainIs
  <1>7. g[n + 1] = MergedWith(g[n], e)
    BY <1>4, <1>6 DEF MergedChain
  <1>8. g[n] = h[n]
    BY <1>4, <1>5, <1>6, MergedChainsAgree
  <1> QED
    BY <1>2, <1>5, <1>6, <1>7, <1>8

-----------------------------------------------------------------------------
(* The members of a sequence that are in a set *)

Sift(K, T) == [x \in K |-> IF x \in T THEN <<x>> ELSE <<>>]
Sifted(K, T, s) == Mapped(Sift(K, T), s)

LEMMA SiftGives ==
  ASSUME NEW K, NEW T
  PROVE  Gives(Sift(K, T), K, Seq(K)) /\ Gives(Sift(K, T), K, Seq(K \cap T))
  <1>1. \A x \in K : <<x>> \in Seq(K) /\ (x \in T => <<x>> \in Seq(K \cap T))
    OBVIOUS
  <1>2. <<>> \in Seq(K) /\ <<>> \in Seq(K \cap T)
    BY EmptySeq
  <1> QED
    BY <1>1, <1>2 DEF Sift, Gives

LEMMA SiftedTyped ==
  ASSUME NEW K, NEW T, NEW s \in Seq(K)
  PROVE  Sifted(K, T, s) \in Seq(K) /\ Sifted(K, T, s) \in Seq(K \cap T)
  BY SiftGives, MappedTyped DEF Sifted

LEMMA SiftedNone ==
  ASSUME NEW K, NEW T
  PROVE  Sifted(K, T, <<>>) = <<>>
  BY MappedNone DEF Sifted

LEMMA SiftedConcat ==
  ASSUME NEW K, NEW T, NEW s \in Seq(K), NEW t \in Seq(K)
  PROVE  Sifted(K, T, s \o t) = Sifted(K, T, s) \o Sifted(K, T, t)
  <1>1. PICK g : g = Sift(K, T)
    OBVIOUS
  <1>2. Gives(g, K, Seq(K))
    BY <1>1, SiftGives
  <1>3. Mapped(g, s \o t) = Mapped(g, s) \o Mapped(g, t)
    BY <1>2, MappedConcat
  <1> QED
    BY <1>1, <1>3 DEF Sifted

LEMMA SiftedAppend ==
  ASSUME NEW K, NEW T, NEW s \in Seq(K), NEW e \in K
  PROVE  Sifted(K, T, Append(s, e))
           = IF e \in T THEN Append(Sifted(K, T, s), e) ELSE Sifted(K, T, s)
  <1>1. Sifted(K, T, Append(s, e)) = Sifted(K, T, s) \o Sift(K, T)[e]
    BY SiftGives, MappedAppend DEF Sifted
  <1>2. PICK r \in Seq(K) : r = Sifted(K, T, s)
    BY SiftedTyped
  <1>3. r \o <<e>> = Append(r, e)
    BY AppendIsConcat
  <1>4. r \o <<>> = r
    BY ConcatEmptySeq
  <1>5. Sift(K, T)[e] = IF e \in T THEN <<e>> ELSE <<>>
    BY DEF Sift
  <1> QED
    BY <1>1, <1>2, <1>3, <1>4, <1>5

LEMMA SiftedSet ==
  ASSUME NEW K, NEW T, NEW s \in Seq(K)
  PROVE  ToSet(Sifted(K, T, s)) = ToSet(s) \cap T
  <1> DEFINE S == {u \in Seq(K) : ToSet(Sifted(K, T, u)) = ToSet(u) \cap T}
  <1>1. <<>> \in S
    BY SiftedNone, EmptySeq DEF ToSet
  <1>2. ASSUME NEW u \in Seq(K), NEW e \in K, u \in S PROVE Append(u, e) \in S
    <2>1. PICK r \in Seq(K) : r = Sifted(K, T, u)
      BY SiftedTyped
    <2>2. ToSet(Append(r, e)) = ToSet(r) \cup {e}
      BY AppendSet
    <2>3. ToSet(Append(u, e)) = ToSet(u) \cup {e}
      BY AppendSet
    <2>4. Sifted(K, T, Append(u, e)) = IF e \in T THEN Append(r, e) ELSE r
      BY <2>1, SiftedAppend
    <2>5. ToSet(r) = ToSet(u) \cap T
      BY <1>2, <2>1
    <2>6. Append(u, e) \in Seq(K)
      BY AppendProperties
    <2>7. ToSet(Sifted(K, T, Append(u, e))) = ToSet(Append(u, e)) \cap T
      BY <2>2, <2>3, <2>4, <2>5
    <2> QED
      BY <2>6, <2>7
  <1> HIDE DEF S
  <1>3. Seq(K) \subseteq S
    BY <1>1, <1>2, SeqStepwise
  <1> QED
    BY <1>3 DEF S

LEMMA SiftedLen ==
  ASSUME NEW K, NEW T, NEW s \in Seq(K)
  PROVE  Len(Sifted(K, T, s)) <= Len(s)
  <1> DEFINE S == {u \in Seq(K) : Len(Sifted(K, T, u)) <= Len(u)}
  <1>1. <<>> \in S
    BY SiftedNone, EmptySeq
  <1>2. ASSUME NEW u \in Seq(K), NEW e \in K, u \in S PROVE Append(u, e) \in S
    <2>1. PICK r \in Seq(K) : r = Sifted(K, T, u)
      BY SiftedTyped
    <2>2. Len(Append(r, e)) = Len(r) + 1 /\ Len(r) \in Nat
      BY AppendProperties, LenProperties
    <2>3. Len(Append(u, e)) = Len(u) + 1 /\ Len(u) \in Nat /\ Append(u, e) \in Seq(K)
      BY AppendProperties, LenProperties
    <2>4. Sifted(K, T, Append(u, e)) = IF e \in T THEN Append(r, e) ELSE r
      BY <2>1, SiftedAppend
    <2>5. Len(r) <= Len(u)
      BY <1>2, <2>1
    <2> QED
      BY <2>2, <2>3, <2>4, <2>5
  <1> HIDE DEF S
  <1>3. Seq(K) \subseteq S
    BY <1>1, <1>2, SeqStepwise
  <1> QED
    BY <1>3 DEF S

LEMMA SiftedAll ==
  ASSUME NEW K, NEW T, NEW s \in Seq(K), ToSet(s) \subseteq T
  PROVE  Sifted(K, T, s) = s
  <1> DEFINE S == {u \in Seq(K) : ToSet(u) \subseteq T => Sifted(K, T, u) = u}
  <1>1. <<>> \in S
    BY SiftedNone, EmptySeq
  <1>2. ASSUME NEW u \in Seq(K), NEW e \in K, u \in S PROVE Append(u, e) \in S
    <2>1. ToSet(Append(u, e)) = ToSet(u) \cup {e} /\ Append(u, e) \in Seq(K)
      BY AppendSet, AppendProperties
    <2>2. e \in T => Sifted(K, T, Append(u, e)) = Append(Sifted(K, T, u), e)
      BY SiftedAppend
    <2> QED
      BY <1>2, <2>1, <2>2
  <1> HIDE DEF S
  <1>3. Seq(K) \subseteq S
    BY <1>1, <1>2, SeqStepwise
  <1> QED
    BY <1>3 DEF S

LEMMA NoMembers ==
  ASSUME NEW K, NEW s \in Seq(K), ToSet(s) = {} PROVE s = <<>>
  <1>1. Len(s) \in Nat /\ DOMAIN s = 1 .. Len(s)
    BY LenProperties
  <1>2. ~(1 \in 1 .. Len(s))
    BY <1>1 DEF ToSet
  <1>3. Len(s) = 0
    BY <1>1, <1>2
  <1> QED
    BY <1>3, EmptySeq

LEMMA SiftedAway ==
  ASSUME NEW K, NEW T, NEW s \in Seq(K), ToSet(s) \cap T = {}
  PROVE  Sifted(K, T, s) = <<>>
  <1>1. PICK r \in Seq(K) : r = Sifted(K, T, s)
    BY SiftedTyped
  <1>2. ToSet(r) = {}
    BY <1>1, SiftedSet
  <1> QED
    BY <1>1, <1>2, NoMembers

LEMMA MembersTyped ==
  ASSUME NEW K, NEW s \in Seq(K) PROVE ToSet(s) \subseteq K
  BY LenProperties, ElementOfSeq DEF ToSet

\* What the converters pick out of their blocks and items is sifted.
LEMMA OfKindsIs ==
  ASSUME NEW K, NEW kinds, NEW s \in Seq(K)
  PROVE  OfKinds(s, kinds) = Sifted(K, {x \in K : x.kind \in kinds}, s)
  <1>1. \A i \in DOMAIN s : s[i] \in K
    BY LenProperties, ElementOfSeq
  <1>2. \A i \in DOMAIN s : Sift(K, {x \in K : x.kind \in kinds})[s[i]]
                              = IF s[i].kind \in kinds THEN <<s[i]>> ELSE <<>>
    BY <1>1 DEF Sift
  <1>3. [i \in DOMAIN s |-> IF s[i].kind \in kinds THEN <<s[i]>> ELSE <<>>]
          = [i \in DOMAIN s |-> Sift(K, {x \in K : x.kind \in kinds})[s[i]]]
    BY <1>2
  <1> QED
    BY <1>3 DEF OfKinds, Those, Each, Sifted, Mapped

LEMMA OutputsOfIs ==
  ASSUME NEW K, NEW id, NEW s \in Seq(K)
  PROVE  OutputsOf(s, id) = Sifted(K, {x \in K : x.id = id}, s)
  <1>1. \A i \in DOMAIN s : s[i] \in K
    BY LenProperties, ElementOfSeq
  <1>2. \A i \in DOMAIN s : Sift(K, {x \in K : x.id = id})[s[i]]
                              = IF s[i].id = id THEN <<s[i]>> ELSE <<>>
    BY <1>1 DEF Sift
  <1>3. [i \in DOMAIN s |-> IF s[i].id = id THEN <<s[i]>> ELSE <<>>]
          = [i \in DOMAIN s |-> Sift(K, {x \in K : x.id = id})[s[i]]]
    BY <1>2
  <1> QED
    BY <1>3 DEF OutputsOf, Those, Each, Sifted, Mapped

LEMMA CallsKeptIs ==
  ASSUME NEW K, NEW results, NEW m, m.blocks \in Seq(K)
  PROVE  CallsKept(results, m)
           = Sifted(K, {x \in K : x.kind = "use" /\ OutputsOf(results, x.id) # <<>>}, m.blocks)
  <1> DEFINE T == {x \in K : x.kind = "use" /\ OutputsOf(results, x.id) # <<>>}
  <1>0. PICK s \in Seq(K) : s = m.blocks
    OBVIOUS
  <1>1. \A i \in DOMAIN s : s[i] \in K
    BY LenProperties, ElementOfSeq
  <1>2. \A i \in DOMAIN s : Sift(K, T)[s[i]]
          = IF s[i].kind = "use" /\ OutputsOf(results, s[i].id) # <<>> THEN <<s[i]>> ELSE <<>>
    BY <1>1 DEF Sift
  <1>3. [i \in DOMAIN s |-> IF s[i].kind = "use" /\ OutputsOf(results, s[i].id) # <<>>
                            THEN <<s[i]>> ELSE <<>>]
          = [i \in DOMAIN s |-> Sift(K, T)[s[i]]]
    BY <1>2
  <1> QED
    BY <1>0, <1>3 DEF CallsKept, Those, Each, Sifted, Mapped

-----------------------------------------------------------------------------
(* Turns: what merging keeps *)

CvBlockSet ==
  [kind : {"use", "result", "text", "image"}, id : CvIds \cup {NoId}, from : Seq(Nat)]

\* The assistant calls and the user answers.
CvTurnSet ==
  {m \in [role : {"user", "assistant"}, blocks : Seq(CvBlockSet)] :
     \A b \in ToSet(m.blocks) : /\ b.kind = "use" => m.role = "assistant"
                                /\ b.kind = "result" => m.role = "user"}

LEMMA LastAppended ==
  ASSUME NEW K, NEW s \in Seq(K), NEW e \in K
  PROVE  Append(s, e) # <<>> /\ Last(Append(s, e)) = e
  BY AppendProperties DEF Last

\* A turn follows, or joins the last one.
JoinedTurn(l, m) == [role |-> m.role, blocks |-> l.blocks \o m.blocks]

LEMMA TurnFields ==
  ASSUME NEW m \in CvTurnSet
  PROVE  /\ m.role \in {"user", "assistant"} /\ m.blocks \in Seq(CvBlockSet)
         /\ m = [role |-> m.role, blocks |-> m.blocks]
         /\ \A b \in ToSet(m.blocks) : /\ b.kind = "use" => m.role = "assistant"
                                       /\ b.kind = "result" => m.role = "user"
  BY DEF CvTurnSet

LEMMA JoinedTurnTyped ==
  ASSUME NEW l \in CvTurnSet, NEW m \in CvTurnSet, l.role = m.role
  PROVE  JoinedTurn(l, m) \in CvTurnSet
  <1>1. l.blocks \o m.blocks \in Seq(CvBlockSet)
    BY TurnFields, ConcatProperties
  <1>2. ToSet(l.blocks \o m.blocks) = ToSet(l.blocks) \cup ToSet(m.blocks)
    BY TurnFields, ConcatSet
  <1>3. PICK s \in Seq(CvBlockSet) : s = l.blocks \o m.blocks
    BY <1>1
  <1>4. \A b \in ToSet(s) : /\ b.kind = "use" => m.role = "assistant"
                            /\ b.kind = "result" => m.role = "user"
    BY <1>2, <1>3, TurnFields
  <1>5. m.role \in {"user", "assistant"}
    BY TurnFields
  <1> QED
    BY <1>3, <1>4, <1>5 DEF JoinedTurn, CvTurnSet

LEMMA MergedCases ==
  ASSUME NEW R \in Seq(CvTurnSet), NEW m \in CvTurnSet
  PROVE  \/ (R = <<>> \/ Last(R).role # m.role) /\ MergedWith(R, m) = Append(R, m)
         \/ \E F \in Seq(CvTurnSet), l \in CvTurnSet :
              R = Append(F, l) /\ l.role = m.role
              /\ MergedWith(R, m) = Append(F, JoinedTurn(l, m))
  <1>1. CASE R = <<>> \/ Last(R).role # m.role
    BY <1>1 DEF MergedWith
  <1>2. CASE ~(R = <<>> \/ Last(R).role # m.role)
    <2>1. PICK F \in Seq(CvTurnSet), l \in CvTurnSet : R = Append(F, l)
      BY <1>2, SequenceEmptyOrAppend
    <2>2. PICK n \in Nat : n = Len(F)
      BY LenProperties
    <2>3. Len(R) = n + 1 /\ R[n + 1] = l /\ \A i \in 1 .. n : R[i] = F[i]
      BY <2>1, <2>2, AppendProperties
    <2>4. l.role = m.role
      BY <1>2, <2>1, LastAppended
    <2>5. [l EXCEPT !.blocks = @ \o m.blocks] = JoinedTurn(l, m)
      <3>1. PICK b : b = l.blocks \o m.blocks
        OBVIOUS
      <3>2. l \in [role : {"user", "assistant"}, blocks : Seq(CvBlockSet)]
        BY DEF CvTurnSet
      <3>3. [l EXCEPT !.blocks = b] = [role |-> l.role, blocks |-> b]
        BY <3>2
      <3> QED
        BY <2>4, <3>1, <3>3 DEF JoinedTurn
    <2>6. PICK t \in CvTurnSet : t = JoinedTurn(l, m)
      BY <2>4, JoinedTurnTyped
    <2>7. MergedWith(R, m) = [R EXCEPT ![n + 1] = t]
      BY <1>2, <2>3, <2>5, <2>6 DEF MergedWith
    <2>8. [R EXCEPT ![n + 1] = t] = Append(F, t)
      <3>1. DOMAIN R = 1 .. n + 1
        BY <2>3, LenProperties
      <3>2. Append(F, t) \in Seq(CvTurnSet) /\ Len(Append(F, t)) = n + 1
            /\ Append(F, t)[n + 1] = t /\ \A i \in 1 .. n : Append(F, t)[i] = F[i]
        BY <2>2, AppendProperties
      <3>3. n + 1 \in 1 .. Len(R)
        BY <2>3
      <3>4. /\ [R EXCEPT ![n + 1] = t] \in Seq(CvTurnSet)
            /\ Len([R EXCEPT ![n + 1] = t]) = n + 1
            /\ \A j \in 1 .. n + 1 : [R EXCEPT ![n + 1] = t][j] = IF j = n + 1 THEN t ELSE R[j]
        BY <2>3, <3>3, ExceptSeq
      <3>5. \A i \in 1 .. n + 1 : i \in 1 .. n \/ i = n + 1
        OBVIOUS
      <3>6. \A i \in 1 .. n + 1 : [R EXCEPT ![n + 1] = t][i] = Append(F, t)[i]
        BY <2>3, <3>2, <3>4, <3>5
      <3>7. PICK a \in Seq(CvTurnSet) : a = Append(F, t)
        BY <3>2
      <3>8. PICK b \in Seq(CvTurnSet) : b = [R EXCEPT ![n + 1] = t]
        BY <3>4
      <3>9. a = b
        BY <3>2, <3>4, <3>6, <3>7, <3>8, SeqEqual
      <3> QED
        BY <3>7, <3>8, <3>9
    <2> QED
      BY <2>1, <2>4, <2>6, <2>7, <2>8
  <1> QED
    BY <1>1, <1>2

LEMMA MergedWithTyped ==
  ASSUME NEW R \in Seq(CvTurnSet), NEW m \in CvTurnSet
  PROVE  MergedWith(R, m) \in Seq(CvTurnSet)
  <1>1. CASE MergedWith(R, m) = Append(R, m)
    BY <1>1, AppendProperties
  <1>2. ASSUME NEW F \in Seq(CvTurnSet), NEW l \in CvTurnSet, l.role = m.role,
               MergedWith(R, m) = Append(F, JoinedTurn(l, m))
        PROVE  MergedWith(R, m) \in Seq(CvTurnSet)
    <2>1. PICK j \in CvTurnSet : j = JoinedTurn(l, m)
      BY <1>2, JoinedTurnTyped
    <2> QED
      BY <1>2, <2>1, AppendProperties
  <1>3. \/ MergedWith(R, m) = Append(R, m)
        \/ \E F \in Seq(CvTurnSet), l \in CvTurnSet :
             l.role = m.role /\ MergedWith(R, m) = Append(F, JoinedTurn(l, m))
    BY MergedCases
  <1> QED
    BY <1>1, <1>2, <1>3

LEMMA TurnsMergedTyped ==
  ASSUME NEW s \in Seq(CvTurnSet)
  PROVE  TurnsMerged(s) \in Seq(CvTurnSet)
  <1> DEFINE S == {u \in Seq(CvTurnSet) : TurnsMerged(u) \in Seq(CvTurnSet)}
  <1>1. <<>> \in S
    BY MergedNothing, EmptySeq DEF TurnsMerged
  <1>2. ASSUME NEW u \in Seq(CvTurnSet), NEW e \in CvTurnSet, u \in S PROVE Append(u, e) \in S
    <2>1. TurnsMerged(Append(u, e)) = MergedWith(TurnsMerged(u), e)
      BY MergedAppend DEF TurnsMerged
    <2>2. Append(u, e) \in Seq(CvTurnSet)
      BY AppendProperties
    <2> QED
      BY <1>2, <2>1, <2>2, MergedWithTyped
  <1> HIDE DEF S
  <1>3. Seq(CvTurnSet) \subseteq S
    BY <1>1, <1>2, SeqStepwise
  <1> QED
    BY <1>3 DEF S

\* All the blocks of the turns.
OwnBlocks == [m \in CvTurnSet |-> m.blocks]
AllBlocks(ms) == Mapped(OwnBlocks, ms)

LEMMA OwnBlocksGives == Gives(OwnBlocks, CvTurnSet, Seq(CvBlockSet))
  BY TurnFields DEF Gives, OwnBlocks

LEMMA AllBlocksIs ==
  ASSUME NEW ms \in Seq(CvTurnSet)
  PROVE  /\ Each(LAMBDA m : m.blocks, ms) = AllBlocks(ms)
         /\ AllBlocks(ms) \in Seq(CvBlockSet)
  <1>1. \A i \in DOMAIN ms : ms[i] \in CvTurnSet
    BY LenProperties, ElementOfSeq
  <1>2. [i \in DOMAIN ms |-> ms[i].blocks] = [i \in DOMAIN ms |-> OwnBlocks[ms[i]]]
    BY <1>1 DEF OwnBlocks
  <1> QED
    BY <1>2, OwnBlocksGives, MappedTyped DEF Each, AllBlocks, Mapped

LEMMA AllBlocksAppend ==
  ASSUME NEW ms \in Seq(CvTurnSet), NEW m \in CvTurnSet
  PROVE  AllBlocks(Append(ms, m)) = AllBlocks(ms) \o m.blocks
  <1>1. Mapped(OwnBlocks, Append(ms, m)) = Mapped(OwnBlocks, ms) \o OwnBlocks[m]
    BY OwnBlocksGives, MappedAppend
  <1>2. OwnBlocks[m] = m.blocks
    BY DEF OwnBlocks
  <1> QED
    BY <1>1, <1>2 DEF AllBlocks

\* Merging turns loses no block and moves none.
LEMMA MergingKeepsBlocks ==
  ASSUME NEW s \in Seq(CvTurnSet)
  PROVE  AllBlocks(TurnsMerged(s)) = AllBlocks(s)
  <1> DEFINE S == {u \in Seq(CvTurnSet) : AllBlocks(TurnsMerged(u)) = AllBlocks(u)}
  <1>1. <<>> \in S
    BY MergedNothing, EmptySeq DEF TurnsMerged
  <1>2. ASSUME NEW u \in Seq(CvTurnSet), NEW e \in CvTurnSet, u \in S PROVE Append(u, e) \in S
    <2>1. TurnsMerged(Append(u, e)) = MergedWith(TurnsMerged(u), e)
      BY MergedAppend DEF TurnsMerged
    <2>2. Append(u, e) \in Seq(CvTurnSet)
      BY AppendProperties
    <2>3. PICK R \in Seq(CvTurnSet) : R = TurnsMerged(u)
      BY TurnsMergedTyped
    <2>4. AllBlocks(MergedWith(R, e)) = AllBlocks(R) \o e.blocks
      <3>1. CASE MergedWith(R, e) = Append(R, e)
        BY <3>1, AllBlocksAppend
      <3>2. ASSUME NEW F \in Seq(CvTurnSet), NEW l \in CvTurnSet, R = Append(F, l),
                   l.role = e.role, MergedWith(R, e) = Append(F, JoinedTurn(l, e))
            PROVE  AllBlocks(MergedWith(R, e)) = AllBlocks(R) \o e.blocks
        <4>1. PICK j \in CvTurnSet : j = JoinedTurn(l, e)
          BY <3>2, JoinedTurnTyped
        <4>2. AllBlocks(Append(F, j)) = AllBlocks(F) \o j.blocks
          BY AllBlocksAppend
        <4>3. j.blocks = l.blocks \o e.blocks
          BY <4>1 DEF JoinedTurn
        <4>4. AllBlocks(R) = AllBlocks(F) \o l.blocks
          BY <3>2, AllBlocksAppend
        <4>5. Associates(AllBlocks(F), l.blocks, e.blocks)
          BY AllBlocksIs, TurnFields, KindsAssociate
        <4> QED
          BY <3>2, <4>1, <4>2, <4>3, <4>4, <4>5 DEF Associates
      <3>3. \/ MergedWith(R, e) = Append(R, e)
            \/ \E F \in Seq(CvTurnSet), l \in CvTurnSet :
                 /\ R = Append(F, l) /\ l.role = e.role
                 /\ MergedWith(R, e) = Append(F, JoinedTurn(l, e))
        BY MergedCases
      <3> QED
        BY <3>1, <3>2, <3>3
    <2>5. AllBlocks(Append(u, e)) = AllBlocks(u) \o e.blocks
      BY AllBlocksAppend
    <2> QED
      BY <1>2, <2>1, <2>2, <2>3, <2>4, <2>5
  <1> HIDE DEF S
  <1>3. Seq(CvTurnSet) \subseteq S
    BY <1>1, <1>2, SeqStepwise
  <1> QED
    BY <1>3 DEF S

-----------------------------------------------------------------------------
(* Turns: calls and the results that answer them *)

UsesOf(m) == OfKinds(m.blocks, {"use"})
AnsOf(m) == OfKinds(m.blocks, {"result"})

\* The results of m are at its head, and they answer these calls in their order.
AnswersAre(calls, m) ==
  /\ Len(AnsOf(m)) = Len(calls)
  /\ \A k \in DOMAIN AnsOf(m) : m.blocks[k] = AnsOf(m)[k] /\ AnsOf(m)[k].id = calls[k].id

\* The calls of turn i, of which there are none before the first.
CallsAt(ms, i) == IF i \in DOMAIN ms THEN UsesOf(ms[i]) ELSE <<>>
OpenCalls(ms) == CallsAt(ms, Len(ms))

\* TurnsFit but for the calls of the last turn.
TurnsHold(ms) ==
  /\ \A i \in 1 .. (Len(ms) - 1) : ms[i].role # ms[i + 1].role
  /\ \A i \in DOMAIN ms : AnswersAre(CallsAt(ms, i - 1), ms[i])

LEMMA TurnsFitIs ==
  ASSUME NEW ms
  PROVE  TurnsFit(ms) <=> TurnsHold(ms) /\ OpenCalls(ms) = <<>>
  BY DEF TurnsFit, TurnsHold, OpenCalls, CallsAt, UsesOf, AnsOf, AnswersAre

CvOf(kinds) == {b \in CvBlockSet : b.kind \in kinds}

LEMMA CvOfKinds ==
  ASSUME NEW s \in Seq(CvBlockSet), NEW kinds
  PROVE  /\ OfKinds(s, kinds) = Sifted(CvBlockSet, CvOf(kinds), s)
         /\ OfKinds(s, kinds) \in Seq(CvBlockSet)
  <1>1. OfKinds(s, kinds) = Sifted(CvBlockSet, {x \in CvBlockSet : x.kind \in kinds}, s)
    BY OfKindsIs
  <1>2. CvOf(kinds) = {x \in CvBlockSet : x.kind \in kinds}
    BY DEF CvOf
  <1> QED
    BY <1>1, <1>2, SiftedTyped

LEMMA CvKindsConcat ==
  ASSUME NEW s \in Seq(CvBlockSet), NEW t \in Seq(CvBlockSet), NEW kinds
  PROVE  OfKinds(s \o t, kinds) = OfKinds(s, kinds) \o OfKinds(t, kinds)
  <1>1. PICK u \in Seq(CvBlockSet) : u = s \o t
    BY ConcatProperties
  <1>2. OfKinds(u, kinds) = Sifted(CvBlockSet, CvOf(kinds), u)
    BY CvOfKinds
  <1>3. Sifted(CvBlockSet, CvOf(kinds), s \o t)
          = Sifted(CvBlockSet, CvOf(kinds), s) \o Sifted(CvBlockSet, CvOf(kinds), t)
    BY SiftedConcat
  <1>4. OfKinds(s, kinds) = Sifted(CvBlockSet, CvOf(kinds), s)
        /\ OfKinds(t, kinds) = Sifted(CvBlockSet, CvOf(kinds), t)
    BY CvOfKinds
  <1> QED
    BY <1>1, <1>2, <1>3, <1>4

LEMMA KindsOfTurn ==
  ASSUME NEW m \in CvTurnSet
  PROVE  /\ UsesOf(m) = Sifted(CvBlockSet, CvOf({"use"}), m.blocks)
         /\ AnsOf(m) = Sifted(CvBlockSet, CvOf({"result"}), m.blocks)
         /\ UsesOf(m) \in Seq(CvBlockSet) /\ AnsOf(m) \in Seq(CvBlockSet)
  BY TurnFields, CvOfKinds DEF UsesOf, AnsOf

LEMMA NoTurnsHold == TurnsHold(<<>>) /\ OpenCalls(<<>>) = <<>>
  <1>1. DOMAIN <<>> = {} /\ Len(<<>>) = 0
    OBVIOUS
  <1>2. \A i \in 1 .. (Len(<<>>) - 1) : FALSE
    BY <1>1
  <1> QED
    BY <1>1, <1>2 DEF TurnsHold, OpenCalls, CallsAt

\* One turn more.
LEMMA TurnsHoldAppend ==
  ASSUME NEW F \in Seq(CvTurnSet), NEW m \in CvTurnSet
  PROVE  /\ TurnsHold(Append(F, m)) <=> /\ TurnsHold(F)
                                        /\ F = <<>> \/ Last(F).role # m.role
                                        /\ AnswersAre(OpenCalls(F), m)
         /\ OpenCalls(Append(F, m)) = UsesOf(m)
  <1>1. PICK n \in Nat : n = Len(F)
    BY LenProperties
  <1>2. PICK a \in Seq(CvTurnSet) : a = Append(F, m)
    BY AppendProperties
  <1>3. Len(a) = n + 1 /\ a[n + 1] = m /\ \A i \in 1 .. n : a[i] = F[i]
    BY <1>1, <1>2, AppendProperties
  <1>4. DOMAIN F = 1 .. n /\ DOMAIN a = 1 .. n + 1
    BY <1>1, <1>3, LenProperties
  <1>5. OpenCalls(a) = UsesOf(m)
    BY <1>3, <1>4 DEF OpenCalls, CallsAt
  <1>6. CallsAt(a, n) = OpenCalls(F)
    BY <1>1, <1>3, <1>4 DEF OpenCalls, CallsAt
  <1>7. \A i \in 1 .. n : CallsAt(a, i - 1) = CallsAt(F, i - 1) /\ a[i] = F[i]
    <2> SUFFICES ASSUME NEW i \in 1 .. n PROVE CallsAt(a, i - 1) = CallsAt(F, i - 1)
      BY <1>3
    <2>1. i - 1 \in DOMAIN F <=> i - 1 \in DOMAIN a
      BY <1>4
    <2>2. i - 1 \in DOMAIN F => a[i - 1] = F[i - 1]
      BY <1>3, <1>4
    <2> QED
      BY <2>1, <2>2 DEF CallsAt
  <1>8. (n + 1) - 1 = n /\ Len(a) - 1 = n /\ \A i \in 1 .. n + 1 : i \in 1 .. n \/ i = n + 1
    BY <1>3
  <1>9. F = <<>> <=> n = 0
    BY <1>1, EmptySeq
  <1>10. n # 0 => Last(F) = F[n] /\ n \in 1 .. n
    BY <1>1 DEF Last
  <1>11. ASSUME TurnsHold(a)
         PROVE  TurnsHold(F) /\ (F = <<>> \/ Last(F).role # m.role) /\ AnswersAre(OpenCalls(F), m)
    <2>1. \A i \in 1 .. n : a[i].role # a[i + 1].role
      BY <1>8, <1>11 DEF TurnsHold
    <2>2. \A i \in 1 .. n + 1 : AnswersAre(CallsAt(a, i - 1), a[i])
      BY <1>4, <1>11 DEF TurnsHold
    <2>3. \A i \in 1 .. (n - 1) : F[i].role # F[i + 1].role
      <3>1. \A i \in 1 .. (n - 1) : i \in 1 .. n /\ i + 1 \in 1 .. n
        OBVIOUS
      <3> QED
        BY <1>3, <2>1, <3>1
    <2>4. \A i \in 1 .. n : AnswersAre(CallsAt(F, i - 1), F[i])
      BY <1>7, <2>2
    <2>5. AnswersAre(OpenCalls(F), m)
      <3>1. n + 1 \in 1 .. n + 1
        OBVIOUS
      <3> QED
        BY <1>3, <1>6, <1>8, <2>2, <3>1
    <2>6. F = <<>> \/ Last(F).role # m.role
      BY <1>3, <1>9, <1>10, <2>1
    <2> QED
      BY <1>1, <1>4, <2>3, <2>4, <2>5, <2>6 DEF TurnsHold
  <1>12. ASSUME TurnsHold(F), F = <<>> \/ Last(F).role # m.role, AnswersAre(OpenCalls(F), m)
         PROVE  TurnsHold(a)
    <2>1. \A i \in 1 .. (n - 1) : F[i].role # F[i + 1].role
      BY <1>1, <1>12 DEF TurnsHold
    <2>2. \A i \in 1 .. n : AnswersAre(CallsAt(F, i - 1), F[i])
      BY <1>4, <1>12 DEF TurnsHold
    <2>3. ASSUME NEW i \in 1 .. n PROVE a[i].role # a[i + 1].role
      <3>1. CASE i = n
        BY <1>3, <1>9, <1>10, <1>12, <3>1
      <3>2. CASE i # n
        <4>1. i \in 1 .. (n - 1) /\ i + 1 \in 1 .. n
          BY <3>2
        <4> QED
          BY <1>3, <2>1, <4>1
      <3> QED
        BY <3>1, <3>2
    <2>4. ASSUME NEW i \in 1 .. n + 1 PROVE AnswersAre(CallsAt(a, i - 1), a[i])
      <3>1. CASE i = n + 1
        BY <1>3, <1>6, <1>8, <1>12, <3>1
      <3>2. CASE i # n + 1
        BY <1>7, <1>8, <2>2, <3>2
      <3> QED
        BY <3>1, <3>2
    <2> QED
      BY <1>4, <1>8, <2>3, <2>4 DEF TurnsHold
  <1> QED
    BY <1>2, <1>5, <1>11, <1>12

\* What a turn says and calls, after turns that fit.
LEMMA SayingHolds ==
  ASSUME NEW R \in Seq(CvTurnSet), NEW m \in CvTurnSet, TurnsFit(R), AnsOf(m) = <<>>
  PROVE  /\ MergedWith(R, m) \in Seq(CvTurnSet) /\ TurnsHold(MergedWith(R, m))
         /\ OpenCalls(MergedWith(R, m)) = UsesOf(m)
         /\ MergedWith(R, m) # <<>> /\ Last(MergedWith(R, m)).role = m.role
  <1>1. TurnsHold(R) /\ OpenCalls(R) = <<>>
    BY TurnsFitIs
  <1>2. CASE (R = <<>> \/ Last(R).role # m.role) /\ MergedWith(R, m) = Append(R, m)
    <2>1. AnswersAre(<<>>, m)
      BY DEF AnswersAre
    <2> QED
      BY <1>1, <1>2, <2>1, TurnsHoldAppend, LastAppended, AppendProperties
  <1>3. ASSUME NEW F \in Seq(CvTurnSet), NEW l \in CvTurnSet, R = Append(F, l),
               l.role = m.role, MergedWith(R, m) = Append(F, JoinedTurn(l, m))
        PROVE  /\ MergedWith(R, m) \in Seq(CvTurnSet) /\ TurnsHold(MergedWith(R, m))
               /\ OpenCalls(MergedWith(R, m)) = UsesOf(m)
               /\ MergedWith(R, m) # <<>> /\ Last(MergedWith(R, m)).role = m.role
    <2>1. PICK j \in CvTurnSet : j = JoinedTurn(l, m)
      BY <1>3, JoinedTurnTyped
    <2>2. /\ TurnsHold(F) /\ (F = <<>> \/ Last(F).role # l.role)
          /\ AnswersAre(OpenCalls(F), l) /\ UsesOf(l) = <<>>
      BY <1>1, <1>3, TurnsHoldAppend
    <2>3. j.role = m.role /\ j.blocks = l.blocks \o m.blocks
      BY <2>1 DEF JoinedTurn
    <2>4. UsesOf(j) = UsesOf(l) \o UsesOf(m) /\ AnsOf(j) = AnsOf(l) \o AnsOf(m)
      <3>1. PICK s \in Seq(CvBlockSet) : s = l.blocks
        BY TurnFields
      <3>2. PICK t \in Seq(CvBlockSet) : t = m.blocks
        BY TurnFields
      <3>3. \A kinds : OfKinds(s \o t, kinds) = OfKinds(s, kinds) \o OfKinds(t, kinds)
        BY CvKindsConcat
      <3> QED
        BY <2>3, <3>1, <3>2, <3>3 DEF UsesOf, AnsOf
    <2>5. UsesOf(j) = UsesOf(m) /\ AnsOf(j) = AnsOf(l)
      BY <2>2, <2>4, KindsOfTurn, ConcatEmptySeq
    <2>6. AnswersAre(OpenCalls(F), j)
      <3>1. Len(AnsOf(l)) <= Len(l.blocks)
        BY KindsOfTurn, TurnFields, SiftedLen
      <3>2. \A k \in DOMAIN AnsOf(l) : j.blocks[k] = l.blocks[k]
        <4>1. DOMAIN AnsOf(l) = 1 .. Len(AnsOf(l)) /\ Len(AnsOf(l)) \in Nat
          BY KindsOfTurn, LenProperties
        <4>2. Len(l.blocks) \in Nat /\ Len(m.blocks) \in Nat
          BY TurnFields, LenProperties
        <4>3. \A k \in DOMAIN AnsOf(l) : k \in 1 .. Len(l.blocks) + Len(m.blocks) /\ k <= Len(l.blocks)
          <5>1. PICK a \in Nat, p \in Nat, q \in Nat :
                  a = Len(AnsOf(l)) /\ p = Len(l.blocks) /\ q = Len(m.blocks)
            BY <4>1, <4>2
          <5>3. a <= p
            BY <3>1, <5>1
          <5>2. \A k \in 1 .. a : k \in 1 .. p + q /\ k <= p
            BY <5>3
          <5> QED
            BY <4>1, <5>1, <5>2
        <4>4. \A k \in 1 .. Len(l.blocks) + Len(m.blocks) :
                (l.blocks \o m.blocks)[k] = IF k <= Len(l.blocks) THEN l.blocks[k]
                                            ELSE m.blocks[k - Len(l.blocks)]
          BY TurnFields, ConcatProperties
        <4> QED
          BY <2>3, <4>3, <4>4
      <3> QED
        BY <2>2, <2>5, <3>2 DEF AnswersAre
    <2>7. TurnsHold(Append(F, j)) /\ OpenCalls(Append(F, j)) = UsesOf(j)
      BY <1>3, <2>2, <2>3, <2>6, TurnsHoldAppend
    <2> QED
      BY <1>3, <2>1, <2>3, <2>5, <2>7, LastAppended, AppendProperties
  <1>4. \/ (R = <<>> \/ Last(R).role # m.role) /\ MergedWith(R, m) = Append(R, m)
        \/ \E F \in Seq(CvTurnSet), l \in CvTurnSet :
             R = Append(F, l) /\ l.role = m.role
             /\ MergedWith(R, m) = Append(F, JoinedTurn(l, m))
    BY MergedCases
  <1> QED
    BY <1>2, <1>3, <1>4

\* Answers to the calls of the turn before.
LEMMA AnsweringFits ==
  ASSUME NEW R \in Seq(CvTurnSet), NEW m \in CvTurnSet, TurnsHold(R),
         R = <<>> \/ Last(R).role # m.role, AnswersAre(OpenCalls(R), m), UsesOf(m) = <<>>
  PROVE  MergedWith(R, m) \in Seq(CvTurnSet) /\ TurnsFit(MergedWith(R, m))
  <1>1. MergedWith(R, m) = Append(R, m)
    BY DEF MergedWith
  <1> QED
    BY <1>1, TurnsHoldAppend, TurnsFitIs, AppendProperties

-----------------------------------------------------------------------------
(* Turns: what the pairing of calls and results makes of a turn *)

KeptCalls(results) ==
  {x \in CvBlockSet : x.kind = "use" /\ OutputsOf(results, x.id) # <<>>}

LEMMA LastIsMember ==
  ASSUME NEW K, NEW s \in Seq(K), s # <<>>
  PROVE  Last(s) \in ToSet(s)
  <1>1. Len(s) \in 1 .. Len(s) /\ DOMAIN s = 1 .. Len(s)
    BY LenProperties, EmptySeq
  <1> QED
    BY <1>1 DEF Last, ToSet

LEMMA LastOutputOf ==
  ASSUME NEW results \in Seq(CvBlockSet), NEW id, OutputsOf(results, id) # <<>>
  PROVE  Last(OutputsOf(results, id)) \in ToSet(results)
         /\ Last(OutputsOf(results, id)).id = id
  <1> DEFINE T == {x \in CvBlockSet : x.id = id}
  <1>1. PICK s \in Seq(CvBlockSet) : s = Sifted(CvBlockSet, T, results)
    BY SiftedTyped
  <1>2. OutputsOf(results, id) = s
    BY <1>1, OutputsOfIs
  <1>3. ToSet(s) = ToSet(results) \cap T
    BY <1>1, SiftedSet
  <1>4. Last(s) \in ToSet(s)
    BY <1>2, LastIsMember
  <1> QED
    BY <1>2, <1>3, <1>4

LEMMA CallsKeptTyped ==
  ASSUME NEW results, NEW m \in CvTurnSet
  PROVE  /\ CallsKept(results, m) \in Seq(CvBlockSet)
         /\ ToSet(CallsKept(results, m)) = ToSet(m.blocks) \cap KeptCalls(results)
         /\ CallsKept(results, m) # <<>> => m.role = "assistant"
  <1>1. PICK s \in Seq(CvBlockSet) : s = m.blocks
    BY TurnFields
  <1>2. CallsKept(results, m) = Sifted(CvBlockSet, KeptCalls(results), s)
    <2>1. CallsKept(results, m)
            = Sifted(CvBlockSet,
                     {x \in CvBlockSet : x.kind = "use" /\ OutputsOf(results, x.id) # <<>>}, m.blocks)
      BY <1>1, CallsKeptIs
    <2> QED
      BY <1>1, <2>1 DEF KeptCalls
  <1>3. PICK c \in Seq(CvBlockSet) : c = CallsKept(results, m)
    BY <1>2, SiftedTyped
  <1>4. ToSet(c) = ToSet(s) \cap KeptCalls(results)
    BY <1>2, <1>3, SiftedSet
  <1>5. ASSUME c # <<>> PROVE m.role = "assistant"
    <2>1. Last(c) \in ToSet(s) \cap KeptCalls(results)
      BY <1>4, <1>5, LastIsMember
    <2> QED
      BY <1>1, <2>1, TurnFields DEF KeptCalls
  <1> QED
    BY <1>1, <1>3, <1>4, <1>5

LEMMA AnswersToTyped ==
  ASSUME NEW results \in Seq(CvBlockSet), NEW c \in Seq(CvBlockSet),
         ToSet(c) \subseteq KeptCalls(results)
  PROVE  /\ AnswersTo(results, c) \in Seq(CvBlockSet)
         /\ Len(AnswersTo(results, c)) = Len(c)
         /\ ToSet(AnswersTo(results, c)) \subseteq ToSet(results)
         /\ \A k \in 1 .. Len(c) : /\ AnswersTo(results, c)[k] = Last(OutputsOf(results, c[k].id))
                                   /\ AnswersTo(results, c)[k].id = c[k].id
  <1>1. PICK n \in Nat : n = Len(c) /\ DOMAIN c = 1 .. n
    BY LenProperties
  <1>2. PICK a : a = AnswersTo(results, c)
    OBVIOUS
  <1>3. a = [i \in 1 .. n |-> Last(OutputsOf(results, c[i].id))]
    BY <1>1, <1>2 DEF AnswersTo
  <1>4. ASSUME NEW k \in 1 .. n PROVE a[k] \in ToSet(results) /\ a[k].id = c[k].id
    <2>1. c[k] \in KeptCalls(results)
      BY <1>1 DEF ToSet
    <2>2. OutputsOf(results, c[k].id) # <<>>
      BY <2>1 DEF KeptCalls
    <2> QED
      BY <1>3, <2>2, LastOutputOf
  <1>5. ToSet(results) \subseteq CvBlockSet
    BY MembersTyped
  <1>6. a \in [1 .. n -> CvBlockSet]
    BY <1>3, <1>4, <1>5
  <1>7. a \in Seq(CvBlockSet) /\ Len(a) = n /\ DOMAIN a = 1 .. n
    BY <1>6
  <1>8. ToSet(a) \subseteq ToSet(results)
    BY <1>4, <1>7 DEF ToSet
  <1> QED
    BY <1>1, <1>2, <1>3, <1>4, <1>7, <1>8

\* The two turns that the pairing makes of one.
SaysTurn(results, m) ==
  [role |-> m.role, blocks |-> OfKinds(m.blocks, {"text", "image"}) \o CallsKept(results, m)]
AnswersTurn(results, m) ==
  [role |-> "user", blocks |-> AnswersTo(results, CallsKept(results, m))]

LEMMA SaysTurnIs ==
  ASSUME NEW results, NEW m \in CvTurnSet
  PROVE  /\ SaysTurn(results, m) \in CvTurnSet
         /\ AnsOf(SaysTurn(results, m)) = <<>>
         /\ UsesOf(SaysTurn(results, m)) = CallsKept(results, m)
         /\ OfKinds(SaysTurn(results, m).blocks, {"text", "image"})
              = OfKinds(m.blocks, {"text", "image"})
         /\ ToSet(SaysTurn(results, m).blocks)
              = ToSet(OfKinds(m.blocks, {"text", "image"})) \cup ToSet(CallsKept(results, m))
  <1>1. PICK s \in Seq(CvBlockSet) : s = m.blocks
    BY TurnFields
  <1>2. PICK c \in Seq(CvBlockSet) : c = CallsKept(results, m)
    BY CallsKeptTyped
  <1>3. PICK o \in Seq(CvBlockSet) : o = OfKinds(s, {"text", "image"})
    BY CvOfKinds
  <1>4. o = Sifted(CvBlockSet, CvOf({"text", "image"}), s)
    BY <1>3, CvOfKinds
  <1>5. ToSet(o) = ToSet(s) \cap CvOf({"text", "image"})
    BY <1>4, SiftedSet
  <1>6. ToSet(c) = ToSet(s) \cap KeptCalls(results) /\ (c # <<>> => m.role = "assistant")
    BY <1>1, <1>2, CallsKeptTyped
  <1>7. PICK b \in Seq(CvBlockSet) : b = o \o c
    BY ConcatProperties
  <1>8. ToSet(b) = ToSet(o) \cup ToSet(c)
    BY <1>7, ConcatSet
  <1>9. PICK t : t = SaysTurn(results, m)
    OBVIOUS
  <1>10. t = [role |-> m.role, blocks |-> b]
    BY <1>1, <1>2, <1>3, <1>7, <1>9 DEF SaysTurn
  <1>11. ToSet(c) \subseteq CvOf({"use"}) /\ ToSet(c) \cap CvOf({"result"}) = {}
         /\ ToSet(c) \cap CvOf({"text", "image"}) = {}
    BY <1>6 DEF KeptCalls, CvOf
  <1>12. ToSet(o) \subseteq CvOf({"text", "image"}) /\ ToSet(o) \cap CvOf({"use"}) = {}
         /\ ToSet(o) \cap CvOf({"result"}) = {}
    BY <1>5 DEF CvOf
  <1>13. t \in CvTurnSet
    <2>1. \A x \in ToSet(b) : /\ x.kind = "use" => m.role = "assistant"
                              /\ x.kind = "result" => m.role = "user"
      BY <1>1, <1>5, <1>6, <1>8, TurnFields
    <2>2. m.role \in {"user", "assistant"}
      BY TurnFields
    <2> QED
      BY <1>10, <2>1, <2>2 DEF CvTurnSet
  <1>14. AnsOf(t) = <<>>
    <2>1. ToSet(b) \cap CvOf({"result"}) = {}
      BY <1>8, <1>11, <1>12
    <2>2. Sifted(CvBlockSet, CvOf({"result"}), b) = <<>>
      BY <2>1, SiftedAway
    <2> QED
      BY <1>10, <2>2, CvOfKinds DEF AnsOf
  <1>15. OfKinds(b, {"use"}) = OfKinds(o, {"use"}) \o OfKinds(c, {"use"})
    BY <1>7, CvKindsConcat
  <1>16. OfKinds(o, {"use"}) = <<>> /\ OfKinds(c, {"use"}) = c
    BY <1>11, <1>12, CvOfKinds, SiftedAway, SiftedAll
  <1>17. UsesOf(t) = c
    BY <1>10, <1>15, <1>16, ConcatEmptySeq DEF UsesOf
  <1>18. OfKinds(b, {"text", "image"}) = OfKinds(o, {"text", "image"}) \o OfKinds(c, {"text", "image"})
    BY <1>7, CvKindsConcat
  <1>19. OfKinds(o, {"text", "image"}) = o /\ OfKinds(c, {"text", "image"}) = <<>>
    BY <1>11, <1>12, CvOfKinds, SiftedAway, SiftedAll
  <1>20. OfKinds(b, {"text", "image"}) = o
    BY <1>18, <1>19, ConcatEmptySeq
  <1>21. t.blocks = b
    BY <1>10
  <1> QED
    BY <1>1, <1>2, <1>3, <1>8, <1>9, <1>13, <1>14, <1>17, <1>20, <1>21

LEMMA AnswersTurnIs ==
  ASSUME NEW results \in Seq(CvBlockSet), ToSet(results) \subseteq CvOf({"result"}),
         NEW m \in CvTurnSet
  PROVE  /\ AnswersTurn(results, m) \in CvTurnSet
         /\ AnsOf(AnswersTurn(results, m)) = AnswersTurn(results, m).blocks
         /\ UsesOf(AnswersTurn(results, m)) = <<>>
         /\ OfKinds(AnswersTurn(results, m).blocks, {"text", "image"}) = <<>>
         /\ AnswersAre(CallsKept(results, m), AnswersTurn(results, m))
         /\ ToSet(AnswersTurn(results, m).blocks) \subseteq ToSet(results)
         /\ CallsKept(results, m) = <<>> <=> AnswersTurn(results, m).blocks = <<>>
  <1>1. PICK c \in Seq(CvBlockSet) : c = CallsKept(results, m)
    BY CallsKeptTyped
  <1>2. ToSet(c) \subseteq KeptCalls(results)
    BY <1>1, CallsKeptTyped
  <1>3. PICK a \in Seq(CvBlockSet) : a = AnswersTo(results, c)
    BY <1>2, AnswersToTyped
  <1>4. Len(a) = Len(c) /\ ToSet(a) \subseteq ToSet(results) /\ \A k \in 1 .. Len(c) : a[k].id = c[k].id
    BY <1>2, <1>3, AnswersToTyped
  <1>5. PICK t : t = AnswersTurn(results, m)
    OBVIOUS
  <1>6. t = [role |-> "user", blocks |-> a]
    BY <1>1, <1>3, <1>5 DEF AnswersTurn
  <1>7. ToSet(a) \subseteq CvOf({"result"})
    BY <1>4
  <1>8. t \in CvTurnSet
    BY <1>6, <1>7 DEF CvTurnSet, CvOf
  <1>9. ToSet(a) \cap CvOf({"use"}) = {} /\ ToSet(a) \cap CvOf({"text", "image"}) = {}
    BY <1>7 DEF CvOf
  <1>10. OfKinds(a, {"result"}) = a /\ OfKinds(a, {"use"}) = <<>> /\ OfKinds(a, {"text", "image"}) = <<>>
    BY <1>7, <1>9, CvOfKinds, SiftedAway, SiftedAll
  <1>11. AnsOf(t) = a /\ UsesOf(t) = <<>>
    BY <1>6, <1>10 DEF AnsOf, UsesOf
  <1>12. DOMAIN a = 1 .. Len(c)
    BY <1>4, LenProperties
  <1>13. AnswersAre(c, t)
    BY <1>4, <1>6, <1>11, <1>12 DEF AnswersAre
  <1>14. c = <<>> <=> a = <<>>
    BY <1>4, EmptySeq
  <1> QED
    BY <1>1, <1>4, <1>5, <1>6, <1>8, <1>10, <1>11, <1>13, <1>14

LEMMA PairedIs ==
  ASSUME NEW results \in Seq(CvBlockSet), ToSet(results) \subseteq CvOf({"result"}),
         NEW m \in CvTurnSet
  PROVE  /\ SaysTurn(results, m).blocks = <<>> =>
              Paired(results, m) = <<>> /\ CallsKept(results, m) = <<>>
         /\ SaysTurn(results, m).blocks # <<>> =>
              IF CallsKept(results, m) = <<>> THEN Paired(results, m) = <<SaysTurn(results, m)>>
              ELSE Paired(results, m) = <<SaysTurn(results, m)>> \o <<AnswersTurn(results, m)>>
  <1>1. PICK s \in CvTurnSet : s = SaysTurn(results, m)
    BY SaysTurnIs
  <1>2. PICK t \in CvTurnSet : t = AnswersTurn(results, m)
    BY AnswersTurnIs
  <1>3. Paired(results, m) = Says(m.role, s.blocks) \o Says("user", t.blocks)
    BY <1>1, <1>2 DEF Paired, SaysTurn, AnswersTurn
  <1>4. CallsKept(results, m) = <<>> <=> t.blocks = <<>>
    BY <1>2, AnswersTurnIs
  <1>5. s = [role |-> m.role, blocks |-> s.blocks] /\ t = [role |-> "user", blocks |-> t.blocks]
    BY <1>1, <1>2 DEF SaysTurn, AnswersTurn
  <1>6. Says(m.role, s.blocks) = IF s.blocks = <<>> THEN <<>> ELSE <<s>>
    BY <1>5 DEF Says
  <1>7. Says("user", t.blocks) = IF t.blocks = <<>> THEN <<>> ELSE <<t>>
    BY <1>5 DEF Says
  <1>8. s.blocks = <<>> => CallsKept(results, m) = <<>>
    <2>1. PICK o \in Seq(CvBlockSet) : o = OfKinds(m.blocks, {"text", "image"})
      BY TurnFields, CvOfKinds
    <2>2. PICK c \in Seq(CvBlockSet) : c = CallsKept(results, m)
      BY CallsKeptTyped
    <2>3. s.blocks = o \o c
      BY <1>1, <2>1, <2>2 DEF SaysTurn
    <2> QED
      <3>1. Len(o \o c) = Len(o) + Len(c) /\ Len(o) \in Nat /\ Len(c) \in Nat
        BY ConcatProperties, LenProperties
      <3>2. o \o c = <<>> => Len(c) = 0
        BY <3>1
      <3> QED
        BY <2>2, <2>3, <3>2, EmptySeq
  <1>9. <<>> \o <<>> = <<>> /\ <<s>> \o <<>> = <<s>>
    BY ConcatEmptySeq, EmptySeq
  <1> QED
    BY <1>1, <1>2, <1>3, <1>4, <1>6, <1>7, <1>8, <1>9

-----------------------------------------------------------------------------
(* Turns: what the pairing makes of a conversation *)

ResultsIn(ms) == OfKinds(AllBlocks(ms), {"result"})
PairsWith(results) == [m \in CvTurnSet |-> Paired(results, m)]

LEMMA PairsWithGives ==
  ASSUME NEW results \in Seq(CvBlockSet), ToSet(results) \subseteq CvOf({"result"})
  PROVE  Gives(PairsWith(results), CvTurnSet, Seq(CvTurnSet))
  <1>1. ASSUME NEW m \in CvTurnSet PROVE Paired(results, m) \in Seq(CvTurnSet)
    <2>1. PICK s \in CvTurnSet : s = SaysTurn(results, m)
      BY SaysTurnIs
    <2>2. PICK t \in CvTurnSet : t = AnswersTurn(results, m)
      BY AnswersTurnIs
    <2>3. <<>> \in Seq(CvTurnSet) /\ <<s>> \in Seq(CvTurnSet) /\ <<t>> \in Seq(CvTurnSet)
      BY EmptySeq
    <2>4. <<s>> \o <<t>> \in Seq(CvTurnSet)
      BY <2>3, ConcatProperties
    <2> QED
      BY <2>1, <2>2, <2>3, <2>4, PairedIs
  <1> QED
    BY <1>1 DEF Gives, PairsWith

LEMMA ResultsInTyped ==
  ASSUME NEW ms \in Seq(CvTurnSet)
  PROVE  /\ ResultsIn(ms) \in Seq(CvBlockSet)
         /\ ToSet(ResultsIn(ms)) = ToSet(AllBlocks(ms)) \cap CvOf({"result"})
  <1>1. PICK s \in Seq(CvBlockSet) : s = AllBlocks(ms)
    BY AllBlocksIs
  <1>2. ResultsIn(ms) = Sifted(CvBlockSet, CvOf({"result"}), s)
    BY <1>1, CvOfKinds DEF ResultsIn
  <1>3. PICK r \in Seq(CvBlockSet) : r = Sifted(CvBlockSet, CvOf({"result"}), s)
    BY SiftedTyped
  <1>4. ToSet(r) = ToSet(s) \cap CvOf({"result"})
    BY <1>3, SiftedSet
  <1> QED
    BY <1>1, <1>2, <1>3, <1>4

LEMMA TurnsPairedIs ==
  ASSUME NEW ms \in Seq(CvTurnSet)
  PROVE  /\ TurnsPaired(ms) = Mapped(PairsWith(ResultsIn(ms)), ms)
         /\ TurnsPaired(ms) \in Seq(CvTurnSet)
  <1>1. PICK results \in Seq(CvBlockSet) : results = ResultsIn(ms)
    BY ResultsInTyped
  <1>2. TurnsPaired(ms) = FlattenSeq([i \in DOMAIN ms |-> Paired(results, ms[i])])
    <2>1. ResultsIn(ms) = OfKinds(Each(LAMBDA m : m.blocks, ms), {"result"})
      BY AllBlocksIs DEF ResultsIn
    <2> QED
      BY <1>1, <2>1 DEF TurnsPaired, Each
  <1>3. \A i \in DOMAIN ms : ms[i] \in CvTurnSet
    BY LenProperties, ElementOfSeq
  <1>4. [i \in DOMAIN ms |-> Paired(results, ms[i])]
          = [i \in DOMAIN ms |-> PairsWith(results)[ms[i]]]
    BY <1>3 DEF PairsWith
  <1>5. TurnsPaired(ms) = Mapped(PairsWith(results), ms)
    BY <1>2, <1>4 DEF Mapped
  <1>6. ToSet(results) \subseteq CvOf({"result"})
    BY <1>1, ResultsInTyped
  <1> QED
    BY <1>1, <1>5, <1>6, PairsWithGives, MappedTyped

\* One turn more, of which the pairing makes two, one or none.
LEMMA PairedTurnFits ==
  ASSUME NEW results \in Seq(CvBlockSet), ToSet(results) \subseteq CvOf({"result"}),
         NEW u \in Seq(CvTurnSet), NEW m \in CvTurnSet, TurnsFit(TurnsMerged(u))
  PROVE  TurnsFit(TurnsMerged(u \o Paired(results, m)))
  <1>1. PICK R \in Seq(CvTurnSet) : R = TurnsMerged(u)
    BY TurnsMergedTyped
  <1>2. PICK s \in CvTurnSet : s = SaysTurn(results, m)
    BY SaysTurnIs
  <1>3. PICK t \in CvTurnSet : t = AnswersTurn(results, m)
    BY AnswersTurnIs
  <1>4. PICK c \in Seq(CvBlockSet) : c = CallsKept(results, m)
    BY CallsKeptTyped
  <1>5. TurnsMerged(Append(u, s)) = MergedWith(R, s) /\ u \o <<s>> = Append(u, s)
    BY <1>1, MergedAppend, AppendIsConcat DEF TurnsMerged
  <1>6. PICK Q \in Seq(CvTurnSet) : Q = MergedWith(R, s)
    BY MergedWithTyped
  <1>7. TurnsHold(Q) /\ OpenCalls(Q) = c /\ Q # <<>> /\ Last(Q).role = m.role
    <2>1. AnsOf(s) = <<>> /\ UsesOf(s) = c /\ s.role = m.role
      BY <1>2, <1>4, SaysTurnIs DEF SaysTurn
    <2> QED
      BY <1>1, <1>6, <2>1, SayingHolds
  <1>8. CASE s.blocks = <<>>
    BY <1>2, <1>8, PairedIs, ConcatEmptySeq
  <1>9. CASE s.blocks # <<>> /\ c = <<>>
    <2>1. Paired(results, m) = <<s>>
      BY <1>2, <1>4, <1>9, PairedIs
    <2>2. TurnsFit(Q)
      BY <1>7, <1>9, TurnsFitIs
    <2> QED
      BY <1>5, <1>6, <2>1, <2>2
  <1>10. CASE s.blocks # <<>> /\ c # <<>>
    <2>1. Paired(results, m) = <<s>> \o <<t>>
      BY <1>2, <1>3, <1>4, <1>10, PairedIs
    <2>2. PICK v \in Seq(CvTurnSet) : v = Append(u, s)
      BY AppendProperties
    <2>3. u \o (<<s>> \o <<t>>) = Append(v, t)
      <3>1. Associates(u, <<s>>, <<t>>)
        <4>1. PICK a \in Seq(CvTurnSet), b \in Seq(CvTurnSet) : a = <<s>> /\ b = <<t>>
          <5>1. <<s>> \in Seq(CvTurnSet) /\ <<t>> \in Seq(CvTurnSet)
            OBVIOUS
          <5> QED
            BY <5>1
        <4> QED
          BY <4>1, KindsAssociate
      <3>2. v \o <<t>> = Append(v, t)
        BY AppendIsConcat
      <3> QED
        BY <1>5, <2>2, <3>1, <3>2 DEF Associates
    <2>4. TurnsMerged(Append(v, t)) = MergedWith(Q, t)
      <3>1. TurnsMerged(Append(v, t)) = MergedWith(TurnsMerged(v), t)
        BY MergedAppend DEF TurnsMerged
      <3> QED
        BY <1>5, <1>6, <2>2, <3>1
    <2>5. m.role = "assistant" /\ t.role = "user"
      BY <1>3, <1>4, <1>10, CallsKeptTyped DEF AnswersTurn
    <2>6. AnswersAre(OpenCalls(Q), t) /\ UsesOf(t) = <<>>
      BY <1>3, <1>4, <1>7, AnswersTurnIs
    <2>7. TurnsFit(MergedWith(Q, t))
      BY <1>7, <2>5, <2>6, AnsweringFits
    <2> QED
      BY <2>1, <2>3, <2>4, <2>7
  <1> QED
    BY <1>8, <1>9, <1>10

LEMMA TurnsAppend ==
  ASSUME NEW g, Gives(g, CvTurnSet, Seq(CvTurnSet)), NEW u \in Seq(CvTurnSet),
         NEW e \in CvTurnSet
  PROVE  Mapped(g, Append(u, e)) = Mapped(g, u) \o g[e]
  BY MappedAppend

LEMMA PairedTurnsFit ==
  ASSUME NEW ms \in Seq(CvTurnSet)
  PROVE  TurnsFit(TurnsMerged(TurnsPaired(ms)))
  <1>1. PICK results \in Seq(CvBlockSet) : results = ResultsIn(ms)
    BY ResultsInTyped
  <1>2. ToSet(results) \subseteq CvOf({"result"})
    BY <1>1, ResultsInTyped
  <1>3. PICK g : g = PairsWith(results)
    OBVIOUS
  <1>4. Gives(g, CvTurnSet, Seq(CvTurnSet))
    BY <1>2, <1>3, PairsWithGives
  <1> DEFINE S == {u \in Seq(CvTurnSet) : TurnsFit(TurnsMerged(Mapped(g, u)))}
  <1>5. <<>> \in S
    <2>1. TurnsFit(<<>>)
      BY NoTurnsHold, TurnsFitIs
    <2> QED
      BY <2>1, MappedNone, MergedNothing, EmptySeq DEF TurnsMerged
  <1>6. ASSUME NEW u \in Seq(CvTurnSet), NEW e \in CvTurnSet, u \in S PROVE Append(u, e) \in S
    <2>1. PICK v \in Seq(CvTurnSet) : v = Mapped(g, u)
      BY <1>4, MappedTyped
    <2>2. Mapped(g, Append(u, e)) = v \o g[e]
      BY <1>4, <2>1, TurnsAppend
    <2>3. g[e] = Paired(results, e)
      BY <1>3 DEF PairsWith
    <2>4. TurnsFit(TurnsMerged(v))
      BY <1>6, <2>1
    <2>5. TurnsFit(TurnsMerged(v \o Paired(results, e)))
      BY <1>2, <2>4, PairedTurnFits
    <2>6. Append(u, e) \in Seq(CvTurnSet)
      BY AppendProperties
    <2> QED
      BY <2>2, <2>3, <2>5, <2>6
  <1> HIDE DEF S
  <1>7. Seq(CvTurnSet) \subseteq S
    BY <1>5, <1>6, SeqStepwise
  <1> QED
    BY <1>1, <1>3, <1>7, TurnsPairedIs DEF S

\* The blocks of the pairs of a turn.
LEMMA PairedBlocks ==
  ASSUME NEW results \in Seq(CvBlockSet), ToSet(results) \subseteq CvOf({"result"}),
         NEW m \in CvTurnSet
  PROVE  AllBlocks(Paired(results, m))
           = SaysTurn(results, m).blocks \o AnswersTurn(results, m).blocks
  <1>1. PICK s \in CvTurnSet : s = SaysTurn(results, m)
    BY SaysTurnIs
  <1>2. PICK t \in CvTurnSet : t = AnswersTurn(results, m)
    BY AnswersTurnIs
  <1>3. CallsKept(results, m) = <<>> <=> t.blocks = <<>>
    BY <1>2, AnswersTurnIs
  <1>4. AllBlocks(<<>>) = <<>>
    BY MappedNone DEF AllBlocks
  <1>5. AllBlocks(<<s>>) = s.blocks
    <2>1. PICK e \in Seq(CvTurnSet) : e = <<>>
      BY EmptySeq
    <2>2. AllBlocks(Append(e, s)) = AllBlocks(e) \o s.blocks
      BY AllBlocksAppend
    <2>3. Append(e, s) = <<s>>
      BY <2>1
    <2> QED
      BY <1>4, <2>1, <2>2, <2>3, TurnFields, ConcatEmptySeq
  <1>6. AllBlocks(<<s>> \o <<t>>) = s.blocks \o t.blocks
    <2>1. PICK e \in Seq(CvTurnSet) : e = <<s>>
      <3>1. <<s>> \in Seq(CvTurnSet)
        OBVIOUS
      <3> QED
        BY <3>1
    <2>2. AllBlocks(Append(e, t)) = AllBlocks(e) \o t.blocks
      BY AllBlocksAppend
    <2>3. Append(e, t) = e \o <<t>>
      BY AppendIsConcat
    <2> QED
      BY <1>5, <2>1, <2>2, <2>3
  <1>7. s.blocks \o <<>> = s.blocks /\ <<>> \o <<>> = <<>>
    BY TurnFields, ConcatEmptySeq, EmptySeq
  <1> QED
    BY <1>1, <1>2, <1>3, <1>4, <1>5, <1>6, <1>7, PairedIs

TextsOf(s) == OfKinds(s, {"text", "image"})

LEMMA TextsConcat ==
  ASSUME NEW s \in Seq(CvBlockSet), NEW t \in Seq(CvBlockSet)
  PROVE  TextsOf(s \o t) = TextsOf(s) \o TextsOf(t) /\ TextsOf(s) \in Seq(CvBlockSet)
  BY CvKindsConcat, CvOfKinds DEF TextsOf

\* The pairing loses nothing said and moves nothing said.
LEMMA PairingKeepsTexts ==
  ASSUME NEW ms \in Seq(CvTurnSet)
  PROVE  TextsOf(AllBlocks(TurnsPaired(ms))) = TextsOf(AllBlocks(ms))
  <1>1. PICK results \in Seq(CvBlockSet) : results = ResultsIn(ms)
    BY ResultsInTyped
  <1>2. ToSet(results) \subseteq CvOf({"result"})
    BY <1>1, ResultsInTyped
  <1>3. PICK g : g = PairsWith(results)
    OBVIOUS
  <1>4. Gives(g, CvTurnSet, Seq(CvTurnSet))
    BY <1>2, <1>3, PairsWithGives
  <1> DEFINE S == {u \in Seq(CvTurnSet) : TextsOf(AllBlocks(Mapped(g, u))) = TextsOf(AllBlocks(u))}
  <1>5. <<>> \in S
    BY MappedNone, EmptySeq
  <1>6. ASSUME NEW u \in Seq(CvTurnSet), NEW e \in CvTurnSet, u \in S PROVE Append(u, e) \in S
    <2>1. PICK v \in Seq(CvTurnSet) : v = Mapped(g, u)
      BY <1>4, MappedTyped
    <2>2. PICK p \in Seq(CvTurnSet) : p = g[e]
      BY <1>4 DEF Gives
    <2>3. Mapped(g, Append(u, e)) = v \o p
      BY <1>4, <2>1, <2>2, TurnsAppend
    <2>4. AllBlocks(v \o p) = AllBlocks(v) \o AllBlocks(p)
      BY OwnBlocksGives, MappedConcat DEF AllBlocks
    <2>5. PICK a \in Seq(CvBlockSet), b \in Seq(CvBlockSet), d \in Seq(CvBlockSet) :
            a = AllBlocks(v) /\ b = AllBlocks(p) /\ d = AllBlocks(u)
      BY AllBlocksIs
    <2>6. TextsOf(a \o b) = TextsOf(a) \o TextsOf(b)
      BY TextsConcat
    <2>7. TextsOf(b) = TextsOf(e.blocks)
      <3>1. PICK s \in Seq(CvBlockSet) : s = SaysTurn(results, e).blocks /\ TextsOf(s) = TextsOf(e.blocks)
        BY SaysTurnIs, TurnFields DEF TextsOf
      <3>2. PICK t \in Seq(CvBlockSet) : t = AnswersTurn(results, e).blocks /\ TextsOf(t) = <<>>
        BY <1>2, AnswersTurnIs, TurnFields DEF TextsOf
      <3>3. p = Paired(results, e)
        BY <1>3, <2>2 DEF PairsWith
      <3>4. b = s \o t
        BY <1>2, <2>5, <3>1, <3>2, <3>3, PairedBlocks
      <3>5. TextsOf(s \o t) = TextsOf(s) \o TextsOf(t)
        BY TextsConcat
      <3>6. TextsOf(s) \o <<>> = TextsOf(s)
        BY TextsConcat, ConcatEmptySeq
      <3> QED
        BY <3>1, <3>2, <3>4, <3>5, <3>6
    <2>8. AllBlocks(Append(u, e)) = d \o e.blocks
      BY <2>5, AllBlocksAppend
    <2>9. TextsOf(d \o e.blocks) = TextsOf(d) \o TextsOf(e.blocks)
      BY TurnFields, TextsConcat
    <2>10. TextsOf(a) = TextsOf(d)
      BY <1>6, <2>1, <2>5
    <2>11. Append(u, e) \in Seq(CvTurnSet)
      BY AppendProperties
    <2>12. TextsOf(AllBlocks(Mapped(g, Append(u, e)))) = TextsOf(AllBlocks(Append(u, e)))
      BY <2>3, <2>4, <2>5, <2>6, <2>7, <2>8, <2>9, <2>10
    <2> QED
      BY <2>11, <2>12
  <1> HIDE DEF S
  <1>7. Seq(CvTurnSet) \subseteq S
    BY <1>5, <1>6, SeqStepwise
  <1> QED
    BY <1>1, <1>3, <1>7, TurnsPairedIs DEF S

LEMMA AllBlocksSet ==
  ASSUME NEW ms \in Seq(CvTurnSet)
  PROVE  ToSet(AllBlocks(ms)) = UNION {ToSet(m.blocks) : m \in ToSet(ms)}
  <1>1. ToSet(AllBlocks(ms)) = UNION {ToSet(OwnBlocks[m]) : m \in ToSet(ms)}
    BY OwnBlocksGives, MappedSet DEF AllBlocks
  <1>2. \A m \in ToSet(ms) : OwnBlocks[m] = m.blocks
    BY MembersTyped DEF OwnBlocks
  <1> QED
    BY <1>1, <1>2

LEMMA PairedMembers ==
  ASSUME NEW ms \in Seq(CvTurnSet), NEW b
  PROVE  b \in ToSet(AllBlocks(TurnsPaired(ms)))
           <=> \E m \in ToSet(ms) : \/ b \in ToSet(SaysTurn(ResultsIn(ms), m).blocks)
                                    \/ b \in ToSet(AnswersTurn(ResultsIn(ms), m).blocks)
  <1>1. PICK results \in Seq(CvBlockSet) : results = ResultsIn(ms)
    BY ResultsInTyped
  <1>2. ToSet(results) \subseteq CvOf({"result"})
    BY <1>1, ResultsInTyped
  <1>3. PICK g : g = PairsWith(results)
    OBVIOUS
  <1>4. Gives(g, CvTurnSet, Seq(CvTurnSet))
    BY <1>2, <1>3, PairsWithGives
  <1>5. PICK v \in Seq(CvTurnSet) : v = Mapped(g, ms)
    BY <1>4, MappedTyped
  <1>6. TurnsPaired(ms) = v
    BY <1>1, <1>3, <1>5, TurnsPairedIs
  <1>7. ToSet(v) = UNION {ToSet(g[m]) : m \in ToSet(ms)}
    BY <1>4, <1>5, MappedSet
  <1>8. ToSet(AllBlocks(v)) = UNION {ToSet(t.blocks) : t \in ToSet(v)}
    BY AllBlocksSet
  <1>9. ASSUME NEW m \in ToSet(ms)
        PROVE  UNION {ToSet(t.blocks) : t \in ToSet(g[m])}
                 = ToSet(SaysTurn(results, m).blocks) \cup ToSet(AnswersTurn(results, m).blocks)
    <2>1. m \in CvTurnSet
      BY MembersTyped
    <2>2. PICK p \in Seq(CvTurnSet) : p = g[m] /\ p = Paired(results, m)
      BY <1>3, <1>4, <2>1 DEF Gives, PairsWith
    <2>3. UNION {ToSet(t.blocks) : t \in ToSet(p)} = ToSet(AllBlocks(p))
      BY AllBlocksSet
    <2>4. PICK s \in Seq(CvBlockSet), t \in Seq(CvBlockSet) :
            s = SaysTurn(results, m).blocks /\ t = AnswersTurn(results, m).blocks
      BY <1>2, <2>1, SaysTurnIs, AnswersTurnIs, TurnFields
    <2>5. AllBlocks(p) = s \o t
      BY <1>2, <2>1, <2>2, <2>4, PairedBlocks
    <2>6. ToSet(s \o t) = ToSet(s) \cup ToSet(t)
      BY ConcatSet
    <2> QED
      BY <2>2, <2>3, <2>4, <2>5, <2>6
  <1>10. b \in ToSet(AllBlocks(v))
           <=> \E m \in ToSet(ms) : b \in UNION {ToSet(t.blocks) : t \in ToSet(g[m])}
    BY <1>7, <1>8
  <1> QED
    BY <1>1, <1>6, <1>9, <1>10

\* The calls that are answered stay, and no others.
LEMMA PairedCalls ==
  ASSUME NEW ms \in Seq(CvTurnSet)
  PROVE  ToSet(OfKinds(AllBlocks(TurnsPaired(ms)), {"use"}))
           = ToSet(AllBlocks(ms)) \cap KeptCalls(ResultsIn(ms))
  <1>1. PICK results \in Seq(CvBlockSet) : results = ResultsIn(ms)
    BY ResultsInTyped
  <1>2. ToSet(results) \subseteq CvOf({"result"})
    BY <1>1, ResultsInTyped
  <1>3. PICK s \in Seq(CvBlockSet) : s = AllBlocks(TurnsPaired(ms))
    BY TurnsPairedIs, AllBlocksIs
  <1>4. PICK u \in Seq(CvBlockSet) : u = OfKinds(s, {"use"})
    BY CvOfKinds
  <1>5. ToSet(u) = ToSet(s) \cap CvOf({"use"})
    BY <1>4, CvOfKinds, SiftedSet
  <1>6. ASSUME NEW b, NEW m \in ToSet(ms)
        PROVE  /\ b \in CvOf({"use"}) =>
                    (b \in ToSet(SaysTurn(results, m).blocks) <=> b \in ToSet(CallsKept(results, m)))
               /\ b \in CvOf({"use"}) => b \notin ToSet(AnswersTurn(results, m).blocks)
               /\ b \in ToSet(CallsKept(results, m))
                    <=> b \in ToSet(m.blocks) /\ b \in KeptCalls(results)
    <2>1. m \in CvTurnSet
      BY MembersTyped
    <2>2. PICK o \in Seq(CvBlockSet) : o = OfKinds(m.blocks, {"text", "image"})
      BY <2>1, TurnFields, CvOfKinds
    <2>3. ToSet(o) = ToSet(m.blocks) \cap CvOf({"text", "image"})
      <3>1. PICK w \in Seq(CvBlockSet) : w = m.blocks
        BY <2>1, TurnFields
      <3>2. o = Sifted(CvBlockSet, CvOf({"text", "image"}), w)
        BY <2>2, <3>1, CvOfKinds
      <3> QED
        BY <3>1, <3>2, SiftedSet
    <2>4. ToSet(SaysTurn(results, m).blocks) = ToSet(o) \cup ToSet(CallsKept(results, m))
      BY <2>1, <2>2, SaysTurnIs
    <2>5. ToSet(CallsKept(results, m)) = ToSet(m.blocks) \cap KeptCalls(results)
      BY <2>1, CallsKeptTyped
    <2>6. ToSet(AnswersTurn(results, m).blocks) \subseteq ToSet(results)
      BY <1>2, <2>1, AnswersTurnIs
    <2> QED
      BY <1>2, <2>3, <2>4, <2>5, <2>6 DEF CvOf
  <1>7. \A b : b \in ToSet(s)
          <=> \E m \in ToSet(ms) : \/ b \in ToSet(SaysTurn(results, m).blocks)
                                   \/ b \in ToSet(AnswersTurn(results, m).blocks)
    BY <1>1, <1>3, PairedMembers
  <1>8. KeptCalls(results) \subseteq CvOf({"use"})
    BY DEF KeptCalls, CvOf
  <1>9. ToSet(AllBlocks(ms)) = UNION {ToSet(m.blocks) : m \in ToSet(ms)}
    BY AllBlocksSet
  <1>10. ASSUME NEW b PROVE b \in ToSet(u) <=> b \in ToSet(AllBlocks(ms)) /\ b \in KeptCalls(results)
    <2>1. (\E m \in ToSet(ms) : b \in ToSet(CallsKept(results, m)))
            <=> b \in ToSet(AllBlocks(ms)) /\ b \in KeptCalls(results)
      BY <1>6, <1>9
    <2>2. CASE b \in CvOf({"use"})
      <3>1. b \in ToSet(s) <=> \E m \in ToSet(ms) : b \in ToSet(CallsKept(results, m))
        BY <1>6, <1>7, <2>2
      <3> QED
        BY <1>5, <2>1, <2>2, <3>1
    <2>3. CASE b \notin CvOf({"use"})
      BY <1>5, <1>8, <2>3
    <2> QED
      BY <2>2, <2>3
  <1> QED
    BY <1>1, <1>3, <1>4, <1>10

\* The results that stay are the last ones of their calls.
LEMMA PairedResults ==
  ASSUME NEW ms \in Seq(CvTurnSet),
         NEW b \in ToSet(OfKinds(AllBlocks(TurnsPaired(ms)), {"result"}))
  PROVE  /\ OutputsOf(ResultsIn(ms), b.id) # <<>>
         /\ b = Last(OutputsOf(ResultsIn(ms), b.id))
  <1>1. PICK results \in Seq(CvBlockSet) : results = ResultsIn(ms)
    BY ResultsInTyped
  <1>2. ToSet(results) \subseteq CvOf({"result"})
    BY <1>1, ResultsInTyped
  <1>3. PICK s \in Seq(CvBlockSet) : s = AllBlocks(TurnsPaired(ms))
    BY TurnsPairedIs, AllBlocksIs
  <1>4. b \in ToSet(s) \cap CvOf({"result"})
    <2>1. OfKinds(s, {"result"}) = Sifted(CvBlockSet, CvOf({"result"}), s)
      BY CvOfKinds
    <2> QED
      BY <1>3, <2>1, SiftedSet
  <1>5. PICK m \in ToSet(ms) : \/ b \in ToSet(SaysTurn(results, m).blocks)
                               \/ b \in ToSet(AnswersTurn(results, m).blocks)
    BY <1>1, <1>3, <1>4, PairedMembers
  <1>6. m \in CvTurnSet
    BY MembersTyped
  <1>7. b \notin ToSet(SaysTurn(results, m).blocks)
    <2>1. PICK t \in CvTurnSet : t = SaysTurn(results, m)
      BY <1>6, SaysTurnIs
    <2>2. AnsOf(t) = <<>>
      BY <1>6, <2>1, SaysTurnIs
    <2>3. PICK w \in Seq(CvBlockSet) : w = t.blocks
      BY TurnFields
    <2>4. Sifted(CvBlockSet, CvOf({"result"}), w) = <<>>
      BY <2>2, <2>3, KindsOfTurn
    <2>5. ToSet(<<>>) = ToSet(w) \cap CvOf({"result"})
      BY <2>4, SiftedSet
    <2>6. ToSet(<<>>) = {}
      BY DEF ToSet
    <2> QED
      BY <1>4, <2>1, <2>3, <2>5, <2>6
  <1>8. PICK c \in Seq(CvBlockSet) : c = CallsKept(results, m)
    BY <1>6, CallsKeptTyped
  <1>9. ToSet(c) \subseteq KeptCalls(results)
    BY <1>6, <1>8, CallsKeptTyped
  <1>10. PICK a \in Seq(CvBlockSet) : a = AnswersTo(results, c)
    BY <1>9, AnswersToTyped
  <1>11. b \in ToSet(a)
    BY <1>5, <1>7, <1>8, <1>10 DEF AnswersTurn
  <1>12. Len(a) = Len(c) /\ \A k \in 1 .. Len(c) :
           a[k] = Last(OutputsOf(results, c[k].id)) /\ a[k].id = c[k].id
    BY <1>9, <1>10, AnswersToTyped
  <1>13. PICK k \in 1 .. Len(c) : b = a[k]
    BY <1>11, <1>12, LenProperties DEF ToSet
  <1>14. c[k] \in KeptCalls(results)
    BY <1>9, LenProperties DEF ToSet
  <1> QED
    BY <1>1, <1>12, <1>13, <1>14 DEF KeptCalls

-----------------------------------------------------------------------------
(* Items: what becomes of them *)

CvPartSet == [kind : {"text", "image"}, from : Seq(Nat)]
CvItemSet ==
  {x \in [type : {"message", "reasoning", "web_search_call"} \cup CvCallTypes \cup CvOutTypes,
          role : {"user", "assistant", "developer", "none"}, id : CvIds \cup {NoId},
          parts : Seq(CvPartSet)] :
     /\ x.type = "message" <=> x.role # "none"
     /\ x.type \in CvCallTypes \cup CvOutTypes => x.id \in CvIds}

LEMMA ItemFields ==
  ASSUME NEW x \in CvItemSet
  PROVE  /\ x.role \in {"user", "assistant", "developer", "none"} /\ x.parts \in Seq(CvPartSet)
         /\ x.id \in CvIds \cup {NoId}
         /\ x.type = "message" <=> x.role # "none"
         /\ x.type \in CvCallTypes \cup CvOutTypes => x.id \in CvIds
  BY DEF CvItemSet

\* The sources of parts and of blocks, end to end.
Froms(K) == [x \in K |-> x.from]

LEMMA FromsGive ==
  /\ Gives(Froms(CvPartSet), CvPartSet, Seq(Nat))
  /\ Gives(Froms(CvBlockSet), CvBlockSet, Seq(Nat))
  BY DEF Froms, CvPartSet, CvBlockSet, Gives

LEMMA JoinedIs ==
  ASSUME NEW K, NEW s \in Seq(K)
  PROVE  Joined(s) = Mapped(Froms(K), s)
  <1>1. \A i \in DOMAIN s : s[i] \in K
    BY LenProperties, ElementOfSeq
  <1>2. [i \in DOMAIN s |-> s[i].from] = [i \in DOMAIN s |-> Froms(K)[s[i]]]
    BY <1>1 DEF Froms
  <1> QED
    BY <1>2 DEF Joined, Mapped

LEMMA JoinedConcat ==
  ASSUME NEW K, Gives(Froms(K), K, Seq(Nat)), NEW s \in Seq(K), NEW t \in Seq(K)
  PROVE  Joined(s \o t) = Joined(s) \o Joined(t) /\ Joined(s) \in Seq(Nat)
  <1>1. PICK u \in Seq(K) : u = s \o t
    BY ConcatProperties
  <1>2. PICK g : g = Froms(K)
    OBVIOUS
  <1>3. Gives(g, K, Seq(Nat))
    BY <1>2
  <1>4. Mapped(g, s \o t) = Mapped(g, s) \o Mapped(g, t)
    BY <1>3, MappedConcat
  <1>5. Mapped(g, s) \in Seq(Nat)
    BY <1>3, MappedTyped
  <1>6. Joined(u) = Mapped(g, u) /\ Joined(s) = Mapped(g, s) /\ Joined(t) = Mapped(g, t)
    BY <1>2, JoinedIs
  <1> QED
    BY <1>1, <1>4, <1>5, <1>6

LEMMA JoinedParts ==
  ASSUME NEW s \in Seq(CvPartSet), NEW t \in Seq(CvPartSet)
  PROVE  Joined(s \o t) = Joined(s) \o Joined(t) /\ Joined(s) \in Seq(Nat)
  BY FromsGive, JoinedConcat

LEMMA JoinedBlocks ==
  ASSUME NEW s \in Seq(CvBlockSet), NEW t \in Seq(CvBlockSet)
  PROVE  Joined(s \o t) = Joined(s) \o Joined(t) /\ Joined(s) \in Seq(Nat)
  BY FromsGive, JoinedConcat

LEMMA JoinedNone == Joined(<<>>) = <<>>
  <1>1. PICK s \in Seq(CvPartSet) : s = <<>>
    BY EmptySeq
  <1> QED
    BY <1>1, JoinedIs, MappedNone

\* What a message says, as blocks.
OwnParts(p) == [i \in DOMAIN p |-> CvBlock(p[i].kind, NoId, p[i].from)]

LEMMA OwnPartsAre ==
  ASSUME NEW p \in Seq(CvPartSet)
  PROVE  /\ OwnParts(p) \in Seq(CvBlockSet)
         /\ ToSet(OwnParts(p)) \subseteq CvOf({"text", "image"})
         /\ Joined(OwnParts(p)) = Joined(p)
  <1>1. PICK n \in Nat : n = Len(p) /\ DOMAIN p = 1 .. n
    BY LenProperties
  <1>2. PICK o : o = OwnParts(p)
    OBVIOUS
  <1>3. o = [i \in 1 .. n |-> CvBlock(p[i].kind, NoId, p[i].from)]
    BY <1>1, <1>2 DEF OwnParts
  <1>4. \A i \in 1 .. n : p[i] \in CvPartSet
    BY <1>1, ElementOfSeq
  <1>5. \A i \in 1 .. n : o[i] \in CvOf({"text", "image"}) /\ o[i].from = p[i].from
    BY <1>3, <1>4 DEF CvOf, CvBlockSet, CvPartSet, CvBlock
  <1>6. \A i \in 1 .. n : o[i] \in CvBlockSet
    BY <1>5 DEF CvOf
  <1>7. o \in [1 .. n -> CvBlockSet]
    BY <1>3, <1>6
  <1>8. o \in Seq(CvBlockSet) /\ DOMAIN o = 1 .. n
    BY <1>7
  <1>9. ToSet(o) \subseteq CvOf({"text", "image"})
    BY <1>5, <1>8 DEF ToSet
  <1>10. [i \in DOMAIN o |-> o[i].from] = [i \in DOMAIN p |-> p[i].from]
    BY <1>1, <1>5, <1>8
  <1>11. Joined(o) = Joined(p)
    BY <1>10 DEF Joined
  <1> QED
    BY <1>2, <1>8, <1>9, <1>11

\* The blocks of an item.
ContentOf(x) ==
  IF x.type = "function_call" THEN <<CvBlock("use", x.id, <<>>)>>
  ELSE IF x.type = "function_call_output" THEN <<CvBlock("result", x.id, Joined(x.parts))>>
  ELSE IF x.role \in {"user", "assistant"} THEN OwnParts(x.parts) ELSE <<>>

LEMMA SaysIs ==
  ASSUME NEW role \in {"user", "assistant"}, NEW s \in Seq(CvBlockSet),
         \A b \in ToSet(s) : /\ b.kind = "use" => role = "assistant"
                             /\ b.kind = "result" => role = "user"
  PROVE  Says(role, s) \in Seq(CvTurnSet) /\ AllBlocks(Says(role, s)) = s
  <1>1. CASE s = <<>>
    BY <1>1, EmptySeq, MappedNone DEF Says, AllBlocks
  <1>2. CASE s # <<>>
    <2>1. PICK t : t = [role |-> role, blocks |-> s]
      OBVIOUS
    <2>2. t \in CvTurnSet /\ t.blocks = s
      BY <2>1 DEF CvTurnSet
    <2>3. Says(role, s) = <<t>>
      BY <1>2, <2>1 DEF Says
    <2>4. <<t>> \in Seq(CvTurnSet)
      BY <2>2
    <2>5. PICK e \in Seq(CvTurnSet) : e = <<>>
      BY EmptySeq
    <2>6. AllBlocks(Append(e, t)) = AllBlocks(e) \o t.blocks
      BY <2>2, AllBlocksAppend
    <2>7. AllBlocks(e) = <<>> /\ Append(e, t) = <<t>>
      BY <2>5, MappedNone DEF AllBlocks
    <2> QED
      BY <2>2, <2>3, <2>4, <2>6, <2>7, ConcatEmptySeq
  <1> QED
    BY <1>1, <1>2

LEMMA AnthropicOfIs ==
  ASSUME NEW x \in CvItemSet
  PROVE  /\ AnthropicOf(x) \in Seq(CvTurnSet)
         /\ AllBlocks(AnthropicOf(x)) = ContentOf(x)
         /\ ContentOf(x) \in Seq(CvBlockSet)
  <1>1. CASE x.type = "function_call"
    <2>1. PICK b : b = CvBlock("use", x.id, <<>>)
      OBVIOUS
    <2>2. b \in CvBlockSet /\ b.kind = "use"
      BY <1>1, <2>1, ItemFields, EmptySeq DEF CvBlockSet, CvBlock
    <2>3. PICK s \in Seq(CvBlockSet) : s = <<b>> /\ ToSet(s) = {b}
      <3>1. <<b>> \in Seq(CvBlockSet)
        BY <2>2
      <3>2. ToSet(<<b>>) = {b}
        BY DEF ToSet
      <3> QED
        BY <3>1, <3>2
    <2>4. AnthropicOf(x) = Says("assistant", s)
      BY <1>1, <2>1, <2>3, ItemFields DEF AnthropicOf
    <2>5. ContentOf(x) = s
      BY <1>1, <2>1, <2>3 DEF ContentOf
    <2> QED
      BY <2>2, <2>3, <2>4, <2>5, SaysIs
  <1>2. CASE x.type = "function_call_output"
    <2>1. PICK b : b = CvBlock("result", x.id, Joined(x.parts))
      OBVIOUS
    <2>2. b \in CvBlockSet /\ b.kind = "result"
      BY <1>2, <2>1, ItemFields, JoinedParts DEF CvBlockSet, CvBlock
    <2>3. PICK s \in Seq(CvBlockSet) : s = <<b>> /\ ToSet(s) = {b}
      <3>1. <<b>> \in Seq(CvBlockSet)
        BY <2>2
      <3>2. ToSet(<<b>>) = {b}
        BY DEF ToSet
      <3> QED
        BY <3>1, <3>2
    <2>4. AnthropicOf(x) = Says("user", s)
      BY <1>2, <2>1, <2>3, ItemFields DEF AnthropicOf
    <2>5. ContentOf(x) = s
      BY <1>2, <2>1, <2>3 DEF ContentOf
    <2> QED
      BY <2>2, <2>3, <2>4, <2>5, SaysIs
  <1>3. CASE x.role \in {"user", "assistant"}
    <2>1. x.type = "message"
      BY <1>3, ItemFields
    <2>2. PICK s \in Seq(CvBlockSet) : s = OwnParts(x.parts) /\ ToSet(s) \subseteq CvOf({"text", "image"})
      BY ItemFields, OwnPartsAre
    <2>3. AnthropicOf(x) = Says(x.role, s)
      BY <1>3, <2>1, <2>2 DEF AnthropicOf, OwnParts
    <2>4. ContentOf(x) = s
      BY <1>3, <2>1, <2>2 DEF ContentOf
    <2>5. \A b \in ToSet(s) : /\ b.kind = "use" => x.role = "assistant"
                              /\ b.kind = "result" => x.role = "user"
      BY <2>2 DEF CvOf
    <2> QED
      BY <1>3, <2>2, <2>3, <2>4, <2>5, SaysIs
  <1>4. CASE x.type \notin {"function_call", "function_call_output"}
             /\ x.role \notin {"user", "assistant"}
    <2>1. AnthropicOf(x) = <<>> /\ ContentOf(x) = <<>>
      BY <1>4, ItemFields DEF AnthropicOf, ContentOf
    <2> QED
      BY <2>1, EmptySeq, MappedNone DEF AllBlocks
  <1> QED
    BY <1>1, <1>2, <1>3, <1>4

-----------------------------------------------------------------------------
(* Items: what becomes of a history *)

TurnsOfItems == [x \in CvItemSet |-> AnthropicOf(x)]
ItemTurns(s) == Each(AnthropicOf, s)
ItemBlocks(s) == AllBlocks(ItemTurns(s))

LEMMA ItemTurnsAre ==
  ASSUME NEW s \in Seq(CvItemSet)
  PROVE  /\ ItemTurns(s) = Mapped(TurnsOfItems, s)
         /\ ItemTurns(s) \in Seq(CvTurnSet)
         /\ ItemBlocks(s) \in Seq(CvBlockSet)
  <1>1. \A i \in DOMAIN s : s[i] \in CvItemSet
    BY LenProperties, ElementOfSeq
  <1>2. [i \in DOMAIN s |-> AnthropicOf(s[i])] = [i \in DOMAIN s |-> TurnsOfItems[s[i]]]
    BY <1>1 DEF TurnsOfItems
  <1>3. ItemTurns(s) = Mapped(TurnsOfItems, s)
    BY <1>2 DEF ItemTurns, Each, Mapped
  <1>4. Gives(TurnsOfItems, CvItemSet, Seq(CvTurnSet))
    BY AnthropicOfIs DEF Gives, TurnsOfItems
  <1>5. ItemTurns(s) \in Seq(CvTurnSet)
    BY <1>3, <1>4, MappedTyped
  <1> QED
    BY <1>3, <1>5, AllBlocksIs DEF ItemBlocks

LEMMA ItemBlocksNone == ItemBlocks(<<>>) = <<>>
  <1>1. PICK s \in Seq(CvItemSet) : s = <<>>
    BY EmptySeq
  <1>2. ItemTurns(s) = <<>>
    BY <1>1, ItemTurnsAre, MappedNone
  <1> QED
    BY <1>1, <1>2, MappedNone DEF ItemBlocks, AllBlocks

LEMMA ItemBlocksAppend ==
  ASSUME NEW s \in Seq(CvItemSet), NEW x \in CvItemSet
  PROVE  ItemBlocks(Append(s, x)) = ItemBlocks(s) \o ContentOf(x)
  <1>1. PICK g : g = TurnsOfItems
    OBVIOUS
  <1>2. Gives(g, CvItemSet, Seq(CvTurnSet))
    BY <1>1, AnthropicOfIs DEF Gives, TurnsOfItems
  <1>3. PICK a \in Seq(CvItemSet) : a = Append(s, x)
    BY AppendProperties
  <1>4. Mapped(g, Append(s, x)) = Mapped(g, s) \o g[x]
    BY <1>2, MappedAppend
  <1>5. ItemTurns(a) = Mapped(g, a) /\ ItemTurns(s) = Mapped(g, s)
    BY <1>1, ItemTurnsAre
  <1>6. PICK u \in Seq(CvTurnSet), v \in Seq(CvTurnSet) : u = ItemTurns(s) /\ v = g[x]
    BY <1>2, ItemTurnsAre DEF Gives
  <1>7. v = AnthropicOf(x)
    BY <1>1, <1>6 DEF TurnsOfItems
  <1>8. AllBlocks(u \o v) = AllBlocks(u) \o AllBlocks(v)
    BY OwnBlocksGives, MappedConcat DEF AllBlocks
  <1>9. AllBlocks(v) = ContentOf(x)
    BY <1>7, AnthropicOfIs
  <1>10. ItemTurns(a) = u \o v
    BY <1>3, <1>4, <1>5, <1>6
  <1> QED
    BY <1>3, <1>6, <1>8, <1>9, <1>10 DEF ItemBlocks

LEMMA ItemMembers ==
  ASSUME NEW s \in Seq(CvItemSet)
  PROVE  ToSet(ItemBlocks(s)) = UNION {ToSet(ContentOf(x)) : x \in ToSet(s)}
  <1> DEFINE S == {u \in Seq(CvItemSet) :
                     ToSet(ItemBlocks(u)) = UNION {ToSet(ContentOf(x)) : x \in ToSet(u)}}
  <1>1. <<>> \in S
    BY ItemBlocksNone, EmptySeq DEF ToSet
  <1>2. ASSUME NEW u \in Seq(CvItemSet), NEW e \in CvItemSet, u \in S PROVE Append(u, e) \in S
    <2>1. PICK a \in Seq(CvBlockSet), b \in Seq(CvBlockSet) : a = ItemBlocks(u) /\ b = ContentOf(e)
      BY ItemTurnsAre, AnthropicOfIs
    <2>2. ItemBlocks(Append(u, e)) = a \o b
      BY <2>1, ItemBlocksAppend
    <2>3. ToSet(a \o b) = ToSet(a) \cup ToSet(b)
      BY ConcatSet
    <2>4. ToSet(Append(u, e)) = ToSet(u) \cup {e}
      BY AppendSet
    <2>5. ToSet(a) = UNION {ToSet(ContentOf(x)) : x \in ToSet(u)}
      BY <1>2, <2>1
    <2>6. UNION {ToSet(ContentOf(x)) : x \in ToSet(u) \cup {e}}
            = (UNION {ToSet(ContentOf(x)) : x \in ToSet(u)}) \cup ToSet(ContentOf(e))
      OBVIOUS
    <2>7. Append(u, e) \in Seq(CvItemSet)
      BY AppendProperties
    <2> QED
      BY <2>1, <2>2, <2>3, <2>4, <2>5, <2>6, <2>7
  <1> HIDE DEF S
  <1>3. Seq(CvItemSet) \subseteq S
    BY <1>1, <1>2, SeqStepwise
  <1> QED
    BY <1>3 DEF S

\* What the items say.
SpokenIn(s) ==
  Joined(Each(LAMBDA item : item.parts,
              Those(s, LAMBDA item : item.role \in {"user", "assistant"})))
SpeakingItems == {x \in CvItemSet : x.role \in {"user", "assistant"}}
PartsOfItems == [x \in CvItemSet |-> x.parts]

LEMMA SpokenInIs ==
  ASSUME NEW s \in Seq(CvItemSet)
  PROVE  /\ SpokenIn(s) = Joined(Mapped(PartsOfItems, Sifted(CvItemSet, SpeakingItems, s)))
         /\ Mapped(PartsOfItems, Sifted(CvItemSet, SpeakingItems, s)) \in Seq(CvPartSet)
  <1>1. PICK t : t = Those(s, LAMBDA item : item.role \in {"user", "assistant"})
    OBVIOUS
  <1>2. t = Sifted(CvItemSet, SpeakingItems, s)
    <2>1. \A i \in DOMAIN s : s[i] \in CvItemSet
      BY LenProperties, ElementOfSeq
    <2>2. \A i \in DOMAIN s : Sift(CvItemSet, SpeakingItems)[s[i]]
            = IF s[i].role \in {"user", "assistant"} THEN <<s[i]>> ELSE <<>>
      BY <2>1 DEF Sift, SpeakingItems
    <2>3. [i \in DOMAIN s |-> IF s[i].role \in {"user", "assistant"} THEN <<s[i]>> ELSE <<>>]
            = [i \in DOMAIN s |-> Sift(CvItemSet, SpeakingItems)[s[i]]]
      BY <2>2
    <2> QED
      BY <1>1, <2>3 DEF Those, Each, Sifted, Mapped
  <1>3. t \in Seq(CvItemSet)
    BY <1>2, SiftedTyped
  <1>4. \A i \in DOMAIN t : t[i] \in CvItemSet
    BY <1>3, LenProperties, ElementOfSeq
  <1>5. [i \in DOMAIN t |-> t[i].parts] = [i \in DOMAIN t |-> PartsOfItems[t[i]]]
    BY <1>4 DEF PartsOfItems
  <1>6. Each(LAMBDA item : item.parts, t) = Mapped(PartsOfItems, t)
    BY <1>5 DEF Each, Mapped
  <1>7. Gives(PartsOfItems, CvItemSet, Seq(CvPartSet))
    BY ItemFields DEF Gives, PartsOfItems
  <1>8. Mapped(PartsOfItems, t) \in Seq(CvPartSet)
    BY <1>3, <1>7, MappedTyped
  <1>9. SpokenIn(s) = Joined(Each(LAMBDA item : item.parts, t))
    BY <1>1 DEF SpokenIn
  <1> QED
    BY <1>2, <1>6, <1>8, <1>9

LEMMA SpokenInAppend ==
  ASSUME NEW s \in Seq(CvItemSet), NEW x \in CvItemSet
  PROVE  /\ SpokenIn(Append(s, x))
              = IF x \in SpeakingItems THEN SpokenIn(s) \o Joined(x.parts) ELSE SpokenIn(s)
         /\ SpokenIn(s) \in Seq(Nat)
  <1>1. PICK t \in Seq(CvItemSet) : t = Sifted(CvItemSet, SpeakingItems, s)
    BY SiftedTyped
  <1>2. PICK a \in Seq(CvItemSet) : a = Append(s, x)
    BY AppendProperties
  <1>3. Sifted(CvItemSet, SpeakingItems, Append(s, x)) = IF x \in SpeakingItems THEN Append(t, x) ELSE t
    BY <1>1, SiftedAppend
  <1>4. PICK g : g = PartsOfItems
    OBVIOUS
  <1>5. Gives(g, CvItemSet, Seq(CvPartSet))
    BY <1>4, ItemFields DEF Gives, PartsOfItems
  <1>6. Mapped(g, Append(t, x)) = Mapped(g, t) \o g[x] /\ Mapped(g, t) \in Seq(CvPartSet)
    BY <1>5, MappedAppend, MappedTyped
  <1>7. PICK p \in Seq(CvPartSet), q \in Seq(CvPartSet) : p = Mapped(g, t) /\ q = g[x] /\ q = x.parts
    BY <1>4, <1>6, ItemFields DEF PartsOfItems
  <1>8. Joined(p \o q) = Joined(p) \o Joined(q) /\ Joined(p) \in Seq(Nat)
    BY JoinedParts
  <1>9. SpokenIn(s) = Joined(p)
    BY <1>1, <1>4, <1>7, SpokenInIs
  <1>10. SpokenIn(a) = Joined(Mapped(g, Sifted(CvItemSet, SpeakingItems, a)))
    BY <1>4, SpokenInIs
  <1> QED
    BY <1>2, <1>3, <1>6, <1>7, <1>8, <1>9, <1>10

\* What an item says is in the texts of its blocks.
LEMMA TextsOfItem ==
  ASSUME NEW x \in CvItemSet
  PROVE  Joined(TextsOf(ContentOf(x))) = IF x \in SpeakingItems THEN Joined(x.parts) ELSE <<>>
  <1>1. PICK s \in Seq(CvBlockSet) : s = ContentOf(x)
    BY AnthropicOfIs
  <1>2. TextsOf(s) = Sifted(CvBlockSet, CvOf({"text", "image"}), s)
    BY CvOfKinds DEF TextsOf
  <1>3. CASE x \in SpeakingItems
    <2>1. x.type = "message"
      BY <1>3, ItemFields DEF SpeakingItems
    <2>2. s = OwnParts(x.parts)
      BY <1>1, <1>3, <2>1 DEF ContentOf, SpeakingItems
    <2>3. ToSet(s) \subseteq CvOf({"text", "image"}) /\ Joined(s) = Joined(x.parts)
      BY <2>2, ItemFields, OwnPartsAre
    <2>4. TextsOf(s) = s
      BY <1>2, <2>3, SiftedAll
    <2> QED
      BY <1>1, <1>3, <2>3, <2>4
  <1>4. CASE x \notin SpeakingItems
    <2>1. ToSet(s) \cap CvOf({"text", "image"}) = {}
      <3>1. \A b \in ToSet(s) : b.kind \in {"use", "result"}
        BY <1>1, <1>4 DEF ContentOf, SpeakingItems, CvBlock, ToSet
      <3> QED
        BY <3>1 DEF CvOf
    <2>2. TextsOf(s) = <<>>
      BY <1>2, <2>1, SiftedAway
    <2> QED
      BY <1>1, <1>4, <2>2, JoinedNone
  <1> QED
    BY <1>3, <1>4

LEMMA ItemTexts ==
  ASSUME NEW s \in Seq(CvItemSet)
  PROVE  Joined(TextsOf(ItemBlocks(s))) = SpokenIn(s)
  <1> DEFINE S == {u \in Seq(CvItemSet) : Joined(TextsOf(ItemBlocks(u))) = SpokenIn(u)}
  <1>1. <<>> \in S
    <2>1. PICK e \in Seq(CvItemSet) : e = <<>>
      BY EmptySeq
    <2>2. PICK b \in Seq(CvBlockSet) : b = <<>>
      BY EmptySeq
    <2>3. TextsOf(b) = <<>>
      BY <2>2, CvOfKinds, SiftedNone DEF TextsOf
    <2>4. SpokenIn(e) = <<>>
      BY <2>1, SpokenInIs, SiftedNone, MappedNone, JoinedNone
    <2> QED
      BY <2>1, <2>2, <2>3, <2>4, ItemBlocksNone, JoinedNone
  <1>2. ASSUME NEW u \in Seq(CvItemSet), NEW e \in CvItemSet, u \in S PROVE Append(u, e) \in S
    <2>1. PICK a \in Seq(CvBlockSet), b \in Seq(CvBlockSet) : a = ItemBlocks(u) /\ b = ContentOf(e)
      BY ItemTurnsAre, AnthropicOfIs
    <2>2. ItemBlocks(Append(u, e)) = a \o b
      BY <2>1, ItemBlocksAppend
    <2>3. TextsOf(a \o b) = TextsOf(a) \o TextsOf(b)
      BY TextsConcat
    <2>4. PICK p \in Seq(CvBlockSet), q \in Seq(CvBlockSet) : p = TextsOf(a) /\ q = TextsOf(b)
      BY TextsConcat
    <2>5. Joined(p \o q) = Joined(p) \o Joined(q) /\ Joined(p) \in Seq(Nat)
      BY JoinedBlocks
    <2>6. Joined(q) = IF e \in SpeakingItems THEN Joined(e.parts) ELSE <<>>
      BY <2>1, <2>4, TextsOfItem
    <2>7. Joined(p) = SpokenIn(u)
      BY <1>2, <2>1, <2>4
    <2>8. SpokenIn(Append(u, e)) = IF e \in SpeakingItems THEN SpokenIn(u) \o Joined(e.parts) ELSE SpokenIn(u)
      BY SpokenInAppend
    <2>9. Joined(p) \o <<>> = Joined(p)
      BY <2>5, ConcatEmptySeq
    <2>10. Append(u, e) \in Seq(CvItemSet)
      BY AppendProperties
    <2>11. Joined(TextsOf(ItemBlocks(Append(u, e)))) = Joined(p) \o Joined(q)
      BY <2>2, <2>3, <2>4, <2>5
    <2> QED
      BY <2>6, <2>7, <2>8, <2>9, <2>10, <2>11
  <1> HIDE DEF S
  <1>3. Seq(CvItemSet) \subseteq S
    BY <1>1, <1>2, SeqStepwise
  <1> QED
    BY <1>3 DEF S

-----------------------------------------------------------------------------
(* Histories of the Responses API *)

ItemResults(s, id) == OutputsOf(OfKinds(ItemBlocks(s), {"result"}), id)
Outputs(x, id) == x.type = "function_call_output" /\ x.id = id
ResultOf(x) == CvBlock("result", x.id, Joined(x.parts))

LEMMA ItemResultsTyped ==
  ASSUME NEW s \in Seq(CvItemSet), NEW id
  PROVE  ItemResults(s, id) \in Seq(CvBlockSet)
  <1>1. PICK r \in Seq(CvBlockSet) : r = OfKinds(ItemBlocks(s), {"result"})
    BY ItemTurnsAre, CvOfKinds
  <1>2. PICK T : T = {y \in CvBlockSet : y.id = id}
    OBVIOUS
  <1>3. OutputsOf(r, id) = Sifted(CvBlockSet, T, r)
    BY <1>2, OutputsOfIs
  <1> QED
    BY <1>1, <1>3, SiftedTyped DEF ItemResults

LEMMA ResultOfContent ==
  ASSUME NEW x \in CvItemSet
  PROVE  OfKinds(ContentOf(x), {"result"})
           = IF x.type = "function_call_output" THEN <<ResultOf(x)>> ELSE <<>>
  <1>1. PICK s \in Seq(CvBlockSet) : s = ContentOf(x)
    BY AnthropicOfIs
  <1>2. OfKinds(s, {"result"}) = Sifted(CvBlockSet, CvOf({"result"}), s)
    BY CvOfKinds
  <1>3. CASE x.type = "function_call_output"
    <2>1. s = <<ResultOf(x)>>
      BY <1>1, <1>3 DEF ContentOf, ResultOf
    <2>2. ToSet(s) = {ResultOf(x)}
      BY <2>1 DEF ToSet
    <2>3. ToSet(s) \subseteq CvOf({"result"})
      <3>1. ToSet(s) \subseteq CvBlockSet
        BY MembersTyped
      <3>2. ResultOf(x).kind = "result"
        BY DEF ResultOf, CvBlock
      <3> QED
        BY <2>2, <3>1, <3>2 DEF CvOf
    <2> QED
      BY <1>1, <1>2, <1>3, <2>1, <2>3, SiftedAll
  <1>4. CASE x.type # "function_call_output"
    <2>1. ToSet(s) \cap CvOf({"result"}) = {}
      <3>1. CASE x.type = "function_call"
        <4>1. ToSet(s) = {CvBlock("use", x.id, <<>>)}
          BY <1>1, <3>1 DEF ContentOf, ToSet
        <4> QED
          BY <4>1 DEF CvOf, CvBlock
      <3>2. CASE x.type # "function_call" /\ x.role \in {"user", "assistant"}
        <4>1. s = OwnParts(x.parts)
          BY <1>1, <1>4, <3>2 DEF ContentOf
        <4>2. ToSet(s) \subseteq CvOf({"text", "image"})
          BY <4>1, ItemFields, OwnPartsAre
        <4> QED
          BY <4>2 DEF CvOf
      <3>3. CASE x.type # "function_call" /\ x.role \notin {"user", "assistant"}
        BY <1>1, <1>4, <3>3 DEF ContentOf, ToSet
      <3> QED
        BY <3>1, <3>2, <3>3
    <2> QED
      BY <1>1, <1>2, <1>4, <2>1, SiftedAway
  <1> QED
    BY <1>3, <1>4

LEMMA ItemResultsAppend ==
  ASSUME NEW s \in Seq(CvItemSet), NEW x \in CvItemSet, NEW id
  PROVE  ItemResults(Append(s, x), id)
           = IF Outputs(x, id) THEN Append(ItemResults(s, id), ResultOf(x)) ELSE ItemResults(s, id)
  <1>1. PICK a \in Seq(CvBlockSet), b \in Seq(CvBlockSet) : a = ItemBlocks(s) /\ b = ContentOf(x)
    BY ItemTurnsAre, AnthropicOfIs
  <1>2. OfKinds(ItemBlocks(Append(s, x)), {"result"}) = OfKinds(a, {"result"}) \o OfKinds(b, {"result"})
    <2>1. ItemBlocks(Append(s, x)) = a \o b
      BY <1>1, ItemBlocksAppend
    <2>2. OfKinds(a \o b, {"result"}) = OfKinds(a, {"result"}) \o OfKinds(b, {"result"})
      BY CvKindsConcat
    <2> QED
      BY <2>1, <2>2
  <1>3. PICK r \in Seq(CvBlockSet) : r = OfKinds(a, {"result"})
    BY CvOfKinds
  <1> DEFINE T == {y \in CvBlockSet : y.id = id}
  <1>4. OutputsOf(r, id) = Sifted(CvBlockSet, T, r)
    BY OutputsOfIs
  <1>5. CASE x.type = "function_call_output"
    <2>1. OfKinds(b, {"result"}) = <<ResultOf(x)>>
      BY <1>1, <1>5, ResultOfContent
    <2>2. ResultOf(x) \in CvBlockSet /\ ResultOf(x).id = x.id
      <3>1. b = <<ResultOf(x)>>
        BY <1>1, <1>5 DEF ContentOf, ResultOf
      <3>2. Len(b) = 1 /\ b[1] = ResultOf(x) /\ 1 \in 1 .. Len(b)
        BY <3>1
      <3>3. ResultOf(x) \in CvBlockSet
        BY <3>2, ElementOfSeq
      <3> QED
        BY <3>3 DEF ResultOf, CvBlock
    <2>3. PICK q \in Seq(CvBlockSet) : q = Append(r, ResultOf(x)) /\ q = r \o <<ResultOf(x)>>
      BY <2>2, AppendProperties, AppendIsConcat
    <2>4. OutputsOf(q, id) = Sifted(CvBlockSet, T, q)
      BY OutputsOfIs
    <2>5. Sifted(CvBlockSet, T, Append(r, ResultOf(x)))
            = IF ResultOf(x) \in T THEN Append(Sifted(CvBlockSet, T, r), ResultOf(x))
              ELSE Sifted(CvBlockSet, T, r)
      BY <2>2, SiftedAppend
    <2>6. ResultOf(x) \in T <=> Outputs(x, id)
      BY <1>5, <2>2 DEF Outputs
    <2>7. ItemResults(Append(s, x), id) = OutputsOf(q, id) /\ ItemResults(s, id) = OutputsOf(r, id)
      BY <1>1, <1>2, <1>3, <2>1, <2>3 DEF ItemResults
    <2> HIDE DEF T
    <2> QED
      BY <1>4, <2>3, <2>4, <2>5, <2>6, <2>7
  <1>6. CASE x.type # "function_call_output"
    <2>1. OfKinds(b, {"result"}) = <<>>
      BY <1>1, <1>6, ResultOfContent
    <2>2. r \o <<>> = r
      BY ConcatEmptySeq
    <2> QED
      BY <1>1, <1>2, <1>3, <1>6, <2>1, <2>2 DEF ItemResults, Outputs
  <1> QED
    BY <1>5, <1>6

\* Output i is the last one of its call.
LastOf(s, id, i) ==
  /\ i \in DOMAIN s /\ Outputs(s[i], id)
  /\ \A j \in DOMAIN s : j > i => ~Outputs(s[j], id)

LEMMA LastResults ==
  ASSUME NEW s \in Seq(CvItemSet), NEW id
  PROVE  /\ ItemResults(s, id) # <<>> =>
              \E i \in DOMAIN s : LastOf(s, id, i) /\ Last(ItemResults(s, id)) = ResultOf(s[i])
         /\ ItemResults(s, id) = <<>> => \A j \in DOMAIN s : ~Outputs(s[j], id)
  <1> DEFINE S == {u \in Seq(CvItemSet) :
       /\ ItemResults(u, id) # <<>> =>
            \E i \in DOMAIN u : LastOf(u, id, i) /\ Last(ItemResults(u, id)) = ResultOf(u[i])
       /\ ItemResults(u, id) = <<>> => \A j \in DOMAIN u : ~Outputs(u[j], id)}
  <1>1. <<>> \in S
    <2>1. PICK b \in Seq(CvBlockSet) : b = <<>>
      BY EmptySeq
    <2>2. OfKinds(b, {"result"}) = <<>>
      BY <2>1, CvOfKinds, SiftedNone
    <2>3. OutputsOf(b, id) = <<>>
      <3>1. PICK T : T = {y \in CvBlockSet : y.id = id}
        OBVIOUS
      <3>2. OutputsOf(b, id) = Sifted(CvBlockSet, T, b)
        BY <3>1, OutputsOfIs
      <3> QED
        BY <2>1, <3>2, SiftedNone
    <2>4. ItemResults(<<>>, id) = <<>>
      BY <2>1, <2>2, <2>3, ItemBlocksNone DEF ItemResults
    <2>5. DOMAIN <<>> = {}
      OBVIOUS
    <2> QED
      BY <2>4, <2>5, EmptySeq
  <1>2. ASSUME NEW u \in Seq(CvItemSet), NEW e \in CvItemSet, u \in S PROVE Append(u, e) \in S
    <2>1. PICK n \in Nat : n = Len(u) /\ DOMAIN u = 1 .. n
      BY LenProperties
    <2>2. PICK a \in Seq(CvItemSet) : a = Append(u, e)
      BY AppendProperties
    <2>3. Len(a) = n + 1 /\ a[n + 1] = e /\ \A i \in 1 .. n : a[i] = u[i]
      BY <2>1, <2>2, AppendProperties
    <2>4. DOMAIN a = 1 .. n + 1
      BY <2>2, <2>3, LenProperties
    <2>5. PICK o \in Seq(CvBlockSet) : o = ItemResults(u, id)
      BY ItemResultsTyped
    <2>6. ItemResults(a, id) = IF Outputs(e, id) THEN Append(o, ResultOf(e)) ELSE o
      BY <2>2, <2>5, ItemResultsAppend
    <2>7. CASE Outputs(e, id)
      <3>1. PICK q : q = Append(o, ResultOf(e))
        OBVIOUS
      <3>2. ResultOf(e) \in CvBlockSet
        <4>1. PICK b \in Seq(CvBlockSet) : b = ContentOf(e)
          BY AnthropicOfIs
        <4>2. b = <<ResultOf(e)>>
          BY <2>7, <4>1 DEF ContentOf, ResultOf, Outputs
        <4>3. Len(b) = 1 /\ b[1] = ResultOf(e) /\ 1 \in 1 .. Len(b)
          BY <4>2
        <4> QED
          BY <4>3, ElementOfSeq
      <3>3. q # <<>> /\ Last(q) = ResultOf(e)
        BY <3>1, <3>2, LastAppended
      <3>4. LastOf(a, id, n + 1)
        <4>1. n + 1 \in 1 .. n + 1 /\ \A j \in 1 .. n + 1 : ~(j > n + 1)
          OBVIOUS
        <4> QED
          BY <2>3, <2>4, <2>7, <4>1 DEF LastOf
      <3>5. ItemResults(a, id) = q
        BY <2>6, <2>7, <3>1
      <3>6. n + 1 \in DOMAIN a
        BY <3>4 DEF LastOf
      <3> QED
        BY <2>2, <2>3, <3>3, <3>4, <3>5, <3>6
    <2>8. CASE ~Outputs(e, id)
      <3>1. ItemResults(a, id) = o
        BY <2>6, <2>8
      <3>2. ASSUME o = <<>> PROVE \A j \in DOMAIN a : ~Outputs(a[j], id)
        <4>1. \A j \in 1 .. n : ~Outputs(u[j], id)
          BY <1>2, <2>1, <2>5, <3>2
        <4>2. \A j \in 1 .. n + 1 : j \in 1 .. n \/ j = n + 1
          OBVIOUS
        <4> QED
          BY <2>3, <2>4, <2>8, <4>1, <4>2
      <3>3. ASSUME o # <<>>
            PROVE  \E i \in DOMAIN a : LastOf(a, id, i) /\ Last(o) = ResultOf(a[i])
        <4>1. PICK i \in DOMAIN u : LastOf(u, id, i) /\ Last(o) = ResultOf(u[i])
          BY <1>2, <2>5, <3>3
        <4>2. i \in 1 .. n /\ i \in DOMAIN a /\ a[i] = u[i]
          BY <2>1, <2>3, <2>4, <4>1
        <4>3. \A j \in 1 .. n + 1 : j \in 1 .. n \/ j = n + 1
          OBVIOUS
        <4>4. LastOf(a, id, i)
          BY <2>1, <2>3, <2>4, <2>8, <4>1, <4>2, <4>3 DEF LastOf
        <4> QED
          BY <4>1, <4>2, <4>4
      <3> QED
        BY <2>2, <3>1, <3>2, <3>3
    <2> QED
      BY <2>7, <2>8
  <1> HIDE DEF S
  <1>3. Seq(CvItemSet) \subseteq S
    BY <1>1, <1>2, SeqStepwise
  <1> QED
    BY <1>3 DEF S

\* The calls of a history.
LEMMA ItemCalls ==
  ASSUME NEW s \in Seq(CvItemSet), NEW b, b.kind = "use"
  PROVE  b \in ToSet(ItemBlocks(s))
           <=> \E x \in ToSet(s) : x.type = "function_call" /\ b = CvBlock("use", x.id, <<>>)
  <1>1. \A x \in ToSet(s) : x \in CvItemSet
    BY MembersTyped
  <1>2. ASSUME NEW x \in ToSet(s)
        PROVE  b \in ToSet(ContentOf(x))
                 <=> x.type = "function_call" /\ b = CvBlock("use", x.id, <<>>)
    <2>1. CASE x.type = "function_call"
      <3>1. ToSet(ContentOf(x)) = {CvBlock("use", x.id, <<>>)}
        BY <2>1 DEF ContentOf, ToSet
      <3> QED
        BY <2>1, <3>1
    <2>2. CASE x.type = "function_call_output"
      <3>1. ToSet(ContentOf(x)) = {ResultOf(x)}
        BY <2>2 DEF ContentOf, ToSet, ResultOf
      <3>2. ResultOf(x).kind = "result"
        BY DEF ResultOf, CvBlock
      <3> QED
        BY <2>2, <3>1, <3>2
    <2>3. CASE x.type \notin {"function_call", "function_call_output"}
      <3>1. CASE x.role \in {"user", "assistant"}
        <4>1. ContentOf(x) = OwnParts(x.parts)
          BY <2>3, <3>1 DEF ContentOf
        <4>2. ToSet(ContentOf(x)) \subseteq CvOf({"text", "image"})
          BY <1>1, <4>1, ItemFields, OwnPartsAre
        <4> QED
          BY <2>3, <4>2 DEF CvOf
      <3>2. CASE x.role \notin {"user", "assistant"}
        <4>1. ContentOf(x) = <<>>
          BY <2>3, <3>2 DEF ContentOf
        <4> QED
          BY <2>3, <4>1 DEF ToSet
      <3> QED
        BY <3>1, <3>2
    <2> QED
      BY <2>1, <2>2, <2>3
  <1>3. b \in ToSet(ItemBlocks(s)) <=> \E x \in ToSet(s) : b \in ToSet(ContentOf(x))
    BY ItemMembers
  <1> QED
    BY <1>2, <1>3

-----------------------------------------------------------------------------
(* A history grows by items, and every output is of its own position *)

ItemsHold ==
  cvKind = "responses" =>
    /\ cvHistory \in Seq(CvItemSet)
    /\ \A i \in DOMAIN cvHistory :
         cvHistory[i].type = "function_call_output" => Joined(cvHistory[i].parts) = <<i>>

LEMMA NewItemsTyped ==
  ASSUME NEW i \in Nat, NEW x \in NewItems(i)
  PROVE  /\ x \in CvItemSet
         /\ x.type = "function_call_output" => Joined(x.parts) = <<i>>
  <1>1. \A kind \in {"text", "image"} : CvPart(kind, <<i>>) \in CvPartSet
    BY DEF CvPart, CvPartSet
  <1>2. \A kind \in {"text", "image"} : <<CvPart(kind, <<i>>)>> \in Seq(CvPartSet)
    BY <1>1
  <1>3. <<>> \in Seq(CvPartSet)
    BY EmptySeq
  <1>4. \A role \in {"user", "assistant", "developer"}, kind \in {"text", "image"} :
          CvItem("message", role, NoId, <<CvPart(kind, <<i>>)>>) \in CvItemSet
    BY <1>2 DEF CvItem, CvItemSet, CvCallTypes, CvOutTypes
  <1>5. \A type \in CvCallTypes, id \in CvIds : CvItem(type, "none", id, <<>>) \in CvItemSet
    BY <1>3 DEF CvItem, CvItemSet, CvCallTypes, CvOutTypes
  <1>6. \A type \in CvOutTypes, id \in CvIds, kind \in {"text", "image"} :
          CvItem(type, "none", id, <<CvPart(kind, <<i>>)>>) \in CvItemSet
    BY <1>2 DEF CvItem, CvItemSet, CvCallTypes, CvOutTypes
  <1>7. CvItem("reasoning", "none", NoId, <<CvPart("text", <<i>>)>>) \in CvItemSet
    BY <1>2 DEF CvItem, CvItemSet, CvCallTypes, CvOutTypes
  <1>8. CvItem("web_search_call", "none", NoId, <<>>) \in CvItemSet
    BY <1>3 DEF CvItem, CvItemSet, CvCallTypes, CvOutTypes
  <1>9. \/ \E role \in {"user", "assistant", "developer"}, kind \in {"text", "image"} :
             x = CvItem("message", role, NoId, <<CvPart(kind, <<i>>)>>)
        \/ \E type \in CvCallTypes, id \in CvIds : x = CvItem(type, "none", id, <<>>)
        \/ \E type \in CvOutTypes, id \in CvIds, kind \in {"text", "image"} :
             x = CvItem(type, "none", id, <<CvPart(kind, <<i>>)>>)
        \/ x = CvItem("reasoning", "none", NoId, <<CvPart("text", <<i>>)>>)
        \/ x = CvItem("web_search_call", "none", NoId, <<>>)
    BY DEF NewItems
  <1>10. x \in CvItemSet
    BY <1>4, <1>5, <1>6, <1>7, <1>8, <1>9
  <1>11. ASSUME x.type = "function_call_output" PROVE Joined(x.parts) = <<i>>
    <2>1. PICK kind \in {"text", "image"} : x.parts = <<CvPart(kind, <<i>>)>>
      BY <1>9, <1>11 DEF CvItem, CvCallTypes
    <2>2. PICK p \in CvPartSet : p = CvPart(kind, <<i>>)
      BY <1>1
    <2>3. <<p>> \in Seq(CvPartSet)
      OBVIOUS
    <2>4. Joined(<<p>>) = Mapped(Froms(CvPartSet), <<p>>)
      BY <2>3, JoinedIs
    <2>5. Mapped(Froms(CvPartSet), <<p>>) = Froms(CvPartSet)[p]
      BY FromsGive, MappedOne
    <2>6. Froms(CvPartSet)[p] = <<i>>
      BY <2>2 DEF Froms, CvPart
    <2> QED
      BY <2>1, <2>2, <2>4, <2>5, <2>6
  <1> QED
    BY <1>10, <1>11

LEMMA ItemsHoldAtFirst == CvInit => ItemsHold
  BY EmptySeq DEF CvInit, ItemsHold

LEMMA ItemsHoldOn == ItemsHold /\ [CvNext]_cvVars => ItemsHold'
  <1> SUFFICES ASSUME ItemsHold, [CvNext]_cvVars PROVE ItemsHold'
    OBVIOUS
  <1>1. CASE UNCHANGED cvVars
    BY <1>1 DEF cvVars, ItemsHold
  <1>2. CASE CvNext
    <2> SUFFICES ASSUME cvKind = "responses"
                 PROVE  /\ cvHistory' \in Seq(CvItemSet)
                        /\ \A i \in DOMAIN cvHistory' :
                             cvHistory'[i].type = "function_call_output"
                               => Joined(cvHistory'[i].parts) = <<i>>
      BY <1>2 DEF CvNext, CvAdd, ItemsHold
    <2>1. /\ cvHistory \in Seq(CvItemSet)
          /\ \A i \in DOMAIN cvHistory :
               cvHistory[i].type = "function_call_output" => Joined(cvHistory[i].parts) = <<i>>
      BY DEF ItemsHold
    <2>2. PICK n \in Nat : n = Len(cvHistory) /\ DOMAIN cvHistory = 1 .. n
      BY <2>1, LenProperties
    <2>3. PICK new \in NewItems(n + 1) : cvHistory' = Append(cvHistory, new)
      BY <1>2, <2>2 DEF CvNext, CvAdd
    <2>4. n + 1 \in Nat
      OBVIOUS
    <2>5. new \in CvItemSet /\ (new.type = "function_call_output" => Joined(new.parts) = <<n + 1>>)
      BY <2>3, <2>4, NewItemsTyped
    <2>6. PICK h \in Seq(CvItemSet) : h = Append(cvHistory, new)
      BY <2>1, <2>5, AppendProperties
    <2>7. Len(h) = n + 1 /\ h[n + 1] = new /\ \A i \in 1 .. n : h[i] = cvHistory[i]
      BY <2>1, <2>2, <2>5, <2>6, AppendProperties
    <2>8. DOMAIN h = 1 .. n + 1
      BY <2>6, <2>7, LenProperties
    <2>9. \A i \in 1 .. n + 1 : i \in 1 .. n \/ i = n + 1
      OBVIOUS
    <2>10. \A i \in DOMAIN h : h[i].type = "function_call_output" => Joined(h[i].parts) = <<i>>
      BY <2>1, <2>2, <2>5, <2>7, <2>8, <2>9
    <2> QED
      BY <2>3, <2>6, <2>10
  <1> QED
    BY <1>1, <1>2

-----------------------------------------------------------------------------
(* What an Anthropic upstream is sent *)

LEMMA SentIs ==
  ASSUME NEW h \in Seq(CvItemSet)
  PROVE  \E ms \in Seq(CvTurnSet) :
           /\ AllBlocks(ms) = ItemBlocks(h)
           /\ ToAnthropic(h) = TurnsMerged(TurnsPaired(ms))
           /\ ToAnthropic(h) \in Seq(CvTurnSet)
           /\ AllBlocks(ToAnthropic(h)) = AllBlocks(TurnsPaired(ms))
           /\ ResultsIn(ms) = OfKinds(ItemBlocks(h), {"result"})
  <1>1. PICK t \in Seq(CvTurnSet) : t = ItemTurns(h)
    BY ItemTurnsAre
  <1>2. PICK ms \in Seq(CvTurnSet) : ms = TurnsMerged(t)
    BY TurnsMergedTyped
  <1>3. AllBlocks(ms) = ItemBlocks(h)
    BY <1>1, <1>2, MergingKeepsBlocks DEF ItemBlocks
  <1>4. PICK p \in Seq(CvTurnSet) : p = TurnsPaired(ms)
    BY TurnsPairedIs
  <1>5. ToAnthropic(h) = TurnsMerged(p)
    BY <1>1, <1>2, <1>4 DEF ToAnthropic, ItemTurns
  <1>6. TurnsMerged(p) \in Seq(CvTurnSet) /\ AllBlocks(TurnsMerged(p)) = AllBlocks(p)
    BY TurnsMergedTyped, MergingKeepsBlocks
  <1> QED
    BY <1>2, <1>3, <1>4, <1>5, <1>6 DEF ResultsIn

LEMMA CallsSent ==
  ASSUME cvHistory \in Seq(CvItemSet), NEW ms \in Seq(CvTurnSet),
         AllBlocks(ms) = ItemBlocks(cvHistory),
         ResultsIn(ms) = OfKinds(ItemBlocks(cvHistory), {"result"})
  PROVE  {b.id : b \in ToSet(OfKinds(AllBlocks(TurnsPaired(ms)), {"use"}))}
           = CallsAnswered({"function_call"}, {"function_call_output"})
  <1>1. PICK h \in Seq(CvItemSet) : h = cvHistory
    OBVIOUS
  <1>2. PICK U : U = ToSet(OfKinds(AllBlocks(TurnsPaired(ms)), {"use"}))
    OBVIOUS
  <1>3. U = ToSet(ItemBlocks(h)) \cap KeptCalls(ResultsIn(ms))
    BY <1>1, <1>2, PairedCalls
  <1>4. \A id : OutputsOf(ResultsIn(ms), id) = ItemResults(h, id)
    BY <1>1 DEF ItemResults
  <1>5. \A b : b \in U <=> /\ b \in ToSet(ItemBlocks(h)) /\ b \in CvBlockSet
                           /\ b.kind = "use" /\ ItemResults(h, b.id) # <<>>
    BY <1>3, <1>4 DEF KeptCalls
  <1>6. \A id : ItemResults(h, id) # <<>> <=> \E i \in DOMAIN h : Outputs(h[i], id)
    <2> SUFFICES ASSUME NEW id
                 PROVE  ItemResults(h, id) # <<>> <=> \E i \in DOMAIN h : Outputs(h[i], id)
      OBVIOUS
    <2>1. ItemResults(h, id) # <<>> => \E i \in DOMAIN h : LastOf(h, id, i)
      BY LastResults
    <2>2. ItemResults(h, id) = <<>> => \A j \in DOMAIN h : ~Outputs(h[j], id)
      BY LastResults
    <2> QED
      BY <2>1, <2>2 DEF LastOf
  <1>7. \A i \in DOMAIN h : h[i] \in CvItemSet
    BY LenProperties, ElementOfSeq
  <1>8. ASSUME NEW c
        PROVE  (\E b \in U : b.id = c)
                 <=> /\ c \in CvIds
                     /\ \E i \in DOMAIN h : h[i].type = "function_call" /\ h[i].id = c
                     /\ \E i \in DOMAIN h : Outputs(h[i], c)
    <2>1. ASSUME NEW b \in U, b.id = c
          PROVE  /\ c \in CvIds
                 /\ \E i \in DOMAIN h : h[i].type = "function_call" /\ h[i].id = c
                 /\ \E i \in DOMAIN h : Outputs(h[i], c)
      <3>1. PICK x \in ToSet(h) : x.type = "function_call" /\ b = CvBlock("use", x.id, <<>>)
        BY <1>5, ItemCalls
      <3>2. PICK i \in DOMAIN h : x = h[i]
        BY DEF ToSet
      <3>3. x.id = c
        BY <2>1, <3>1 DEF CvBlock
      <3>4. c \in CvIds
        BY <1>7, <3>1, <3>2, <3>3, ItemFields DEF CvCallTypes
      <3> QED
        BY <1>5, <1>6, <2>1, <3>1, <3>2, <3>3, <3>4
    <2>2. ASSUME c \in CvIds, NEW i \in DOMAIN h, h[i].type = "function_call", h[i].id = c,
                 \E j \in DOMAIN h : Outputs(h[j], c)
          PROVE  \E b \in U : b.id = c
      <3>1. PICK b : b = CvBlock("use", c, <<>>)
        OBVIOUS
      <3>2. b.kind = "use" /\ b.id = c /\ b \in CvBlockSet
        BY <2>2, <3>1, EmptySeq DEF CvBlock, CvBlockSet
      <3>3. h[i] \in ToSet(h)
        BY DEF ToSet
      <3>4. b \in ToSet(ItemBlocks(h))
        BY <2>2, <3>1, <3>2, <3>3, ItemCalls
      <3> QED
        BY <1>5, <1>6, <2>2, <3>2, <3>4
    <2> QED
      BY <2>1, <2>2
  <1>9. \A c : c \in CallsAnswered({"function_call"}, {"function_call_output"})
          <=> /\ c \in CvIds
              /\ \E i \in DOMAIN h : h[i].type = "function_call" /\ h[i].id = c
              /\ \E i \in DOMAIN h : Outputs(h[i], c)
    BY <1>1 DEF CallsAnswered, Outputs
  <1>10. \A c : c \in {b.id : b \in U} <=> \E b \in U : b.id = c
    OBVIOUS
  <1>11. \A c : c \in {b.id : b \in U}
           <=> c \in CallsAnswered({"function_call"}, {"function_call_output"})
    BY <1>8, <1>9, <1>10
  <1> QED
    BY <1>2, <1>11

LEMMA ResultsSent ==
  ASSUME ItemsHold, cvKind = "responses", NEW ms \in Seq(CvTurnSet),
         AllBlocks(ms) = ItemBlocks(cvHistory),
         ResultsIn(ms) = OfKinds(ItemBlocks(cvHistory), {"result"}),
         NEW b \in ToSet(OfKinds(AllBlocks(TurnsPaired(ms)), {"result"}))
  PROVE  b.from = <<LastOutput(b.id, {"function_call_output"})>>
  <1>1. PICK h \in Seq(CvItemSet) : h = cvHistory
    BY DEF ItemsHold
  <1>2. OutputsOf(ResultsIn(ms), b.id) = ItemResults(h, b.id)
    BY <1>1 DEF ItemResults
  <1>3. ItemResults(h, b.id) # <<>> /\ b = Last(ItemResults(h, b.id))
    BY <1>2, PairedResults
  <1>4. PICK i \in DOMAIN h : LastOf(h, b.id, i) /\ b = ResultOf(h[i])
    BY <1>3, LastResults
  <1>5. b.from = <<i>>
    <2>1. h[i].type = "function_call_output"
      BY <1>4 DEF LastOf, Outputs
    <2>2. Joined(h[i].parts) = <<i>>
      BY <1>1, <2>1 DEF ItemsHold
    <2> QED
      BY <1>4, <2>2 DEF ResultOf, CvBlock
  <1>6. \A j \in DOMAIN h : LastOf(h, b.id, j) => j = i
    <2>1. DOMAIN h = 1 .. Len(h) /\ Len(h) \in Nat
      BY LenProperties
    <2>2. \A j \in DOMAIN h : j \in Nat /\ i \in Nat
      BY <2>1
    <2> QED
      BY <1>4, <2>2 DEF LastOf
  <1>7. LastOutput(b.id, {"function_call_output"}) = CHOOSE j \in DOMAIN h : LastOf(h, b.id, j)
    <2>1. \A j \in DOMAIN h :
            LastOf(h, b.id, j)
              <=> /\ h[j].type \in {"function_call_output"} /\ h[j].id = b.id
                  /\ \A k \in DOMAIN h :
                       k > j => h[k].type \notin {"function_call_output"} \/ h[k].id # b.id
      BY DEF LastOf, Outputs
    <2> QED
      BY <1>1, <2>1 DEF LastOutput
  <1> QED
    BY <1>4, <1>5, <1>6, <1>7

LEMMA ItemsFit == ItemsHold => AnthropicFits
  <1> SUFFICES ASSUME ItemsHold, cvKind = "responses" PROVE AnthropicFits
    BY DEF AnthropicFits
  <1>1. cvHistory \in Seq(CvItemSet)
    BY DEF ItemsHold
  <1>2. PICK ms \in Seq(CvTurnSet) :
          /\ AllBlocks(ms) = ItemBlocks(cvHistory)
          /\ ToAnthropic(cvHistory) = TurnsMerged(TurnsPaired(ms))
          /\ ToAnthropic(cvHistory) \in Seq(CvTurnSet)
          /\ AllBlocks(ToAnthropic(cvHistory)) = AllBlocks(TurnsPaired(ms))
          /\ ResultsIn(ms) = OfKinds(ItemBlocks(cvHistory), {"result"})
    BY <1>1, SentIs
  <1>3. PICK said : said = AllBlocks(TurnsPaired(ms))
    OBVIOUS
  <1>4. Each(LAMBDA m : m.blocks, ToAnthropic(cvHistory)) = said
    <2>1. PICK v \in Seq(CvTurnSet) : v = ToAnthropic(cvHistory)
      BY <1>2
    <2>2. Each(LAMBDA m : m.blocks, v) = AllBlocks(v)
      BY AllBlocksIs
    <2> QED
      BY <1>2, <1>3, <2>1, <2>2
  <1>5. TurnsFit(ToAnthropic(cvHistory))
    BY <1>2, PairedTurnsFit
  <1>6. Joined(OfKinds(said, {"text", "image"})) = Spoken({"user", "assistant"})
    <2>1. OfKinds(said, {"text", "image"}) = TextsOf(ItemBlocks(cvHistory))
      BY <1>2, <1>3, PairingKeepsTexts DEF TextsOf
    <2>2. Joined(TextsOf(ItemBlocks(cvHistory))) = SpokenIn(cvHistory)
      BY <1>1, ItemTexts
    <2>3. SpokenIn(cvHistory) = Spoken({"user", "assistant"})
      BY DEF SpokenIn, Spoken
    <2> QED
      BY <2>1, <2>2, <2>3
  <1>7. {b.id : b \in ToSet(OfKinds(said, {"use"}))}
          = CallsAnswered({"function_call"}, {"function_call_output"})
    BY <1>1, <1>2, <1>3, CallsSent
  <1>8. \A b \in ToSet(OfKinds(said, {"result"})) :
          b.from = <<LastOutput(b.id, {"function_call_output"})>>
    BY <1>2, <1>3, ResultsSent
  <1> QED
    BY <1>4, <1>5, <1>6, <1>7, <1>8 DEF AnthropicFits

\* Of every history of the Responses API, however long and whatever it lacks or
\* repeats, an Anthropic upstream is sent turns that alternate, in which every call
\* is answered at the head of the next turn and nothing else is (responses_to_
\* anthropic_request.go): exactly the answered calls, with their last output, and
\* everything said, in its order.
THEOREM AnthropicRequestsFit == CvSpec => []AnthropicFits
  <1>1. CvSpec => []ItemsHold
    BY ItemsHoldAtFirst, ItemsHoldOn, PTL DEF CvSpec
  <1> QED
    BY <1>1, ItemsFit, PTL
=============================================================================
