-------------------------- MODULE AnthropicStreams --------------------------
(***************************************************************************)
(* The two converters that write an Anthropic stream (pkg/apicompat): from *)
(* the events of a Responses stream, which is what /v1/messages serves     *)
(* (gateway/anthropic.go), and from the chunks of a Chat Completions       *)
(* stream.  Each keeps the content block it has open; its client takes the *)
(* blocks one after the other.  What the gateway makes of a whole answer,  *)
(* for a client that does not stream, is given beside it.                  *)
(*                                                                         *)
(* Texts are left out.  The arguments of each call are counted in pieces,  *)
(* so that a piece lost, sent twice or to another call shows.  The         *)
(* upstreams are external: both work on one output item, or one tool call, *)
(* at a time, and either may break off anywhere.  A chunk with several     *)
(* parts is one step for each.                                             *)
(***************************************************************************)
EXTENDS Integers, Sequences, SequencesExt

CONSTANTS
  AntOutputs,   \* bound: output items, or tool calls, of an upstream
  AntPieces,    \* bound: pieces of the arguments of a tool
  AntParts      \* bound: text parts of a message; changes between texts of a chat

ASSUME AntAssumption == AntOutputs \in Nat /\ AntPieces \in Nat /\ AntParts \in Nat

Tools == 0 .. AntOutputs - 1
NoBlock == -1

VARIABLES
  antUp,     \* the upstream, and what it has sent so far
  antRes,    \* ResponsesEventToAnthropicState
  antChat,   \* ChatCompletionsToAnthropicStreamState
  antSeen    \* what the client has made of it

antVars == <<antUp, antRes, antChat, antSeen>>

AntInit ==
  /\ antUp \in [kind : {"responses", "chat"}, at : {"new"}, output : {<<>>},
                given : {0}, sent : {[o \in Tools |-> 0]}, signed : {FALSE}, tools : {0}, end : {"none"}]
  /\ antRes = [started |-> FALSE, stopped |-> FALSE, index |-> 0, open |-> FALSE,
               type |-> "none", read |-> FALSE, args |-> 0, had |-> FALSE,
               signature |-> FALSE, tool |-> FALSE,
               block |-> [o \in 1 .. AntOutputs |-> NoBlock]]
  /\ antChat = [started |-> FALSE, stopped |-> FALSE, index |-> 0, open |-> FALSE,
                type |-> "none", had |-> FALSE, tool |-> FALSE, finish |-> "none",
                announced |-> {}, pending |-> {},
                block |-> [o \in Tools |-> NoBlock], held |-> [o \in Tools |-> 0]]
  /\ antSeen = [started |-> FALSE, stopped |-> FALSE, open |-> "none", blocks |-> <<>>,
                call |-> NoBlock, calls |-> {}, pieces |-> [o \in Tools |-> 0],
                filled |-> FALSE, empty |-> FALSE, signed |-> FALSE, reason |-> "none",
                astray |-> FALSE]

-----------------------------------------------------------------------------
(* The client: what it cannot place leads it astray.  Blocks count from 0. *)

Starts(c) == [c EXCEPT !.started = TRUE, !.astray = @ \/ c.started]

Opens(c, i, t) ==
  [c EXCEPT !.open = t, !.blocks = Append(@, t), !.filled = FALSE, !.signed = FALSE,
            !.astray = @ \/ ~c.started \/ c.stopped \/ c.open # "none"
                         \/ i # Len(c.blocks)]

\* A tool's block names its call.
OpensCall(c, i, o) ==
  [Opens(c, i, "tool_use") EXCEPT !.call = o, !.calls = @ \cup {o},
                                  !.astray = @ \/ o \in c.calls]

Misplaced(c, i, t) == c.open # t \/ i # Len(c.blocks) - 1
Takes(c, i, t) == [c EXCEPT !.astray = @ \/ Misplaced(c, i, t)]
TakesArgs(c, i, n) ==
  [c EXCEPT !.astray = @ \/ Misplaced(c, i, "tool_use"), !.filled = TRUE,
            !.pieces[c.call] = @ + n]
Signs(c, i) ==
  [c EXCEPT !.astray = @ \/ Misplaced(c, i, "thinking"), !.signed = TRUE]

Closes(c, i) ==
  [c EXCEPT !.open = "none", !.empty = @ \/ (c.open = "tool_use" /\ ~c.filled),
            !.astray = @ \/ Misplaced(c, i, c.open) \/ c.open = "none"]

Ends(c, reason) ==
  [c EXCEPT !.stopped = TRUE, !.reason = reason,
            !.astray = @ \/ ~c.started \/ c.stopped \/ c.open # "none"]

-----------------------------------------------------------------------------
(* From Responses events: s is the converter and c its client              *)

\* closeCurrentBlock.
ResClosed(s, c) ==
  IF ~s.open THEN [s |-> s, c |-> c]
  ELSE [s |-> [s EXCEPT !.open = FALSE, !.index = @ + 1, !.read = FALSE, !.args = 0,
                        !.had = FALSE, !.signature = @ /\ s.type # "thinking"],
        c |-> Closes(IF s.type = "thinking" /\ s.signature THEN Signs(c, s.index)
                     ELSE c, s.index)]

\* A tool that opens its block is the next one of the upstream.
ResOpened(p, t) ==
  [s |-> [p.s EXCEPT !.open = TRUE, !.type = t],
   c |-> IF t = "tool_use" THEN OpensCall(p.c, p.s.index, antUp.tools)
         ELSE Opens(p.c, p.s.index, t)]

ResStopped(s, c, reason) ==
  LET p == ResClosed(s, c) IN
  [s |-> [p.s EXCEPT !.stopped = TRUE], c |-> Ends(p.c, reason)]

ResTo(p) == antRes' = p.s /\ antSeen' = p.c /\ UNCHANGED antChat

Out == Len(antUp.output)
Item == antUp.output[Out].item
ResAt(places) == antUp.kind = "responses" /\ antUp.at \in places

ResCreated ==
  /\ ResAt({"new"})
  /\ antUp' = [antUp EXCEPT !.at = "between"]
  /\ ResTo([s |-> [antRes EXCEPT !.started = TRUE], c |-> Starts(antSeen)])

\* output_item.added: a function call and reasoning open their block.  read
\* says that the tool called is Read.
ResAdded(item, signed, read) ==
  LET p == ResOpened(ResClosed(antRes, antSeen),
                     IF item = "function" THEN "tool_use" ELSE "thinking")
      placed == [p.s EXCEPT !.block[Out + 1] = p.s.index]
  IN
  /\ ResAt({"between"}) /\ Out < AntOutputs
  /\ antUp' = [antUp EXCEPT !.at = "in", !.given = 0, !.signed = signed,
                            !.output = Append(@, [item |-> item, parts |-> 0]),
                            !.tools = IF item = "function" THEN @ + 1 ELSE @]
  /\ IF item = "function"
     THEN ResTo([p EXCEPT !.s = [placed EXCEPT !.read = read, !.args = 0,
                                               !.had = FALSE, !.tool = TRUE]])
     ELSE IF item = "reasoning"
     THEN ResTo([p EXCEPT !.s = [placed EXCEPT !.signature = signed]])
     ELSE UNCHANGED <<antRes, antChat, antSeen>>

\* output_text.delta opens a block for its part, output_text.done closes it.
ResText ==
  LET opens == ~antRes.open \/ antRes.type # "text"
      p == IF opens THEN ResOpened(ResClosed(antRes, antSeen), "text")
           ELSE [s |-> antRes, c |-> antSeen]
  IN
  /\ ResAt({"in", "part"}) /\ Item = "message"
  /\ antUp.at = "in" => antUp.output[Out].parts < AntParts
  /\ antUp' = [antUp EXCEPT !.at = "part",
                            !.output[Out].parts = IF antUp.at = "in" THEN @ + 1 ELSE @]
  /\ ResTo([p EXCEPT !.c = Takes(@, p.s.index, "text")])

ResTextDone ==
  /\ ResAt({"part"})
  /\ antUp' = [antUp EXCEPT !.at = "in"]
  /\ ResTo(ResClosed(antRes, antSeen))

ResReasoning ==
  LET i == antRes.block[Out] IN
  /\ ResAt({"in"}) /\ Item = "reasoning"
  /\ antSeen' = IF i = NoBlock THEN antSeen ELSE Takes(antSeen, i, "thinking")
  /\ UNCHANGED <<antUp, antRes, antChat>>

\* A piece of the arguments.  Those of Read are kept until they are whole; last
\* says that this piece makes them so.
ResArgs(last) ==
  LET s == antRes
      i == s.block[Out]
      reads == s.type = "tool_use" /\ s.read
      keeps == reads /\ (s.had \/ ~last)
  IN
  /\ ResAt({"in"}) /\ Item = "function" /\ antUp.given < AntPieces
  /\ antUp' = [antUp EXCEPT !.given = @ + 1, !.sent[antUp.tools - 1] = @ + 1,
                            !.at = IF last THEN "whole" ELSE @]
  /\ ResTo([s |-> [s EXCEPT !.args = IF reads THEN @ + 1 ELSE @,
                            !.had = @ \/ (~keeps /\ s.type = "tool_use"
                                                 /\ (reads => i # NoBlock))],
            c |-> IF keeps \/ i = NoBlock THEN antSeen
                  ELSE TakesArgs(antSeen, i, IF reads THEN s.args + 1 ELSE 1)])

\* Variants of definitions of the model, each with a plausible slip, are named
\* after them; the model uses none of them.
ResArgsDoneTwice(given, whole) ==
  LET s == antRes
      n == IF whole THEN given ELSE s.args
  IN
  /\ ResAt({"in", "whole"}) /\ Item = "function"
  /\ given = antUp.given \/ (antUp.given = 0 /\ whole)
  /\ antUp' = [antUp EXCEPT !.at = "done", !.given = given,
                            !.sent[antUp.tools - 1] = @ + given - antUp.given]
  /\ IF n = 0 THEN ResTo(ResClosed(s, antSeen))
     ELSE ResTo(ResClosed(s, TakesArgs(antSeen, s.block[Out], n)))

\* function_call_arguments.done, with the whole arguments in it or not: what has
\* not come in pieces, or has been kept, is sent now.
ResArgsDone(given, whole) ==
  LET s == antRes
      i == IF s.block[Out] = NoBlock THEN s.index ELSE s.block[Out]
      n == IF whole THEN given ELSE s.args
  IN
  /\ ResAt({"in", "whole"}) /\ Item = "function"
  /\ given = antUp.given \/ (antUp.given = 0 /\ whole)
  /\ antUp' = [antUp EXCEPT !.at = "done", !.given = given,
                            !.sent[antUp.tools - 1] = @ + given - antUp.given]
  /\ IF ~s.open THEN UNCHANGED <<antRes, antChat, antSeen>>
     ELSE IF s.type # "tool_use" \/ n = 0 \/ s.had THEN ResTo(ResClosed(s, antSeen))
     ELSE IF i # s.index THEN UNCHANGED <<antRes, antChat, antSeen>>
     ELSE ResTo(ResClosed(s, TakesArgs(antSeen, i, n)))

\* Two blocks, the call of the search and its empty result.
ResSearched(p) ==
  LET i == p.s.index
      call == Closes(Opens(p.c, i, "server_tool_use"), i)
  IN
  [s |-> [p.s EXCEPT !.index = @ + 2],
   c |-> Closes(Opens(call, i + 1, "web_search_tool_result"), i + 1)]

\* output_item.done; signed: it carries the encrypted reasoning; completed: the
\* status of a search, which is all that shows of it.
ResItemDone(signed, completed) ==
  LET kept == [antRes EXCEPT !.signature = @ \/ (Item = "reasoning" /\ signed)] IN
  /\ ResAt(IF Item = "function" THEN {"done"} ELSE {"in", "part"})
  /\ antUp' = [antUp EXCEPT !.at = "between", !.signed = @ \/ signed,
                            !.output[Out].parts = IF Item = "search" /\ completed
                                                  THEN 1 ELSE @]
  /\ IF Item = "search" /\ completed
     THEN ResTo(ResSearched(ResClosed(antRes, antSeen)))
     ELSE ResTo(ResClosed(kept, antSeen))

\* response.completed, done, incomplete or failed; bare is one without the answer
\* in it.
ResCompleted(status) ==
  /\ ResAt({"between"})
  /\ antUp' = [antUp EXCEPT !.at = "ended", !.end = status]
  /\ IF antRes.stopped THEN UNCHANGED <<antRes, antChat, antSeen>>
     ELSE ResTo(ResStopped(antRes, antSeen,
                  CASE status = "max_output" -> "max_tokens"
                    [] status = "completed" /\ antRes.tool -> "tool_use"
                    [] OTHER -> "end_turn"))

\* FinalizeResponsesAnthropicStream, when nothing more is read.
ResFinalize ==
  /\ antUp.kind = "responses" /\ antUp.at # "closed"
  /\ antUp' = [antUp EXCEPT !.at = "closed"]
  /\ IF ~antRes.started \/ antRes.stopped THEN UNCHANGED <<antRes, antChat, antSeen>>
     ELSE ResTo(ResStopped(antRes, antSeen,
                           IF antRes.tool THEN "tool_use" ELSE "end_turn"))

\* ResponsesToAnthropic: the blocks of a whole answer.
BlocksOf(o) ==
  CASE o.item = "reasoning" -> <<"thinking">>
    [] o.item = "message" -> [k \in 1 .. o.parts |-> "text"]
    [] o.item = "function" -> <<"tool_use">>
    [] o.item = "search" -> <<"server_tool_use", "web_search_tool_result">>

ResBlocks(output) ==
  LET blocks == FlattenSeq([k \in DOMAIN output |-> BlocksOf(output[k])])
  IN IF blocks = <<>> THEN <<"text">> ELSE blocks

ResNext ==
  \/ ResCreated \/ ResText \/ ResTextDone \/ ResReasoning \/ ResFinalize
  \/ \E item \in {"function", "reasoning", "message", "search"}, b \in BOOLEAN :
       IF item = "function" THEN ResAdded(item, FALSE, b) ELSE ResAdded(item, b, FALSE)
  \/ \E last \in BOOLEAN : ResArgs(last)
  \/ \E given \in 0 .. AntPieces, whole \in BOOLEAN : ResArgsDone(given, whole)
  \/ \E b, d \in BOOLEAN : Out > 0 /\ ResItemDone(b, d)
  \/ \E st \in {"completed", "max_output", "incomplete", "failed", "bare"} :
       ResCompleted(st)

-----------------------------------------------------------------------------
(* From Chat Completions chunks                                            *)

\* closeCCAnthropicBlock: a tool block without a piece gets an empty object.
ChatClosed(s, c) ==
  IF ~s.open THEN [s |-> s, c |-> c]
  ELSE [s |-> [s EXCEPT !.open = FALSE, !.index = @ + 1, !.type = "none", !.had = FALSE],
        c |-> Closes(IF s.type = "tool_use" /\ ~s.had THEN TakesArgs(c, s.index, 0)
                     ELSE c, s.index)]

\* ensureCCAnthropicMessageStart.
ChatStarted(s, c) ==
  IF s.started THEN [s |-> s, c |-> c]
  ELSE [s |-> [s EXCEPT !.started = TRUE], c |-> Starts(c)]

\* ensureCCAnthropicThinkingBlock and ensureCCAnthropicTextBlock, with the piece.
ChatWrites(p, t) ==
  LET q == ChatClosed(p.s, p.c)
      r == IF p.s.open /\ p.s.type = t THEN p
           ELSE [s |-> [q.s EXCEPT !.open = TRUE, !.type = t],
                 c |-> Opens(q.c, q.s.index, t)]
  IN [r EXCEPT !.c = Takes(@, r.s.index, t)]

\* announceCCAnthropicToolBlock, with the pieces held back until now.
ChatAnnounced(p, o) ==
  LET i == p.s.index
      c == OpensCall(p.c, i, o)
  IN
  [s |-> [p.s EXCEPT !.block[o] = i, !.announced = @ \cup {o}, !.pending = @ \ {o},
                     !.had = p.s.held[o] > 0, !.held[o] = 0,
                     !.open = TRUE, !.type = "tool_use"],
   c |-> IF p.s.held[o] > 0 THEN TakesArgs(c, i, p.s.held[o]) ELSE c]

ChatTo(p) == antChat' = p.s /\ antSeen' = p.c /\ UNCHANGED antRes
ChatOpen == antUp.kind = "chat" /\ antUp.at \in {"new", "text", "tool"}

\* Reasoning or content in a chunk: text says which.
ChatText(t) ==
  /\ ChatOpen /\ Len(antSeen.blocks) < AntParts + AntOutputs
  /\ antUp' = [antUp EXCEPT !.at = "text"]
  /\ ChatTo(ChatWrites(ChatStarted(antChat, antSeen), t))

\* A part of tool call o: its name may be in it, and a piece of its arguments.
ChatTool(o, named, piece) ==
  LET p == ChatStarted(antChat, antSeen)
      new == o \notin p.s.announced \cup p.s.pending
      late == o \in p.s.pending /\ named
      q == IF new \/ late \/ p.s.type = "thinking" THEN ChatClosed(p.s, p.c) ELSE p
      r == IF (new \/ late) /\ named THEN ChatAnnounced(q, o)
           ELSE IF new THEN [q EXCEPT !.s.pending = @ \cup {o}] ELSE q
      i == r.s.block[o]
  IN
  /\ ChatOpen
  /\ \/ o = antUp.tools
     \/ o = antUp.tools - 1 /\ antUp.at = "tool"
  /\ piece => antUp.given < AntPieces \/ o = antUp.tools
  /\ antUp' = [antUp EXCEPT !.at = "tool", !.tools = o + 1,
                            !.sent[o] = IF piece THEN @ + 1 ELSE @,
                            !.given = (IF new THEN 0 ELSE @) + (IF piece THEN 1 ELSE 0)]
  /\ ChatTo(IF ~piece THEN [r EXCEPT !.s.tool = TRUE]
            ELSE IF o \in r.s.announced
            THEN [s |-> [r.s EXCEPT !.tool = TRUE,
                                    !.had = @ \/ (r.s.open /\ i = r.s.index)],
                  c |-> TakesArgs(r.c, i, 1)]
            ELSE [r EXCEPT !.s.tool = TRUE, !.s.held[o] = @ + 1])

ChatFinish(reason) ==
  LET p == ChatStarted(antChat, antSeen) IN
  /\ ChatOpen
  /\ reason = "tool_calls" => antUp.tools > 0
  /\ antUp' = [antUp EXCEPT !.at = "ended", !.end = reason]
  /\ ChatTo([p EXCEPT !.s.finish = reason])

\* FinalizeChatCompletionsAnthropicStream: the tools whose name never came are
\* announced without one, lowest index first, and the message ends.
ChatFinalizeTool ==
  LET p == ChatStarted(antChat, antSeen)
      o == CHOOSE k \in antChat.pending : \A j \in antChat.pending : k <= j
  IN
  /\ antUp.kind = "chat" /\ antUp.at # "closed" /\ antChat.pending # {}
  /\ antUp' = [antUp EXCEPT !.at = "closing"]
  /\ ChatTo(ChatAnnounced(ChatClosed(p.s, p.c), o))

ChatFinalize ==
  LET p == ChatStarted(antChat, antSeen)
      q == ChatClosed(p.s, p.c)
      f == antChat.finish
  IN
  /\ antUp.kind = "chat" /\ antUp.at # "closed" /\ antChat.pending = {}
  /\ antUp' = [antUp EXCEPT !.at = "closed"]
  /\ ChatTo([s |-> [q.s EXCEPT !.stopped = TRUE],
             c |-> Ends(q.c, CASE f = "length" -> "max_tokens"
                               [] f = "tool_calls" \/ q.s.tool -> "tool_use"
                               [] OTHER -> "end_turn")])

ChatNext ==
  \/ \E t \in {"thinking", "text"} : ChatText(t)
  \/ \E o \in Tools, named, piece \in BOOLEAN : ChatTool(o, named, piece)
  \/ \E reason \in {"stop", "length", "tool_calls"} : ChatFinish(reason)
  \/ ChatFinalizeTool \/ ChatFinalize

AntNext == ResNext \/ ChatNext
AntSpec == AntInit /\ [][AntNext]_antVars

-----------------------------------------------------------------------------
(* Properties                                                              *)

\* Type invariant: the converters of pkg/apicompat and the client that reads them.
AntTypeOK ==
  /\ antUp.kind \in {"responses", "chat"}
  /\ antUp.sent \in [Tools -> Nat] /\ antUp.given \in 0 .. AntPieces + 1 /\ antUp.tools \in Nat
  /\ antRes.index \in Nat /\ antRes.args \in Nat /\ antRes.open \in BOOLEAN
  /\ antRes.block \in [1 .. AntOutputs -> Nat \cup {NoBlock}]
  /\ antChat.index \in Nat /\ antChat.open \in BOOLEAN
  /\ antChat.announced \subseteq Tools /\ antChat.pending \subseteq Tools
  /\ antChat.held \in [Tools -> Nat]
  /\ antSeen.pieces \in [Tools -> Nat] /\ antSeen.astray \in BOOLEAN

\* What the client is sent always fits together: the message starts once and
\* first, its blocks follow one another without gaps, every delta is of the block
\* that is open and of its type, no call has two blocks, and nothing follows the one
\* stop.
InOrder == ~antSeen.astray

\* A stream that was started is always ended, however its upstream broke off.
EndsOnce == antUp.at = "closed" /\ antSeen.started => antSeen.stopped

\* Where all that was sent is with the client: between the items of an answer, and
\* when a chat is over, broken off or not.
AllArrived == ResAt({"between", "ended"}) \/ (antUp.kind = "chat" /\ antUp.at = "closed")

\* Every piece of the arguments reaches its own call once: none is lost when a name
\* comes late, when Read's arguments are kept, or when they come only with the done
\* event.
PiecesArrive ==
  \A o \in Tools : /\ antSeen.pieces[o] <= antUp.sent[o]
                   /\ AllArrived => antSeen.pieces[o] = antUp.sent[o]

\* Every call has its block, those of a chat whose name never came included, and
\* in a chat no block of a call ends without its arguments, if only an empty object.
CallsShown ==
  /\ AllArrived => antSeen.calls = 0 .. antUp.tools - 1
  /\ antUp.kind = "chat" => ~antSeen.empty

\* The client knows that a turn continues with its tools exactly if it has seen one.
ReasonFits ==
  antSeen.stopped /\ antUp.end \in {"completed", "stop", "tool_calls"} =>
    (antSeen.reason = "tool_use") = (\E k \in DOMAIN antSeen.blocks :
                                       antSeen.blocks[k] = "tool_use")

\* The encrypted reasoning reaches the client before its block is closed.
SignatureKept ==
  ResAt({"between"}) /\ Out > 0 =>
    (Item = "reasoning" /\ antUp.signed => antSeen.signed)

\* A streamed answer has the blocks of the same answer read whole.
SameBlocks ==
  ResAt({"ended"}) /\ (\A k \in DOMAIN antUp.output :
                         antUp.output[k].item = "search" => antUp.output[k].parts = 1)
    => \/ antSeen.blocks = ResBlocks(antUp.output)
       \/ antSeen.blocks = <<>> /\ ResBlocks(antUp.output) = <<"text">>

\* ClientStreamFits: what an Anthropic client is sent by the converters of
\* responses_to_anthropic.go and chatcompletions_anthropic_bridge.go is in order,
\* ends once and is complete, wherever the upstream breaks off, and is what the same
\* answer is when it is read whole.
ClientStreamFits ==
  /\ AntTypeOK
  /\ InOrder /\ EndsOnce /\ PiecesArrive /\ CallsShown /\ ReasonFits /\ SignatureKept
  /\ SameBlocks
=============================================================================
