-------------------------- MODULE ResponsesStreams --------------------------
(***************************************************************************)
(* The two converters that write a Responses stream (pkg/apicompat): from  *)
(* the chunks of a Chat Completions stream and from the events of an       *)
(* Anthropic stream; the restorer that turns calls of a client's own tools *)
(* back into items of their own type; and what reads such a stream: a      *)
(* client that keeps the items by output index, the converter back to Chat *)
(* chunks, and the accumulator that rebuilds an answer from its deltas.    *)
(*                                                                         *)
(* Texts are left out; the arguments of a tool are counted in pieces.  The *)
(* upstreams are external and may break off anywhere.  A chat streams its  *)
(* reasoning before the rest, numbers its tool calls without gaps, and may *)
(* write several at once, their names late or never.  An Anthropic stream  *)
(* never starts a thinking block right after a text.  A chunk with several *)
(* parts is one step for each.                                             *)
(***************************************************************************)
EXTENDS Integers, Sequences, FiniteSets, SequencesExt

CONSTANTS
  RspTools,    \* bound: tool calls of a chat
  RspBlocks,   \* bound: blocks of an Anthropic message
  RspPieces    \* bound: pieces of the arguments of a tool

ASSUME RspAssumption == RspTools \in Nat /\ RspBlocks \in Nat /\ RspPieces \in Nat

Items == 0 .. RspTools + RspBlocks + 1
Kinds == {"plain", "custom", "search"}   \* of the tool a name stands for
CallTypes == {"function_call", "custom_tool_call", "tool_search_call"}
Unset == -1

VARIABLES
  rspUp,     \* the upstream, and what it has sent
  rspChat,   \* ChatCompletionsToResponsesStreamState
  rspAnth,   \* AnthropicEventToResponsesState
  rspCalls,  \* the calls open in ResponsesClientToolStreamRestorer
  rspSeen,   \* the client of the Responses stream
  rspBack,   \* ResponsesEventToChatState, with the chat its client sees
  rspAcc     \* BufferedResponseAccumulator

rspVars == <<rspUp, rspChat, rspAnth, rspCalls, rspSeen, rspBack, rspAcc>>

NoItem == [type |-> "none", at |-> "none", part |-> "none", n |-> 0]

\* special: the client declared custom tools and tool search.
RspInit ==
  /\ rspUp \in [from : {"chat", "anthropic"}, special : BOOLEAN, at : {"new"},
                last : {"none"}, tools : {<<>>}, ordered : {TRUE}, end : {"none"}]
  /\ rspChat = [created |-> FALSE, completed |-> FALSE, next |-> 0, finish |-> "none",
                reasoning |-> "none", reasonAt |-> Unset, messageAt |-> Unset,
                text |-> FALSE, tools |-> <<>>]
  /\ rspAnth = [created |-> FALSE, completed |-> FALSE, index |-> 0, type |-> "none",
                kind |-> "none", args |-> 0, outs |-> <<>>, stop |-> "none"]
  /\ rspCalls = [i \in Items |-> [kind |-> "none", n |-> 0]]
  /\ rspSeen = [created |-> FALSE, completed |-> "none", astray |-> FALSE, cut |-> FALSE,
                items |-> [i \in Items |-> NoItem], final |-> <<>>]
  /\ rspBack = [role |-> FALSE, tools |-> <<>>, at |-> [i \in Items |-> Unset],
                finished |-> FALSE, finish |-> "none"]
  /\ rspAcc = [text |-> FALSE, reasoning |-> FALSE, calls |-> <<>>,
               at |-> [i \in Items |-> Unset]]

-----------------------------------------------------------------------------
(* Events, and their readers                                               *)

\* Of item i: its type t, the kind k of its tool, n pieces of arguments.
Ev(e, i, t, k, n) == [e |-> e, i |-> i, t |-> t, k |-> k, n |-> n, out |-> <<>>]
EvCompleted(status, out) ==
  [e |-> "completed", i |-> 0, t |-> status, k |-> "none", n |-> 0, out |-> out]

\* The client: what it cannot place leads it astray.
Sees(c, v) ==
  LET it == c.items[v.i]
      wrong == ~c.created \/ c.completed # "none"
      unplaced == it.at # "open" \/ it.type # v.t
  IN
  CASE v.e = "created" -> [c EXCEPT !.created = TRUE, !.astray = @ \/ c.created]
    [] v.e = "added" ->
         [c EXCEPT !.items[v.i] = [NoItem EXCEPT !.type = v.t, !.at = "open"],
                   !.astray = @ \/ wrong \/ it.at # "none"]
    [] v.e = "part" ->
         [c EXCEPT !.items[v.i].part = "open", !.astray = @ \/ wrong \/ unplaced]
    [] v.e = "delta" ->
         [c EXCEPT !.items[v.i].n = @ + v.n,
                   !.astray = @ \/ wrong \/ unplaced
                                \/ (v.t = "message" /\ it.part # "open")]
    [] v.e = "part_done" ->
         [c EXCEPT !.items[v.i].part = "done", !.astray = @ \/ wrong \/ unplaced]
    [] v.e = "done" ->
         [c EXCEPT !.items[v.i].at = "done", !.items[v.i].n = v.n,
                   !.astray = @ \/ wrong \/ unplaced,
                   !.cut = @ \/ it.part = "open"
                             \/ (it.n # v.n /\ v.t # "tool_search_call")]
    [] v.e = "completed" ->
         [c EXCEPT !.completed = v.t, !.final = [k \in DOMAIN v.out |-> [t |-> v.out[k].t, n |-> v.out[k].n]],
                   !.astray = @ \/ wrong \/ \E i \in Items : c.items[i].at = "open"]

\* ResponsesEventToChatChunks.
ToChat(b, v) ==
  CASE v.e = "created" -> [b EXCEPT !.role = TRUE]
    [] v.e = "added" /\ v.t \in {"function_call", "custom_tool_call"} ->
         [b EXCEPT !.at[v.i] = Len(b.tools) + 1, !.tools = Append(@, 0)]
    [] v.e = "delta" /\ v.t \in CallTypes /\ b.at[v.i] # Unset ->
         [b EXCEPT !.tools[b.at[v.i]] = @ + v.n]
    [] v.e = "completed" ->
         [b EXCEPT !.finished = TRUE,
                   !.finish = CASE v.t = "incomplete" -> "length"
                                [] v.t = "completed" /\ b.tools # <<>> -> "tool_calls"
                                [] OTHER -> "stop"]
    [] OTHER -> b

\* BufferedResponseAccumulator.ProcessEvent.
Accumulates(a, v) ==
  CASE v.e = "delta" /\ v.t = "message" -> [a EXCEPT !.text = TRUE]
    [] v.e = "delta" /\ v.t = "reasoning" -> [a EXCEPT !.reasoning = TRUE]
    [] v.e = "added" /\ v.t \in {"function_call", "custom_tool_call"} ->
         [a EXCEPT !.at[v.i] = Len(a.calls) + 1, !.calls = Append(@, 0)]
    [] v.e = "delta" /\ v.t \in CallTypes /\ a.at[v.i] # Unset ->
         [a EXCEPT !.calls[a.at[v.i]] = @ + v.n]
    [] OTHER -> a

\* BuildOutput: the number of items of each sort, and the calls.
BuiltOutput(a) ==
  (IF a.reasoning THEN <<[t |-> "reasoning", n |-> 0]>> ELSE <<>>)
    \o (IF a.text THEN <<[t |-> "message", n |-> 0]>> ELSE <<>>)
    \o [k \in DOMAIN a.calls |-> [t |-> "function_call", n |-> a.calls[k]]]

\* Every reader gets the event.
Reads(p, v) ==
  [seen |-> Sees(p.seen, v), back |-> ToChat(p.back, v), acc |-> Accumulates(p.acc, v)]

-----------------------------------------------------------------------------
(* The restorer of client tools: of p, calls are the open ones, and to are *)
(* the readers behind it                                                   *)

\* recordItem tells a custom call and a tool search from the rest by the name.
Restored(t, k) ==
  IF t # "function_call" THEN t
  ELSE CASE k = "custom" -> "custom_tool_call"
         [] k = "search" -> "tool_search_call"
         [] OTHER -> t

\* Restore: the client gets the event as no, one or two events.
RestoreStep(p, v) ==
  LET call == p.calls[v.i]
      type == Restored(v.t, v.k)
      mine == v.t = "function_call" /\ call.kind # "none"
      n == IF v.n > 0 THEN v.n ELSE call.n
      input == Ev("delta", v.i, "custom_tool_call", v.k, n)
      ended == Ev("part_done", v.i, "custom_tool_call", v.k, n)
  IN
  CASE v.e = "added" /\ type # v.t ->
         [calls |-> [p.calls EXCEPT ![v.i] = [kind |-> v.k, n |-> 0]],
          to |-> Reads(p.to, [v EXCEPT !.t = type])]
    [] v.e = "delta" /\ mine -> [p EXCEPT !.calls[v.i].n = @ + v.n]
    [] v.e = "part_done" /\ mine ->
         [calls |-> [p.calls EXCEPT ![v.i].n = n],
          to |-> IF call.kind = "search" THEN p.to
                 ELSE Reads(IF n > 0 THEN Reads(p.to, input) ELSE p.to, ended)]
    [] v.e = "done" /\ type # v.t ->
         [calls |-> [p.calls EXCEPT ![v.i] = [kind |-> "none", n |-> 0]],
          to |-> Reads(p.to, [v EXCEPT !.t = type, !.n = n])]
    [] v.e = "completed" ->
         [p EXCEPT !.to = Reads(@, [v EXCEPT !.out = [k \in DOMAIN v.out |->
            [v.out[k] EXCEPT !.t = Restored(v.out[k].t, v.out[k].k)]]])]
    [] OTHER -> [p EXCEPT !.to = Reads(@, v)]

\* Events pass the restorer of an Anthropic stream if the client has such tools.
Passes(p, v) ==
  IF rspUp.special /\ rspUp.from = "anthropic" THEN RestoreStep(p, v)
  ELSE [p EXCEPT !.to = Reads(@, v)]

Emit(events) ==
  LET readers == [seen |-> rspSeen, back |-> rspBack, acc |-> rspAcc]
      p == FoldLeft(Passes, [calls |-> rspCalls, to |-> readers], events)
  IN /\ rspCalls' = p.calls
     /\ rspSeen' = p.to.seen /\ rspBack' = p.to.back /\ rspAcc' = p.to.acc

-----------------------------------------------------------------------------
(* From Chat Completions chunks: s is the converter, v what it emits       *)

CallType(kind) ==
  IF ~rspUp.special THEN "function_call"
  ELSE CASE kind = "custom" -> "custom_tool_call"
         [] kind = "search" -> "tool_search_call"
         [] OTHER -> "function_call"

RspCreated(s) ==
  IF s.created THEN [s |-> s, v |-> <<>>]
  ELSE [s |-> [s EXCEPT !.created = TRUE], v |-> <<Ev("created", 0, "none", "none", 0)>>]

\* ensureChatReasoningItem and closeChatReasoningItem.
ReasoningOpened(p) ==
  IF p.s.reasoning # "none" THEN p
  ELSE [s |-> [p.s EXCEPT !.reasoning = "open", !.reasonAt = p.s.next, !.next = @ + 1],
        v |-> p.v \o <<Ev("added", p.s.next, "reasoning", "none", 0),
                       Ev("part", p.s.next, "reasoning", "none", 0)>>]
ReasoningClosed(p) ==
  IF p.s.reasoning # "open" THEN p
  ELSE [s |-> [p.s EXCEPT !.reasoning = "done"],
        v |-> p.v \o <<Ev("part_done", p.s.reasonAt, "reasoning", "none", 0),
                       Ev("done", p.s.reasonAt, "reasoning", "none", 0)>>]

\* ensureChatToResponsesMessageItem and its text part, with a delta.
MessageWritten(p) ==
  LET i == IF p.s.messageAt = Unset THEN p.s.next ELSE p.s.messageAt
      opening == <<Ev("added", i, "message", "none", 0), Ev("part", i, "message", "none", 0)>>
  IN
  [s |-> [p.s EXCEPT !.messageAt = i, !.text = TRUE,
                     !.next = IF p.s.messageAt = Unset THEN @ + 1 ELSE @],
   v |-> p.v \o (IF p.s.messageAt = Unset THEN opening ELSE <<>>)
             \o <<Ev("delta", i, "message", "none", 0)>>]

\* announceChatToolItem: once the type can be told, or when it must.
Announced(p, o, force) ==
  LET tool == p.s.tools[o]
      type == CallType(tool.kind)
      pieces == IF type = "function_call" /\ tool.n > 0
                THEN <<Ev("delta", tool.at, type, tool.kind, tool.n)>> ELSE <<>>
  IN
  IF tool.type # "none" \/ (~force /\ tool.kind = "none" /\ rspUp.special) THEN p
  ELSE [s |-> [p.s EXCEPT !.tools[o].type = type],
        v |-> p.v \o <<Ev("added", tool.at, type, tool.kind, 0)>> \o pieces]

RspAt(places) == rspUp.from = "chat" /\ rspUp.at \in places
RspTo(p) == rspChat' = p.s /\ Emit(p.v) /\ UNCHANGED rspAnth

RspReasoning ==
  LET p == ReasoningOpened(RspCreated(rspChat)) IN
  /\ RspAt({"new", "reasoning"})
  /\ rspUp' = [rspUp EXCEPT !.at = "reasoning"]
  /\ RspTo([p EXCEPT !.v = Append(@, Ev("delta", p.s.reasonAt, "reasoning", "none", 0))])

RspContent ==
  /\ RspAt({"new", "reasoning", "rest"})
  /\ rspUp' = [rspUp EXCEPT !.at = "rest",
                            !.ordered = @ /\ (rspUp.tools = <<>> \/ rspChat.text)]
  /\ RspTo(MessageWritten(ReasoningClosed(RspCreated(rspChat))))

\* A part of tool call o: its name may be in it, and a piece of its arguments.
RspTool(o, name, piece) ==
  LET new == o > Len(rspChat.tools)
      p == RspCreated(rspChat)
      c == ReasoningClosed(p)
      q == IF new THEN [c EXCEPT !.s.tools = Append(@, [at |-> c.s.next, kind |-> name,
                                                        type |-> "none", n |-> 0]),
                                 !.s.next = @ + 1]
           ELSE IF name # "none" THEN [p EXCEPT !.s.tools[o].kind = name] ELSE p
      r == Announced(q, o, FALSE)
      tool == r.s.tools[o]
      n == IF piece THEN 1 ELSE 0
      up == IF new THEN Append(rspUp.tools, [kind |-> name, n |-> n])
            ELSE [rspUp.tools EXCEPT ![o].kind = IF name = "none" THEN @ ELSE name,
                                     ![o].n = @ + n]
  IN
  /\ RspAt({"new", "reasoning", "rest"})
  /\ o <= Len(rspUp.tools) + 1
  /\ ~new => (rspUp.tools[o].kind = "none" \/ name = "none")
  /\ piece /\ ~new => rspUp.tools[o].n < RspPieces
  /\ rspUp' = [rspUp EXCEPT !.at = "rest", !.tools = up]
  /\ RspTo(IF ~piece THEN r
            ELSE [s |-> [r.s EXCEPT !.tools[o].n = @ + 1],
                  v |-> IF tool.type # "function_call" THEN r.v
                        ELSE Append(r.v, Ev("delta", tool.at, tool.type, tool.kind, 1))])

RspFinish(reason) ==
  LET p == RspCreated(rspChat) IN
  /\ RspAt({"new", "reasoning", "rest"})
  /\ rspUp' = [rspUp EXCEPT !.at = "ended", !.end = reason]
  /\ RspTo([p EXCEPT !.s.finish = reason])

\* synthesizeChatReasoningFallbackMessage: reasoning alone is shown as text.
FallbackMessage(p) ==
  IF p.s.messageAt # Unset \/ p.s.reasoning = "none" \/ p.s.tools # <<>> THEN p
  ELSE MessageWritten(p)

\* A plausible bug: the text part of the message is left open.
MessageCut(p) ==
  IF p.s.messageAt = Unset THEN p
  ELSE [p EXCEPT !.v = Append(@, Ev("done", p.s.messageAt, "message", "none", 0))]

MessageClosed(p) ==
  IF p.s.messageAt = Unset THEN p
  ELSE [p EXCEPT !.v = @ \o <<Ev("part_done", p.s.messageAt, "message", "none", 0),
                              Ev("done", p.s.messageAt, "message", "none", 0)>>]

\* closeChatToolItems, for tool o: a custom call gets its input now.
ToolClosed(p, o) ==
  LET q == Announced(p, o, TRUE)
      tool == q.s.tools[o]
      late == IF tool.type = "custom_tool_call" /\ tool.n > 0
              THEN <<Ev("delta", tool.at, tool.type, tool.kind, tool.n)>> ELSE <<>>
      done == IF tool.type = "tool_search_call" THEN <<>>
              ELSE <<Ev("part_done", tool.at, tool.type, tool.kind, tool.n)>>
  IN
  [q EXCEPT !.v = @ \o late \o done
                    \o <<Ev("done", tool.at, tool.type, tool.kind, tool.n)>>]

\* chatOutput: the answer that the last event carries.
RspOutput(s) ==
  (IF s.reasoning = "none" THEN <<>> ELSE <<[t |-> "reasoning", n |-> 0]>>)
    \o (IF s.messageAt = Unset /\ s.tools # <<>> THEN <<>>
        ELSE <<[t |-> "message", n |-> 0]>>)
    \o [o \in DOMAIN s.tools |-> [t |-> s.tools[o].type, n |-> s.tools[o].n]]

\* FinalizeChatCompletionsResponsesStream.
RspFinalize ==
  LET p == MessageClosed(FallbackMessage(ReasoningClosed(RspCreated(rspChat))))
      q == FoldLeft(ToolClosed, p, [o \in DOMAIN p.s.tools |-> o])
      status == IF rspChat.finish = "length" THEN "incomplete" ELSE "completed"
  IN
  /\ rspUp.from = "chat" /\ rspUp.at # "closed"
  /\ rspUp' = [rspUp EXCEPT !.at = "closed"]
  /\ RspTo([s |-> [q.s EXCEPT !.completed = TRUE],
             v |-> Append(q.v, EvCompleted(status, RspOutput(q.s)))])

-----------------------------------------------------------------------------
(* From Anthropic events                                                   *)

AnthTo(p) == rspAnth' = p.s /\ Emit(p.v) /\ UNCHANGED rspChat

\* closeCurrentResponsesItem.
ItemClosed(s) ==
  IF s.type = "none" THEN [s |-> s, v |-> <<>>]
  ELSE [s |-> [s EXCEPT !.type = "none", !.kind = "none", !.args = 0, !.index = @ + 1,
                        !.outs = Append(@, [t |-> s.type, k |-> s.kind, n |-> s.args])],
        v |-> <<Ev("done", s.index, s.type, s.kind, s.args)>>]

AnthAt(places) == rspUp.from = "anthropic" /\ rspUp.at \in places

AnthStart ==
  /\ AnthAt({"new"})
  /\ rspUp' = [rspUp EXCEPT !.at = "between"]
  /\ AnthTo([s |-> [rspAnth EXCEPT !.created = TRUE],
             v |-> <<Ev("created", 0, "none", "none", 0)>>])

\* content_block_start: only a tool closes the item before it.
AnthBlock(type, kind) ==
  LET item == CASE type = "thinking" -> "reasoning"
                [] type = "text" -> "message"
                [] type = "tool_use" -> "function_call"
      p == IF item = "function_call" THEN ItemClosed(rspAnth)
           ELSE [s |-> rspAnth, v |-> <<>>]
      added == IF item = "message" /\ p.s.type = item THEN <<>>
               ELSE <<Ev("added", p.s.index, item, kind, 0)>>
      part == IF item = "message" THEN <<Ev("part", p.s.index, item, kind, 0)>> ELSE <<>>
  IN
  /\ AnthAt({"between"}) /\ p.s.index < RspBlocks
  /\ type = "thinking" => rspUp.last # "text"
  /\ rspUp' = [rspUp EXCEPT !.at = "block", !.last = type,
                            !.tools = IF item = "function_call"
                                      THEN Append(@, [kind |-> kind, n |-> 0]) ELSE @]
  /\ AnthTo([s |-> [p.s EXCEPT !.type = item, !.kind = kind],
             v |-> p.v \o added \o part])

AnthDelta ==
  LET n == IF rspUp.last = "tool_use" THEN 1 ELSE 0
      here == Len(rspUp.tools)
  IN
  /\ AnthAt({"block"})
  /\ n = 1 => rspUp.tools[here].n < RspPieces
  /\ rspUp' = IF n = 1 THEN [rspUp EXCEPT !.tools[here].n = @ + 1] ELSE rspUp
  /\ AnthTo([s |-> [rspAnth EXCEPT !.args = @ + n],
             v |-> <<Ev("delta", rspAnth.index, rspAnth.type, rspAnth.kind, n)>>])

\* content_block_stop: a message stays open for the next text.
AnthBlockStop ==
  LET part == <<Ev("part_done", rspAnth.index, rspAnth.type, rspAnth.kind, 0)>>
      p == ItemClosed(rspAnth)
  IN
  /\ AnthAt({"block"})
  /\ rspUp' = [rspUp EXCEPT !.at = "between"]
  /\ AnthTo(IF rspAnth.type = "message" THEN [s |-> rspAnth, v |-> part]
            ELSE [p EXCEPT !.v = part \o @])

AnthMessageDelta(stop) ==
  /\ AnthAt({"between"})
  /\ rspUp' = [rspUp EXCEPT !.at = "ended", !.end = stop]
  /\ AnthTo([s |-> [rspAnth EXCEPT !.stop = stop], v |-> <<>>])

\* message_stop, or FinalizeAnthropicResponsesStream where it does not come.  A
\* part that is open in a message that breaks off is not closed of its own.
AnthEnd(stopped) ==
  LET p == ItemClosed(rspAnth)
      status == IF rspAnth.stop = "max_tokens" THEN "incomplete" ELSE "completed"
  IN
  /\ AnthAt(IF stopped THEN {"ended"} ELSE {"new", "between", "block", "ended"})
  /\ rspUp' = [rspUp EXCEPT !.at = "closed"]
  /\ IF ~rspAnth.created \/ rspAnth.completed THEN AnthTo([s |-> rspAnth, v |-> <<>>])
     ELSE AnthTo([s |-> [p.s EXCEPT !.completed = TRUE],
                  v |-> Append(p.v, EvCompleted(status, p.s.outs))])

RspNext ==
  \/ RspReasoning \/ RspContent \/ RspFinalize
  \/ \E o \in 1 .. RspTools, name \in Kinds \cup {"none"}, piece \in BOOLEAN :
       RspTool(o, name, piece)
  \/ \E reason \in {"stop", "length", "tool_calls"} : RspFinish(reason)
  \/ AnthStart \/ AnthDelta \/ AnthBlockStop
  \/ AnthBlock("thinking", "none") \/ AnthBlock("text", "none")
  \/ \E kind \in Kinds : AnthBlock("tool_use", kind)
  \/ \E stop \in {"end_turn", "max_tokens", "tool_use"} : AnthMessageDelta(stop)
  \/ \E stopped \in BOOLEAN : AnthEnd(stopped)

RspSpec == RspInit /\ [][RspNext]_rspVars

-----------------------------------------------------------------------------
(* Properties                                                              *)

RspClosed == rspUp.at = "closed" /\ rspSeen.created

\* Every event finds its item open and of the type it was added with, and is the
\* last of its item once that is done; the pieces of a call add up to the
\* arguments it is done with.  Only where an Anthropic stream breaks off in a block
\* may its item be done with a part open, or with a call's input not sent before.
ItemsInOrder ==
  ~rspSeen.astray /\ (rspSeen.cut => rspUp.end = "none" /\ rspUp.from = "anthropic")

\* However the upstream breaks off, what was added is done, and one event ends it.
ItemsEnd ==
  RspClosed => rspSeen.completed # "none"
               /\ \A i \in Items : rspSeen.items[i].at # "open"

\* The client's items, and the first n of them as the list of the last event.
Known == {i \in Items : rspSeen.items[i].at # "none"}
Streamed(n) ==
  [k \in 1 .. n |-> [t |-> rspSeen.items[k - 1].type, n |-> rspSeen.items[k - 1].n]]

\* The items have no gaps, and the last event carries the answer that was streamed:
\* the same items, in the order of their indexes wherever the chat wrote its text
\* before its tools.
FinalAgrees ==
  RspClosed =>
    \E n \in 0 .. RspTools + RspBlocks + 2 :
      /\ Known = 0 .. n - 1
      /\ \/ rspSeen.final = Streamed(n)
         \/ n = 0 /\ rspSeen.final = <<[t |-> "message", n |-> 0]>>
         \/ ~rspUp.ordered /\ ToSet(rspSeen.final) = ToSet(Streamed(n))
                           /\ Len(rspSeen.final) = n

\* A call keeps all its pieces through both conversions: the chat written from
\* the Responses stream of a chat has its calls again, and so has the answer
\* rebuilt from the deltas.
CallsComeBack ==
  RspClosed /\ ~rspSeen.cut =>
    LET sent == {o \in DOMAIN rspUp.tools :
                   ~rspUp.special \/ rspUp.tools[o].kind # "search"}
    IN /\ Len(rspBack.tools) = Cardinality(sent)
       /\ \A n \in 0 .. RspPieces :
            Cardinality({k \in DOMAIN rspBack.tools : rspBack.tools[k] = n})
              = Cardinality({o \in sent : rspUp.tools[o].n = n})
       /\ rspAcc.calls = rspBack.tools
       /\ rspBack.finished
       /\ rspUp.end \in {"length", "max_tokens"} => rspBack.finish = "length"

ResponsesStreamsFit == ItemsInOrder /\ ItemsEnd /\ FinalAgrees /\ CallsComeBack
=============================================================================
