---------------------------- MODULE Conversations ----------------------------
(***************************************************************************)
(* Histories between protocols (pkg/apicompat): a client sends the whole   *)
(* conversation with every request, and the gateway translates it for an   *)
(* upstream that speaks another protocol.  The module lets a history grow  *)
(* by one item at a time, in one of three forms,                           *)
(*                                                                         *)
(*   responses  items of the Responses API, as Codex sends them: calls and *)
(*              outputs in any order, outputs that never came or came      *)
(*              twice, notices in between;                                 *)
(*   anthropic  blocks of Anthropic messages, whose turns alternate;       *)
(*   chat       messages of Chat Completions,                              *)
(*                                                                         *)
(* and the converters are functions of it.  A text, an image, an output or *)
(* a piece of reasoning is the position it has in the history; the texts   *)
(* that a converter joins are the sequence of their positions.             *)
(***************************************************************************)
EXTENDS Integers, FiniteSets, SequencesExt

CONSTANTS
  CvIds,     \* call ids
  CvItems,   \* bounds: items of a Responses history,
  CvBlocks,  \* blocks of an Anthropic one,
  CvMessages,  \* messages of a Chat one
  NoId

ASSUME ConversationsAssumption ==
  NoId \notin CvIds /\ {CvItems, CvBlocks, CvMessages} \subseteq Nat

VARIABLES cvKind, cvHistory

cvVars == <<cvKind, cvHistory>>

-----------------------------------------------------------------------------
(* Histories                                                               *)

CvPart(kind, from) == [kind |-> kind, from |-> from]
CvBlock(kind, id, from) == [kind |-> kind, id |-> id, from |-> from]

\* Items of a Responses input.
CvItem(type, role, id, parts) ==
  [type |-> type, role |-> role, id |-> id, parts |-> parts]
CvCallTypes == {"function_call", "custom_tool_call"}
CvOutTypes  == {"function_call_output", "custom_tool_call_output"}

NewItems(i) ==
  {CvItem("message", role, NoId, <<CvPart("text", <<i>>)>>) :
     role \in {"user", "assistant", "developer"}}
  \cup {CvItem("message", "user", NoId, <<CvPart("image", <<i>>)>>)}
  \cup {CvItem(type, "none", id, <<>>) : type \in CvCallTypes,
          id \in {c \in CvIds : \A j \in DOMAIN cvHistory :
                    cvHistory[j].type \in CvCallTypes => cvHistory[j].id # c}}
  \cup {CvItem(type, "none", id, <<CvPart(kind, <<i>>)>>) :
          type \in CvOutTypes, id \in CvIds, kind \in {"text", "image"}}
  \cup {CvItem("reasoning", "none", NoId, <<CvPart("text", <<i>>)>>),
        CvItem("web_search_call", "none", NoId, <<>>)}

\* Blocks of Anthropic messages; a result may be an image.
NewBlocks(i) ==
  LET fresh == {c \in CvIds : \A j \in DOMAIN cvHistory :
                  cvHistory[j].kind = "use" => cvHistory[j].id # c}
      block(role, kind, id) == [role |-> role, kind |-> kind, id |-> id, from |-> <<i>>]
  IN  {block("user", kind, NoId) : kind \in {"text", "image"}}
      \cup {block("user", kind, id) : kind \in {"result", "shot"}, id \in CvIds}
      \cup {block("assistant", kind, NoId) : kind \in {"text", "thinking"}}
      \cup {block("assistant", "use", id) : id \in fresh}

\* Messages of Chat Completions; reasoning 0 is none.
ChatMsg(role, content, calls, reply, reason) ==
  [role |-> role, content |-> content, calls |-> calls, reply |-> reply,
   reason |-> reason]

NewMessages(i) ==
  LET used == UNION {ToSet(cvHistory[j].calls) : j \in DOMAIN cvHistory}
      lists == {<<>>} \cup {<<c>> : c \in CvIds \ used}
                 \cup {<<c, d>> : c \in CvIds \ used, d \in CvIds \ used}
      text == <<CvPart("text", <<i>>)>>
  IN  {ChatMsg(role, text, <<>>, NoId, 0) : role \in {"system", "user"}}
      \cup {ChatMsg("user", <<CvPart("image", <<i>>)>>, <<>>, NoId, 0)}
      \cup {m \in {ChatMsg("assistant", content, calls, NoId, reason) :
                     content \in {<<>>, text}, calls \in lists, reason \in {0, i}} :
              /\ m.content # <<>> \/ m.calls # <<>>
              /\ IsInjective(m.calls)}
      \cup {ChatMsg("tool", text, <<>>, id, 0) : id \in CvIds}

CvInit == cvKind \in {"responses", "anthropic", "chat"} /\ cvHistory = <<>>

CvBound == CASE cvKind = "responses" -> CvItems
             [] cvKind = "anthropic" -> CvBlocks
             [] cvKind = "chat"      -> CvMessages

CvAdd ==
  /\ Len(cvHistory) < CvBound
  /\ LET i == Len(cvHistory) + 1
     IN  \E new \in CASE cvKind = "responses" -> NewItems(i)
                      [] cvKind = "anthropic" -> NewBlocks(i)
                      [] cvKind = "chat"      -> NewMessages(i) :
           cvHistory' = Append(cvHistory, new)
  /\ UNCHANGED cvKind

CvNext == CvAdd
CvSpec == CvInit /\ [][CvNext]_cvVars

Each(op(_), s) == FlattenSeq([i \in DOMAIN s |-> op(s[i])])
Joined(parts) == FlattenSeq([i \in DOMAIN parts |-> parts[i].from])
\* The members of s that pass the test, in their order.
Those(s, Test(_)) == Each(LAMBDA x : IF Test(x) THEN <<x>> ELSE <<>>, s)
OfKinds(parts, kinds) == Those(parts, LAMBDA p : p.kind \in kinds)

-----------------------------------------------------------------------------
(* Responses to Anthropic                                                  *)

Says(role, blocks) == IF blocks = <<>> THEN <<>>
                      ELSE <<[role |-> role, blocks |-> blocks]>>

\* Notices become system text; calls and outputs of custom tools, searches and
\* reasoning have no content and go.
AnthropicOf(item) ==
  CASE item.role = "developer" -> <<>>
    [] item.type = "function_call" ->
         Says("assistant", <<CvBlock("use", item.id, <<>>)>>)
    [] item.type = "function_call_output" ->
         Says("user", <<CvBlock("result", item.id, Joined(item.parts))>>)
    [] item.role \in {"user", "assistant"} ->
         Says(item.role, [i \in DOMAIN item.parts |->
                CvBlock(item.parts[i].kind, NoId, item.parts[i].from)])
    [] OTHER -> <<>>

MergedWith(ms, m) ==
  IF ms = <<>> \/ Last(ms).role # m.role THEN Append(ms, m)
  ELSE [ms EXCEPT ![Len(ms)].blocks = @ \o m.blocks]
TurnsMerged(ms) == FoldLeft(MergedWith, <<>>, ms)

\* Answered calls follow what their turn says, and their outputs, the last of
\* each, follow at once; other calls and other places of outputs go.
OutputsOf(results, id) == Those(results, LAMBDA r : r.id = id)
CallsKept(results, m) ==
  Those(m.blocks, LAMBDA b : b.kind = "use" /\ OutputsOf(results, b.id) # <<>>)
AnswersTo(results, calls) ==
  [i \in DOMAIN calls |-> Last(OutputsOf(results, calls[i].id))]
Paired(results, m) ==
  Says(m.role, OfKinds(m.blocks, {"text", "image"}) \o CallsKept(results, m))
    \o Says("user", AnswersTo(results, CallsKept(results, m)))

TurnsPaired(ms) ==
  LET results == OfKinds(Each(LAMBDA m : m.blocks, ms), {"result"})
  IN  Each(LAMBDA m : Paired(results, m), ms)

\* A plausible bug: turns the pairing has made neighbours stay apart.
ToAnthropicOnce(items) == TurnsPaired(TurnsMerged(Each(AnthropicOf, items)))

ToAnthropic(items) ==
  TurnsMerged(TurnsPaired(TurnsMerged(Each(AnthropicOf, items))))

-----------------------------------------------------------------------------
(* Responses to Chat                                                       *)

\* Text alone is joined to one string.
ChatContent(parts) ==
  IF OfKinds(parts, {"image"}) # <<>> THEN parts
  ELSE IF parts = <<>> THEN <<>> ELSE <<CvPart("text", Joined(parts))>>

\* A call joins the assistant message before it, whose own reasoning stays.
WithCall(ms, id, reason) ==
  IF ms # <<>> /\ Last(ms).role = "assistant"
  THEN [ms EXCEPT ![Len(ms)].calls = Append(@, id),
                  ![Len(ms)].reason = IF @ = 0 THEN reason ELSE @]
  ELSE Append(ms, ChatMsg("assistant", <<>>, <<id>>, NoId, reason))

\* A reasoning waits for the assistant's message or call; anything else ends it.
ChatAdds(acc, item) ==
  LET outputs == IF OfKinds(item.parts, {"image"}) # <<>>
                 THEN <<CvPart("marker", <<>>)>> ELSE item.parts
      role == IF item.role = "developer" THEN "system" ELSE item.role
  IN  CASE item.type = "reasoning" ->
             [acc EXCEPT !.reason = IF item.parts = <<>> THEN @ ELSE Head(Joined(item.parts))]
        [] item.type \in CvCallTypes ->
             [ms |-> WithCall(acc.ms, item.id, acc.reason), reason |-> 0]
        [] item.type \in CvOutTypes ->
             [ms |-> Append(acc.ms, ChatMsg("tool", outputs, <<>>, item.id, 0)), reason |-> 0]
        [] item.type = "message" ->
             [ms |-> Append(acc.ms, ChatMsg(role, ChatContent(item.parts), <<>>, NoId, 0)),
              reason |-> IF role = "assistant" THEN acc.reason ELSE 0]
        [] OTHER -> [acc EXCEPT !.reason = 0]

ChatBuilt(items) == FoldLeft(ChatAdds, [ms |-> <<>>, reason |-> 0], items).ms

\* A plausible bug: a call that is answered twice keeps the images of the first output.
OutputMediaFirst(items) ==
  [id \in CvIds |->
     LET outputs == SelectSeq(items, LAMBDA item : item.type \in CvOutTypes /\ item.id = id)
     IN  IF outputs = <<>> THEN <<>> ELSE OfKinds(Head(outputs).parts, {"image"})]

\* The images of the last output of a call.
OutputMedia(items) ==
  [id \in CvIds |->
     LET outputs == SelectSeq(items, LAMBDA item : item.type \in CvOutTypes /\ item.id = id)
     IN  IF outputs = <<>> THEN <<>> ELSE OfKinds(Last(outputs).parts, {"image"})]

\* The replies of answered calls follow them in their order, then the images
\* of the replies; other calls and other places of replies go.
RepliesFollow(ms, media) ==
  LET replies(id) == SelectSeq(ms, LAMBDA m : m.role = "tool" /\ m.reply = id)
      calls(m) == SelectSeq(m.calls, LAMBDA id : replies(id) # <<>>)
      images(m) == Each(LAMBDA id : media[id], calls(m))
      pictures(m) == IF images(m) = <<>> THEN <<>>
                     ELSE <<ChatMsg("user", images(m), <<>>, NoId, 0)>>
      follow(m) ==
        IF m.role = "tool" \/ (m.calls # <<>> /\ calls(m) = <<>> /\ m.content = <<>>)
        THEN <<>>
        ELSE <<[m EXCEPT !.calls = calls(m)]>>
               \o [i \in DOMAIN calls(m) |-> Last(replies(calls(m)[i]))] \o pictures(m)
  IN  Each(follow, ms)

ToMessages(items) == RepliesFollow(ChatBuilt(items), OutputMedia(items))

-----------------------------------------------------------------------------
(* Anthropic to Responses and to Chat                                      *)

TurnsOf(blocks) ==
  TurnsMerged([i \in DOMAIN blocks |->
                 [role |-> blocks[i].role, blocks |-> <<blocks[i]>>]])

\* Outputs are strings: their images move to the user's own message.
Shots(t) == LET shots == OfKinds(t.blocks, {"shot"})
            IN  [i \in DOMAIN shots |-> CvPart("image", shots[i].from)]
Said(t) == LET said == OfKinds(t.blocks, {"text", "image"})
           IN  [i \in DOMAIN said |-> CvPart(said[i].kind, said[i].from)]
ResultText(b) == IF b.kind = "shot" THEN <<CvPart("marker", <<>>)>>
                 ELSE <<CvPart("text", b.from)>>
Messaged(role, parts) ==
  IF parts = <<>> THEN <<>> ELSE <<CvItem("message", role, NoId, parts)>>

\* Outputs come before what the user says; reasoning before text before calls.
ItemsOfTurn(t) ==
  IF t.role = "user"
  THEN Each(LAMBDA b : <<CvItem("function_call_output", "none", b.id, ResultText(b))>>,
            OfKinds(t.blocks, {"result", "shot"}))
         \o Messaged("user", Said(t) \o Shots(t))
  ELSE Each(LAMBDA b : <<CvItem("reasoning", "none", NoId, <<>>)>>,
            OfKinds(t.blocks, {"thinking"}))
         \o Messaged("assistant", ChatContent(Said(t)))
         \o Each(LAMBDA b : <<CvItem("function_call", "none", b.id, <<>>)>>,
                 OfKinds(t.blocks, {"use"}))

ToResponses(turns) == Each(ItemsOfTurn, turns)

\* The direct bridge.
ChatOfTurn(t) ==
  IF t.role = "user"
  THEN Each(LAMBDA b : <<ChatMsg("tool", ResultText(b), <<>>, b.id, 0)>>,
            OfKinds(t.blocks, {"result", "shot"}))
         \o LET said == ChatContent(Said(t) \o Shots(t))
            IN  IF said = <<>> THEN <<>> ELSE <<ChatMsg("user", said, <<>>, NoId, 0)>>
  ELSE LET uses == OfKinds(t.blocks, {"use"})
       IN  <<ChatMsg("assistant", ChatContent(Said(t)),
                     [i \in DOMAIN uses |-> uses[i].id], NoId, 0)>>

NoMedia == [id \in CvIds |-> <<>>]
ToMessagesDirectly(turns) == RepliesFollow(Each(ChatOfTurn, turns), NoMedia)

-----------------------------------------------------------------------------
(* Chat to Responses                                                       *)

\* Reasoning becomes text in front of the text.
Thought(m) ==
  LET said == (IF m.reason = 0 THEN <<>> ELSE <<CvPart("text", <<-m.reason>>)>>) \o m.content
  IN  IF m.role = "assistant" THEN ChatContent(said) ELSE m.content

ItemsOfMessage(m) ==
  CASE m.role = "tool" -> <<CvItem("function_call_output", "none", m.reply, m.content)>>
    [] m.role = "system" -> Messaged("developer", m.content)
    [] OTHER -> Messaged(m.role, Thought(m))
                  \o [i \in DOMAIN m.calls |-> CvItem("function_call", "none", m.calls[i], <<>>)]

FromChat(ms) == Each(ItemsOfMessage, ms)

-----------------------------------------------------------------------------
(* Properties                                                              *)

\* The history is of its form.
CvTypeOK ==
  /\ cvKind \in {"responses", "anthropic", "chat"}
  /\ Len(cvHistory) <= CvBound

\* Where the history has a call of these types and an output of them.
CallsAnswered(callTypes, outTypes) ==
  {c \in CvIds : /\ \E i \in DOMAIN cvHistory : cvHistory[i].type \in callTypes
                                                 /\ cvHistory[i].id = c
                 /\ \E i \in DOMAIN cvHistory : cvHistory[i].type \in outTypes
                                                 /\ cvHistory[i].id = c}
LastOutput(id, types) ==
  CHOOSE i \in DOMAIN cvHistory :
    /\ cvHistory[i].type \in types /\ cvHistory[i].id = id
    /\ \A j \in DOMAIN cvHistory :
         j > i => cvHistory[j].type \notin types \/ cvHistory[j].id # id
Spoken(roles) ==
  Joined(Each(LAMBDA item : item.parts,
              Those(cvHistory, LAMBDA item : item.role \in roles)))

\* What an Anthropic upstream demands (normalizeAnthropicToolPairing): turns
\* alternate, every call is answered at the head of the next turn and every
\* result answers a call of the turn before.
TurnsFit(ms) ==
  LET uses(i) == IF i \in DOMAIN ms THEN OfKinds(ms[i].blocks, {"use"}) ELSE <<>>
      results(i) == OfKinds(ms[i].blocks, {"result"})
  IN  /\ \A i \in 1..(Len(ms) - 1) : ms[i].role # ms[i + 1].role
      /\ uses(Len(ms)) = <<>>
      /\ \A i \in DOMAIN ms :
           /\ Len(results(i)) = Len(uses(i - 1))
           /\ \A k \in DOMAIN results(i) :
                ms[i].blocks[k] = results(i)[k] /\ results(i)[k].id = uses(i - 1)[k].id

\* The turns fit.  Nothing said is lost or moved, and exactly the answered calls
\* are kept, with their last output.
AnthropicFits ==
  cvKind = "responses" =>
    LET ms == ToAnthropic(cvHistory)
        said == Each(LAMBDA m : m.blocks, ms)
    IN  /\ TurnsFit(ms)
        /\ Joined(OfKinds(said, {"text", "image"})) = Spoken({"user", "assistant"})
        /\ {b.id : b \in ToSet(OfKinds(said, {"use"}))}
             = CallsAnswered({"function_call"}, {"function_call_output"})
        /\ \A b \in ToSet(OfKinds(said, {"result"})) :
             b.from = <<LastOutput(b.id, {"function_call_output"})>>

\* What a Chat upstream demands (normalizeChatMessages): the replies of a message's
\* calls follow it, in their order and nowhere else.  Nothing said is lost or
\* moved, exactly the answered calls are kept, with their last output and its
\* images, and a call that reasoning led to carries reasoning.
ChatFits ==
  cvKind = "responses" =>
    LET ms == ToMessages(cvHistory)
        ownImages == {m \in ToSet(ms) : m.role = "user" /\ m.content # <<>>
                                        /\ \E i \in DOMAIN cvHistory :
                                             /\ cvHistory[i].type \in CvOutTypes
                                             /\ <<i>> = Head(m.content).from}
        kept == UNION {ToSet(m.calls) : m \in ToSet(ms)}
    IN  /\ \A i \in DOMAIN ms :
             /\ \A k \in DOMAIN ms[i].calls :
                  i + k \in DOMAIN ms /\ ms[i + k].reply = ms[i].calls[k]
             /\ ms[i].role = "tool" =>
                  \E j \in 1..(i - 1) : i - j <= Len(ms[j].calls)
        /\ kept = CallsAnswered(CvCallTypes, CvOutTypes)
        /\ Joined(Each(LAMBDA m : m.content,
                       SelectSeq(ms, LAMBDA m : m.role # "tool" /\ m \notin ownImages)))
             = Spoken({"user", "assistant", "developer"})
        /\ \A m \in ToSet(ms) : m.role = "tool" =>
             LET last == LastOutput(m.reply, CvOutTypes)
             IN  IF Head(cvHistory[last].parts).kind = "image"
                 THEN \E n \in ownImages : CvPart("image", <<last>>) \in ToSet(n.content)
                 ELSE m.content = cvHistory[last].parts
        /\ \A i \in DOMAIN cvHistory : \A j \in 1..(i - 1) :
             /\ cvHistory[i].type \in CvCallTypes /\ cvHistory[i].id \in kept
             /\ cvHistory[j].type = "reasoning"
             /\ \A k \in (j + 1)..(i - 1) : cvHistory[k].role = "assistant"
             => \E m \in ToSet(ms) : cvHistory[i].id \in ToSet(m.calls) /\ m.reason # 0

\* The direct bridge from Anthropic to Chat is the composition of the two others,
\* as chatcompletions_anthropic_bridge.go says, if every turn of the assistant
\* says or calls something.
BridgesAgree ==
  LET turns == TurnsOf(cvHistory)
  IN  /\ cvKind = "anthropic"
      /\ \A i \in DOMAIN turns : turns[i].role = "assistant"
           => OfKinds(turns[i].blocks, {"text", "use"}) # <<>>
      => ToMessagesDirectly(turns) = ToMessages(ToResponses(turns))

\* A conversation whose calls are all answered where Anthropic wants it comes
\* back from the Responses form with all that is said and every call and answer
\* in its turn; thinking is lost, and images of outputs end their turn.
AnthropicComesBack ==
  LET turns == TurnsOf(cvHistory)
      ids(i, kinds) == IF i \in DOMAIN turns
                       THEN LET bs == OfKinds(turns[i].blocks, kinds)
                            IN  [k \in DOMAIN bs |-> bs[k].id]
                       ELSE <<>>
      back == ToAnthropic(ToResponses(turns))
      results(t) == Each(LAMBDA b : <<CvBlock("result", b.id, Joined(ResultText(b)))>>,
                         OfKinds(t.blocks, {"result", "shot"}))
      own(parts) == [i \in DOMAIN parts |-> CvBlock(parts[i].kind, NoId, parts[i].from)]
      uses(t) == LET calls == OfKinds(t.blocks, {"use"})
                 IN  [i \in DOMAIN calls |-> CvBlock("use", calls[i].id, <<>>)]
  IN  /\ cvKind = "anthropic"
      /\ \A i \in 0..Len(turns) : ids(i, {"use"}) = ids(i + 1, {"result", "shot"})
      /\ \A i \in DOMAIN turns : turns[i].role = "assistant"
           => OfKinds(turns[i].blocks, {"text", "use"}) # <<>>
      => back = [i \in DOMAIN turns |->
                   [role |-> turns[i].role,
                    blocks |-> IF turns[i].role = "user"
                               THEN results(turns[i]) \o own(Said(turns[i]) \o Shots(turns[i]))
                               ELSE own(ChatContent(Said(turns[i]))) \o uses(turns[i])]]

\* Messages that go to the Responses form and back are the messages normalised,
\* with reasoning turned into text, if no two messages of the assistant follow
\* one another.
ChatComesBack ==
  /\ cvKind = "chat"
  /\ \A i \in 1..(Len(cvHistory) - 1) :
       cvHistory[i].role # "assistant" \/ cvHistory[i + 1].role # "assistant"
  => ToMessages(FromChat(cvHistory))
       = RepliesFollow([i \in DOMAIN cvHistory |->
                          [cvHistory[i] EXCEPT !.content = Thought(cvHistory[i]), !.reason = 0]],
                       NoMedia)

\* What every other request the gateway translates has to be (pkg/apicompat).
ConversationsFit ==
  CvTypeOK /\ ChatFits /\ BridgesAgree /\ AnthropicComesBack /\ ChatComesBack
=============================================================================
