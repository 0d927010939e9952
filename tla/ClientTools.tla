----------------------------- MODULE ClientTools -----------------------------
(***************************************************************************)
(* Tools an upstream does not know (responses_client_tools.go,             *)
(* responses_namespace.go, chatcompletions_responses_bridge.go in          *)
(* pkg/apicompat).  Codex declares functions, custom tools, a tool search  *)
(* and namespaces of functions; an upstream that knows functions only gets *)
(* each of them as a function of some name, calls of the history under     *)
(* those names, and its calls are given back their own.  There are two     *)
(* bridges, one that keeps the Responses protocol (native) and one to Chat *)
(* Completions, which differ in what they refuse.                          *)
(*                                                                         *)
(* A name is a sequence of parts, <<"a", "__", "b">> for a__b, so that a   *)
(* flattened name can be that of another tool; names too long, which are   *)
(* cut and hashed, are left out, and so are schemas and descriptions.      *)
(***************************************************************************)
EXTENDS Naturals, FiniteSets, SequencesExt

CONSTANTS
  CtNames,     \* names of functions and custom tools
  CtSpaces,    \* names of namespaces
  CtLen        \* bound: tools declared

ASSUME ClientToolsAssumption ==
  /\ CtNames \cup CtSpaces \subseteq Seq(STRING) \ {<<>>}
  /\ CtLen \in Nat

VARIABLE ctTools

ctVars == <<ctTools>>

Proxy == <<"tool_search">>
Flat(space, name) == space \o <<"__">> \o name

\* What a client can declare; children of a namespace that are no functions
\* are dropped by both bridges.
Declared ==
  {[type |-> type, name |-> n, children |-> {}] :
     type \in {"function", "custom"}, n \in CtNames}
  \cup {[type |-> type, name |-> <<>>, children |-> {}] :
          type \in {"tool_search", "web_search"}}
  \cup {[type |-> "namespace", name |-> s, children |-> c] :
          s \in CtSpaces, c \in SUBSET CtNames}

CtInit == ctTools = <<>>
CtDeclare == /\ Len(ctTools) < CtLen
             /\ \E t \in Declared : ctTools' = Append(ctTools, t)
CtNext == CtDeclare
CtSpec == CtInit /\ [][CtNext]_ctVars

-----------------------------------------------------------------------------
\* Tools as the client calls them.

ClientCall(type, space, name) == [type |-> type, space |-> space, name |-> name]
CallsOf(t) ==
  CASE t.type = "function"    -> {ClientCall("function_call", <<>>, t.name)}
    [] t.type = "custom"      -> {ClientCall("custom_tool_call", <<>>, t.name)}
    [] t.type = "tool_search" -> {ClientCall("tool_search_call", <<>>, <<>>)}
    [] t.type = "namespace"   ->
         {ClientCall("function_call", t.name, n) : n \in t.children}
    [] OTHER -> {}
Callable == UNION {CallsOf(t) : t \in ToSet(ctTools)}

NamesOf(type) == {t.name : t \in {u \in ToSet(ctTools) : u.type = type}}
TopLevel == NamesOf("function") \cup NamesOf("custom")
Search == NamesOf("tool_search") # {}
Spaced == {c \in Callable : c.space # <<>>}
Twins == NamesOf("function") \cap NamesOf("custom") # {}

\* FlattenResponsesNamespacesExcept, and namespaceChildrenToChatTools.
FlatClash ==
  \/ \E c \in Spaced : Flat(c.space, c.name) \in TopLevel
  \/ \E c, d \in Spaced : c # d /\ Flat(c.space, c.name) = Flat(d.space, d.name)

SearchClash == Search /\ Proxy \in TopLevel
FlatSearchClash == Search /\ \E c \in Spaced : Flat(c.space, c.name) = Proxy

\* A plausible bug: flattened names are compared with that of the search alone.
NativeRefusesLess == Twins \/ SearchClash \/ FlatSearchClash

\* Requests that are refused; the Chat bridge lets twins pass.
NativeRefuses == Twins \/ SearchClash \/ FlatClash \/ FlatSearchClash
ChatRefuses == SearchClash \/ FlatClash

\* The functions the upstream is told of, one for a tool search however often
\* it is declared, and one for each function of a namespace.
LoweredNames(c) ==
  CASE c.type = "tool_search_call" -> Proxy
    [] c.space # <<>>              -> Flat(c.space, c.name)
    [] OTHER                       -> c.name
Lowered == {LoweredNames(c) : c \in Callable}

-----------------------------------------------------------------------------
\* Calls.

\* rewriteClientToolHistory and rewriteNamespaceQualifiedCall: a call of the
\* history goes under its function's name if its tool is still declared.
NativeLowers(c) ==
  CASE c.type = "custom_tool_call" /\ c.name \in NamesOf("custom") ->
         ClientCall("function_call", <<>>, c.name)
    [] c.type = "tool_search_call" /\ Search -> ClientCall("function_call", <<>>, Proxy)
    [] c.space # <<>> /\ c \in Callable ->
         ClientCall("function_call", <<>>, Flat(c.space, c.name))
    [] OTHER -> c
NativeOutput(c) ==
  IF c.type = "tool_search_call" /\ ~Search THEN "tool_search_output"
  ELSE "function_call_output"

\* buildChatMessagesFromItems does so without asking.
ChatLowers(c) == ClientCall("function_call", <<>>, LoweredNames(c))

\* restoreClientToolValue, RestoreResponsesNamespaceCalls, and
\* chatMessageToResponsesOutput: custom names first, then the search, then the
\* functions of namespaces.
RestoredCall(name) ==
  IF name \in NamesOf("custom") THEN ClientCall("custom_tool_call", <<>>, name)
  ELSE IF Search /\ name = Proxy THEN ClientCall("tool_search_call", <<>>, <<>>)
  ELSE IF \E c \in Spaced : Flat(c.space, c.name) = name
       THEN CHOOSE c \in Spaced : Flat(c.space, c.name) = name
  ELSE ClientCall("function_call", <<>>, name)

\* A tool the client insists on: rewriteClientToolChoice, and
\* responsesToolChoiceToChatToolChoice, which does not look at the namespace and
\* drops a choice of what is not declared.
NativeChoice(c) == NativeLowers(c).name
ChatChoice(c) ==
  LET name == IF c.type = "tool_search_call" THEN Proxy ELSE c.name
  IN  IF name \in Lowered THEN name ELSE <<>>

-----------------------------------------------------------------------------
CtTypeOK == ctTools \in Seq(Declared)

\* A bridge that accepts the tools can tell them apart: every call of the upstream
\* comes back as the call of the tool that was meant.
ComesBack == \A c \in Callable : RestoredCall(LoweredNames(c)) = c
Distinct == \A c, d \in Callable : c # d => LoweredNames(c) # LoweredNames(d)

\* A request is refused exactly when two of its tools would get one name - by the
\* Chat bridge unless they are a function and a custom tool of one name, which it
\* lets pass.
RefusalsFit ==
  /\ NativeRefuses <=> ~Distinct
  /\ ChatRefuses => ~Distinct
  /\ ~Distinct => ChatRefuses \/ Twins

\* Of a request that is accepted, calls come back as they were meant, calls of the
\* history and tools insisted on have the name the upstream is told, and an output
\* fits its call.
ToolsComeBack ==
  /\ ~NativeRefuses =>
       /\ ComesBack
       /\ \A c \in Callable :
            /\ NativeLowers(c) = ClientCall("function_call", <<>>, LoweredNames(c))
            /\ NativeOutput(c) = "function_call_output"
            /\ NativeChoice(c) \in Lowered
  /\ ~ChatRefuses /\ ~Twins =>
       /\ ComesBack
       /\ \A c \in Callable : ChatLowers(c).name \in Lowered
       /\ \A c \in Callable \ Spaced : RestoredCall(ChatChoice(c)) = c

\* What a client may rely on when its tools are translated.
ClientToolsFit == CtTypeOK /\ RefusalsFit /\ ToolsComeBack
=============================================================================
