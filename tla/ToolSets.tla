------------------------------- MODULE ToolSets -------------------------------
(***************************************************************************)
(* The tools a request offers, across protocols (internal/toolconv): they    *)
(* are taken out of the client's request as definitions, the rest of the     *)
(* request is converted without them, and what the upstream's protocol can   *)
(* say of them is written into the result.  Whatever it cannot say is        *)
(* reported, by the tool's place in the list: 0 is the choice among them.    *)
(*                                                                          *)
(* An option is something a tool asks for besides its name and description:  *)
(* "strict" of a function; "context" (search_context_size), "location",      *)
(* "allowed" and "blocked" (domains), "max_uses", "callers", "inclusion",    *)
(* "external" (external_web_access) and "budget" (return_token_budget) of a  *)
(* web search; "config", any setting of a Gemini search.                     *)
(***************************************************************************)
EXTENDS Integers, Sequences, SequencesExt

Tool(type, name, options) == [type |-> type, name |-> name, options |-> options]
Definition(kind, native, name, options) == [kind |-> kind, native |-> native, name |-> name, options |-> options]

SearchOptions ==
    {"context", "location", "allowed", "blocked", "max_uses", "callers", "inclusion", "external", "budget"}

-----------------------------------------------------------------------------
(* The definitions of a request. *)

KindFromNativeType(type) ==
    CASE type = "file_search"                                     -> "file_search"
      [] type = "web_fetch_20250910"                              -> "web_fetch"
      [] type \in {"code_interpreter", "code_execution_20250825"} -> "code_execution"
      [] type \in {"computer_20250124", "computer_use_preview"}   -> "computer"
      [] type \in {"mcp", "mcp_toolset"}                          -> "mcp"
      [] type = "image_generation"                                -> "image"
      [] OTHER                                                    -> "native"

ResponsesDefinition(t) ==
    CASE t.type = "function"                            -> Definition("function", "", t.name, t.options)
      [] t.type \in {"web_search", "web_search_preview"} ->
            Definition("web_search", t.type, "", t.options \intersect {"context", "location", "allowed", "external", "budget"})
      [] OTHER                                          -> Definition(KindFromNativeType(t.type), t.type, "", {})

\* Gemini's tools, declared by a Chat client as functions of these names.
PseudoHosted(name) ==
    CASE name = "googleSearch"  -> {Definition("web_search", name, name, {})}
      [] name = "codeExecution" -> {Definition("code_execution", name, name, {})}
      [] name = "urlContext"    -> {Definition("url_context", name, name, {})}
      [] OTHER                  -> {}

\* A function of the older field "functions" is one whatever its name; a tool of
\* any other type comes with a payload of Responses.
ChatDefinition(t) ==
    CASE t.type = "legacy"                        -> Definition("function", "", t.name, t.options)
      [] t.type \in {"function", ""}              ->
            IF PseudoHosted(t.name) # {} THEN CHOOSE d \in PseudoHosted(t.name) : TRUE
            ELSE Definition("function", "", t.name, t.options)
      [] t.type = "web_search_options"            ->
            Definition("web_search", t.type, "", t.options \intersect {"context", "location"})
      [] OTHER                                    -> ResponsesDefinition(t)

KnownClaudeSearch == {"web_search_20250305", "web_search_20260209", "web_search_20260318"}

ClaudeDefinition(t) ==
    CASE t.type = ""                   -> Definition("function", "", t.name, t.options)
      [] t.type \in KnownClaudeSearch  ->
            Definition("web_search", t.type, t.name,
                       t.options \intersect {"location", "allowed", "blocked", "max_uses", "callers", "inclusion"})
      [] OTHER                         -> Definition(KindFromNativeType(t.type), t.type, t.name, {})

\* What the program refuses instead of converting it.
ClaudeReadable(t) ==
    /\ t.type # "web_search"
    /\ t.type \in KnownClaudeSearch =>
        /\ t.name = "web_search" /\ ~({"allowed", "blocked"} \subseteq t.options)
        /\ "inclusion" \in t.options => t.type = "web_search_20260318"

GeminiDefinition(t) ==
    CASE t.type = "function"      -> Definition("function", "", t.name, {})
      [] t.type \in {"googleSearch", "googleSearchRetrieval", "enterpriseWebSearch"} ->
            Definition("web_search", t.type, "", t.options \intersect {"config"})
      [] t.type = "codeExecution" -> Definition("code_execution", t.type, "", {})
      [] t.type = "urlContext"    -> Definition("url_context", t.type, "", {})
      [] t.type \in {"fileSearch", "retrieval"} -> Definition("file_search", t.type, "", {})
      [] t.type = "computerUse"   -> Definition("computer", t.type, "", {})
      [] OTHER                    -> Definition("native", t.type, "", {})

DefinitionOf(protocol, t) ==
    CASE protocol = "Chat"      -> ChatDefinition(t)
      [] protocol = "Responses" -> ResponsesDefinition(t)
      [] protocol = "Claude"    -> ClaudeDefinition(t)
      [] protocol = "Gemini"    -> GeminiDefinition(t)

Definitions(protocol, tools) == [i \in DOMAIN tools |-> DefinitionOf(protocol, tools[i])]

-----------------------------------------------------------------------------
(* The choice of a request: at most one, as a set. *)

Choice(word, name, names) == [word |-> word, name |-> name, names |-> names]
Meant(mode, kind, name, names) == [mode |-> mode, kind |-> kind, name |-> name, names |-> names]
Plainly(mode) == Meant(mode, "", "", {})

FromWord(word) ==
    CASE word = "none"                -> Plainly("none")
      [] word \in {"required", "any"} -> Plainly("required")
      [] word = "auto"                -> Plainly("auto")
      [] OTHER                        -> Plainly("opaque")

ChatMeant(c) == IF c.word = "function" THEN Meant("named", "function", c.name, {}) ELSE FromWord(c.word)

ResponsesMeant(c) ==
    CASE c.word = "function"                            -> Meant("named", "function", c.name, {})
      [] c.word \in {"web_search", "web_search_preview"} -> Meant("named", "web_search", "web_search", {})
      [] OTHER                                          -> FromWord(c.word)

Namesakes(definitions, name) == {i \in DOMAIN definitions : definitions[i].name = name}

ClaudeMeant(c, definitions) ==
    CASE c.word = "tool" ->
            Meant("named", IF Namesakes(definitions, c.name) = {} THEN "native"
                           ELSE definitions[CHOOSE i \in Namesakes(definitions, c.name) : TRUE].kind, c.name, {})
      [] c.word \in {"auto", "none", "any"} -> FromWord(c.word)
      [] OTHER -> Plainly("opaque")

GeminiMeant(c) ==
    CASE c.word = "NONE"         -> Plainly("none")
      [] c.word = "ANY"          ->
            IF \E n \in c.names : c.names = {n}
            THEN Meant("named", "function", CHOOSE n \in c.names : TRUE, {}) ELSE Meant("required", "function", "", c.names)
      [] c.word \in {"", "AUTO"} -> Plainly("auto")
      [] OTHER                   -> Plainly("opaque")

MeantBy(protocol, c, definitions) ==
    CASE protocol = "Chat"      -> ChatMeant(c)
      [] protocol = "Responses" -> ResponsesMeant(c)
      [] protocol = "Claude"    -> ClaudeMeant(c, definitions)
      [] protocol = "Gemini"    -> GeminiMeant(c)

Readable(protocol, tools, choice) ==
    protocol = "Claude" =>
        /\ \A i \in DOMAIN tools : ClaudeReadable(tools[i])
        /\ \A c \in choice : c.word = "tool" =>
            \A i, j \in Namesakes(Definitions(protocol, tools), c.name) : i = j

-----------------------------------------------------------------------------
(* What the upstream's protocol can say of a definition: one tool, or none.    *)
(* Only definitions of another protocol come here.                             *)

FunctionTool(to, d) == Tool(IF to = "Claude" THEN "" ELSE "function", d.name, IF to = "Gemini" THEN {} ELSE d.options)

SearchTool(to, d) ==
    CASE to = "Chat"      -> Tool("web_search_options", "", d.options \intersect {"context", "location"})
      [] to = "Responses" -> Tool("web_search", "", d.options \intersect {"context", "location", "allowed", "external", "budget"})
      [] to = "Claude"    -> Tool("web_search_20250305", "web_search",
                                  d.options \intersect {"location", "allowed", "blocked", "max_uses", "callers", "inclusion"})
      [] to = "Gemini"    -> Tool("googleSearch", "", {})

\* Another Gemini tool, asked for by the name Gemini gives it.
NativeGemini(to, d) == to = "Gemini" /\ d.native \in {"codeExecution", "urlContext"}

\* Bug: the functions are what matters.
ToolForFunction(to, d) == IF d.kind = "function" THEN <<FunctionTool(to, d)>> ELSE <<>>

ToolFor(to, d) ==
    CASE d.kind = "function"   -> <<FunctionTool(to, d)>>
      [] d.kind = "web_search" -> <<SearchTool(to, d)>>
      [] OTHER                 -> IF NativeGemini(to, d) THEN <<Tool(d.native, "", {})>> ELSE <<>>

\* The tools for the definitions at these places.
InOrder(to, definitions, places) ==
    FlattenSeq([i \in DOMAIN definitions |-> IF i \in places THEN ToolFor(to, definitions[i]) ELSE <<>>])

\* Gemini has its functions in one tool, the last.
ToolsFor(to, definitions) ==
    LET places    == DOMAIN definitions
        functions == {i \in places : definitions[i].kind = "function"}
    IN  IF to = "Gemini" THEN InOrder(to, definitions, places \ functions) \o InOrder(to, definitions, functions)
        ELSE InOrder(to, definitions, places)

\* Chat has one place for a web search.
Sayable(to, definitions) ==
    to = "Chat" => \A i, j \in DOMAIN definitions :
                        definitions[i].kind = "web_search" /\ definitions[j].kind = "web_search" => i = j

-----------------------------------------------------------------------------
(* What is reported. *)

\* Which options of a web search a note speaks of.
SearchLosses(to) ==
    CASE to = "Chat" ->
            {<<"unsupported_domain_filter", {"allowed", "blocked"}>>, <<"unsupported_search_limit", {"max_uses"}>>,
             <<"unsupported_search_controls", {"callers", "external"}>>, <<"unsupported_search_tuning", {"inclusion", "budget"}>>}
      [] to = "Responses" ->
            {<<"unsupported_search_limit", {"max_uses"}>>, <<"unsupported_blocked_domains", {"blocked"}>>,
             <<"unsupported_search_controls", {"callers"}>>, <<"unsupported_search_tuning", {"inclusion"}>>}
      [] to = "Claude" ->
            {<<"unsupported_search_context_size", {"context"}>>, <<"unsupported_search_controls", {"external"}>>,
             <<"unsupported_search_tuning", {"budget"}>>}
      [] to = "Gemini" ->
            {<<"unsupported_search_constraints", {"allowed", "blocked", "external", "max_uses", "callers"}>>,
             <<"unsupported_search_tuning", {"location", "context", "inclusion", "budget"}>>}

NativeSearchNotes(d) ==
    CASE d.native = "googleSearch"          -> IF "config" \in d.options THEN {"unsupported_native_search_config"} ELSE {}
      [] d.native = "googleSearchRetrieval" -> {"legacy_search_semantics_unrepresentable"}
      [] d.native = "enterpriseWebSearch"   -> {"enterprise_search_semantics_unrepresentable"}
      [] OTHER                              -> {"unverified_search_mapping"}

OtherNote(from, to, d) ==
    CASE to # "Gemini"                                                        -> "unsupported_hosted_tool"
      [] to = "Gemini" /\ d.kind \in {"code_execution", "url_context"}        -> "unverified_tool_mapping"
      [] to = "Gemini" /\ from = "Responses" /\ d.native \in {"custom", "unknown"} -> "custom_tool_omitted"
      [] to = "Gemini" /\ from = "Responses" /\ d.kind = "native" /\ d.native \notin {"custom", "unknown"} ->
            "unsupported_opaque_tool"
      [] OTHER                                                                -> "unsupported_hosted_tool"

ToolNotes(from, to, d) ==
    CASE d.kind = "function"   -> IF to = "Gemini" /\ "strict" \in d.options THEN {"unsupported_function_strict"} ELSE {}
      [] d.kind = "web_search" ->
            {loss[1] : loss \in {l \in SearchLosses(to) : l[2] \intersect d.options # {}}}
            \union (IF from = "Gemini" THEN NativeSearchNotes(d) ELSE {})
      [] OTHER -> IF NativeGemini(to, d) THEN {} ELSE {OtherNote(from, to, d)}

-----------------------------------------------------------------------------
(* The choice, as the upstream's protocol says it; it is in a function's name   *)
(* or in a word.                                                                *)

\* A required call among several of Gemini's functions becomes any required call.
Narrowed(m) == [m EXCEPT !.names = {}]

WordFor(to, mode) ==
    CASE to = "Gemini" -> (CASE mode = "auto" -> "AUTO" [] mode = "none" -> "NONE" [] OTHER -> "ANY")
      [] to = "Claude" /\ mode = "required" -> "any"
      [] OTHER -> mode

NamedFor(to, m) ==
    CASE m.kind = "function" ->
            (CASE to = "Gemini" -> {Choice("ANY", "", {m.name})}
               [] to = "Claude" -> {Choice("tool", m.name, {})}
               [] OTHER         -> {Choice("function", m.name, {})})
      [] m.kind = "web_search" ->
            (CASE to = "Claude"    -> {Choice("tool", m.name, {})}
               [] to = "Responses" -> {Choice("web_search", "", {})}
               [] OTHER            -> {})
      [] OTHER -> {}

ChoiceFor(to, m) ==
    CASE m.mode = "opaque" -> {}
      [] m.mode = "named"  -> NamedFor(to, m)
      [] OTHER             -> {Choice(WordFor(to, m.mode), "", {})}

ChoiceNotes(to, m) ==
    (IF m.names # {} THEN {"allowed_function_subset_unrepresentable"} ELSE {})
    \union (CASE ChoiceFor(to, m) # {}                                   -> {}
              [] ChoiceFor(to, m) = {} /\ to = "Chat" /\ m.kind = "web_search" -> {"implicit_search_choice"}
              [] OTHER                                                   -> {"unsupported_tool_choice"})

-----------------------------------------------------------------------------
(* ExtractRequest and AttachRequest: tools, choice and whether several calls    *)
(* may be made at once; Claude keeps that in its choice.                        *)

\* Claude's choice, when only the parallel calls are spoken of.
ClaudeChoice(meant, parallel) ==
    IF meant = {} /\ parallel # {} THEN {Choice("auto", "", {})}
    ELSE UNION {ChoiceFor("Claude", Narrowed(m)) : m \in meant}

ParallelFor(to, choice, parallel) ==
    CASE to = "Gemini" -> {}
      [] to = "Claude" -> IF \E c \in choice : c.word # "none" THEN parallel ELSE {}
      [] OTHER         -> parallel

ConvertTools(from, to, asked) ==
    LET definitions == Definitions(from, asked.tools)
        meant    == {MeantBy(from, c, definitions) : c \in asked.choice}
        choice   == IF to = "Claude" THEN ClaudeChoice(meant, asked.parallel)
                    ELSE UNION {ChoiceFor(to, Narrowed(m)) : m \in meant}
    IN  [ok       |-> Readable(from, asked.tools, asked.choice) /\ Sayable(to, definitions),
         tools    |-> ToolsFor(to, definitions),
         choice   |-> choice,
         parallel |-> ParallelFor(to, choice, asked.parallel),
         notes    |-> (UNION {{<<i, code>> : code \in ToolNotes(from, to, definitions[i])} : i \in DOMAIN definitions})
                      \union (UNION {{<<0, code>> : code \in ChoiceNotes(to, m)} : m \in meant})
                      \union (IF to = "Gemini" /\ asked.parallel = {FALSE} THEN {<<0, "unsupported_parallel_tool_control">>}
                              ELSE {})]
=============================================================================
