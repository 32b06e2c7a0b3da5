--------------------------- MODULE MCConversation ---------------------------
(***************************************************************************)
(* Every pair of protocols, the same one on both sides included; and, one    *)
(* profile each, what requests ask for besides their messages.               *)
(***************************************************************************)
EXTENDS ConversationSettings

MCPairs == Protocols \X Protocols

MCSayings == {<<"text">>, <<"image", "text">>}

\* One shape of answer for each thing a converter tells apart.
MCUtterances ==
    {<<>>, <<"text">>, <<"think", "text">>, <<"bare">>, <<"bare", "text">>, <<"text", "f", "g">>,
     <<"f", "think", "f">>, <<"custom", "f">>}

-----------------------------------------------------------------------------
(* Thinking. *)

Optional(values) == {{}} \union {{v} : v \in values}

OfNested(enabled, effort, max, exclude) == [enabled |-> enabled, effort |-> effort, max |-> max, exclude |-> exclude]

Nested == {OfNested(enabled, "", {}, exclude) : enabled \in Optional(BOOLEAN), exclude \in Optional({TRUE})}
          \union {OfNested({}, "", {max}, {TRUE}) : max \in {0, 3000, 60000}}
          \union {OfNested({}, "minimal", {}, {}), OfNested({TRUE}, "", {3000}, {}), OfNested({FALSE}, "", {3000}, {})}

Blank == Settings({}, {"temperature", "top_p", "stop"})
WithMax(to, s) ==
    {[s EXCEPT !.max = max] : max \in IF to \in {"Claude", "Gemini"} THEN Optional({500, 20000}) ELSE {{20000}}}

ThinkingOf(protocol) ==
    CASE protocol = "Chat" ->
            {[Blank EXCEPT !.effort = effort, !.nested = nested] :
                effort \in {"", "none", "low", "xhigh", "unheard"}, nested \in {{}} \union {{n} : n \in Nested}}
            \union {[Blank EXCEPT !.labels = {"high top_p", "top_k"}, !.nested = {OfNested({}, "", max, {})}] : max \in Optional({3000})}
      [] protocol = "Responses" ->
            {[Blank EXCEPT !.effort = effort, !.summary = summary] :
                effort \in Efforts \union {""}, summary \in {"", "auto"}}
      [] protocol = "Claude" ->
            {[Blank EXCEPT !.effort = effort, !.thinking = thinking] :
                effort \in {"", "low", "max"},
                thinking \in {{}} \union {{[type |-> type, budget |-> {}, display |-> display]} :
                                              type \in {"adaptive", "disabled"}, display \in {"", "omitted", "summarized"}}
                             \union {{[type |-> "enabled", budget |-> {budget}, display |-> display]} :
                                              budget \in {1024, 5000, 60000}, display \in {"", "omitted"}}}
      [] protocol = "Gemini" ->
            {[Blank EXCEPT !.config = config] :
                config \in {{}} \union {{Config(budget, level, {})} :
                                            budget \in Optional({-1, 0, 100, 5000, 60000}), level \in {"", "none", "low"}}
                           \union {{Config(budget, "", {include})} : budget \in Optional({0, 5000}), include \in BOOLEAN}}

Names(protocol) ==
    CASE protocol = "Claude" -> {"claude-opus-5", "claude-mythos-preview", "claude-opus-4-8", "claude-opus-4-6",
                                 "claude-sonnet-4-5", "some-model"}
      [] protocol = "Gemini" -> {"gemini-2.5-pro", "gemini-2.5-flash-lite", "gemini-3-pro", "gemini-3.6-flash",
                                 "gemini-3-pro-image", "some-model"}
      [] OTHER               -> {"some-model"}

\* A client names a model of its own family; the upstream's has its name or one of
\* its own family.
Models(from, to) ==
    {<<origin, CHOOSE m \in Names(to) : m # "some-model" \/ Names(to) = {m}>> : origin \in Names(from)}
    \union {<<CHOOSE m \in Names(from) : m # "some-model" \/ Names(from) = {m}, model>> : model \in Names(to)}
    \union (IF from \in {"Chat", "Responses"} THEN {<<m, m>> : m \in Names(to)} ELSE {})

ThinkingProfiles ==
    UNION {{Profile(pair[1], pair[2], model[1], model[2], 1000, asked) :
              model \in Models(pair[1], pair[2]), asked \in UNION {WithMax(pair[2], s) : s \in ThinkingOf(pair[1])}} :
           pair \in MCPairs}

-----------------------------------------------------------------------------
(* Tools, and the other settings. *)

Function(protocol, name, options) == Tool(IF protocol = "Claude" THEN "" ELSE "function", name, options)
Strictly == {"strict"}

ResponsesTools ==
    {Tool("web_search", "", {option}) : option \in SearchOptions \intersect {"context", "location", "allowed", "external", "budget"}}
    \union {Tool(type, "", {}) : type \in {"web_search_preview", "custom", "mcp", "file_search", "code_interpreter",
                                          "image_generation", "computer_use_preview"}}

ToolsOf(protocol) ==
    {Function(protocol, "f", {})} \union
    (CASE protocol = "Chat" ->
            {Tool("function", name, {}) : name \in {"googleSearch", "codeExecution", "urlContext"}}
            \union {Tool("legacy", "googleSearch", {}), Tool("function", "f", Strictly), Tool("mcp", "", {})}
            \union {Tool("web_search_options", "", {option}) : option \in {"context", "location"}}
      [] protocol = "Responses" -> ResponsesTools \union {Tool("function", "f", Strictly)}
      [] protocol = "Claude" ->
            {Tool("web_search_20250305", "web_search", options) :
                options \in {{}, {"location", "max_uses"}, {"allowed", "callers"}, {"blocked"}, {"allowed", "blocked"}, {"inclusion"}}}
            \union {Tool("web_search_20260318", "web_search", {"inclusion"}), Tool("web_search_20260209", "search", {}),
                    Tool("web_search", "web_search", {}), Tool("web_search_20270101", "web_search", {}),
                    Tool("", "f", Strictly)}
            \union {Tool(type, "t", {}) : type \in {"web_fetch_20250910", "code_execution_20250825", "computer_20250124",
                                                   "mcp_toolset", "custom"}}
      [] protocol = "Gemini" ->
            {Tool("googleSearch", "", options) : options \in {{}, {"config"}}}
            \union {Tool(type, "", {}) : type \in {"googleSearchRetrieval", "enterpriseWebSearch", "codeExecution",
                                                  "urlContext", "fileSearch", "computerUse", "googleMaps"}})

SearchOf(protocol) ==
    CASE protocol = "Chat"      -> Tool("web_search_options", "", {})
      [] protocol = "Responses" -> Tool("web_search", "", {})
      [] protocol = "Claude"    -> Tool("web_search_20250305", "web_search", {})
      [] protocol = "Gemini"    -> Tool("googleSearch", "", {})

ToolLists(protocol) ==
    {<<Function(protocol, "f", {}), SearchOf(protocol)>>, <<Function(protocol, "f", {}), Function(protocol, "g", Strictly)>>,
     <<IF protocol = "Chat" THEN Tool("function", "googleSearch", {}) ELSE SearchOf(protocol), SearchOf(protocol)>>}

ChoicesOf(protocol) ==
    CASE protocol = "Gemini" ->
            {Choice(word, "", {}) : word \in {"", "AUTO", "NONE", "ANY", "MODE_UNSPECIFIED"}}
            \union {Choice("ANY", "", names) : names \in {{"f"}, {"f", "g"}}}
      [] protocol = "Claude" ->
            {Choice(word, "", {}) : word \in {"auto", "none", "any"}}
            \union {Choice("tool", name, {}) : name \in {"f", "web_search"}}
      [] OTHER ->
            {Choice(word, "", {}) : word \in {"auto", "none", "required", "web_search"}} \union {Choice("function", "f", {})}

\* A client chooses among the tools it offers.
Offered(protocol, c, tools) ==
    LET names == {tools[i].name : i \in DOMAIN tools}
    IN  /\ {c.name} \ {""} \subseteq names /\ c.names \subseteq names
        /\ c.word = "web_search" => SearchOf(protocol) \in ToSet(tools)

\* Claude speaks of parallel calls in its choice.
Consistent(protocol, s) == protocol = "Claude" /\ s.choice = {} => s.parallel = {}

\* One thing at a time: each tool, each choice, each setting.
ToolSettingsOf(protocol) ==
    {[Blank EXCEPT !.tools = <<tool>>, !.choice = choice] :
        tool \in ToolsOf(protocol), choice \in {{}, {IF protocol = "Gemini" THEN Choice("ANY", "", {}) ELSE Choice("auto", "", {})}}}
    \union UNION {{[Blank EXCEPT !.tools = tools, !.choice = choice, !.parallel = parallel] :
                    choice \in Optional({c \in ChoicesOf(protocol) : Offered(protocol, c, tools)}),
                    parallel \in IF protocol = "Gemini" THEN {{}} ELSE Optional(BOOLEAN)} : tools \in ToolLists(protocol)}
    \union {[Blank EXCEPT !.labels = @ \union labels] :
        labels \in {{"format"}, {"high top_p"}, {"top_k"}}
                   \union (CASE protocol = "Chat" -> {{"n"}} [] protocol = "Responses" -> {{"stateful"}} [] OTHER -> {})}
    \union (IF protocol # "Chat" THEN {}
            ELSE {[Blank EXCEPT !.effort = effort, !.config = {config}] :
                    effort \in {"", "none", "low"},
                    config \in {Config({5000}, "", {}), Config({0}, "", {FALSE}), Config({}, "", {TRUE}), Config({5000}, "low", {})}})

ToolProfiles ==
    UNION {{Profile(pair[1], pair[2], model[1], model[2], 1000, [asked EXCEPT !.max = {20000}]) :
              model \in {CHOOSE m \in Models(pair[1], pair[2]) : TRUE}, asked \in {s \in ToolSettingsOf(pair[1]) : Consistent(pair[1], s)}} :
           pair \in MCPairs}

MCProfiles == ThinkingProfiles \union ToolProfiles
=============================================================================
