------------------------ MODULE ConversationSettings ------------------------
(***************************************************************************)
(* What becomes of the settings of a request: what its client asked for      *)
(* against what the upstream is given, and against what the notes of the      *)
(* conversion say.                                                           *)
(***************************************************************************)
EXTENDS Conversation

Asked == profile.asked
Got   == given.got
Converted == phase = "answer" /\ client # upstream

-----------------------------------------------------------------------------
(* Whether a request of a protocol asks for thinking, on its face. *)

OfWord(effort) == CASE effort = "" -> {} [] effort = "none" -> {"off"} [] OTHER -> {"on"}
OfBudget(budget) == {IF b = 0 THEN "off" ELSE "on" : b \in budget}
OfConfig(config) == UNION {OfWord(c.level) \union OfBudget(c.budget) : c \in config}

\* A Chat client may write a config for Gemini, which no one else reads.
Signs(protocol, s) ==
    CASE protocol = "Chat" ->
            OfWord(s.effort)
            \union (UNION {OfWord(n.effort) \union OfBudget(n.max)
                           \union {IF e THEN "on" ELSE "off" : e \in n.enabled} : n \in s.nested})
            \union (IF upstream = "Gemini" THEN OfConfig(s.config) ELSE {})
      [] protocol = "Responses" -> OfWord(s.effort)
      [] protocol = "Claude" ->
            (UNION {{IF t.type = "disabled" THEN "off" ELSE "on"} \union OfBudget(t.budget) : t \in s.thinking})
            \union (IF s.thinking = {} THEN OfWord(s.effort) ELSE {})
      [] protocol = "Gemini" -> OfConfig(s.config)

Budgets(protocol, s) ==
    CASE protocol = "Chat"   -> UNION {n.max : n \in s.nested}
      [] protocol = "Claude" -> UNION {t.budget : t \in s.thinking}
      [] protocol = "Gemini" -> UNION {c.budget : c \in s.config}
      [] OTHER               -> {}

\* The word for a strength: the client's own, or what a budget comes to.
Words(s, b) ==
    LET own == ({s.effort} \union {n.effort : n \in s.nested}) \ {""}
    IN  IF own = {} THEN {EffortFromBudget(b)} ELSE own

Hidden(protocol, s) ==
    CASE protocol = "Chat"   -> \E n \in s.nested : n.exclude = {TRUE}
      [] protocol = "Claude" -> \E t \in s.thinking : t.display = "omitted"
      [] protocol = "Gemini" -> \E c \in s.config : c.include = {FALSE}
      [] OTHER               -> FALSE

\* Whether the upstream will show its thoughts.  Chat has no word for it.
Shows(protocol, s) ==
    CASE protocol = "Claude"    -> \E t \in s.thinking : t.type # "disabled" /\ t.display # "omitted"
      [] protocol = "Gemini"    -> \E c \in s.config : c.include = {TRUE}
      [] protocol = "Responses" -> s.summary # ""
      [] OTHER                  -> FALSE

\* The model cannot do what is asked.
CannotSay == {"claude_thinking_disable_unsupported", "gemini_thinking_disable_unsupported",
              "gemini_thinking_unsupported", "gemini_unknown_capability"}
\* The request says two things.
Conflict  == {"explicit_fields_conflict", "native_overrode_standard", "gemini_budget_level_conflict"}
Changed   == {"claude_budget_adjusted", "claude_budget_to_adaptive", "claude_dynamic_budget_converted",
              "gemini_budget_clamped", "gemini_budget_to_level", "gemini_level_adjusted",
              "reasoning_budget_adjusted"}

Noted(codes) == given.notes \intersect codes # {}

\* The model thinks, or does not, when nothing is said.
FamilyDefault ==
    \/ "Claude" \in {client, upstream} /\ \E name \in {profile.origin, profile.model} : "default" \in ClaudeCan(name)
    \/ client = "Gemini" /\ HasStrength(ResolveGeminiDefault(profile.origin, NoIntent))

\* Adaptive thinking: the model decides how much.
LeftToModel == \E t \in Asked.thinking : t.type = "adaptive"

\* Thinking that the client asked for is asked of the upstream, thinking it turned
\* off is off, thoughts it hid are hidden and a budget it set is the budget; a
\* request that says nothing says nothing, but for its family's default.  Whatever
\* the upstream's model cannot do, and whatever the request says twice, is noted.
ThinkingAsAsked ==
    Converted =>
        LET before == Signs(client, Asked)
            after  == Signs(upstream, Got)
            budget == Budgets(client, Asked) \ {0}
        IN  /\ before = {"off", "on"} => Noted(Conflict \union CannotSay)
            /\ before \in {{"off"}, {"on"}} =>
                    \/ after = before \/ Noted(CannotSay \union Conflict)
                    \/ after = {} /\ upstream = "Gemini" /\ LeftToModel
            /\ before = {} => after = {} \/ FamilyDefault
            /\ Hidden(client, Asked) => ~Shows(upstream, Got)
            /\ \A b \in budget :
                \/ Noted(CannotSay \union Conflict \union Changed)
                \/ Budgets(upstream, Got) = {b}
                \/ upstream # "Claude" /\ ({Got.effort} \union {c.level : c \in Got.config}) \intersect Words(Asked, b) # {}

-----------------------------------------------------------------------------
(* Tools, and the other settings. *)

AskedDefinitions == Definitions(client, Asked.tools)
GotDefinitions   == Definitions(upstream, Got.tools)

Realizes(d, asked) == d.kind = asked.kind /\ (d.kind = "function" => d.name = asked.name)
ToldOf(i) == \E note \in given.toolNotes : note[1] = i

\* What a note about tool i says of an option.
Speaks(i, option) ==
    \/ \E loss \in SearchLosses(upstream) : option \in loss[2] /\ <<i, loss[1]>> \in given.toolNotes
    \/ option = "strict" /\ <<i, "unsupported_function_strict">> \in given.toolNotes
    \/ option = "config" /\ ToldOf(i)

ToolKept(i) ==
    LET asked == AskedDefinitions[i]
        made  == {j \in DOMAIN GotDefinitions : Realizes(GotDefinitions[j], asked)}
    IN  /\ made # {} \/ ToldOf(i)
        /\ made # {} => \A option \in asked.options :
                            Speaks(i, option) \/ \E j \in made : option \in GotDefinitions[j].options

SameChoice(m, n) == m.mode = n.mode /\ m.name = n.name /\ m.names = n.names

ChoiceKept ==
    \A c \in Asked.choice :
        LET m == MeantBy(client, c, AskedDefinitions)
        IN  \/ ToldOf(0)
            \/ \E g \in Got.choice : SameChoice(m, MeantBy(upstream, g, GotDefinitions))

\* What routes leave behind without a word: Responses has no stop sequences, and
\* those of Gemini do not reach Claude; Claude has no form of the answer, and
\* Gemini's is not read.
LeftBehind(label) ==
    \/ label = "stop" /\ (upstream = "Responses" \/ (client = "Gemini" /\ upstream = "Claude"))
    \/ label = "format" /\ (upstream = "Claude" \/ client = "Gemini")

\* Every tool the client offers is offered upstream, with every option, and its
\* choice among them is the upstream's; max_tokens, stop sequences and the form of
\* the answer arrive.  Where they do not, a note about that very tool or option
\* says so, but for what LeftBehind names.
NothingDroppedSilently ==
    Converted =>
        /\ \A i \in DOMAIN AskedDefinitions : ToolKept(i)
        /\ ChoiceKept
        /\ Asked.parallel = {FALSE} => Got.parallel = {FALSE} \/ ToldOf(0) \/ \E c \in Got.choice : c.word = "none"
        /\ \A label \in Asked.labels \intersect {"stop", "format"} : label \in Got.labels \/ LeftBehind(label)
        /\ Positive(Asked.max) # {} => Got.max = Asked.max \/ Noted({"claude_max_tokens_raised"})

-----------------------------------------------------------------------------
(* What the upstream's model accepts. *)

\* Before the upstream's model name is written into the request, the abilities
\* that are looked up are those of the name the client used.
MistakenModel == client \in {"Chat", "Responses"} /\ profile.origin # profile.model

AcceptsThinking(can, s) ==
    \A t \in s.thinking :
        /\ t.type = "adaptive" => "adaptive" \in can
        /\ t.type = "enabled"  => "manual" \in can /\ \A b \in t.budget, m \in s.max : b \in 1024..(m - 1)
        /\ t.type = "disabled" => "disable" \in can
        /\ t.type # "disabled" => s.labels \intersect {"temperature", "top_p", "top_k"} = {}

\* The models that take no control of sampling take a top_p above 0.95 beside
\* manual thinking.
AcceptsSampling(can, s) ==
    "strict" \in can /\ (\A t \in s.thinking : t.type # "enabled") => s.labels \intersect SamplingLabels = {}

\* A model nobody knows is taken for the one the client names.
AcceptableToClaude ==
    /\ \E m \in Got.max : m > 0
    /\ ~MistakenModel => LET can == ClaudeCan(CapabilityModel(profile.model, profile.origin))
                         IN  AcceptsThinking(can, Got) /\ AcceptsSampling(can, Got)

AcceptableToGemini ==
    LET d == GeminiDialect(profile.model)
    IN  \A c \in Got.config :
            /\ c.budget = {} \/ c.level = ""
            /\ d.kind = "level" => c.budget = {} /\ c.level = (IF c.level = "" THEN "" ELSE LevelFor(profile.model, c.level))
            /\ d.kind = "budget" => c.level = "" /\ \A b \in c.budget : b = -1 \/ (b = 0 /\ d.disable) \/ b \in d.min..d.max
            /\ d.kind = "fixed" => c.budget = {} /\ c.level = ""

\* The client chooses among the tools it offers.
ChoosesOffered(s) ==
    \A c \in s.choice :
        LET names == {s.tools[i].name : i \in DOMAIN s.tools}
        IN  /\ c.word \in {"function", "tool"} => c.name \in names
            /\ c.names \subseteq names
            /\ c.word \in {"required", "any", "ANY"} => s.tools # <<>>
            /\ c.word \in {"web_search", "web_search_preview"} => \E i \in DOMAIN AskedDefinitions : AskedDefinitions[i].kind = "web_search"

\* A choice names a tool that is there, and a call is required only where there is
\* a tool; but not where the tool was left out (and that was noted), or was taken
\* for one of Gemini's.
AcceptableChoice ==
    \A g \in Got.choice :
        LET m == MeantBy(upstream, g, GotDefinitions)
        IN  \/ m.mode \in {"auto", "none", "opaque"}
            \/ m.mode = "required" /\ GotDefinitions # <<>>
            \/ m.mode = "named" /\ \E j \in DOMAIN GotDefinitions :
                    GotDefinitions[j].name = m.name \/ GotDefinitions[j].kind = "web_search"
            \/ \E i \in DOMAIN AskedDefinitions : ToldOf(i)
            \/ client = "Chat" /\ PseudoHosted(m.name) # {}

\* The settings of a converted request are what the upstream's API takes of that
\* model: a budget below max_tokens, no control that the model does not have, no
\* choice of a tool that is not there (unless the client's own is one).
AcceptableSettings ==
    Converted => /\ upstream = "Claude" => AcceptableToClaude
                 /\ upstream = "Gemini" => AcceptableToGemini
                 /\ ChoosesOffered(Asked) => AcceptableChoice
=============================================================================
