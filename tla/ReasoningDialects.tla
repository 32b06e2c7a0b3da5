-------------------------- MODULE ReasoningDialects --------------------------
(***************************************************************************)
(* How an intent is put into what a Claude or a Gemini model takes          *)
(* (reasoning/claude.go, reasoning/gemini.go), and where that happens in a   *)
(* request (shared/claude/reasoning.go, shared/gemini/request.go).           *)
(*                                                                          *)
(* The program's options leave the adapters off: no model name carries a    *)
(* suffix's intent, and the percentage of a budget is the default.          *)
(***************************************************************************)
EXTENDS ReasoningIntent

Larger(a, b)  == IF a > b THEN a ELSE b
Smaller(a, b) == IF a < b THEN a ELSE b
The(S) == CHOOSE x \in S : TRUE

MaxDerived == 1073741823        \* math.MaxInt32 / 2

-----------------------------------------------------------------------------
(* Claude *)

ClaudeCan(model) ==
    CASE model \in {"claude-fable-5", "claude-mythos-5"} -> {"adaptive", "default", "xhigh", "max", "strict"}
      [] model = "claude-mythos-preview"                 -> {"adaptive", "manual", "default", "max", "strict"}
      [] model \in {"claude-opus-5", "claude-sonnet-5"}  ->
            {"adaptive", "default", "disable", "effort", "xhigh", "max", "strict"}
      [] model \in {"claude-opus-4-8", "claude-opus-4-7"} -> {"adaptive", "disable", "effort", "xhigh", "max", "strict"}
      [] model \in {"claude-opus-4-6", "claude-sonnet-4-6"} -> {"adaptive", "manual", "disable", "effort", "max"}
      [] model = "claude-opus-4-5"                       -> {"manual", "disable", "effort"}
      [] OTHER                                           -> {"manual", "disable"}

KnownClaude == {"claude-fable-5", "claude-mythos-5", "claude-mythos-preview", "claude-opus-5", "claude-sonnet-5",
                "claude-opus-4-8", "claude-opus-4-7", "claude-opus-4-6", "claude-sonnet-4-6", "claude-opus-4-5",
                "claude-sonnet-4-5", "claude-3-7-sonnet"}

ResolveClaudeDefault(model, i) ==
    IF HasStrength(i) \/ "default" \notin ClaudeCan(model) THEN i
    ELSE [i EXCEPT !.mode = "adaptive", !.effort = "high"]

ClaudeEffort(effort, can) ==
    CASE effort = "minimal"                                              -> "low"
      [] effort = "xhigh" /\ "xhigh" \notin can /\ "max" \in can         -> "max"
      [] effort \in {"xhigh", "max"} /\ {"xhigh", "max"} \intersect can = {} -> "high"
      [] OTHER                                                           -> effort

EffortPercentage(effort) ==
    CASE effort = "minimal" -> 5 [] effort = "low" -> 20 [] effort = "medium" -> 50
      [] effort \in {"xhigh", "max"} -> 95 [] OTHER -> 80

Display(include) == CASE include = {TRUE} -> "summarized" [] include = {FALSE} -> "omitted" [] OTHER -> ""
ThinkingBlock(type, budget, include) == {[type |-> type, budget |-> budget, display |-> Display(include)]}

\* sampling says what happens to temperature, top_p and top_k.
ClaudeRender(thinking, effort, max, sampling, notes) ==
    [thinking |-> thinking, effort |-> effort, max |-> max, sampling |-> sampling, notes |-> notes]

Sampling(can) == IF "strict" \in can THEN "removed" ELSE "kept"

RenderUnasked(can, i, max) ==
    ClaudeRender(IF i.include # {} /\ {"adaptive", "default"} \subseteq can THEN ThinkingBlock("adaptive", {}, i.include) ELSE {},
                 "", max, Sampling(can), {})

RenderDisabled(can, i, max) ==
    LET ignored == NoteIf(JudgedLater(i), "claude_disabled_effort_ignored")
    IN  IF "disable" \in can
        THEN ClaudeRender(ThinkingBlock("disabled", {}, {}), "", max, Sampling(can), ignored)
        ELSE ClaudeRender(ThinkingBlock("adaptive", {}, i.include), "", max, Sampling(can),
                          ignored \union {"claude_thinking_disable_unsupported"})

PrefersManual(can, i) == "manual" \in can /\ i.budget # {} /\ i.mode # "adaptive"

RenderAdaptive(can, i, max) ==
    LET effort == CASE i.effort # ""                       -> i.effort
                    [] i.effort = "" /\ i.budget # {}      -> EffortFromBudget(The(i.budget))
                    [] i.effort = "" /\ i.budget = {} /\ i.mode = "enabled" -> "high"
                    [] OTHER                               -> ""
        notes  == NoteIf("manual" \notin can /\ i.budget # {} /\ i.mode = "enabled", "claude_budget_to_adaptive")
                  \union NoteIf(ClaudeEffort(effort, can) # effort, "claude_effort_adjusted")
    IN  IF i.mode = "unset" THEN ClaudeRender({}, ClaudeEffort(effort, can), max, Sampling(can), notes)
        ELSE ClaudeRender(ThinkingBlock("adaptive", {}, i.include), ClaudeEffort(effort, can), max,
                          IF "strict" \in can THEN "removed" ELSE "constrained", notes)

\* max_tokens with room for the smallest budget, 1024, or for the one asked for.
RoomFor(i, max) ==
    IF \E m \in max : m > 1024 THEN The(max)
    ELSE IF \E b \in i.budget : b \in 0..(MaxDerived - 1) THEN Larger(1280, The(i.budget) + 1) ELSE 1280

\* Bug: nothing is left to answer with.
ManualBudgetWhole(i, room) ==
    LET wanted == IF \E b \in i.budget : b >= 0 THEN The(i.budget) ELSE (room * EffortPercentage(i.effort)) \div 100
    IN  Smaller(Larger(wanted, 1024), room)

\* 1024 <= budget < max_tokens.
ManualBudget(i, room) ==
    LET wanted == IF \E b \in i.budget : b >= 0 THEN The(i.budget) ELSE (room * EffortPercentage(i.effort)) \div 100
    IN  Smaller(Larger(wanted, 1024), room - 1)

RenderManual(can, intent, max) ==
    LET i == IF intent.mode # "adaptive" THEN intent
             ELSE [intent EXCEPT !.mode = "enabled", !.effort = IF @ = "" THEN "high" ELSE @]
        room   == RoomFor(i, max)
        budget == ManualBudget(i, room)
        notes  == NoteIf(intent.mode = "adaptive", "claude_adaptive_to_manual")
                  \union NoteIf(\A m \in max : m <= 1024, "claude_max_tokens_raised")
                  \union NoteIf(\E b \in i.budget : b >= 0 /\ b # budget, "claude_budget_adjusted")
                  \union NoteIf(\E b \in i.budget : b < 0, "claude_dynamic_budget_converted")
    IN  IF i.mode = "unset" THEN ClaudeRender({}, i.effort, max, "kept", {})
        ELSE ClaudeRender(ThinkingBlock("enabled", {budget}, i.include),
                          IF "effort" \in can /\ i.effort # "" THEN ClaudeEffort(i.effort, can) ELSE "",
                          {room}, "constrained", notes)

RenderClaude(model, intent, max) ==
    LET can == ClaudeCan(model)
        i   == IF JudgedLater(intent) THEN intent ELSE Normalize(intent)
    IN  CASE ~HasStrength(i)                -> RenderUnasked(can, i, max)
          [] HasStrength(i) /\ Disabled(i)  -> RenderDisabled(can, i, max)
          [] HasStrength(i) /\ ~Disabled(i) ->
                IF "adaptive" \in can /\ ~PrefersManual(can, i) THEN RenderAdaptive(can, i, max) ELSE RenderManual(can, i, max)

\* The model whose abilities count: the client's, when only that one is known.
CapabilityModel(model, origin) == IF model \notin KnownClaude /\ origin \in KnownClaude THEN origin ELSE model

\* An adaptive mode is not asked of a model nobody knows.
ForModel(model, i) ==
    IF model \in KnownClaude \/ i.mode # "adaptive" THEN i
    ELSE [i EXCEPT !.mode = "enabled", !.effort = IF @ = "" THEN "high" ELSE @]

TooLarge(model, i, max) == max = {} /\ PrefersManual(ClaudeCan(model), i) /\ \E b \in i.budget : b >= MaxDerived

\* A strength needs max_tokens: the configured default, or room for the budget.
Allowed(model, i, max, default) ==
    LET least == IF default > 0 THEN default ELSE 1280
    IN  CASE max # {} \/ ~HasStrength(i) -> max
          [] max = {} /\ HasStrength(i)  ->
                {IF PrefersManual(ClaudeCan(model), i) /\ \E b \in i.budget : b >= 0
                 THEN Larger(least, The(i.budget) + 1) ELSE least}

\* What a model that thinks takes of temperature, top_k, top_p and a top_p above 0.95.
KeptSampling(policy, sampling) ==
    CASE policy = "removed" -> {} [] policy = "constrained" -> sampling \intersect {"high top_p"} [] OTHER -> sampling

\* shared/claude ApplyReasoning, for a request of another protocol.
ApplyReasoning(model, origin, source, max, sampling, default) ==
    LET able == CapabilityModel(model, origin)
        i    == ForModel(able, Normalize(source))
        r    == RenderClaude(able, i, Allowed(able, i, max, default))
        left == KeptSampling(r.sampling, sampling)
    IN  [ok |-> ~TooLarge(able, i, max),
         thinking |-> r.thinking, effort |-> r.effort, max |-> r.max, sampling |-> left,
         notes |-> NormalizeNotes(source) \union r.notes \union NoteIf(left # sampling, "claude_sampling")]

-----------------------------------------------------------------------------
(* Gemini *)

Dialect(kind, disable, include, min, max) ==
    [kind |-> kind, disable |-> disable, include |-> include, min |-> min, max |-> max]

LevelModels == {"gemini-flash-latest", "gemini-flash-lite-latest", "gemini-pro-latest", "gemini-3-pro", "gemini-3-flash",
                "gemini-3.1-pro", "gemini-3.1-flash-lite", "gemini-3.1-flash-image", "gemini-3.5-flash",
                "gemini-3.5-flash-lite", "gemini-3.6-flash"}

GeminiDialect(model) ==
    CASE model \in {"gemini-2.5-flash-image", "gemini-2.5-flash-tts"} -> Dialect("fixed", FALSE, FALSE, 0, 0)
      [] model = "gemini-3-pro-image"                                 -> Dialect("fixed", FALSE, TRUE, 0, 0)
      [] model \in LevelModels                                        -> Dialect("level", FALSE, TRUE, 0, 0)
      [] model = "gemini-2.5-pro"                                     -> Dialect("budget", FALSE, TRUE, 128, 32768)
      [] model = "gemini-2.5-flash-lite"                              -> Dialect("budget", TRUE, TRUE, 512, 24576)
      [] model \in {"gemini-2.5-flash", "gemini-2.5-flash-native-audio"} -> Dialect("budget", TRUE, TRUE, 0, 24576)
      [] OTHER                                                        -> Dialect("unknown", FALSE, TRUE, 0, 0)

DefaultEffort(model) ==
    CASE model \in {"gemini-flash-latest", "gemini-3.5-flash", "gemini-3.6-flash"}                     -> "medium"
      [] model \in {"gemini-flash-lite-latest", "gemini-3.5-flash-lite", "gemini-3.1-flash-lite"}      -> "minimal"
      [] model \in {"gemini-pro-latest", "gemini-3.1-pro", "gemini-3-pro", "gemini-3-flash"}           -> "high"
      [] OTHER                                                                                         -> ""

LevelFor(model, effort) ==
    CASE model = "gemini-3.1-flash-image" -> IF effort \in {"minimal", "low"} THEN "minimal" ELSE "high"
      [] model = "gemini-3-pro"           -> IF effort \in {"minimal", "low"} THEN "low" ELSE "high"
      [] model \in {"gemini-3.1-pro", "gemini-pro-latest"} /\ effort = "minimal" -> "low"
      [] OTHER -> IF effort \in {"xhigh", "max"} THEN "high" ELSE effort

BudgetFor(effort) ==
    CASE effort \in {"minimal", "low"} -> 1024 [] effort = "medium" -> 8192
      [] effort \in {"high", "xhigh", "max"} -> 24576 [] OTHER -> 0

Clamped(b, d) == IF b = -1 THEN b ELSE Smaller(Larger(b, d.min), d.max)

Config(budget, level, include) == [budget |-> budget, level |-> level, include |-> include]

-----------------------------------------------------------------------------
(* RenderGemini *)

SpentBudget(d, i, max) ==
    CASE Disabled(i)                                            -> {IF d.disable THEN 0 ELSE d.min}
      [] ~Disabled(i) /\ i.budget # {}                          -> {Clamped(b, d) : b \in i.budget}
      [] ~Disabled(i) /\ i.budget = {} /\ i.effort # ""         -> {BudgetFor(i.effort)}
      [] ~Disabled(i) /\ i.budget = {} /\ i.effort = "" /\ i.mode # "unset" ->
            {Clamped((6 * m + 5) \div 10, d) : m \in max \ {0}}
      [] OTHER                                                  -> {}

LevelOf(i) ==
    CASE Disabled(i)                                    -> "minimal"
      [] ~Disabled(i) /\ i.effort = "" /\ i.budget # {} -> EffortFromBudget(The(i.budget))
      [] OTHER                                          -> i.effort

UsedLevel(model, i) == IF LevelOf(i) = "" THEN "" ELSE LevelFor(model, LevelOf(i))

RenderGemini(model, intent, max) ==
    LET i == Normalize(intent)
        d == GeminiDialect(model)
        shown == IF i.include = {} THEN {} ELSE {Config({}, "", i.include)}
    IN  IF IsEmpty(i) THEN {}
        ELSE CASE d.kind = "fixed"   -> IF d.include THEN shown ELSE {}
               [] d.kind = "unknown" -> shown
               [] d.kind = "budget"  -> {Config(SpentBudget(d, i, max), "", i.include)}
               [] d.kind = "level"   -> {Config({}, UsedLevel(model, i), i.include)}

RenderGeminiNotes(model, intent) ==
    LET i == Normalize(intent)
        d == GeminiDialect(model)
    IN  NormalizeNotes(intent)
        \union NoteIf(d.kind = "fixed" /\ (HasStrength(i) \/ (i.include # {} /\ ~d.include)), "gemini_thinking_unsupported")
        \union NoteIf(d.kind = "unknown" /\ HasStrength(i), "gemini_unknown_capability")
        \union NoteIf(d.kind \in {"budget", "level"} /\ Disabled(i) /\ ~d.disable, "gemini_thinking_disable_unsupported")
        \union NoteIf(d.kind = "budget" /\ ~Disabled(i) /\ \E b \in i.budget : Clamped(b, d) # b, "gemini_budget_clamped")
        \union NoteIf(d.kind = "level" /\ ~Disabled(i) /\ i.effort = "" /\ i.budget # {}, "gemini_budget_to_level")
        \union NoteIf(d.kind = "level" /\ ~Disabled(i) /\ UsedLevel(model, i) # LevelOf(i), "gemini_level_adjusted")

\* The same on the wire, for that model.
EquivalentGeminiStrength(model, left, right) ==
    LET wire(i) == {<<c.budget, c.level>> : c \in RenderGemini(model, i, {})} IN wire(left) = wire(right)

-----------------------------------------------------------------------------
(* NormalizeGeminiThinkingConfig: a native config in the model's dialect. *)

OneControl(d, c) ==
    IF c.budget = {} \/ c.level = "" THEN c
    ELSE CASE d.kind = "budget" -> [c EXCEPT !.level = ""] [] d.kind = "level" -> [c EXCEPT !.budget = {}] [] OTHER -> c

NativeBudget(d, b) ==
    CASE b < -1 -> -1 [] b = 0 -> (IF d.disable THEN 0 ELSE d.min) [] OTHER -> Clamped(b, d)

NativeLevel(c) ==
    CASE c.budget \notin {{}, {0}} -> EffortFromBudget(The(c.budget))
      [] c.budget = {0} \/ (c.budget = {} /\ c.level = "none") -> "minimal"
      [] OTHER -> c.level

NormalizeConfig(model, config) ==
    LET d == GeminiDialect(model)
    IN  UNION {LET c == OneControl(d, given)
                   words == IF c.level = "" THEN c.budget ELSE {BudgetFor(c.level)}
               IN  CASE d.kind = "fixed"   -> IF d.include /\ c.include # {} THEN {Config({}, "", c.include)} ELSE {}
                     [] d.kind = "unknown" -> {c}
                     [] d.kind = "budget"  -> {Config({NativeBudget(d, b) : b \in words}, "", c.include)}
                     [] d.kind = "level"   -> {Config({}, IF NativeLevel(c) = "" THEN "" ELSE LevelFor(model, NativeLevel(c)),
                                                      c.include)} : given \in config}

\* A config with both is only understood where the dialect is known.
ReadableFor(model, config) ==
    /\ \A c \in config : Parses(c.level) \/ GeminiDialect(model).kind = "fixed"
    /\ GeminiDialect(model).kind = "unknown" => ReadableGemini(config)

NormalizeConfigNotes(model, config) ==
    LET d == GeminiDialect(model)
    IN  UNION {LET c == OneControl(d, given)
               IN  NoteIf(c # given, "gemini_budget_level_conflict")
                   \union (IF d.kind = "fixed" THEN {} ELSE FromGeminiNotes({c}))
                   \union NoteIf(d.kind = "fixed" /\ NormalizeConfig(model, config) # config, "gemini_thinking_unsupported")
                   \union NoteIf(d.kind = "budget" /\ c.level # "", "gemini_level_to_budget")
                   \union NoteIf(d.kind = "budget" /\ ~d.disable /\ (0 \in c.budget \/ c.level = "none"),
                                 "gemini_thinking_disable_unsupported")
                   \union NoteIf(d.kind = "budget" /\ \E b \in c.budget : b > 0 /\ Clamped(b, d) # b, "gemini_budget_clamped")
                   \union NoteIf(d.kind = "level" /\ (0 \in c.budget \/ c.level = "none"), "gemini_thinking_disable_unsupported")
                   \union NoteIf(d.kind = "level" /\ c.budget \notin {{}, {0}}, "gemini_budget_to_level")
                   \union NoteIf(d.kind = "level" /\ c.level \notin {"", "none"} /\ LevelFor(model, c.level) # c.level,
                                 "gemini_level_adjusted") : given \in config}

\* What the family does when nothing is said, told to a model of another family.
ResolveGeminiDefault(model, i) ==
    LET kind == GeminiDialect(model).kind
    IN  CASE HasStrength(i) -> i
          [] ~HasStrength(i) /\ model = "gemini-2.5-flash-lite" ->
                [i EXCEPT !.mode = "disabled", !.effort = "none", !.budget = {0}]
          [] ~HasStrength(i) /\ model # "gemini-2.5-flash-lite" /\ kind = "budget" ->
                [i EXCEPT !.mode = "enabled", !.budget = {-1}]
          [] ~HasStrength(i) /\ kind = "level" /\ DefaultEffort(model) # "" ->
                [i EXCEPT !.mode = "enabled", !.effort = DefaultEffort(model)]
          [] OTHER -> i

\* What "enabled", and no more, means for the model.
ResolveEnabledDefault(model, i) ==
    LET kind == GeminiDialect(model).kind
    IN  IF i.mode # "enabled" \/ i.effort # "" \/ i.budget # {} THEN i
        ELSE CASE kind = "budget" -> [i EXCEPT !.budget = {-1}]
               [] kind = "level"  -> [i EXCEPT !.effort = DefaultEffort(model)]
               [] OTHER           -> i

\* What the client wrote for Gemini, if anything, beats what it says to anyone.
Overridden(model, native, source) ==
    /\ HasStrength(native) /\ HasStrength(source) /\ (source.effort # "" \/ source.budget # {})
    /\ ~EquivalentGeminiStrength(model, native, source)

NativeFirst(native, source) ==
    IF HasStrength(native) /\ HasStrength(source) THEN [native EXCEPT !.include = Either(@, source.include)] ELSE native
SourceSecond(native, source) == IF HasStrength(native) /\ HasStrength(source) THEN NoIntent ELSE source

ConfigFor(model, config, native, explicit, max) ==
    LET asked == ResolveEnabledDefault(model, explicit)
    IN  CASE HasStrength(native)                       -> {[c EXCEPT !.include = Either(explicit.include, @)] : c \in config}
          [] ~HasStrength(native) /\ IsEmpty(asked)    -> config
          [] ~HasStrength(native) /\ ~IsEmpty(asked)   -> RenderGemini(model, asked, max)

\* config is the native one in the model's dialect, source what the rest of the
\* request says.
MergedConfig(model, config, source, max) ==
    LET native == FromGemini(config)
        first  == NativeFirst(native, source)
        second == SourceSecond(native, source)
    IN  [config |-> ConfigFor(model, config, native, MergeExplicit(first, second), max),
         notes  |-> MergeNotes(first, second) \union NoteIf(Overridden(model, native, source), "native_overrode_standard")
                    \union (IF HasStrength(native) THEN {}
                            ELSE RenderGeminiNotes(model, ResolveEnabledDefault(model, MergeExplicit(first, second))))]

\* shared/gemini ApplyThinkingConfig, for a request of another protocol.
ApplyThinkingConfig(model, given, chat, max) ==
    [ok |-> ReadableFor(model, given), merged |-> MergedConfig(model, NormalizeConfig(model, given), FromOpenAIChat(chat), max),
     notes |-> FromOpenAIChatNotes(chat) \union NormalizeConfigNotes(model, given)]
=============================================================================
