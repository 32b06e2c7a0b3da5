--------------------------- MODULE ReasoningIntent ---------------------------
(***************************************************************************)
(* What a request says about thinking, whatever its protocol               *)
(* (relayconvert/reasoning/intent.go): how contradictions are settled, how  *)
(* two statements of one request are merged, and how the four protocols are *)
(* read and the two OpenAI protocols written.                               *)
(*                                                                          *)
(* An optional value is a set of at most one value.  The notes of a reading *)
(* are the codes of the diagnostics it reports.                             *)
(***************************************************************************)
EXTENDS Integers

Efforts == {"none", "minimal", "low", "medium", "high", "xhigh", "max"}

Intent(mode, effort, budget, include) ==
    [mode |-> mode, effort |-> effort, budget |-> budget, include |-> include]

NoIntent == Intent("unset", "", {}, {})

HasStrength(i) == i.mode # "unset" \/ i.effort # "" \/ i.budget # {}
IsEmpty(i)     == ~HasStrength(i) /\ i.include = {}
Disabled(i)    == i.mode = "disabled" \/ i.effort = "none"

Enabling  == {"enabled", "adaptive"}
Either(first, second)   == IF first # {} THEN first ELSE second
NoteIf(condition, code) == IF condition THEN {code} ELSE {}

\* ParseEffort knows it, or there is none.
Parses(effort) == effort \in Efforts \union {""}

-----------------------------------------------------------------------------
(* normalizeIntent *)

Floored(i) == [i EXCEPT !.budget = {IF b < -1 THEN -1 ELSE b : b \in @}]
Spends(i)  == \E b \in i.budget : b # 0

\* Bug: a number does not speak for itself.
SettleByWord(i) == IF i.effort = "none" THEN [i EXCEPT !.mode = "disabled"] ELSE i

\* A budget beats a mode and an effort; the effort "none" beats a mode.
Settle(i) ==
    CASE 0 \in i.budget                         -> [i EXCEPT !.mode = "disabled", !.effort = "none"]
      [] Spends(i) /\ Disabled(i)               -> [i EXCEPT !.mode = "enabled", !.effort = ""]
      [] Spends(i) /\ ~Disabled(i) /\ i.mode = "unset" -> [i EXCEPT !.mode = "enabled"]
      [] i.budget = {} /\ i.effort = "none"     -> [i EXCEPT !.mode = "disabled"]
      [] OTHER                                  -> i

Normalize(i) == Settle(Floored(i))

Contradictory(i) ==
    \/ 0 \in i.budget /\ (i.mode \in Enabling \/ i.effort \notin {"", "none"})
    \/ Spends(i) /\ Disabled(i)
    \/ i.budget = {} /\ i.effort = "none" /\ i.mode \in Enabling

NormalizeNotes(i) ==
    NoteIf(\E b \in i.budget : b < -1, "reasoning_budget_adjusted")
        \union NoteIf(Contradictory(i), "explicit_fields_conflict")

-----------------------------------------------------------------------------
(* MergeExplicit: two statements of one request, the more specific one first. *)

Disagree(p, s) == HasStrength(p) /\ HasStrength(s) /\ Disabled(p) # Disabled(s)

Union(p, s) ==
    Intent(IF p.mode # "unset" THEN p.mode ELSE s.mode, IF p.effort # "" THEN p.effort ELSE s.effort,
           Either(p.budget, s.budget), Either(p.include, s.include))

MergeExplicit(primary, secondary) ==
    LET p == Normalize(primary)
        s == Normalize(secondary)
    IN  CASE IsEmpty(p)                                        -> s
          [] ~IsEmpty(p) /\ IsEmpty(s)                         -> p
          [] ~IsEmpty(p) /\ ~IsEmpty(s) /\ Disagree(p, s)      -> [p EXCEPT !.include = Either(@, s.include)]
          [] OTHER                                             -> Normalize(Union(p, s))

Differ(p, s) ==
    \/ Disagree(p, s)
    \/ p.effort # "" /\ s.effort # "" /\ p.effort # s.effort
    \/ p.budget # {} /\ s.budget # {} /\ p.budget # s.budget

MergeNotes(primary, secondary) ==
    LET p == Normalize(primary)
        s == Normalize(secondary)
        both == ~IsEmpty(p) /\ ~IsEmpty(s)
    IN  NormalizeNotes(primary) \union NormalizeNotes(secondary)
        \union NoteIf(both /\ Differ(p, s), "explicit_fields_conflict")
        \union (IF both /\ ~Disagree(p, s) THEN NormalizeNotes(Union(p, s)) ELSE {})

-----------------------------------------------------------------------------
(* EffectiveEffort: the strength as one word. *)

EffortFromBudget(b) ==
    CASE b = 0               -> "none"
      [] b \in 1..1024       -> "low"
      [] b \in 1025..8192    -> "medium"
      [] OTHER               -> "high"

EffectiveEffort(intent) ==
    LET i == Normalize(intent)
    IN  CASE i.mode = "disabled"                                       -> "none"
          [] i.mode # "disabled" /\ i.effort # ""                      -> i.effort
          [] i.mode # "disabled" /\ i.effort = "" /\ i.budget # {}     -> EffortFromBudget(CHOOSE b \in i.budget : TRUE)
          [] i.mode \in Enabling /\ i.effort = "" /\ i.budget = {}     -> "high"
          [] OTHER                                                     -> ""

-----------------------------------------------------------------------------
(* Chat Completions: reasoning_effort, the object "reasoning" (nested), and  *)
(* between two steps of a route the intent itself (pivot).                    *)

EffortIntent(effort, include) ==
    Intent(CASE effort = "" -> "unset" [] effort = "none" -> "disabled" [] OTHER -> "enabled", effort, {}, include)

NestedIntent(n) ==
    Intent(CASE n.effort = "none"                                -> "disabled"
             [] n.effort # "none" /\ n.enabled = {TRUE}          -> "enabled"
             [] n.effort # "none" /\ n.enabled = {FALSE}         -> "disabled"
             [] n.effort \notin {"none", ""} /\ n.enabled = {}   -> "enabled"
             [] OTHER                                            -> "unset",
           IF n.effort = "" /\ n.enabled = {FALSE} THEN "none" ELSE n.effort,
           n.max, {~x : x \in n.exclude})

Stated(chat) ==
    LET word == EffortIntent(chat.effort, {})
    IN  IF chat.nested = {} THEN word ELSE MergeExplicit(word, NestedIntent(CHOOSE n \in chat.nested : TRUE))

\* The word that was made from the pivot says nothing more.
StatedBeside(chat, pivot) ==
    IF chat.effort # "" /\ chat.effort = EffectiveEffort(pivot)
    THEN [Stated(chat) EXCEPT !.effort = "", !.mode = "unset"] ELSE Stated(chat)

ReadableChat(chat) == Parses(chat.effort) /\ \A n \in chat.nested : Parses(n.effort)

FromOpenAIChat(chat) ==
    IF chat.pivot = {} THEN Normalize(Stated(chat))
    ELSE LET pivot == CHOOSE p \in chat.pivot : TRUE IN MergeExplicit(StatedBeside(chat, pivot), pivot)

FromOpenAIChatNotes(chat) ==
    (IF chat.nested = {} THEN {}
     ELSE MergeNotes(EffortIntent(chat.effort, {}), NestedIntent(CHOOSE n \in chat.nested : TRUE)))
    \union (IF chat.pivot = {} THEN NormalizeNotes(Stated(chat))
            ELSE LET pivot == CHOOSE p \in chat.pivot : TRUE IN MergeNotes(StatedBeside(chat, pivot), pivot))

ApplyToOpenAIChat(chat, intent) ==
    LET i == Normalize(intent)
        effort == EffectiveEffort(i)
    IN  [chat EXCEPT !.effort = IF effort # "" THEN effort ELSE @,
                     !.pivot  = IF IsEmpty(i) THEN @ ELSE {i}]

-----------------------------------------------------------------------------
(* Responses: reasoning.effort and reasoning.summary. *)

FromOpenAIResponses(responses) ==
    Normalize(EffortIntent(responses.effort, IF responses.summary # "" THEN {TRUE} ELSE {}))

\* A summary is asked for unless the client wants none.
ApplyToOpenAIResponses(responses, intent) ==
    LET effort == EffectiveEffort(intent)
    IN  IF effort = "" THEN responses
        ELSE [responses EXCEPT !.effort  = effort,
                               !.summary = IF effort = "none" \/ intent.include = {FALSE} THEN "" ELSE "detailed"]

\* Within Responses too (EnsureResponsesReasoningSummary).
EnsureSummary(responses) ==
    IF responses.effort = "" \/ responses.summary # "" \/ ~Parses(responses.effort) THEN responses
    ELSE ApplyToOpenAIResponses(responses, FromOpenAIResponses(responses))

-----------------------------------------------------------------------------
(* Claude Messages: thinking, and output_config.effort. *)

ShownAs(display) == CASE display = "summarized" -> {TRUE} [] display = "omitted" -> {FALSE} [] OTHER -> {}

ClaudeStated(claude) ==
    LET effort(default) == IF claude.effort # "" THEN claude.effort ELSE default
    IN  IF claude.thinking = {} THEN Intent("unset", claude.effort, {}, {})
        ELSE LET t == CHOOSE x \in claude.thinking : TRUE
             IN  Intent(IF t.type \in {"adaptive", "disabled"} THEN t.type ELSE "enabled",
                        effort(IF t.type = "disabled" THEN "none" ELSE ""), t.budget, ShownAs(t.display))

\* An effort beside thinking that is off is left for the target to judge.
JudgedLater(i) == i.mode = "disabled" /\ i.effort \notin {"", "none"}

FromClaude(claude) ==
    LET i == ClaudeStated(claude) IN IF JudgedLater(i) THEN i ELSE Normalize(i)

FromClaudeNotes(claude) ==
    LET i == ClaudeStated(claude)
    IN  NoteIf(\E t \in claude.thinking : t.type \notin {"", "enabled", "adaptive", "disabled"},
               "claude_thinking_type_coerced")
        \union (IF JudgedLater(i) THEN {} ELSE NormalizeNotes(i))

-----------------------------------------------------------------------------
(* Gemini: thinkingConfig, with a budget or a level, not both. *)

ReadableGemini(config) == \A c \in config : Parses(c.level) /\ (c.budget = {} \/ c.level = "")

GeminiStated(config) ==
    IF config = {} THEN NoIntent
    ELSE LET c == CHOOSE x \in config : TRUE IN [EffortIntent(c.level, c.include) EXCEPT !.budget = c.budget]

FromGemini(config)      == Normalize(GeminiStated(config))
FromGeminiNotes(config) == NormalizeNotes(GeminiStated(config))
=============================================================================
