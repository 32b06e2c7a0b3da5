---------------------------- MODULE SettingsProofs ---------------------------
(***************************************************************************)
(* What holds of the settings of a request, for every request: any budget,  *)
(* any max_tokens, any name of a model and any list of tools, of which the   *)
(* runs try a handful.  First the reasoning dialects, then the tools and the *)
(* choice among them, then the rest; the conversation that converts them at   *)
(* every question comes last.                                               *)
(***************************************************************************)
EXTENDS ConversationSettings, Counting

Modes == {"unset", "enabled", "adaptive", "disabled"}

\* An optional value.
Optional(S) == {{}} \union {{x} : x \in S}

Intents ==
    [mode : Modes, effort : Efforts \union {""}, budget : Optional(Int), include : Optional(BOOLEAN)]

-----------------------------------------------------------------------------
(* normalizeIntent. *)

LEMMA IntentFields ==
    ASSUME NEW i \in Intents
    PROVE  /\ i.mode \in Modes /\ i.effort \in Efforts \union {""}
           /\ i.include \in Optional(BOOLEAN)
           /\ i.budget = {} \/ \E b \in Int : i.budget = {b}
BY DEF Intents, Optional

\* Flooring the budget gives an intent with no budget below -1, and leaves one alone
\* that has none.
LEMMA FlooredFacts ==
    ASSUME NEW i \in Intents
    PROVE  /\ Floored(i) \in Intents
           /\ \A b \in Floored(i).budget : b \in Int /\ b >= -1
           /\ Floored(i).mode = i.mode /\ Floored(i).effort = i.effort /\ Floored(i).include = i.include
           /\ (\A b \in i.budget : b >= -1) => Floored(i) = i
<1>1. CASE i.budget = {}
  <2>1. {IF b < -1 THEN -1 ELSE b : b \in i.budget} = i.budget
    BY <1>1
  <2> QED
    BY <1>1, <2>1 DEF Floored, Intents
<1>2. CASE \E b \in Int : i.budget = {b}
  <2>1. PICK b \in Int : i.budget = {b}
    BY <1>2
  <2> DEFINE f == IF b < -1 THEN -1 ELSE b
  <2>2. f \in Int /\ f >= -1 /\ (b >= -1 => f = b)
    OBVIOUS
  <2>3. {IF c < -1 THEN -1 ELSE c : c \in i.budget} = {f}
    BY <2>1
  <2>4. Floored(i) = [i EXCEPT !.budget = {f}]
    BY <2>3 DEF Floored
  <2> HIDE DEF f
  <2>5. {f} \in Optional(Int)
    BY <2>2 DEF Optional
  <2>6. Floored(i) \in Intents /\ Floored(i).budget = {f}
    BY <2>4, <2>5 DEF Intents
  <2>7. Floored(i).mode = i.mode /\ Floored(i).effort = i.effort /\ Floored(i).include = i.include
    BY <2>4 DEF Intents
  <2>8. (\A c \in i.budget : c >= -1) => Floored(i) = i
    BY <2>1, <2>2, <2>4 DEF Intents
  <2> QED
    BY <2>2, <2>6, <2>7, <2>8
<1> QED
  BY <1>1, <1>2, IntentFields

\* What Settle makes of a floored intent: an intent, with the same budget, that
\* no longer contradicts itself.
LEMMA SettleFacts ==
    ASSUME NEW i \in Intents
    PROVE  /\ Settle(i) \in Intents
           /\ Settle(i).budget = i.budget /\ Settle(i).include = i.include
           /\ ~Contradictory(Settle(i))
           /\ Settle(Settle(i)) = Settle(i)
<1>1. /\ i.mode \in Modes /\ i.effort \in Efforts \union {""}
      /\ i = [mode |-> i.mode, effort |-> i.effort, budget |-> i.budget, include |-> i.include]
      /\ i.budget = {} \/ \E b \in Int : i.budget = {b}
  BY DEF Intents, Optional
<1>2. CASE i.budget = {}
  BY <1>1, <1>2 DEF Settle, Contradictory, Spends, Disabled, Enabling, Intents, Modes, Efforts
<1>3. CASE \E b \in Int : i.budget = {b}
  <2>1. PICK b \in Int : i.budget = {b}
    BY <1>3
  <2>2. (0 \in i.budget <=> b = 0) /\ (Spends(i) <=> b # 0)
    BY <2>1 DEF Spends
  <2>3. CASE b = 0
    BY <1>1, <2>1, <2>2, <2>3 DEF Settle, Contradictory, Spends, Disabled, Enabling, Intents, Modes, Efforts
  <2>4. CASE b # 0
    <3>1. CASE Disabled(i)
      <4>1. Settle(i) = [i EXCEPT !.mode = "enabled", !.effort = ""]
        BY <2>1, <2>2, <2>4, <3>1 DEF Settle
      <4>2. /\ Settle(i) \in Intents /\ Settle(i).budget = {b} /\ Settle(i).include = i.include
            /\ Settle(i).mode = "enabled" /\ Settle(i).effort = ""
        BY <1>1, <2>1, <4>1 DEF Intents, Modes
      <4> QED
        BY <2>1, <2>4, <4>2 DEF Settle, Contradictory, Spends, Disabled
    <3>2. CASE ~Disabled(i) /\ i.mode = "unset"
      <4>1. Settle(i) = [i EXCEPT !.mode = "enabled"]
        BY <2>1, <2>2, <2>4, <3>2 DEF Settle
      <4>2. /\ Settle(i) \in Intents /\ Settle(i).budget = {b} /\ Settle(i).include = i.include
            /\ Settle(i).mode = "enabled" /\ Settle(i).effort = i.effort
        BY <1>1, <2>1, <4>1 DEF Intents, Modes
      <4> QED
        BY <2>1, <2>4, <3>2, <4>2 DEF Settle, Contradictory, Spends, Disabled
    <3>3. CASE ~Disabled(i) /\ i.mode # "unset"
      <4>1. Settle(i) = i
        BY <2>1, <2>2, <2>4, <3>3 DEF Settle
      <4> QED
        BY <2>1, <2>2, <2>4, <3>3, <4>1 DEF Contradictory
    <3> QED
      BY <3>1, <3>2, <3>3
  <2> QED
    BY <2>3, <2>4
<1> QED
  BY <1>1, <1>2, <1>3

\* Normalising gives an intent that does not contradict itself; normalising it
\* again, as the second step of a route does, changes nothing and reports nothing.
THEOREM NormalizeOnce ==
    ASSUME NEW i \in Intents
    PROVE  /\ Normalize(i) \in Intents
           /\ Normalize(Normalize(i)) = Normalize(i)
           /\ NormalizeNotes(Normalize(i)) = {}
<1> DEFINE n == Normalize(i)
<1>1. Floored(i) \in Intents /\ \A b \in Floored(i).budget : b \in Int /\ b >= -1
  BY FlooredFacts
<1>2. n \in Intents /\ n.budget = Floored(i).budget /\ ~Contradictory(n) /\ Settle(n) = n
  BY <1>1, SettleFacts DEF Normalize
<1> HIDE DEF n
<1>3. \A b \in n.budget : b \in Int /\ b >= -1
  BY <1>1, <1>2
<1>4. Floored(n) = n
  BY <1>2, <1>3, FlooredFacts
<1>5. Normalize(n) = n
  BY <1>2, <1>4 DEF Normalize
<1>6. ~\E b \in n.budget : b < -1
  BY <1>3
<1>7. NormalizeNotes(n) = {}
  BY <1>2, <1>6 DEF NormalizeNotes, NoteIf
<1> QED
  BY <1>2, <1>5, <1>7 DEF n

-----------------------------------------------------------------------------
(* Claude. *)

\* Whatever family a model belongs to, it takes adaptive or manual thinking, and
\* where thinking cannot be turned off it is adaptive.
LEMMA ClaudeFamilies ==
    ASSUME NEW model
    PROVE  /\ "adaptive" \in ClaudeCan(model) \/ "manual" \in ClaudeCan(model)
           /\ "disable" \in ClaudeCan(model) \/ "adaptive" \in ClaudeCan(model)
BY DEF ClaudeCan

\* Every derived max_tokens has room for the smallest budget.
LEMMA RoomFacts ==
    ASSUME NEW i \in Intents, NEW max \in Optional(Nat)
    PROVE  RoomFor(i, max) \in Int /\ RoomFor(i, max) > 1024
<1>1. CASE \E m \in max : m > 1024
  <2>1. PICK m \in Nat : max = {m}
    BY <1>1 DEF Optional
  <2>2. The(max) = m
    BY <2>1 DEF The
  <2> QED
    BY <1>1, <2>1, <2>2 DEF RoomFor
<1>2. CASE ~\E m \in max : m > 1024
  <2>1. CASE \E b \in i.budget : b \in 0..(MaxDerived - 1)
    <3>1. PICK b \in Int : i.budget = {b}
      BY <2>1, IntentFields
    <3>2. The(i.budget) = b
      BY <3>1 DEF The
    <3> QED
      BY <1>2, <2>1, <3>1, <3>2 DEF RoomFor, Larger
  <2>2. CASE ~\E b \in i.budget : b \in 0..(MaxDerived - 1)
    BY <1>2, <2>2 DEF RoomFor
  <2> QED
    BY <2>1, <2>2
<1> QED
  BY <1>1, <1>2

\* A manual budget is what Claude wants it to be, whatever was asked for.
LEMMA BudgetFits ==
    ASSUME NEW i \in Intents, NEW room \in Int, room > 1024
    PROVE  ManualBudget(i, room) \in 1024..(room - 1)
<1> DEFINE derived == (room * EffortPercentage(i.effort)) \div 100
           wanted  == IF \E b \in i.budget : b >= 0 THEN The(i.budget) ELSE derived
<1>1. EffortPercentage(i.effort) \in {5, 20, 50, 80, 95}
  BY DEF EffortPercentage
<1>2. derived \in Int
  <2>1. CASE EffortPercentage(i.effort) = 5
    BY <2>1
  <2>2. CASE EffortPercentage(i.effort) = 20
    BY <2>2
  <2>3. CASE EffortPercentage(i.effort) = 50
    BY <2>3
  <2>4. CASE EffortPercentage(i.effort) = 80
    BY <2>4
  <2>5. CASE EffortPercentage(i.effort) = 95
    BY <2>5
  <2> QED
    BY <1>1, <2>1, <2>2, <2>3, <2>4, <2>5
<1>3. (\E b \in i.budget : b >= 0) => The(i.budget) \in Int
  BY IntentFields DEF The
<1>4. wanted \in Int
  BY <1>2, <1>3
<1> HIDE DEF wanted
<1>5. ManualBudget(i, room) = Smaller(Larger(wanted, 1024), room - 1)
  BY DEF ManualBudget, wanted
<1> QED
  BY <1>4, <1>5 DEF Smaller, Larger

\* What a model of that family takes of the field thinking, beside this max_tokens.
ClaudeTakes(can, thinking, max) ==
    \A t \in thinking :
        /\ t.type = "adaptive" => "adaptive" \in can
        /\ t.type = "disabled" => "disable" \in can
        /\ t.type = "enabled"  =>
              "manual" \in can /\ \E m \in Int : max = {m} /\ \A b \in t.budget : b \in 1024..(m - 1)

\* A block that says "adaptive" or "disabled" asks for the one ability.
LEMMA PlainBlocks ==
    ASSUME NEW can, NEW include, NEW max
    PROVE  /\ ClaudeTakes(can, {}, max)
           /\ "adaptive" \in can => ClaudeTakes(can, ThinkingBlock("adaptive", {}, include), max)
           /\ "disable" \in can => ClaudeTakes(can, ThinkingBlock("disabled", {}, include), max)
BY DEF ClaudeTakes, ThinkingBlock

\* Manual thinking comes with a budget below its max_tokens.
LEMMA ManualFits ==
    ASSUME NEW can, "manual" \in can, NEW intent \in Intents, NEW max \in Optional(Nat)
    PROVE  ClaudeTakes(can, RenderManual(can, intent, max).thinking, RenderManual(can, intent, max).max)
<1> DEFINE i == IF intent.mode # "adaptive" THEN intent
                ELSE [intent EXCEPT !.mode = "enabled", !.effort = IF @ = "" THEN "high" ELSE @]
           room == RoomFor(i, max)
           budget == ManualBudget(i, room)
           r == RenderManual(can, intent, max)
<1>1. i \in Intents
  BY DEF Intents, Modes, Efforts
<1>2. room \in Int /\ room > 1024
  <2> HIDE DEF i
  <2> QED
    BY <1>1, RoomFacts
<1>3. budget \in 1024..(room - 1)
  <2> HIDE DEF i, room
  <2> QED
    BY <1>1, <1>2, BudgetFits
<1>4. r.thinking = {} \/ (r.thinking = ThinkingBlock("enabled", {budget}, i.include) /\ r.max = {room})
  <2> HIDE DEF i, room, budget
  <2> QED
    BY DEF RenderManual, ClaudeRender, i, room, budget
<1> HIDE DEF i, room, budget, r
<1>5. CASE r.thinking = {}
  BY <1>5 DEF ClaudeTakes, r
<1>6. CASE r.thinking = ThinkingBlock("enabled", {budget}, i.include) /\ r.max = {room}
  <2>1. \A t \in r.thinking : t.type = "enabled" /\ t.budget = {budget}
    BY <1>6 DEF ThinkingBlock
  <2>2. \E m \in Int : r.max = {m} /\ \A b \in {budget} : b \in 1024..(m - 1)
    <3> USE <1>2
    <3> WITNESS room \in Int
    <3> QED
      BY <1>3, <1>6
  <2> QED
    BY <2>1, <2>2 DEF ClaudeTakes, r
<1> QED
  BY <1>4, <1>5, <1>6

\* Whatever a request asks of any Claude model, the thinking it is sent is a kind
\* that model has, with 1024 <= budget_tokens < max_tokens (reasoning.RenderClaude).
THEOREM ClaudeIsAskedWhatItCan ==
    ASSUME NEW model, NEW intent \in Intents, NEW max \in Optional(Nat)
    PROVE  LET r == RenderClaude(model, intent, max) IN ClaudeTakes(ClaudeCan(model), r.thinking, r.max)
<1> DEFINE can == ClaudeCan(model)
           i == IF JudgedLater(intent) THEN intent ELSE Normalize(intent)
           r == RenderClaude(model, intent, max)
<1>1. i \in Intents
  BY NormalizeOnce
<1>2. ("adaptive" \in can \/ "manual" \in can) /\ ("disable" \in can \/ "adaptive" \in can)
  BY ClaudeFamilies
<1> HIDE DEF can, i
<1>3. r = IF ~HasStrength(i) THEN RenderUnasked(can, i, max)
          ELSE IF Disabled(i) THEN RenderDisabled(can, i, max)
          ELSE IF "adaptive" \in can /\ ~PrefersManual(can, i) THEN RenderAdaptive(can, i, max)
          ELSE RenderManual(can, i, max)
  BY DEF RenderClaude, can, i
<1> HIDE DEF r
<1>4. CASE ~HasStrength(i)
  <2>1. r.thinking = {} \/ ("adaptive" \in can /\ r.thinking = ThinkingBlock("adaptive", {}, i.include))
    BY <1>3, <1>4 DEF RenderUnasked, ClaudeRender
  <2> QED
    BY <2>1, PlainBlocks DEF r, can
<1>5. CASE HasStrength(i) /\ Disabled(i)
  <2>1. \/ "disable" \in can /\ r.thinking = ThinkingBlock("disabled", {}, {})
        \/ "disable" \notin can /\ r.thinking = ThinkingBlock("adaptive", {}, i.include)
    BY <1>3, <1>5 DEF RenderDisabled, ClaudeRender
  <2> QED
    BY <1>2, <2>1, PlainBlocks DEF r, can
<1>6. CASE HasStrength(i) /\ ~Disabled(i) /\ "adaptive" \in can /\ ~PrefersManual(can, i)
  <2>1. r.thinking = {} \/ r.thinking = ThinkingBlock("adaptive", {}, i.include)
    BY <1>3, <1>6 DEF RenderAdaptive, ClaudeRender
  <2> QED
    BY <1>6, <2>1, PlainBlocks DEF r, can
<1>7. CASE HasStrength(i) /\ ~Disabled(i) /\ ("adaptive" \notin can \/ PrefersManual(can, i))
  <2>1. "manual" \in can
    BY <1>2, <1>7 DEF PrefersManual
  <2>2. r = RenderManual(can, i, max)
    BY <1>3, <1>7
  <2> QED
    BY <1>1, <2>1, <2>2, ManualFits DEF r, can
<1> QED
  BY <1>4, <1>5, <1>6, <1>7

-----------------------------------------------------------------------------
(* Gemini. *)

GeminiConfigs == [budget : Optional(Int), level : Efforts \union {""}, include : Optional(BOOLEAN)]

\* What a model takes of thinkingConfig: no control, a level it has, or a budget in
\* its range.
GeminiTakes(model, c) ==
    LET d == GeminiDialect(model)
    IN  /\ d.kind = "fixed"  => c.budget = {} /\ c.level = ""
        /\ d.kind = "level"  => c.budget = {} /\ (c.level = "" \/ LevelFor(model, c.level) = c.level)
        /\ d.kind = "budget" => c.level = "" /\ \A b \in c.budget : b = -1 \/ (b = 0 /\ d.disable) \/ b \in d.min..d.max

\* A model has no control, levels, a range of budgets that has the budget of every
\* effort, or is not known.
LEMMA GeminiFamilies ==
    ASSUME NEW model
    PROVE  LET d == GeminiDialect(model)
           IN  /\ d.kind \in {"fixed", "level", "budget", "unknown"}
               /\ d.min \in Int /\ d.max \in Int
               /\ d.kind = "budget" => d.min <= 1024 /\ 24576 <= d.max
BY DEF GeminiDialect, Dialect

\* What is clamped is dynamic or in the range.
LEMMA ClampedFits ==
    ASSUME NEW d, d.min \in Int, d.max \in Int, d.min <= d.max, NEW b \in Int
    PROVE  Clamped(b, d) = -1 \/ Clamped(b, d) \in d.min..d.max
BY DEF Clamped, Smaller, Larger

\* The level a model has for an effort is one it keeps.
LEMMA LevelIsKept ==
    ASSUME NEW model, NEW effort
    PROVE  LevelFor(model, LevelFor(model, effort)) = LevelFor(model, effort)
BY DEF LevelFor

\* The budget of an effort that thinks.
LEMMA EffortBudgets ==
    ASSUME NEW effort \in Efforts, effort # "none"
    PROVE  BudgetFor(effort) \in {1024, 8192, 24576}
BY DEF Efforts, BudgetFor

\* A budget made from an intent is in the range of the model.
LEMMA SpentFits ==
    ASSUME NEW model, GeminiDialect(model).kind = "budget", NEW i \in Intents, NEW max \in Optional(Nat)
    PROVE  LET d == GeminiDialect(model)
           IN  \A b \in SpentBudget(d, i, max) : b = -1 \/ (b = 0 /\ d.disable) \/ b \in d.min..d.max
<1> DEFINE d == GeminiDialect(model)
<1>1. d.min \in Int /\ d.max \in Int /\ d.min <= 1024 /\ 24576 <= d.max
  BY GeminiFamilies
<1> HIDE DEF d
<1>2. CASE Disabled(i)
  <2>1. SpentBudget(d, i, max) = {IF d.disable THEN 0 ELSE d.min}
    BY <1>2 DEF SpentBudget
  <2> QED
    BY <1>1, <2>1 DEF d
<1>3. CASE ~Disabled(i) /\ i.budget # {}
  <2>1. SpentBudget(d, i, max) = {Clamped(b, d) : b \in i.budget}
    BY <1>3 DEF SpentBudget
  <2>2. \A b \in i.budget : b \in Int
    BY IntentFields
  <2>3. \A b \in i.budget : Clamped(b, d) = -1 \/ Clamped(b, d) \in d.min..d.max
    BY <1>1, <2>2, ClampedFits
  <2> QED
    BY <2>1, <2>3 DEF d
<1>4. CASE ~Disabled(i) /\ i.budget = {} /\ i.effort # ""
  <2>1. SpentBudget(d, i, max) = {BudgetFor(i.effort)}
    BY <1>4 DEF SpentBudget
  <2>2. i.effort \in Efforts /\ i.effort # "none"
    BY <1>4, IntentFields DEF Disabled
  <2>3. BudgetFor(i.effort) \in {1024, 8192, 24576}
    BY <2>2, EffortBudgets
  <2>4. {1024, 8192, 24576} \subseteq d.min..d.max
    BY <1>1
  <2>5. BudgetFor(i.effort) \in d.min..d.max
    BY <2>3, <2>4
  <2> QED
    BY <2>1, <2>5 DEF d
<1>5. CASE ~Disabled(i) /\ i.budget = {} /\ i.effort = "" /\ i.mode # "unset"
  <2>1. SpentBudget(d, i, max) = {Clamped((6 * m + 5) \div 10, d) : m \in max \ {0}}
    BY <1>5 DEF SpentBudget
  <2>2. \A m \in max : m \in Nat
    BY DEF Optional
  <2>3. \A m \in Nat : (6 * m + 5) \div 10 \in Int
    OBVIOUS
  <2>4. \A m \in max : Clamped((6 * m + 5) \div 10, d) = -1 \/ Clamped((6 * m + 5) \div 10, d) \in d.min..d.max
    BY <1>1, <2>2, <2>3, ClampedFits
  <2> QED
    BY <2>1, <2>4 DEF d
<1>6. CASE ~Disabled(i) /\ i.budget = {} /\ i.effort = "" /\ i.mode = "unset"
  BY <1>6 DEF SpentBudget, d
<1> QED
  BY <1>2, <1>3, <1>4, <1>5, <1>6

\* Whatever a request asks of any Gemini model, the config it is sent is one the
\* model takes (reasoning.RenderGemini).
THEOREM GeminiIsAskedWhatItCan ==
    ASSUME NEW model, NEW intent \in Intents, NEW max \in Optional(Nat)
    PROVE  \A c \in RenderGemini(model, intent, max) : GeminiTakes(model, c)
<1> DEFINE i == Normalize(intent)
           d == GeminiDialect(model)
           shown == IF i.include = {} THEN {} ELSE {Config({}, "", i.include)}
<1>1. i \in Intents
  BY NormalizeOnce
<1>2. d.kind \in {"fixed", "level", "budget", "unknown"}
  BY GeminiFamilies
<1>3. \A c \in shown : c.budget = {} /\ c.level = ""
  <2> DEFINE bare == Config({}, "", i.include)
  <2>1. bare.budget = {} /\ bare.level = ""
    BY DEF Config
  <2> HIDE DEF bare
  <2>2. \A c \in shown : c = bare
    BY DEF bare
  <2> QED
    BY <2>1, <2>2
<1> SUFFICES ASSUME ~IsEmpty(i), NEW c \in RenderGemini(model, intent, max)
             PROVE  GeminiTakes(model, c)
  BY DEF RenderGemini
<1> HIDE DEF i, d, shown
<1>4. RenderGemini(model, intent, max) =
        CASE d.kind = "fixed"   -> IF d.include THEN shown ELSE {}
          [] d.kind = "unknown" -> shown
          [] d.kind = "budget"  -> {Config(SpentBudget(d, i, max), "", i.include)}
          [] d.kind = "level"   -> {Config({}, UsedLevel(model, i), i.include)}
  BY DEF RenderGemini, i, d, shown
<1>5. CASE d.kind \in {"fixed", "unknown"}
  <2>1. c \in shown
    BY <1>4, <1>5
  <2> QED
    BY <1>3, <1>5, <2>1 DEF GeminiTakes, d
<1>6. CASE d.kind = "budget"
  <2>1. c.budget = SpentBudget(d, i, max) /\ c.level = ""
    <3>1. c = Config(SpentBudget(d, i, max), "", i.include)
      BY <1>4, <1>6
    <3> QED
      BY ONLY <3>1 DEF Config
  <2>2. \A b \in SpentBudget(d, i, max) : b = -1 \/ (b = 0 /\ d.disable) \/ b \in d.min..d.max
    BY <1>1, <1>6, SpentFits DEF d
  <2> QED
    BY <1>6, <2>1, <2>2 DEF GeminiTakes, d
<1>7. CASE d.kind = "level"
  <2>1. c.budget = {} /\ c.level = UsedLevel(model, i)
    BY <1>4, <1>7 DEF Config
  <2>2. UsedLevel(model, i) = "" \/ LevelFor(model, UsedLevel(model, i)) = UsedLevel(model, i)
    BY LevelIsKept DEF UsedLevel
  <2> QED
    BY <1>7, <2>1, <2>2 DEF GeminiTakes, d
<1> QED
  BY <1>2, <1>5, <1>6, <1>7

-----------------------------------------------------------------------------
(* A native config of the client, merged with what it says to any model. *)

\* Merging two intents gives an intent.
LEMMA MergeFacts ==
    ASSUME NEW p \in Intents, NEW s \in Intents
    PROVE  MergeExplicit(p, s) \in Intents
<1> DEFINE a == Normalize(p)
           b == Normalize(s)
<1>1. a \in Intents /\ b \in Intents
  BY NormalizeOnce
<1> HIDE DEF a, b
<1>2. \A x, y : Either(x, y) \in {x, y}
  BY DEF Either
<1>3. [a EXCEPT !.include = Either(@, b.include)] \in Intents
  BY <1>1, <1>2 DEF Intents
<1>4. Union(a, b) \in Intents
  BY <1>1, <1>2 DEF Intents, Union, Intent
<1>5. Normalize(Union(a, b)) \in Intents
  BY <1>4, NormalizeOnce
<1>6. MergeExplicit(p, s) \in {a, b, [a EXCEPT !.include = Either(@, b.include)], Normalize(Union(a, b))}
  BY DEF MergeExplicit, a, b
<1> QED
  BY <1>1, <1>3, <1>5, <1>6

\* A config that makes sense gives an intent.
LEMMA NativeIntent ==
    ASSUME NEW config \in Optional(GeminiConfigs)
    PROVE  FromGemini(config) \in Intents
<1>1. CASE config = {}
  <2>1. GeminiStated(config) = NoIntent
    BY <1>1 DEF GeminiStated
  <2>2. NoIntent \in Intents
    BY DEF NoIntent, Intent, Intents, Modes, Optional
  <2> QED
    BY <2>1, <2>2, NormalizeOnce DEF FromGemini
<1>2. CASE \E c \in GeminiConfigs : config = {c}
  <2>1. PICK c \in GeminiConfigs : config = {c}
    BY <1>2
  <2>2. GeminiStated(config) = [EffortIntent(c.level, c.include) EXCEPT !.budget = c.budget]
    BY <2>1 DEF GeminiStated
  <2>3. /\ c.level \in Efforts \union {""} /\ c.include \in Optional(BOOLEAN)
        /\ c.budget \in Optional(Int) /\ {} \in Optional(Int)
    BY DEF GeminiConfigs, Optional
  <2>4. EffortIntent(c.level, c.include) \in Intents
    BY <2>3 DEF EffortIntent, Intent, Intents, Modes
  <2>5. GeminiStated(config) \in Intents
    BY <2>2, <2>3, <2>4 DEF Intents
  <2> QED
    BY <2>5, NormalizeOnce DEF FromGemini
<1> QED
  BY <1>1, <1>2 DEF Optional

\* The words a model has are efforts.
LEMMA LevelIsEffort ==
    ASSUME NEW model, NEW effort \in Efforts
    PROVE  LevelFor(model, effort) \in Efforts
BY DEF LevelFor, Efforts

\* What "enabled" comes to is an intent.
LEMMA EnabledDefaultFacts ==
    ASSUME NEW model, NEW i \in Intents
    PROVE  ResolveEnabledDefault(model, i) \in Intents
<1>1. {-1} \in Optional(Int)
  BY DEF Optional
<1>2. DefaultEffort(model) \in Efforts \union {""}
  BY DEF DefaultEffort, Efforts
<1>3. [i EXCEPT !.budget = {-1}] \in Intents /\ [i EXCEPT !.effort = DefaultEffort(model)] \in Intents
  BY <1>1, <1>2 DEF Intents
<1>4. ResolveEnabledDefault(model, i) \in
        {i, [i EXCEPT !.budget = {-1}], [i EXCEPT !.effort = DefaultEffort(model)]}
  BY DEF ResolveEnabledDefault
<1> QED
  BY <1>3, <1>4

\* A single control is left where the model's kind is known.
LEMMA OneControlFacts ==
    ASSUME NEW d, NEW written \in GeminiConfigs
    PROVE  /\ OneControl(d, written) \in GeminiConfigs
           /\ d.kind = "budget" => OneControl(d, written).budget = {} \/ OneControl(d, written).level = ""
           /\ d.kind = "level" => OneControl(d, written).budget = {} \/ OneControl(d, written).level = ""
<1>1. {} \in Optional(Int)
  BY DEF Optional
<1>2. /\ [written EXCEPT !.level = ""] \in GeminiConfigs /\ [written EXCEPT !.level = ""].level = ""
      /\ [written EXCEPT !.budget = {}] \in GeminiConfigs /\ [written EXCEPT !.budget = {}].budget = {}
  BY <1>1 DEF GeminiConfigs
<1> QED
  BY <1>2 DEF OneControl

\* A native budget becomes one of the model's.
LEMMA NativeBudgetFits ==
    ASSUME NEW d, d.min \in Int, d.max \in Int, d.min <= d.max, NEW b \in Int
    PROVE  LET n == NativeBudget(d, b) IN n \in Int /\ (n = -1 \/ (n = 0 /\ d.disable) \/ n \in d.min..d.max)
<1>1. CASE b < -1
  BY <1>1 DEF NativeBudget
<1>2. CASE b = 0
  BY <1>2 DEF NativeBudget
<1>3. CASE b >= -1 /\ b # 0
  <2>1. NativeBudget(d, b) = Clamped(b, d)
    BY <1>3 DEF NativeBudget
  <2> QED
    BY <2>1, ClampedFits
<1> QED
  BY <1>1, <1>2, <1>3

\* A native level, or the one of a budget, is an effort.
LEMMA NativeLevelFacts ==
    ASSUME NEW c \in GeminiConfigs
    PROVE  NativeLevel(c) \in Efforts \union {""}
<1>1. \A b : EffortFromBudget(b) \in Efforts
  BY DEF EffortFromBudget, Efforts
<1>2. c.level \in Efforts \union {""} /\ "minimal" \in Efforts
  BY DEF GeminiConfigs, Efforts
<1> QED
  BY <1>1, <1>2 DEF NativeLevel

\* Whatever a client wrote for Gemini, what is left of it is a config, and one the
\* model takes.
LEMMA NormalizedConfig ==
    ASSUME NEW model, NEW written \in GeminiConfigs
    PROVE  LET made == NormalizeConfig(model, {written})
           IN  made \in Optional(GeminiConfigs) /\ \A c \in made : GeminiTakes(model, c)
<1> DEFINE d == GeminiDialect(model)
           c == OneControl(d, written)
           words == IF c.level = "" THEN c.budget ELSE {BudgetFor(c.level)}
           level == IF NativeLevel(c) = "" THEN "" ELSE LevelFor(model, NativeLevel(c))
           made == NormalizeConfig(model, {written})
<1>1. d.kind \in {"fixed", "level", "budget", "unknown"} /\ d.min \in Int /\ d.max \in Int
      /\ (d.kind = "budget" => d.min <= d.max)
  BY GeminiFamilies
<1>2. c \in GeminiConfigs
  BY OneControlFacts
<1>3. made = CASE d.kind = "fixed"   -> IF d.include /\ c.include # {} THEN {Config({}, "", c.include)} ELSE {}
               [] d.kind = "unknown" -> {c}
               [] d.kind = "budget"  -> {Config({NativeBudget(d, b) : b \in words}, "", c.include)}
               [] d.kind = "level"   -> {Config({}, level, c.include)}
  BY DEF NormalizeConfig
<1>4. c.include \in Optional(BOOLEAN) /\ c.level \in Efforts \union {""}
      /\ (c.budget = {} \/ \E b \in Int : c.budget = {b}) /\ {} \in Optional(Int)
  BY <1>2 DEF GeminiConfigs, Optional
<1>5. words = {} \/ \E b \in Int : words = {b}
  <2>1. BudgetFor(c.level) \in Int
    BY DEF BudgetFor
  <2> QED
    BY <1>4, <2>1
<1>6. level \in Efforts \union {""} /\ (level = "" \/ LevelFor(model, level) = level)
  BY <1>2, NativeLevelFacts, LevelIsEffort, LevelIsKept
<1> HIDE DEF d, c, words, level, made
<1>7. CASE d.kind = "fixed"
  <2>1. made = {} \/ made = {Config({}, "", c.include)}
    BY <1>3, <1>7
  <2>2. Config({}, "", c.include) \in GeminiConfigs
    BY <1>4 DEF Config, GeminiConfigs
  <2>3. GeminiTakes(model, Config({}, "", c.include))
    BY <1>7 DEF Config, GeminiTakes, d
  <2> QED
    BY <2>1, <2>2, <2>3 DEF Optional, made
<1>8. CASE d.kind = "unknown"
  <2>1. made = {c}
    BY <1>3, <1>8
  <2>2. GeminiTakes(model, c)
    BY <1>8 DEF GeminiTakes, d
  <2> QED
    BY <1>2, <2>1, <2>2 DEF Optional, made
<1>9. CASE d.kind = "budget"
  <2> DEFINE budget == {NativeBudget(d, b) : b \in words}
             only   == Config(budget, "", c.include)
  <2>1. \A b \in Int : /\ NativeBudget(d, b) \in Int
                       /\ \/ NativeBudget(d, b) = -1 \/ (NativeBudget(d, b) = 0 /\ d.disable)
                          \/ NativeBudget(d, b) \in d.min..d.max
    BY <1>1, <1>9, NativeBudgetFits
  <2>2. /\ budget = {} \/ \E b \in Int : budget = {b}
        /\ \A b \in budget : b = -1 \/ (b = 0 /\ d.disable) \/ b \in d.min..d.max
    BY <1>5, <2>1
  <2>3. made = {only}
    BY <1>3, <1>9
  <2>4. only.budget = budget /\ only.level = "" /\ only.include = c.include
    BY DEF Config
  <2>5. budget \in Optional(Int)
    BY <2>2 DEF Optional
  <2> HIDE DEF budget
  <2>6. only \in GeminiConfigs
    BY <1>4, <2>5 DEF Config, GeminiConfigs
  <2> HIDE DEF only
  <2>7. GeminiTakes(model, only)
    BY <1>9, <2>2, <2>4 DEF GeminiTakes, d
  <2> QED
    BY <2>3, <2>6, <2>7 DEF Optional, made
<1>10. CASE d.kind = "level"
  <2> DEFINE only == Config({}, level, c.include)
  <2>1. made = {only}
    BY <1>3, <1>10
  <2>2. only \in GeminiConfigs
    BY <1>4, <1>6 DEF Config, GeminiConfigs
  <2>3. only.budget = {} /\ only.level = level
    BY DEF Config
  <2> HIDE DEF only
  <2>4. GeminiTakes(model, only)
    BY <1>6, <1>10, <2>3 DEF GeminiTakes, d
  <2> QED
    BY <2>1, <2>2, <2>4 DEF Optional, made
<1> QED
  BY <1>1, <1>7, <1>8, <1>9, <1>10 DEF made

\* Whatever a client wrote for Gemini, and whatever the request says to any model
\* beside it, the config it is sent is one the model takes
\* (shared/gemini ApplyThinkingConfig).
THEOREM ThinkingConfigFits ==
    ASSUME NEW model, NEW written \in Optional(GeminiConfigs), NEW source \in Intents, NEW max \in Optional(Nat)
    PROVE  \A c \in MergedConfig(model, NormalizeConfig(model, written), source, max).config : GeminiTakes(model, c)
<1> DEFINE config   == NormalizeConfig(model, written)
           native   == FromGemini(config)
           first    == NativeFirst(native, source)
           second   == SourceSecond(native, source)
           explicit == MergeExplicit(first, second)
           asked    == ResolveEnabledDefault(model, explicit)
<1>1. config \in Optional(GeminiConfigs) /\ \A c \in config : GeminiTakes(model, c)
  <2>1. CASE written = {}
    BY <2>1 DEF NormalizeConfig, Optional
  <2>2. CASE \E g \in GeminiConfigs : written = {g}
    BY <2>2, NormalizedConfig
  <2> QED
    BY <2>1, <2>2 DEF Optional
<1> HIDE DEF config
<1>2. native \in Intents
  BY <1>1, NativeIntent
<1> HIDE DEF native
<1>3. first \in Intents
  <2>1. Either(native.include, source.include) \in Optional(BOOLEAN)
    BY <1>2 DEF Either, Intents
  <2> QED
    BY <1>2, <2>1 DEF NativeFirst, Intents
<1>4. second \in Intents
  BY DEF SourceSecond, NoIntent, Intent, Intents, Modes, Optional
<1> HIDE DEF first, second
<1>5. explicit \in Intents
  BY <1>3, <1>4, MergeFacts
<1> HIDE DEF explicit
<1>6. asked \in Intents
  BY <1>5, EnabledDefaultFacts
<1>7. \A c \in RenderGemini(model, asked, max) : GeminiTakes(model, c)
  BY <1>6, GeminiIsAskedWhatItCan
<1>8. \A c \in config : GeminiTakes(model, [c EXCEPT !.include = Either(explicit.include, @)])
  <2>1. ASSUME NEW c \in config
        PROVE  GeminiTakes(model, [c EXCEPT !.include = Either(explicit.include, @)])
    <3> DEFINE k == [c EXCEPT !.include = Either(explicit.include, @)]
    <3>1. k.budget = c.budget /\ k.level = c.level
      BY <1>1 DEF GeminiConfigs, Optional
    <3> HIDE DEF k
    <3>2. GeminiTakes(model, k)
      BY <1>1, <3>1 DEF GeminiTakes
    <3> QED
      BY <3>2 DEF k
  <2> QED
    BY <2>1
<1>9. MergedConfig(model, config, source, max).config = ConfigFor(model, config, native, explicit, max)
  BY DEF MergedConfig, native, first, second, explicit
<1>10. \A c \in ConfigFor(model, config, native, explicit, max) : GeminiTakes(model, c)
  BY <1>1, <1>7, <1>8 DEF ConfigFor, asked
<1> QED
  BY <1>9, <1>10 DEF config

-----------------------------------------------------------------------------
(* Lists of tools. *)

\* Everything in the parts of a sequence is in the flat one, and nothing of another kind.
LEMMA FlatKeepsAll ==
    ASSUME NEW T, NEW parts \in Seq(Seq(T))
    PROVE  /\ FlattenSeq(parts) \in Seq(T)
           /\ \A i \in 1..Len(parts) : \A k \in 1..Len(parts[i]) :
                \E j \in 1..Len(FlattenSeq(parts)) : FlattenSeq(parts)[j] = parts[i][k]
<1> DEFINE n == Len(parts)
           step(f, i) == IF i = 1 THEN parts[i] ELSE f[i - 1] \o parts[i]
           flat == CHOOSE f : f = [i \in 1..n |-> step(f, i)]
           Has(list, m) == \A k \in 1..Len(parts[m]) : \E j \in 1..Len(list) : list[j] = parts[m][k]
<1>1. n \in Nat /\ \A i \in 1..n : parts[i] \in Seq(T)
  OBVIOUS
<1>2. CASE n = 0
  <2>1. FlattenSeq(parts) = parts /\ parts = <<>>
    BY <1>2 DEF FlattenSeq
  <2> QED
    BY <2>1
<1>3. CASE n # 0
  <2>1. FlattenSeq(parts) = flat[n]
    BY <1>3 DEF FlattenSeq
  <2>2. flat = [i \in 1..n |-> step(flat, i)]
    <3> DEFINE next == [i \in 1..n |-> [x \in Seq(T) |-> x \o parts[i]]]
    <3>1. next \in [1..n -> [Seq(T) -> Seq(T)]] /\ <<>> \in Seq(T)
      BY <1>1
    <3>2. PICK g : Counts(g, n, Seq(T), <<>>, next)
      <4> HIDE DEF next
      <4> QED
        BY <1>1, <3>1, Iterating
    <3> DEFINE h == [i \in 1..n |-> g[i]]
    <3>3. ASSUME NEW i \in 1..n
          PROVE  g[i] = step(h, i)
      <4>1. g[i - 1] \in Seq(T) /\ g[i] = g[i - 1] \o parts[i]
        <5>1. i - 1 \in 0..n
          BY <1>1
        <5>2. g[i - 1] \in Seq(T) /\ g[i] = next[i][g[i - 1]]
          <6> HIDE DEF next, n
          <6> QED
            BY <3>2, <5>1 DEF Counts
        <5> QED
          BY <5>2
      <4>2. CASE i = 1
        <5>1. g[0] = <<>> /\ i - 1 = 0
          BY <3>2, <4>2 DEF Counts
        <5>2. parts[i] \in Seq(T)
          BY <1>1
        <5>3. <<>> \o parts[i] = parts[i]
          BY <5>2
        <5> QED
          BY <4>1, <4>2, <5>1, <5>3
      <4>3. CASE i # 1
        <5>1. i - 1 \in 1..n /\ h[i - 1] = g[i - 1]
          BY <1>1, <4>3
        <5> QED
          BY <4>1, <4>3, <5>1
      <4> QED
        BY <4>2, <4>3
    <3>4. h = [i \in 1..n |-> step(h, i)]
      <4>1. h = [i \in 1..n |-> g[i]]
        OBVIOUS
      <4> HIDE DEF h, step
      <4> QED
        BY <3>3, <4>1
    <3> HIDE DEF h, step
    <3> QED
      BY <3>4
  <2> HIDE DEF flat
  <2> DEFINE P == {i \in 0..n : i # 0 => flat[i] \in Seq(T) /\ \A m \in 1..i : Has(flat[i], m)}
  <2>3. 0 \in P
    BY <1>1
  <2>4. ASSUME NEW i \in Nat, i < n, i \in P
        PROVE  i + 1 \in P
    <3>1. i + 1 \in 1..n /\ parts[i + 1] \in Seq(T) /\ flat[i + 1] = step(flat, i + 1)
      <4>1. i + 1 \in 1..n
        BY <1>1, <2>4
      <4> HIDE DEF step
      <4> QED
        BY <1>1, <2>2, <4>1
    <3>2. CASE i = 0
      <4>1. flat[1] = parts[1] /\ flat[1] \in Seq(T)
        BY <3>1, <3>2
      <4>2. Has(flat[1], 1)
        BY <4>1
      <4>3. \A m \in 1..1 : Has(flat[1], m)
        <5> HIDE DEF Has
        <5> QED
          BY <4>2
      <4> HIDE DEF Has
      <4> QED
        BY <3>1, <3>2, <4>1, <4>3
    <3>3. CASE i # 0
      <4> DEFINE old == flat[i]
                 new == flat[i + 1]
      <4>1. old \in Seq(T) /\ \A m \in 1..i : Has(old, m)
        <5> HIDE DEF Has
        <5> QED
          BY <2>4, <3>3
      <4>2. new = old \o parts[i + 1]
        <5>1. i + 1 # 1 /\ (i + 1) - 1 = i
          BY <2>4, <3>3
        <5> QED
          BY <3>1, <5>1
      <4> HIDE DEF old, new
      <4>3. new \in Seq(T) /\ Len(new) = Len(old) + Len(parts[i + 1])
            /\ (\A j \in 1..Len(old) : new[j] = old[j])
            /\ (\A k \in 1..Len(parts[i + 1]) : new[Len(old) + k] = parts[i + 1][k])
        BY <3>1, <4>1, <4>2
      <4>4. ASSUME NEW m \in 1..(i + 1)
            PROVE  Has(new, m)
        <5>1. CASE m = i + 1
          <6>1. \A k \in 1..Len(parts[m]) : Len(old) + k \in 1..Len(new)
            BY <3>1, <4>1, <4>3, <5>1
          <6> QED
            BY <4>3, <5>1, <6>1
        <5>2. CASE m # i + 1
          <6>1. m \in 1..i
            BY <5>2
          <6>2. Has(old, m)
            <7> HIDE DEF Has
            <7> QED
              BY <4>1, <6>1
          <6>3. \A j \in 1..Len(old) : j \in 1..Len(new)
            BY <3>1, <4>1, <4>3
          <6>4. ASSUME NEW k \in 1..Len(parts[m])
                PROVE  \E j \in 1..Len(new) : new[j] = parts[m][k]
            <7>1. PICK j \in 1..Len(old) : old[j] = parts[m][k]
              BY <6>2
            <7> QED
              BY <4>3, <6>3, <7>1
          <6> QED
            BY <6>4
        <5> QED
          BY <5>1, <5>2
      <4> HIDE DEF Has
      <4>5. i + 1 \in 0..n
        BY <1>1, <3>1
      <4> QED
        BY <4>3, <4>4, <4>5 DEF new
    <3> HIDE DEF P
    <3> QED
      BY <3>2, <3>3
  <2>5. n \in P
    <3>1. 0..n \subseteq P
      <4> HIDE DEF P
      <4> QED
        BY <1>1, <2>3, <2>4, CountingUp
    <3> HIDE DEF P
    <3> QED
      BY <1>1, <3>1
  <2>6. flat[n] \in Seq(T) /\ \A m \in 1..n : Has(flat[n], m)
    <3> HIDE DEF Has
    <3> QED
      BY <1>3, <2>5
  <2> QED
    BY <2>1, <2>6
<1> QED
  BY <1>2, <1>3

\* The options of a web search that a protocol has words for.
SearchWords(protocol) ==
    CASE protocol = "Chat"      -> {"context", "location"}
      [] protocol = "Responses" -> {"context", "location", "allowed", "external", "budget"}
      [] protocol = "Claude"    -> {"location", "allowed", "blocked", "max_uses", "callers", "inclusion"}
      [] protocol = "Gemini"    -> {}

\* The four readings of a tool.
LEMMA ResponsesReading ==
    ASSUME NEW t
    PROVE  LET d == ResponsesDefinition(t)
           IN  \/ d = Definition("function", "", t.name, t.options)
               \/ d = Definition("web_search", t.type, "",
                                 t.options \intersect {"context", "location", "allowed", "external", "budget"})
               \/ d = Definition(KindFromNativeType(t.type), t.type, "", {})
BY DEF ResponsesDefinition

LEMMA ChatReading ==
    ASSUME NEW t
    PROVE  LET d == ChatDefinition(t)
           IN  \/ d = Definition("function", "", t.name, t.options)
               \/ d \in PseudoHosted(t.name)
               \/ d = Definition("web_search", t.type, "", t.options \intersect {"context", "location"})
               \/ d = ResponsesDefinition(t)
<1>1. PseudoHosted(t.name) # {} => (CHOOSE p \in PseudoHosted(t.name) : TRUE) \in PseudoHosted(t.name)
  OBVIOUS
<1> QED
  BY <1>1 DEF ChatDefinition

LEMMA ClaudeReading ==
    ASSUME NEW t
    PROVE  LET d == ClaudeDefinition(t)
           IN  \/ d = Definition("function", "", t.name, t.options)
               \/ d = Definition("web_search", t.type, t.name,
                                 t.options \intersect {"location", "allowed", "blocked", "max_uses", "callers", "inclusion"})
               \/ d = Definition(KindFromNativeType(t.type), t.type, t.name, {})
BY DEF ClaudeDefinition, KnownClaudeSearch

LEMMA GeminiReading ==
    ASSUME NEW t
    PROVE  LET d == GeminiDefinition(t)
           IN  \/ d = Definition("function", "", t.name, {})
               \/ /\ t.type \in {"googleSearch", "googleSearchRetrieval", "enterpriseWebSearch"}
                  /\ d = Definition("web_search", t.type, "", t.options \intersect {"config"})
               \/ t.type = "codeExecution" /\ d = Definition("code_execution", t.type, "", {})
               \/ t.type = "urlContext" /\ d = Definition("url_context", t.type, "", {})
               \/ /\ t.type \notin {"codeExecution", "urlContext"}
                  /\ \E kind \in {"file_search", "computer", "native"} : d = Definition(kind, t.type, "", {})
<1> DEFINE of(kind) == Definition(kind, t.type, "", {})
           d == GeminiDefinition(t)
<1>1. CASE t.type \in {"function", "googleSearch", "googleSearchRetrieval", "enterpriseWebSearch", "codeExecution", "urlContext"}
  BY <1>1 DEF GeminiDefinition
<1>2. CASE t.type \notin {"function", "googleSearch", "googleSearchRetrieval", "enterpriseWebSearch", "codeExecution", "urlContext"}
  <2>1. d = of("file_search") \/ d = of("computer") \/ d = of("native")
    BY <1>2 DEF GeminiDefinition
  <2> HIDE DEF of, d
  <2>2. \E kind \in {"file_search", "computer", "native"} : d = of(kind)
    BY <2>1
  <2> QED
    BY <1>2, <2>2 DEF d, of
<1> QED
  BY <1>1, <1>2

\* A definition that can be read from a tool, by its kind.
LEMMA DefinitionFacts ==
    ASSUME NEW protocol \in Protocols, NEW t, ProperTool(protocol, t)
    PROVE  LET d == DefinitionOf(protocol, t)
           IN  /\ d.kind = "function" => /\ d.name = t.name /\ d.options \subseteq {"strict"}
                                         /\ protocol # "Chat" => PseudoHosted(d.name) = {}
               /\ d.kind = "web_search" =>
                    /\ d.options \subseteq (IF protocol = "Gemini" THEN {"config"} ELSE SearchOptions)
                    /\ protocol = "Gemini" /\ d.options # {} => NativeSearchNotes(d) # {}
               /\ d.kind \notin {"function", "web_search"} =>
                    /\ d.options = {}
                    /\ d.native = "codeExecution" => d.kind = "code_execution"
                    /\ d.native = "urlContext" => d.kind = "url_context"
<1> DEFINE d == DefinitionOf(protocol, t)
           Other(x) == /\ x.kind \notin {"function", "web_search"} /\ x.options = {}
                       /\ x.native = "codeExecution" => x.kind = "code_execution"
                       /\ x.native = "urlContext" => x.kind = "url_context"
           Search(x) == x.kind = "web_search" /\ x.options \subseteq SearchOptions
           Function(x) == x.kind = "function" /\ x.name = t.name /\ x.options \subseteq t.options
<1>1. KindFromNativeType(t.type) \notin {"function", "web_search"}
  BY DEF KindFromNativeType
<1>2. ASSUME protocol # "Gemini", NEW name
      PROVE  Other(Definition(KindFromNativeType(t.type), t.type, name, {}))
  BY <1>1, <1>2 DEF ProperTool, Definition
<1>3. \A name : Function(Definition("function", "", t.name, t.options)) /\ Function(Definition("function", "", t.name, {}))
  BY DEF Definition
<1>4. ASSUME NEW type, NEW name, NEW options, options \subseteq SearchOptions
      PROVE  Search(Definition("web_search", type, name, t.options \intersect options))
  BY <1>4 DEF Definition
<1>5. ASSUME protocol # "Gemini"
      PROVE  Function(d) \/ Search(d) \/ Other(d)
  <2>1. /\ {"context", "location", "allowed", "external", "budget"} \subseteq SearchOptions
        /\ {"context", "location"} \subseteq SearchOptions
        /\ {"location", "allowed", "blocked", "max_uses", "callers", "inclusion"} \subseteq SearchOptions
    BY DEF SearchOptions
  <2>2. \A p \in PseudoHosted(t.name) : Search(p) \/ Other(p)
    <3>1. \/ PseudoHosted(t.name) = {}
          \/ \E kind \in {"web_search", "code_execution", "url_context"} :
                /\ t.name = "codeExecution" => kind = "code_execution"
                /\ t.name = "urlContext" => kind = "url_context"
                /\ PseudoHosted(t.name) = {Definition(kind, t.name, t.name, {})}
      BY DEF PseudoHosted
    <3> QED
      BY <3>1 DEF Definition
  <2>3. d \in {ChatDefinition(t), ResponsesDefinition(t), ClaudeDefinition(t)}
    BY <1>5 DEF DefinitionOf, Protocols
  <2> HIDE DEF d, Function, Search, Other
  <2>4. LET x == ResponsesDefinition(t) IN Function(x) \/ Search(x) \/ Other(x)
    BY <1>2, <1>3, <1>4, <1>5, <2>1, ResponsesReading
  <2>5. LET x == ChatDefinition(t) IN Function(x) \/ Search(x) \/ Other(x)
    BY <1>3, <1>4, <2>1, <2>2, <2>4, ChatReading
  <2>6. LET x == ClaudeDefinition(t) IN Function(x) \/ Search(x) \/ Other(x)
    BY <1>2, <1>3, <1>4, <1>5, <2>1, ClaudeReading
  <2> QED
    BY <2>3, <2>4, <2>5, <2>6
<1>6. ASSUME protocol = "Gemini"
      PROVE  \/ Function(d) \/ Other(d)
             \/ d.kind = "web_search" /\ d.options \subseteq {"config"} /\ (d.options # {} => NativeSearchNotes(d) # {})
  <2>1. d = GeminiDefinition(t)
    BY <1>6 DEF DefinitionOf
  <2>2. ASSUME NEW type \in {"googleSearch", "googleSearchRetrieval", "enterpriseWebSearch"}
        PROVE  LET x == Definition("web_search", type, "", t.options \intersect {"config"})
               IN  x.kind = "web_search" /\ x.options \subseteq {"config"} /\ (x.options # {} => NativeSearchNotes(x) # {})
    BY <2>2 DEF Definition, NativeSearchNotes
  <2>3. \A kind \in {"file_search", "computer", "native"} :
            t.type \notin {"codeExecution", "urlContext"} => Other(Definition(kind, t.type, "", {}))
    BY DEF Definition
  <2>4. /\ Other(Definition("code_execution", "codeExecution", "", {}))
        /\ Other(Definition("url_context", "urlContext", "", {}))
    BY DEF Definition
  <2> HIDE DEF d, Function, Other
  <2> QED
    BY <1>3, <2>1, <2>2, <2>3, <2>4, GeminiReading
<1>7. d.kind = "function" => t.options \subseteq {"strict"} /\ (protocol # "Chat" => PseudoHosted(t.name) = {})
  BY DEF ProperTool
<1> HIDE DEF d
<1> QED
  BY <1>5, <1>6, <1>7 DEF d

\* A function is a function of that name in every protocol.
LEMMA FunctionIsSaid ==
    ASSUME NEW to \in Protocols, NEW d, d.kind = "function", d.options \subseteq {"strict"},
           to = "Chat" => PseudoHosted(d.name) = {}
    PROVE  LET made == DefinitionOf(to, FunctionTool(to, d))
           IN  /\ made.kind = "function" /\ made.name = d.name
               /\ made.options = IF to = "Gemini" THEN {} ELSE d.options
<1> DEFINE tool == FunctionTool(to, d)
<1>1. CASE to = "Chat"
  BY <1>1 DEF FunctionTool, Tool, DefinitionOf, ChatDefinition, Definition
<1>2. CASE to = "Responses"
  BY <1>2 DEF FunctionTool, Tool, DefinitionOf, ResponsesDefinition, Definition
<1>3. CASE to = "Claude"
  BY <1>3 DEF FunctionTool, Tool, DefinitionOf, ClaudeDefinition, Definition, KnownClaudeSearch
<1>4. CASE to = "Gemini"
  BY <1>4 DEF FunctionTool, Tool, DefinitionOf, GeminiDefinition, Definition
<1> QED
  BY <1>1, <1>2, <1>3, <1>4 DEF Protocols

\* A web search is a web search, with the options the protocol has words for.
LEMMA SearchIsSaid ==
    ASSUME NEW to \in Protocols, NEW d
    PROVE  LET made == DefinitionOf(to, SearchTool(to, d))
           IN  made.kind = "web_search" /\ made.options = d.options \intersect SearchWords(to)
<1>1. CASE to = "Chat"
  BY <1>1 DEF SearchTool, Tool, DefinitionOf, ChatDefinition, Definition, SearchWords
<1>2. CASE to = "Responses"
  BY <1>2 DEF SearchTool, Tool, DefinitionOf, ResponsesDefinition, Definition, SearchWords
<1>3. CASE to = "Claude"
  BY <1>3 DEF SearchTool, Tool, DefinitionOf, ClaudeDefinition, Definition, KnownClaudeSearch, SearchWords
<1>4. CASE to = "Gemini"
  BY <1>4 DEF SearchTool, Tool, DefinitionOf, GeminiDefinition, Definition, SearchWords
<1> QED
  BY <1>1, <1>2, <1>3, <1>4 DEF Protocols

\* What it has no words for, a note is about.
LEMMA SearchLossesCover ==
    ASSUME NEW to \in Protocols, NEW option \in SearchOptions
    PROVE  option \in SearchWords(to) \/ \E loss \in SearchLosses(to) : option \in loss[2]
<1>1. CASE to = "Chat"
  BY <1>1 DEF SearchWords, SearchLosses, SearchOptions
<1>2. CASE to = "Responses"
  BY <1>2 DEF SearchWords, SearchLosses, SearchOptions
<1>3. CASE to = "Claude"
  BY <1>3 DEF SearchWords, SearchLosses, SearchOptions
<1>4. CASE to = "Gemini"
  BY <1>4 DEF SearchWords, SearchLosses, SearchOptions
<1> QED
  BY <1>1, <1>2, <1>3, <1>4 DEF Protocols

\* A definition becomes one tool, or none; some of a kind become none.
LEMMA OneTool ==
    ASSUME NEW to, NEW d
    PROVE  /\ ToolFor(to, d) = <<>> \/ \E tool : ToolFor(to, d) = <<tool>>
           /\ d.kind = "function" => ToolFor(to, d) = <<FunctionTool(to, d)>>
           /\ d.kind = "web_search" => ToolFor(to, d) = <<SearchTool(to, d)>>
           /\ d.kind \notin {"function", "web_search"} =>
                ToolFor(to, d) = IF NativeGemini(to, d) THEN <<Tool(d.native, "", {})>> ELSE <<>>
BY DEF ToolFor

\* The one tool of a definition.
Becomes(to, d, tool) == ToolFor(to, d) = <<tool>>

ListsAll(to, definitions, list) ==
    \A i \in 1..Len(definitions) : \A tool : Becomes(to, definitions[i], tool) => \E j \in 1..Len(list) : list[j] = tool

LEMMA Single ==
    ASSUME NEW T, NEW x \in T
    PROVE  <<x>> \in Seq(T) /\ Len(<<x>>) = 1 /\ <<x>>[1] = x
OBVIOUS

\* The tool of every definition is in the list.
LEMMA ListedTools ==
    ASSUME NEW to, NEW D, NEW definitions \in Seq(D)
    PROVE  /\ \E T : ToolsFor(to, definitions) \in Seq(T)
           /\ ListsAll(to, definitions, ToolsFor(to, definitions))
<1> DEFINE n == Len(definitions)
           one(i) == ToolFor(to, definitions[i])
           T == {one(i)[1] : i \in 1..n}
           flat(places) == InOrder(to, definitions, places)
           Lists(list, i) == \A tool : one(i) = <<tool>> => \E j \in 1..Len(list) : list[j] = tool
           all == ToolsFor(to, definitions)
<1>1. n \in Nat /\ DOMAIN definitions = 1..n
  OBVIOUS
<1>2. ASSUME NEW i \in 1..n
      PROVE  one(i) \in Seq(T)
  <2>1. one(i) = <<>> \/ \E tool : one(i) = <<tool>>
    BY OneTool
  <2>2. one(i)[1] \in T
    OBVIOUS
  <2>3. ASSUME NEW tool, one(i) = <<tool>>
        PROVE  one(i) \in Seq(T)
    <3>1. one(i)[1] = tool
      BY <2>3
    <3> HIDE DEF one, T
    <3>2. tool \in T
      BY <2>2, <3>1
    <3>3. <<tool>> \in Seq(T)
      BY <3>2, Single
    <3> QED
      BY <2>3, <3>3
  <2>4. <<>> \in Seq(T)
    OBVIOUS
  <2> DEFINE it == one(i)
  <2>5. it = <<>> \/ \E tool : it = <<tool>>
    BY <2>1
  <2>6. \A tool : it = <<tool>> => it \in Seq(T)
    BY <2>3
  <2> HIDE DEF it, T
  <2>7. it \in Seq(T)
    BY <2>4, <2>5, <2>6
  <2> QED
    BY <2>7 DEF it
<1>3. ASSUME NEW places
      PROVE  flat(places) \in Seq(T) /\ \A i \in 1..n : i \in places => Lists(flat(places), i)
  <2> DEFINE parts == [i \in 1..n |-> IF i \in places THEN one(i) ELSE <<>>]
  <2>1. flat(places) = FlattenSeq(parts)
    BY <1>1 DEF InOrder
  <2>2. parts \in Seq(Seq(T)) /\ Len(parts) = n
    <3> HIDE DEF one, T, n
    <3>1. parts \in [1..n -> Seq(T)]
      BY <1>2
    <3> HIDE DEF parts
    <3> QED
      BY <1>1, <3>1
  <2>3. \A i \in 1..n : i \in places => parts[i] = one(i)
    OBVIOUS
  <2> HIDE DEF parts, T, n
  <2>4. /\ FlattenSeq(parts) \in Seq(T)
        /\ \A i \in 1..n : \A k \in 1..Len(parts[i]) : \E j \in 1..Len(FlattenSeq(parts)) : FlattenSeq(parts)[j] = parts[i][k]
    BY <2>2, FlatKeepsAll
  <2>5. ASSUME NEW i \in 1..n, i \in places
        PROVE  Lists(flat(places), i)
    <3> HIDE DEF one
    <3>1. SUFFICES ASSUME NEW tool, one(i) = <<tool>>
                   PROVE  \E j \in 1..Len(flat(places)) : flat(places)[j] = tool
      OBVIOUS
    <3>2. 1 \in 1..Len(parts[i]) /\ parts[i][1] = tool
      <4>1. parts[i] = <<tool>>
        BY <2>3, <2>5, <3>1
      <4>2. Len(<<tool>>) = 1 /\ <<tool>>[1] = tool
        BY Single
      <4> QED
        BY <4>1, <4>2
    <3> QED
      BY <2>1, <2>4, <3>2
  <2> HIDE DEF Lists
  <2> QED
    BY <2>1, <2>4, <2>5
<1> HIDE DEF T
<1>4. all \in Seq(T) /\ \A i \in 1..n : Lists(all, i)
  <2>1. CASE to # "Gemini"
    <3>1. all = flat(1..n)
      BY <1>1, <2>1 DEF ToolsFor
    <3> HIDE DEF all, flat, Lists, n
    <3> QED
      BY <1>3, <3>1
  <2>2. CASE to = "Gemini"
    <3> DEFINE functions == {i \in 1..n : definitions[i].kind = "function"}
               others == flat((1..n) \ functions)
               named  == flat(functions)
    <3>1. all = others \o named
      BY <1>1, <2>2 DEF ToolsFor
    <3>2. others \in Seq(T) /\ named \in Seq(T) /\ \A i \in 1..n : Lists(others, i) \/ Lists(named, i)
      <4> HIDE DEF flat, Lists, functions, n
      <4> QED
        BY <1>3
    <3> HIDE DEF all, others, named, n, one
    <3>3. all \in Seq(T) /\ Len(all) = Len(others) + Len(named)
          /\ (\A j \in 1..Len(others) : j \in 1..Len(all) /\ all[j] = others[j])
          /\ (\A j \in 1..Len(named) : Len(others) + j \in 1..Len(all) /\ all[Len(others) + j] = named[j])
      BY <3>1, <3>2
    <3>4. ASSUME NEW i \in 1..n
          PROVE  Lists(all, i)
      <4>1. CASE Lists(others, i)
        <5>1. ASSUME NEW tool, one(i) = <<tool>>
              PROVE  \E j \in 1..Len(all) : all[j] = tool
          <6>1. PICK j \in 1..Len(others) : others[j] = tool
            BY <4>1, <5>1
          <6> QED
            BY <3>3, <6>1
        <5> QED
          BY <5>1
      <4>2. CASE Lists(named, i)
        <5>1. ASSUME NEW tool, one(i) = <<tool>>
              PROVE  \E j \in 1..Len(all) : all[j] = tool
          <6>1. PICK j \in 1..Len(named) : named[j] = tool
            BY <4>2, <5>1
          <6> QED
            BY <3>3, <6>1
        <5> QED
          BY <5>1
      <4> QED
        BY <3>2, <4>1, <4>2
    <3> HIDE DEF Lists
    <3> QED
      BY <3>3, <3>4
  <2> QED
    BY <2>1, <2>2
<1> HIDE DEF all, n
<1> QED
  BY <1>1, <1>4 DEF all, n, Becomes, ListsAll

\* What the notes about a definition say of an option.
NotedOption(from, to, d, option) ==
    \/ \E loss \in SearchLosses(to) : option \in loss[2] /\ loss[1] \in ToolNotes(from, to, d)
    \/ option = "strict" /\ "unsupported_function_strict" \in ToolNotes(from, to, d)
    \/ option = "config" /\ ToolNotes(from, to, d) # {}

\* A tool realizes a definition but for the options that are noted.
SaidBy(from, to, d, tool) ==
    /\ Becomes(to, d, tool)
    /\ Realizes(DefinitionOf(to, tool), d)
    /\ \A option \in d.options : option \in DefinitionOf(to, tool).options \/ NotedOption(from, to, d, option)

\* A tool is said in the other protocol, or noted.
LEMMA SaidOrNoted ==
    ASSUME NEW from \in Protocols, NEW to \in Protocols, from # to, NEW t, ProperTool(from, t)
    PROVE  LET d == DefinitionOf(from, t)
           IN  (d.options = {} /\ ToolNotes(from, to, d) # {}) \/ \E tool : SaidBy(from, to, d, tool)
<1> DEFINE d == DefinitionOf(from, t)
<1>1. /\ d.kind = "function" => d.options \subseteq {"strict"} /\ (from # "Chat" => PseudoHosted(d.name) = {})
      /\ d.kind = "web_search" =>
            /\ d.options \subseteq (IF from = "Gemini" THEN {"config"} ELSE SearchOptions)
            /\ from = "Gemini" /\ d.options # {} => NativeSearchNotes(d) # {}
      /\ d.kind \notin {"function", "web_search"} =>
            /\ d.options = {}
            /\ d.native = "codeExecution" => d.kind = "code_execution"
            /\ d.native = "urlContext" => d.kind = "url_context"
  BY DefinitionFacts
<1> HIDE DEF d
<1>2. CASE d.kind = "function"
  <2> DEFINE tool == FunctionTool(to, d)
  <2>1. Becomes(to, d, tool)
    BY <1>2, OneTool DEF Becomes
  <2>2. /\ DefinitionOf(to, tool).kind = "function" /\ DefinitionOf(to, tool).name = d.name
        /\ DefinitionOf(to, tool).options = IF to = "Gemini" THEN {} ELSE d.options
    BY <1>1, <1>2, FunctionIsSaid
  <2>3. ASSUME to = "Gemini", NEW option \in d.options
        PROVE  NotedOption(from, to, d, option)
    BY <1>1, <1>2, <2>3 DEF NotedOption, ToolNotes
  <2> HIDE DEF tool
  <2>4. SaidBy(from, to, d, tool)
    BY <1>2, <2>1, <2>2, <2>3 DEF SaidBy, Realizes
  <2> QED
    BY <2>4 DEF d
<1>3. CASE d.kind = "web_search"
  <2> DEFINE tool == SearchTool(to, d)
  <2>1. Becomes(to, d, tool)
    BY <1>3, OneTool DEF Becomes
  <2>2. DefinitionOf(to, tool).kind = "web_search" /\ DefinitionOf(to, tool).options = d.options \intersect SearchWords(to)
    BY SearchIsSaid
  <2>3. ToolNotes(from, to, d) = {loss[1] : loss \in {l \in SearchLosses(to) : l[2] \intersect d.options # {}}}
                                 \union (IF from = "Gemini" THEN NativeSearchNotes(d) ELSE {})
    BY <1>3 DEF ToolNotes
  <2>4. ASSUME NEW option \in d.options
        PROVE  option \in DefinitionOf(to, tool).options \/ NotedOption(from, to, d, option)
    <3>1. CASE from = "Gemini"
      BY <1>1, <1>3, <2>3, <2>4, <3>1 DEF NotedOption
    <3>2. CASE from # "Gemini"
      <4>1. option \in SearchOptions
        BY <1>1, <1>3, <2>4, <3>2
      <4>2. option \in SearchWords(to) \/ \E loss \in SearchLosses(to) : option \in loss[2]
        BY <4>1, SearchLossesCover
      <4>3. ASSUME NEW loss \in SearchLosses(to), option \in loss[2]
            PROVE  loss[1] \in ToolNotes(from, to, d)
        BY <2>3, <2>4, <4>3
      <4> QED
        BY <2>2, <2>4, <4>2, <4>3 DEF NotedOption
    <3> QED
      BY <3>1, <3>2
  <2> HIDE DEF tool
  <2>5. SaidBy(from, to, d, tool)
    BY <1>3, <2>1, <2>2, <2>4 DEF SaidBy, Realizes
  <2> QED
    BY <2>5 DEF d
<1>4. CASE d.kind \notin {"function", "web_search"} /\ NativeGemini(to, d)
  <2> DEFINE tool == Tool(d.native, "", {})
  <2>1. Becomes(to, d, tool)
    BY <1>4, OneTool DEF Becomes
  <2>2. to = "Gemini" /\ d.native \in {"codeExecution", "urlContext"}
    BY <1>4 DEF NativeGemini
  <2>3. DefinitionOf(to, tool).kind = d.kind
    BY <1>1, <1>4, <2>2 DEF DefinitionOf, GeminiDefinition, Tool, Definition
  <2> HIDE DEF tool
  <2>4. SaidBy(from, to, d, tool)
    BY <1>1, <1>4, <2>1, <2>3 DEF SaidBy, Realizes
  <2> QED
    BY <2>4 DEF d
<1>5. CASE d.kind \notin {"function", "web_search"} /\ ~NativeGemini(to, d)
  <2>1. ToolNotes(from, to, d) = {OtherNote(from, to, d)}
    BY <1>5 DEF ToolNotes
  <2> QED
    BY <1>1, <1>5, <2>1 DEF d
<1> QED
  BY <1>2, <1>3, <1>4, <1>5

\* A request's list of tools.
ProperTools(protocol, tools) == \A i \in DOMAIN tools : ProperTool(protocol, tools[i])

\* So every tool of a list is among the upstream's, or noted at its place.
LEMMA ToolsAreKept ==
    ASSUME NEW from \in Protocols, NEW to \in Protocols, from # to,
           NEW U, NEW tools \in Seq(U), ProperTools(from, tools)
    PROVE  LET asked == Definitions(from, tools)
               made  == ToolsFor(to, asked)
               got   == Definitions(to, made)
           IN  \A i \in DOMAIN asked :
                  \/ asked[i].options = {} /\ ToolNotes(from, to, asked[i]) # {}
                  \/ \E j \in DOMAIN got : /\ Realizes(got[j], asked[i])
                                           /\ \A option \in asked[i].options :
                                                option \in got[j].options \/ NotedOption(from, to, asked[i], option)
<1> DEFINE asked == Definitions(from, tools)
           D == {asked[i] : i \in 1..Len(tools)}
           made == ToolsFor(to, asked)
           got == Definitions(to, made)
<1>1. DOMAIN asked = DOMAIN tools /\ \A i \in DOMAIN tools : asked[i] = DefinitionOf(from, tools[i])
  BY DEF Definitions
<1>2. asked \in Seq(D)
  <2>1. Len(tools) \in Nat /\ DOMAIN tools = 1..Len(tools)
    OBVIOUS
  <2>2. asked = [i \in 1..Len(tools) |-> DefinitionOf(from, tools[i])]
    BY <2>1 DEF Definitions
  <2>3. \A i \in 1..Len(tools) : asked[i] \in D
    OBVIOUS
  <2> DEFINE m == Len(tools)
  <2>4. asked = [i \in 1..m |-> DefinitionOf(from, tools[i])] /\ m \in Nat /\ \A i \in 1..m : asked[i] \in D
    BY <2>1, <2>2, <2>3
  <2> HIDE DEF asked, D, m
  <2>5. asked \in [1..m -> D]
    BY <2>4
  <2> QED
    BY <2>4, <2>5
<1> HIDE DEF D
<1>3. DOMAIN got = DOMAIN made /\ \A j \in DOMAIN made : got[j] = DefinitionOf(to, made[j])
  BY DEF Definitions
<1> HIDE DEF asked
<1>4. \A i \in DOMAIN asked : \A tool : Becomes(to, asked[i], tool) => \E j \in DOMAIN made : made[j] = tool
  <2>1. \A i \in 1..Len(asked) : \A tool : Becomes(to, asked[i], tool) => \E j \in 1..Len(made) : made[j] = tool
    <3>1. ListsAll(to, asked, made)
      BY <1>2, ListedTools
    <3> HIDE DEF made
    <3> QED
      BY <3>1 DEF ListsAll
  <2>2. DOMAIN asked = 1..Len(asked)
    BY <1>2
  <2>3. DOMAIN made = 1..Len(made)
    <3>1. \E T : made \in Seq(T)
      BY <1>2, ListedTools
    <3> HIDE DEF made
    <3> QED
      BY <3>1
  <2> HIDE DEF made
  <2> QED
    BY <2>1, <2>2, <2>3
<1> HIDE DEF asked, made, got
<1>5. ASSUME NEW i \in DOMAIN asked, NEW tool, SaidBy(from, to, asked[i], tool)
      PROVE  \E j \in DOMAIN got : /\ Realizes(got[j], asked[i])
                                   /\ \A option \in asked[i].options :
                                        option \in got[j].options \/ NotedOption(from, to, asked[i], option)
  <2>1. PICK j \in DOMAIN made : made[j] = tool
    BY <1>4, <1>5 DEF SaidBy
  <2>2. j \in DOMAIN got /\ got[j] = DefinitionOf(to, tool)
    BY <1>3, <2>1
  <2> QED
    BY <1>5, <2>2 DEF SaidBy
<1>6. ASSUME NEW i \in DOMAIN asked
      PROVE  (asked[i].options = {} /\ ToolNotes(from, to, asked[i]) # {}) \/ \E tool : SaidBy(from, to, asked[i], tool)
  <2>1. asked[i] = DefinitionOf(from, tools[i]) /\ ProperTool(from, tools[i])
    BY <1>1, <1>6 DEF ProperTools
  <2> QED
    BY <2>1, SaidOrNoted
<1> QED
  BY <1>5, <1>6 DEF asked, made, got

-----------------------------------------------------------------------------
(* The choice among them. *)

\* What a choice can mean.
MeantShape(m) ==
    \/ m.mode = "opaque"
    \/ m.mode \in {"auto", "none", "required"} /\ m.name = "" /\ m.kind # "web_search"
    \/ m.mode = "named" /\ (m.kind = "web_search" => m.name = "web_search")

\* The readings of a choice.
LEMMA ChoiceReading ==
    ASSUME NEW c, NEW definitions
    PROVE  /\ MeantBy("Chat", c, definitions) = ChatMeant(c)
           /\ MeantBy("Responses", c, definitions) = ResponsesMeant(c)
           /\ MeantBy("Claude", c, definitions) = ClaudeMeant(c, definitions)
           /\ MeantBy("Gemini", c, definitions) = GeminiMeant(c)
BY DEF MeantBy

LEMMA WordReading ==
    ASSUME NEW word
    PROVE  LET m == FromWord(word)
           IN  /\ word = "none" => m = Plainly("none")
               /\ word = "auto" => m = Plainly("auto")
               /\ word \in {"required", "any"} => m = Plainly("required")
               /\ word \notin {"none", "auto", "required", "any"} => m = Plainly("opaque")
BY DEF FromWord

LEMMA GeminiChoiceReading ==
    ASSUME NEW c
    PROVE  LET m == GeminiMeant(c)
           IN  /\ c.word = "NONE" => m = Plainly("none")
               /\ c.word \in {"", "AUTO"} => m = Plainly("auto")
               /\ c.word = "ANY" /\ (\E n \in c.names : c.names = {n}) =>
                    m = Meant("named", "function", CHOOSE n \in c.names : TRUE, {})
               /\ c.word = "ANY" /\ ~(\E n \in c.names : c.names = {n}) => m = Meant("required", "function", "", c.names)
               /\ c.word \notin {"NONE", "", "AUTO", "ANY"} => m = Plainly("opaque")
BY DEF GeminiMeant

LEMMA ResponsesChoiceReading ==
    ASSUME NEW c
    PROVE  LET m == ResponsesMeant(c)
           IN  /\ c.word = "function" => m = Meant("named", "function", c.name, {})
               /\ c.word \in {"web_search", "web_search_preview"} => m = Meant("named", "web_search", "web_search", {})
               /\ c.word \notin {"function", "web_search", "web_search_preview"} => m = FromWord(c.word)
BY DEF ResponsesMeant

LEMMA ClaudeChoiceReading ==
    ASSUME NEW c, NEW definitions
    PROVE  LET m == ClaudeMeant(c, definitions)
           IN  /\ c.word = "tool" => \E kind : m = Meant("named", kind, c.name, {})
               /\ c.word \in {"auto", "none", "any"} => m = FromWord(c.word)
               /\ c.word \notin {"tool", "auto", "none", "any"} => m = Plainly("opaque")
<1> DEFINE m == ClaudeMeant(c, definitions)
           kind == IF Namesakes(definitions, c.name) = {} THEN "native"
                   ELSE definitions[CHOOSE i \in Namesakes(definitions, c.name) : TRUE].kind
<1>1. /\ c.word = "tool" => m = Meant("named", kind, c.name, {})
      /\ c.word \in {"auto", "none", "any"} => m = FromWord(c.word)
      /\ c.word \notin {"tool", "auto", "none", "any"} => m = Plainly("opaque")
  BY DEF ClaudeMeant
<1> HIDE DEF m, kind
<1> QED
  BY <1>1 DEF m

\* A search of Claude's has a known type and its own name.
LEMMA ClaudeSearch ==
    ASSUME NEW t, ClaudeDefinition(t).kind = "web_search"
    PROVE  t.type \in KnownClaudeSearch /\ ClaudeDefinition(t).name = t.name
<1> DEFINE d == ClaudeDefinition(t)
           native == KindFromNativeType(t.type)
<1>1. t.type \notin KnownClaudeSearch =>
            d = Definition("function", "", t.name, t.options) \/ d = Definition(native, t.type, t.name, {})
  BY DEF ClaudeDefinition
<1>3. native # "web_search"
  BY DEF KindFromNativeType
<1>4. \E kind, type, options : d = Definition(kind, type, t.name, options)
  BY ClaudeReading
<1>5. d.kind = "web_search"
  OBVIOUS
<1> HIDE DEF d, native
<1>6. t.type \in KnownClaudeSearch
  <2>1. Definition("function", "", t.name, t.options).kind = "function" /\ Definition(native, t.type, t.name, {}).kind = native
    BY DEF Definition
  <2> QED
    BY <1>1, <1>3, <1>5, <2>1
<1>7. d.name = t.name
  BY <1>4 DEF Definition
<1> QED
  BY <1>6, <1>7 DEF d

LEMMA PlainShape ==
    ASSUME NEW mode \in {"opaque", "auto", "none", "required"}
    PROVE  MeantShape(Plainly(mode))
BY DEF MeantShape, Plainly, Meant

LEMMA NamedShape ==
    ASSUME NEW kind, NEW name, NEW names, kind = "web_search" => name = "web_search"
    PROVE  MeantShape(Meant("named", kind, name, names))
BY DEF MeantShape, Meant

LEMMA WordShape ==
    ASSUME NEW word
    PROVE  MeantShape(FromWord(word))
BY WordReading, PlainShape

LEMMA ChoiceShape ==
    ASSUME NEW from \in Protocols, NEW U, NEW tools \in Seq(U), NEW choice, Readable(from, tools, choice), NEW c \in choice
    PROVE  MeantShape(MeantBy(from, c, Definitions(from, tools)))
<1> DEFINE definitions == Definitions(from, tools)
<1>1. CASE from = "Chat"
  BY <1>1, WordShape, NamedShape, ChoiceReading DEF ChatMeant
<1>2. CASE from = "Responses"
  BY <1>2, WordShape, NamedShape, ChoiceReading, ResponsesChoiceReading
<1>3. CASE from = "Gemini"
  <2>1. MeantShape(Meant("required", "function", "", c.names))
    BY DEF MeantShape, Meant
  <2> DEFINE m == GeminiMeant(c)
             only == CHOOSE n \in c.names : TRUE
  <2>2. \/ m = Plainly("none") \/ m = Plainly("auto") \/ m = Plainly("opaque")
        \/ m = Meant("named", "function", only, {}) \/ m = Meant("required", "function", "", c.names)
    BY GeminiChoiceReading
  <2> HIDE DEF m, only
  <2>3. MeantShape(m)
    BY <2>1, <2>2, PlainShape, NamedShape
  <2> QED
    BY <1>3, <2>3, ChoiceReading DEF m
<1>4. CASE from = "Claude"
  <2>1. CASE c.word = "tool"
    <3> DEFINE places == Namesakes(definitions, c.name)
               chosen == CHOOSE i \in places : TRUE
               kind == IF places = {} THEN "native" ELSE definitions[chosen].kind
    <3>1. MeantBy(from, c, definitions) = Meant("named", kind, c.name, {})
      <4>1. ClaudeMeant(c, definitions) = Meant("named", kind, c.name, {})
        BY <2>1 DEF ClaudeMeant
      <4> QED
        BY <1>4, <4>1, ChoiceReading
    <3>2. ASSUME kind = "web_search"
          PROVE  c.name = "web_search"
      <4>1. chosen \in places /\ definitions[chosen].kind = "web_search"
        BY <3>2
      <4> HIDE DEF chosen
      <4>2. chosen \in DOMAIN tools /\ definitions[chosen] = ClaudeDefinition(tools[chosen]) /\ definitions[chosen].name = c.name
        <5>1. chosen \in DOMAIN definitions /\ definitions[chosen].name = c.name
          BY <4>1 DEF Namesakes
        <5>2. DOMAIN definitions = DOMAIN tools /\ \A i \in DOMAIN tools : definitions[i] = DefinitionOf(from, tools[i])
          BY DEF Definitions
        <5>3. \A t : DefinitionOf("Claude", t) = ClaudeDefinition(t)
          BY DEF DefinitionOf
        <5> HIDE DEF definitions
        <5> QED
          BY <1>4, <5>1, <5>2, <5>3
      <4>3. ClaudeReadable(tools[chosen])
        BY <1>4, <4>2 DEF Readable
      <4> HIDE DEF definitions
      <4> QED
        BY <4>1, <4>2, <4>3, ClaudeSearch DEF ClaudeReadable
    <3> HIDE DEF kind, definitions
    <3>3. MeantShape(Meant("named", kind, c.name, {}))
      BY <3>2, NamedShape
    <3> QED
      BY <3>1, <3>3 DEF definitions
  <2>2. CASE c.word # "tool"
    <3>1. MeantShape(Plainly("opaque"))
      BY PlainShape
    <3> QED
      BY <1>4, <2>2, <3>1, WordShape, ChoiceReading, ClaudeChoiceReading
  <2> QED
    BY <2>1, <2>2
<1> QED
  BY <1>1, <1>2, <1>3, <1>4 DEF Protocols

\* What is written of a choice does not depend on the names it is restricted to.
LEMMA ChoiceWriting ==
    ASSUME NEW to, NEW m
    PROVE  LET choice == ChoiceFor(to, m)
           IN  /\ m.mode = "opaque" => choice = {}
               /\ m.mode = "named" => choice = NamedFor(to, m)
               /\ m.mode \notin {"opaque", "named"} => choice = {Choice(WordFor(to, m.mode), "", {})}
BY DEF ChoiceFor

LEMMA NamedWriting ==
    ASSUME NEW to \in Protocols, NEW m
    PROVE  LET choice == NamedFor(to, m)
           IN  /\ m.kind = "function" =>
                    /\ to = "Gemini" => choice = {Choice("ANY", "", {m.name})}
                    /\ to = "Claude" => choice = {Choice("tool", m.name, {})}
                    /\ to \in {"Chat", "Responses"} => choice = {Choice("function", m.name, {})}
               /\ m.kind = "web_search" =>
                    /\ to = "Claude" => choice = {Choice("tool", m.name, {})}
                    /\ to = "Responses" => choice = {Choice("web_search", "", {})}
                    /\ to \in {"Chat", "Gemini"} => choice = {}
               /\ m.kind \notin {"function", "web_search"} => choice = {}
<1>1. CASE m.kind = "function"
  BY <1>1 DEF NamedFor
<1>2. CASE m.kind = "web_search"
  BY <1>2 DEF NamedFor
<1>3. CASE m.kind \notin {"function", "web_search"}
  BY <1>3 DEF NamedFor
<1> QED
  BY <1>1, <1>2, <1>3

LEMMA NamedForms ==
    ASSUME NEW to \in Protocols, NEW m, NEW c \in NamedFor(to, m)
    PROVE  /\ to = "Chat" => c = Choice("function", m.name, {})
           /\ to = "Responses" =>
                c = Choice("function", m.name, {}) \/ (m.kind = "web_search" /\ c = Choice("web_search", "", {}))
           /\ to = "Claude" => c = Choice("tool", m.name, {})
           /\ to = "Gemini" => c = Choice("ANY", "", {m.name})
<1> DEFINE choice == NamedFor(to, m)
<1>0. c \in choice
  OBVIOUS
<1>1. CASE m.kind = "function"
  <2>1. /\ to = "Gemini" => choice = {Choice("ANY", "", {m.name})}
        /\ to = "Claude" => choice = {Choice("tool", m.name, {})}
        /\ to \in {"Chat", "Responses"} => choice = {Choice("function", m.name, {})}
    BY <1>1, NamedWriting
  <2> DEFINE any == Choice("ANY", "", {m.name})
             tool == Choice("tool", m.name, {})
             named == Choice("function", m.name, {})
  <2>2. /\ to = "Gemini" => choice = {any}
        /\ to = "Claude" => choice = {tool}
        /\ to \in {"Chat", "Responses"} => choice = {named}
    BY <2>1
  <2> HIDE DEF choice, any, tool, named
  <2>3. /\ to = "Gemini" => c = any
        /\ to = "Claude" => c = tool
        /\ to = "Chat" => c = named
        /\ to = "Responses" => c = named
    BY <1>0, <2>2
  <2> QED
    BY <2>3 DEF any, tool, named
<1>2. CASE m.kind = "web_search"
  <2>1. /\ to = "Claude" => choice = {Choice("tool", m.name, {})}
        /\ to = "Responses" => choice = {Choice("web_search", "", {})}
        /\ to \in {"Chat", "Gemini"} => choice = {}
    BY <1>2, NamedWriting
  <2> HIDE DEF choice
  <2> QED
    BY <1>0, <1>2, <2>1 DEF Protocols
<1>3. CASE m.kind \notin {"function", "web_search"}
  <2>1. choice = {}
    BY <1>3, NamedWriting
  <2> HIDE DEF choice
  <2> QED
    BY <1>0, <2>1
<1> QED
  BY <1>1, <1>2, <1>3

LEMMA WordWriting ==
    ASSUME NEW to, NEW mode
    PROVE  LET word == WordFor(to, mode)
           IN  /\ to = "Gemini" => word = (IF mode = "auto" THEN "AUTO" ELSE IF mode = "none" THEN "NONE" ELSE "ANY")
               /\ to # "Gemini" => word = (IF to = "Claude" /\ mode = "required" THEN "any" ELSE mode)
<1>1. CASE to = "Gemini"
  BY <1>1 DEF WordFor
<1>2. CASE to # "Gemini"
  BY <1>2 DEF WordFor
<1> QED
  BY <1>1, <1>2

\* A choice is written alike whatever names come with it, and what is written is
\* read as the same choice.
LEMMA ChoiceIsSaid ==
    ASSUME NEW from, NEW to \in Protocols, NEW m, MeantShape(m), NEW definitions, NEW c \in ChoiceFor(to, m)
    PROVE  /\ MeantBy(to, c, definitions).mode = m.mode
           /\ MeantBy(to, c, definitions).name = m.name
           /\ MeantBy(to, c, definitions).names = {}
<1> DEFINE read == MeantBy(to, c, definitions)
           Is(x, mode, name) == x.mode = mode /\ x.name = name /\ x.names = {}
<1>1. m.mode # "opaque"
  BY ChoiceWriting
<1>2. \A mode : Is(Plainly(mode), mode, "")
  BY DEF Plainly, Meant
<1>3. \A kind, name : Is(Meant("named", kind, name, {}), "named", name)
  BY DEF Meant
<1>4. \A word, name, names : LET x == Choice(word, name, names) IN x.word = word /\ x.name = name /\ x.names = names
  BY DEF Choice
<1> HIDE DEF Is
<1>5. CASE m.mode \in {"auto", "none", "required"} /\ m.name = ""
  <2> DEFINE word == WordFor(to, m.mode)
  <2>1. c.word = word /\ c.names = {}
    <3>1. c = Choice(word, "", {})
      BY <1>5, ChoiceWriting
    <3> HIDE DEF word
    <3> QED
      BY <1>4, <3>1
  <2>2. \A mode \in {"auto", "none", "required"} : FromWord(mode) = Plainly(mode)
    BY WordReading
  <2>3. FromWord("any") = Plainly("required")
    BY WordReading
  <2>4. CASE to = "Chat"
    <3>1. word = m.mode
      BY <2>4, WordWriting
    <3>2. read = FromWord(m.mode)
      BY <1>5, <2>1, <2>4, <3>1, ChoiceReading DEF ChatMeant
    <3> QED
      BY <1>2, <1>5, <2>2, <3>2 DEF Is
  <2>5. CASE to = "Responses"
    <3>1. word = m.mode
      BY <2>5, WordWriting
    <3>2. read = FromWord(m.mode)
      BY <1>5, <2>1, <2>5, <3>1, ChoiceReading, ResponsesChoiceReading
    <3> QED
      BY <1>2, <1>5, <2>2, <3>2 DEF Is
  <2>6. CASE to = "Claude"
    <3>1. word = IF m.mode = "required" THEN "any" ELSE m.mode
      BY <2>6, WordWriting
    <3>2. word \in {"auto", "none", "any"}
      BY <1>5, <3>1
    <3>3. read = FromWord(word)
      <4> HIDE DEF word
      <4> QED
        BY <2>1, <2>6, <3>2, ChoiceReading, ClaudeChoiceReading
    <3>4. FromWord(word) = Plainly(m.mode)
      BY <1>5, <2>2, <2>3, <3>1
    <3> QED
      BY <1>2, <1>5, <3>3, <3>4 DEF Is
  <2>7. CASE to = "Gemini"
    <3>1. word = IF m.mode = "auto" THEN "AUTO" ELSE IF m.mode = "none" THEN "NONE" ELSE "ANY"
      BY <2>7, WordWriting
    <3>2. ~\E n \in c.names : c.names = {n}
      BY <2>1
    <3>3. read = IF m.mode = "required" THEN Meant("required", "function", "", c.names) ELSE Plainly(m.mode)
      BY <1>5, <2>1, <2>7, <3>1, <3>2, ChoiceReading, GeminiChoiceReading
    <3>4. Is(Meant("required", "function", "", {}), "required", "")
      BY DEF Is, Meant
    <3> QED
      BY <1>2, <1>5, <2>1, <3>3, <3>4 DEF Is
  <2> QED
    BY <2>4, <2>5, <2>6, <2>7 DEF Protocols
<1>6. CASE m.mode = "named" /\ (m.kind = "web_search" => m.name = "web_search")
  <2>1. c \in NamedFor(to, m)
    BY <1>6, ChoiceWriting
  <2>2. CASE to = "Chat"
    <3>1. c = Choice("function", m.name, {})
      BY <2>1, <2>2, NamedForms
    <3>2. read = Meant("named", "function", m.name, {})
      BY <1>4, <2>2, <3>1, ChoiceReading DEF ChatMeant
    <3> QED
      BY <1>3, <1>6, <3>2 DEF Is
  <2>3. CASE to = "Responses"
    <3>1. c = Choice("function", m.name, {}) \/ (m.name = "web_search" /\ c = Choice("web_search", "", {}))
      BY <1>6, <2>1, <2>3, NamedForms
    <3>2. CASE c = Choice("function", m.name, {})
      <4>1. read = Meant("named", "function", m.name, {})
        BY <1>4, <2>3, <3>2, ChoiceReading, ResponsesChoiceReading
      <4> QED
        BY <1>3, <1>6, <4>1 DEF Is
    <3>3. CASE m.name = "web_search" /\ c = Choice("web_search", "", {})
      <4>1. c.word = "web_search"
        BY <3>3 DEF Choice
      <4>2. read = Meant("named", "web_search", "web_search", {})
        BY <2>3, <4>1, ChoiceReading, ResponsesChoiceReading
      <4>3. Is(Meant("named", "web_search", "web_search", {}), "named", "web_search")
        BY <1>3
      <4> QED
        BY <1>6, <3>3, <4>2, <4>3 DEF Is
    <3> QED
      BY <3>1, <3>2, <3>3
  <2>4. CASE to = "Claude"
    <3>1. c = Choice("tool", m.name, {})
      BY <2>1, <2>4, NamedForms
    <3>2. \E kind : read = Meant("named", kind, m.name, {})
      BY <1>4, <2>4, <3>1, ChoiceReading, ClaudeChoiceReading
    <3> QED
      BY <1>3, <1>6, <3>2 DEF Is
  <2>5. CASE to = "Gemini"
    <3>1. c = Choice("ANY", "", {m.name})
      BY <2>1, <2>5, NamedForms
    <3>2. c.word = "ANY" /\ c.names = {m.name} /\ \E n \in c.names : c.names = {n}
      <4> DEFINE names == {m.name}
      <4>1. c.word = "ANY" /\ c.names = names
        <5>1. c = Choice("ANY", "", names)
          BY <3>1
        <5> HIDE DEF names
        <5> QED
          BY <5>1 DEF Choice
      <4>2. m.name \in names
        OBVIOUS
      <4> QED
        BY <4>1, <4>2
    <3>3. (CHOOSE n \in c.names : TRUE) = m.name
      BY <3>2
    <3>4. read = Meant("named", "function", m.name, {})
      BY <2>5, <3>2, <3>3, ChoiceReading, GeminiChoiceReading
    <3> QED
      BY <1>3, <1>6, <3>4 DEF Is
  <2> QED
    BY <2>2, <2>3, <2>4, <2>5 DEF Protocols
<1> QED
  BY <1>1, <1>5, <1>6 DEF MeantShape

LEMMA NarrowedIsSaidAlike ==
    ASSUME NEW to \in Protocols, NEW mode, NEW kind, NEW name, NEW names
    PROVE  ChoiceFor(to, Narrowed(Meant(mode, kind, name, names))) = ChoiceFor(to, Meant(mode, kind, name, names))
<1> DEFINE m == Meant(mode, kind, name, names)
           n == Narrowed(m)
<1>1. n.mode = m.mode /\ n.kind = m.kind /\ n.name = m.name
  BY DEF Narrowed, Meant
<1> HIDE DEF m, n
<1>2. NamedFor(to, n) = NamedFor(to, m)
  BY <1>1 DEF NamedFor
<1> QED
  BY <1>1, <1>2, ChoiceWriting DEF m, n

LEMMA ChoiceFields ==
    ASSUME NEW from \in Protocols, NEW c, NEW definitions
    PROVE  \E mode, kind, name, names : MeantBy(from, c, definitions) = Meant(mode, kind, name, names)
<1> DEFINE It(m) == \E mode, kind, name, names : m = Meant(mode, kind, name, names)
<1>1. \A mode, kind, name, names : It(Meant(mode, kind, name, names))
  OBVIOUS
<1>2. \A mode : It(Plainly(mode))
  BY DEF Plainly
<1> HIDE DEF It
<1>3. \A word : It(FromWord(word))
  BY <1>2, WordReading
<1>4. It(ChatMeant(c))
  BY <1>1, <1>3 DEF ChatMeant
<1>5. It(ResponsesMeant(c))
  BY <1>1, <1>3, ResponsesChoiceReading
<1>6. It(ClaudeMeant(c, definitions))
  BY <1>1, <1>2, <1>3, ClaudeChoiceReading
<1>7. It(GeminiMeant(c))
  <2> DEFINE m == GeminiMeant(c)
             only == CHOOSE n \in c.names : TRUE
  <2>1. \/ m = Plainly("none") \/ m = Plainly("auto") \/ m = Plainly("opaque")
        \/ m = Meant("named", "function", only, {}) \/ m = Meant("required", "function", "", c.names)
    BY GeminiChoiceReading
  <2> HIDE DEF m, only
  <2> QED
    BY <1>1, <1>2, <2>1 DEF m
<1>8. It(MeantBy(from, c, definitions))
  BY <1>4, <1>5, <1>6, <1>7, ChoiceReading DEF Protocols
<1> QED
  BY <1>8 DEF It

\* A choice that is narrowed, or not written at all, is noted.
LEMMA ChoiceIsNoted ==
    ASSUME NEW to, NEW m, m.names # {} \/ ChoiceFor(to, m) = {}
    PROVE  ChoiceNotes(to, m) # {}
<1> DEFINE written == ChoiceFor(to, m)
           rest == CASE written # {}                                   -> {}
                     [] written = {} /\ to = "Chat" /\ m.kind = "web_search" -> {"implicit_search_choice"}
                     [] OTHER                                          -> {"unsupported_tool_choice"}
<1>1. ChoiceNotes(to, m) = (IF m.names # {} THEN {"allowed_function_subset_unrepresentable"} ELSE {}) \union rest
  BY DEF ChoiceNotes
<1>2. written = {} => rest # {}
  <2> HIDE DEF written
  <2>1. ASSUME written = {}
        PROVE  rest = {"implicit_search_choice"} \/ rest = {"unsupported_tool_choice"}
    BY <2>1
  <2> HIDE DEF rest
  <2> QED
    BY <2>1
<1> HIDE DEF rest
<1> QED
  BY <1>1, <1>2

\* The choices of a request, as they are written for the upstream.
WrittenChoice(from, to, s) ==
    LET meantHere == {MeantBy(from, c, Definitions(from, s.tools)) : c \in s.choice}
    IN  IF to = "Claude" THEN ClaudeChoice(meantHere, s.parallel)
        ELSE UNION {ChoiceFor(to, Narrowed(m)) : m \in meantHere}

LEMMA ToolsOutcome ==
    ASSUME NEW from, NEW to, NEW s
    PROVE  LET out == ConvertTools(from, to, s)
               definitions == Definitions(from, s.tools)
           IN  /\ out.ok = (Readable(from, s.tools, s.choice) /\ Sayable(to, definitions))
               /\ out.tools = ToolsFor(to, definitions)
               /\ out.choice = WrittenChoice(from, to, s)
               /\ out.parallel = ParallelFor(to, WrittenChoice(from, to, s), s.parallel)
               /\ \A i \in DOMAIN definitions : \A code \in ToolNotes(from, to, definitions[i]) : <<i, code>> \in out.notes
               /\ \A c \in s.choice : \A code \in ChoiceNotes(to, MeantBy(from, c, definitions)) : <<0, code>> \in out.notes
               /\ to = "Gemini" /\ s.parallel = {FALSE} => <<0, "unsupported_parallel_tool_control">> \in out.notes
<1> DEFINE definitions == Definitions(from, s.tools)
           choice == WrittenChoice(from, to, s)
           ok == Readable(from, s.tools, s.choice) /\ Sayable(to, definitions)
           tools == ToolsFor(to, definitions)
           parallel == ParallelFor(to, choice, s.parallel)
           ofTools == UNION {{<<i, code>> : code \in ToolNotes(from, to, definitions[i])} : i \in DOMAIN definitions}
           ofChoice == UNION {{<<0, code>> : code \in ChoiceNotes(to, m)} : m \in {MeantBy(from, c, definitions) : c \in s.choice}}
           ofParallel == IF to = "Gemini" /\ s.parallel = {FALSE} THEN {<<0, "unsupported_parallel_tool_control">>} ELSE {}
           out == ConvertTools(from, to, s)
<1>2. \A i \in DOMAIN definitions : \A code \in ToolNotes(from, to, definitions[i]) : <<i, code>> \in ofTools
  OBVIOUS
<1>3. \A c \in s.choice : \A code \in ChoiceNotes(to, MeantBy(from, c, definitions)) : <<0, code>> \in ofChoice
  OBVIOUS
<1>4. to = "Gemini" /\ s.parallel = {FALSE} => <<0, "unsupported_parallel_tool_control">> \in ofParallel
  OBVIOUS
<1>5. /\ out.ok = ok
      /\ out.tools = tools
      /\ out.choice = choice
      /\ out.parallel = parallel
      /\ out.notes = ofTools \union ofChoice \union ofParallel
  <2>1. out.ok = ok
    BY DEF ConvertTools
  <2>2. out.tools = tools
    BY DEF ConvertTools
  <2>3. out.choice = choice
    BY DEF ConvertTools, WrittenChoice
  <2>4. out.parallel = parallel
    BY DEF ConvertTools, WrittenChoice
  <2>5. out.notes = ofTools \union ofChoice \union ofParallel
    BY DEF ConvertTools
  <2> QED
    BY <2>1, <2>2, <2>3, <2>4, <2>5
<1> HIDE DEF ok, tools, choice, parallel, ofTools, ofChoice, ofParallel, out
<1>6. ofTools \subseteq out.notes /\ ofChoice \subseteq out.notes /\ ofParallel \subseteq out.notes
  BY <1>5
<1> QED
  BY <1>2, <1>3, <1>4, <1>5, <1>6 DEF ok, tools, choice, parallel, out

\* The same, one field at a time.
LEMMA ToolsWritten ==
    ASSUME NEW from, NEW to, NEW s
    PROVE  ConvertTools(from, to, s).tools = ToolsFor(to, Definitions(from, s.tools))
BY ToolsOutcome

LEMMA ChoiceWritten ==
    ASSUME NEW from, NEW to, NEW s
    PROVE  LET choice == WrittenChoice(from, to, s)
           IN  ConvertTools(from, to, s).choice = choice /\ ConvertTools(from, to, s).parallel = ParallelFor(to, choice, s.parallel)
BY ToolsOutcome

LEMMA ToolsNoted ==
    ASSUME NEW from, NEW to, NEW s, NEW i \in DOMAIN Definitions(from, s.tools),
           NEW code \in ToolNotes(from, to, Definitions(from, s.tools)[i])
    PROVE  <<i, code>> \in ConvertTools(from, to, s).notes
BY ToolsOutcome

\* Every choice of a request is its upstream's, or noted.
LEMMA ChoiceIsKept ==
    ASSUME NEW from \in Protocols, NEW to \in Protocols,
           NEW s, NEW U, s.tools \in Seq(U), Readable(from, s.tools, s.choice),
           NEW c \in s.choice, NEW got
    PROVE  LET out == ConvertTools(from, to, s)
               m   == MeantBy(from, c, Definitions(from, s.tools))
           IN  (\E note \in out.notes : note[1] = 0) \/ \E g \in out.choice : SameChoice(m, MeantBy(to, g, got))
<1> DEFINE out == ConvertTools(from, to, s)
           m == MeantBy(from, c, Definitions(from, s.tools))
<1>1. out.choice = WrittenChoice(from, to, s)
  BY ToolsOutcome
<1>2. ASSUME ChoiceNotes(to, m) # {}
      PROVE  \E note \in out.notes : note[1] = 0
  <2>1. PICK code \in ChoiceNotes(to, m) : TRUE
    BY <1>2
  <2>2. <<0, code>> \in out.notes
    BY <2>1, ToolsOutcome
  <2>3. <<0, code>>[1] = 0
    OBVIOUS
  <2> HIDE DEF out
  <2> QED
    BY <2>2, <2>3
<1>3. MeantShape(m)
  BY ChoiceShape
<1>4. PICK mode, kind, name, names : m = Meant(mode, kind, name, names)
  BY ChoiceFields
<1>5. ChoiceFor(to, Narrowed(m)) = ChoiceFor(to, m)
  <2> HIDE DEF m
  <2> QED
    BY <1>4, NarrowedIsSaidAlike
<1>6. ASSUME NEW g \in ChoiceFor(to, m)
      PROVE  g \in out.choice
  <2> DEFINE meantHere == {MeantBy(from, x, Definitions(from, s.tools)) : x \in s.choice}
  <2>1. m \in meantHere
    OBVIOUS
  <2>2. WrittenChoice(from, to, s) = UNION {ChoiceFor(to, Narrowed(x)) : x \in meantHere}
    <3>1. meantHere # {}
      BY <2>1
    <3>2. WrittenChoice(from, to, s) = IF to = "Claude" THEN ClaudeChoice(meantHere, s.parallel)
                                       ELSE UNION {ChoiceFor(to, Narrowed(x)) : x \in meantHere}
      BY DEF WrittenChoice
    <3> HIDE DEF meantHere
    <3> QED
      BY <3>1, <3>2 DEF ClaudeChoice
  <2> HIDE DEF meantHere, out, m
  <2> QED
    BY <1>1, <1>5, <1>6, <2>1, <2>2
<1>7. CASE m.names # {} \/ ChoiceFor(to, m) = {}
  BY <1>2, <1>7, ChoiceIsNoted
<1>8. CASE m.names = {} /\ ChoiceFor(to, m) # {}
  <2>1. PICK g \in ChoiceFor(to, m) : TRUE
    BY <1>8
  <2>2. g \in out.choice
    BY <1>6, <2>1
  <2> DEFINE read == MeantBy(to, g, got)
  <2>3. read.mode = m.mode /\ read.name = m.name /\ read.names = {}
    <3> HIDE DEF m
    <3> QED
      BY <1>3, <2>1, ChoiceIsSaid
  <2> HIDE DEF m, out, read
  <2>4. SameChoice(m, read)
    BY <1>8, <2>3 DEF SameChoice
  <2> QED
    BY <2>2, <2>4 DEF m, out, read
<1> QED
  BY <1>7, <1>8

\* So is the wish for one call at a time.
LEMMA ParallelIsKept ==
    ASSUME NEW from \in Protocols, NEW to \in Protocols, NEW s, s.parallel = {FALSE}
    PROVE  LET out == ConvertTools(from, to, s)
           IN  out.parallel = {FALSE} \/ (\E note \in out.notes : note[1] = 0) \/ \E g \in out.choice : g.word = "none"
<1> DEFINE out == ConvertTools(from, to, s)
           choice == WrittenChoice(from, to, s)
           definitions == Definitions(from, s.tools)
           meantHere == {MeantBy(from, c, definitions) : c \in s.choice}
<1>1. out.choice = choice /\ out.parallel = ParallelFor(to, choice, s.parallel)
  BY ChoiceWritten
<1>2. CASE to = "Gemini"
  <2>1. <<0, "unsupported_parallel_tool_control">> \in out.notes
    BY <1>2, ToolsOutcome
  <2>2. <<0, "unsupported_parallel_tool_control">>[1] = 0
    OBVIOUS
  <2> HIDE DEF out
  <2> QED
    BY <2>1, <2>2 DEF out
<1>3. CASE to \in {"Chat", "Responses"}
  <2> DEFINE parallel == ParallelFor(to, choice, s.parallel)
  <2>1. parallel = s.parallel
    BY <1>3 DEF ParallelFor
  <2> HIDE DEF parallel, out
  <2> QED
    BY <1>1, <2>1 DEF parallel, out
<1>4. CASE to = "Claude"
  <2>1. CASE choice # {}
    <3> DEFINE parallel == ParallelFor(to, choice, s.parallel)
    <3> HIDE DEF choice
    <3>1. parallel = IF \E c \in choice : c.word # "none" THEN s.parallel ELSE {}
      BY <1>4 DEF ParallelFor
    <3> HIDE DEF parallel, out
    <3>2. parallel = s.parallel \/ \E g \in choice : g.word = "none"
      BY <2>1, <3>1
    <3> QED
      BY <1>1, <3>2 DEF parallel, out
  <2>2. CASE choice = {}
    <3>1. choice = ClaudeChoice(meantHere, s.parallel)
      BY <1>4 DEF WrittenChoice
    <3>2. meantHere # {}
      <4> SUFFICES ASSUME meantHere = {}
                   PROVE  FALSE
        OBVIOUS
      <4>1. choice = {Choice("auto", "", {})}
        <5> HIDE DEF choice, meantHere
        <5> QED
          BY <3>1 DEF ClaudeChoice
      <4> HIDE DEF choice
      <4> QED
        BY <2>2, <4>1
    <3>3. PICK c \in s.choice : TRUE
      BY <3>2
    <3> DEFINE m == MeantBy(from, c, definitions)
    <3>4. PICK mode, kind, name, names : m = Meant(mode, kind, name, names)
      BY ChoiceFields
    <3>5. ChoiceFor(to, m) = {}
      <4>1. choice = UNION {ChoiceFor("Claude", Narrowed(x)) : x \in meantHere}
        <5> HIDE DEF choice, meantHere
        <5> QED
          BY <3>1, <3>2 DEF ClaudeChoice
      <4>2. m \in meantHere
        BY <3>3
      <4>3. ChoiceFor(to, Narrowed(m)) = ChoiceFor(to, m)
        <5> HIDE DEF m
        <5> QED
          BY <3>4, NarrowedIsSaidAlike
      <4> HIDE DEF choice, meantHere, m
      <4> QED
        BY <1>4, <2>2, <4>1, <4>2, <4>3
    <3>6. PICK code \in ChoiceNotes(to, m) : TRUE
      BY <3>5, ChoiceIsNoted
    <3>7. <<0, code>> \in out.notes
      BY <3>3, <3>6, ToolsOutcome
    <3>8. <<0, code>>[1] = 0
      OBVIOUS
    <3> HIDE DEF out
    <3> QED
      BY <3>7, <3>8 DEF out
  <2> QED
    BY <2>1, <2>2
<1> QED
  BY <1>2, <1>3, <1>4 DEF Protocols

-----------------------------------------------------------------------------
(* max_tokens, stop sequences and the form of the answer. *)

Fields == DOMAIN Settings({}, {})

\* The record of a request, with the fields of one.
Carries(got, max, labels) == DOMAIN got = Fields /\ got.max = max /\ got.labels = labels

LEMMA PlainSettings ==
    ASSUME NEW max, NEW labels
    PROVE  Carries(Settings(max, labels), max, labels)
BY DEF Settings, Fields, Carries

LEMMA ChatSettings ==
    ASSUME NEW max, NEW labels, NEW intent
    PROVE  Carries(ApplyToOpenAIChat(Settings(max, labels), intent), max, labels)
<1> DEFINE s == Settings(max, labels)
           i == Normalize(intent)
           effort == EffectiveEffort(i)
           e == IF effort # "" THEN effort ELSE s.effort
           p == IF IsEmpty(i) THEN s.pivot ELSE {i}
<1>1. DOMAIN s = Fields /\ s.max = max /\ s.labels = labels
  BY PlainSettings DEF Carries
<1>2. ApplyToOpenAIChat(s, intent) = [s EXCEPT !.effort = e, !.pivot = p]
  <2> HIDE DEF s
  <2> QED
    BY DEF ApplyToOpenAIChat
<1>3. {"max", "labels"} \subseteq Fields
  BY DEF Fields, Settings
<1> HIDE DEF s, e, p
<1>4. Carries([s EXCEPT !.effort = e, !.pivot = p], max, labels)
  BY <1>1, <1>3 DEF Carries
<1> QED
  BY <1>2, <1>4 DEF s

LEMMA ResponsesSettings ==
    ASSUME NEW max, NEW labels, NEW intent
    PROVE  Carries(ApplyToOpenAIResponses(Settings(max, labels), intent), max, labels)
<1> DEFINE s == Settings(max, labels)
           effort == EffectiveEffort(intent)
           summary == IF effort = "none" \/ intent.include = {FALSE} THEN "" ELSE "detailed"
<1>1. DOMAIN s = Fields /\ s.max = max /\ s.labels = labels
  BY PlainSettings DEF Carries
<1>2. ApplyToOpenAIResponses(s, intent) = IF effort = "" THEN s ELSE [s EXCEPT !.effort = effort, !.summary = summary]
  <2> HIDE DEF s
  <2> QED
    BY DEF ApplyToOpenAIResponses
<1>3. {"max", "labels"} \subseteq Fields
  BY DEF Fields, Settings
<1> HIDE DEF s, effort, summary
<1>4. Carries([s EXCEPT !.effort = effort, !.summary = summary], max, labels) /\ Carries(s, max, labels)
  BY <1>1, <1>3 DEF Carries
<1> QED
  BY <1>2, <1>4 DEF s

\* max_tokens is what Claude is given, or it was raised.
LEMMA MaxArrives ==
    ASSUME NEW model, NEW intent, NEW m \in Int
    PROVE  LET r == RenderClaude(model, intent, {m})
           IN  r.max = {m} \/ "claude_max_tokens_raised" \in r.notes
<1> DEFINE Told(r) == r.max = {m} \/ "claude_max_tokens_raised" \in r.notes
           can == ClaudeCan(model)
<1>1. \A thinking, effort, sampling, notes : Told(ClaudeRender(thinking, effort, {m}, sampling, notes))
  BY DEF ClaudeRender
<1>2. ASSUME NEW i
      PROVE  Told(RenderUnasked(can, i, {m})) /\ Told(RenderDisabled(can, i, {m})) /\ Told(RenderAdaptive(can, i, {m}))
  <2> HIDE DEF Told, can
  <2>1. Told(RenderUnasked(can, i, {m}))
    BY <1>1 DEF RenderUnasked
  <2>2. Told(RenderDisabled(can, i, {m}))
    BY <1>1 DEF RenderDisabled
  <2>3. Told(RenderAdaptive(can, i, {m}))
    BY <1>1 DEF RenderAdaptive
  <2> QED
    BY <2>1, <2>2, <2>3
<1>3. ASSUME NEW given0
      PROVE  Told(RenderManual(can, given0, {m}))
  <2> DEFINE max == {m}
             i == IF given0.mode # "adaptive" THEN given0
                  ELSE [given0 EXCEPT !.mode = "enabled", !.effort = IF @ = "" THEN "high" ELSE @]
             room == RoomFor(i, max)
             budget == ManualBudget(i, room)
             thinking == ThinkingBlock("enabled", {budget}, i.include)
             effort == IF "effort" \in can /\ i.effort # "" THEN ClaudeEffort(i.effort, can) ELSE ""
             n1 == NoteIf(given0.mode = "adaptive", "claude_adaptive_to_manual")
             n2 == NoteIf(\A x \in max : x <= 1024, "claude_max_tokens_raised")
             n3 == NoteIf(\E b \in i.budget : b >= 0 /\ b # budget, "claude_budget_adjusted")
             n4 == NoteIf(\E b \in i.budget : b < 0, "claude_dynamic_budget_converted")
             notes == n1 \union n2 \union n3 \union n4
  <2>1. RenderManual(can, given0, max) = IF i.mode = "unset" THEN ClaudeRender({}, i.effort, max, "kept", {})
                                         ELSE ClaudeRender(thinking, effort, {room}, "constrained", notes)
    BY DEF RenderManual
  <2>2. CASE m > 1024
    <3>1. room = m
      BY <2>2 DEF RoomFor, The
    <3> HIDE DEF Told, can, i, thinking, effort, notes, room
    <3> QED
      BY <1>1, <2>1, <3>1
  <2>3. CASE m <= 1024
    <3>1. "claude_max_tokens_raised" \in notes
      <4>1. "claude_max_tokens_raised" \in n2
        BY <2>3 DEF NoteIf
      <4> HIDE DEF n1, n2, n3, n4
      <4> QED
        BY <4>1
    <3> HIDE DEF can, i, thinking, effort, notes, room
    <3>2. Told(ClaudeRender(thinking, effort, {room}, "constrained", notes))
      BY <3>1 DEF ClaudeRender
    <3> HIDE DEF Told
    <3> QED
      BY <1>1, <2>1, <3>2
  <2> QED
    BY <2>2, <2>3
<1> DEFINE i == IF JudgedLater(intent) THEN intent ELSE Normalize(intent)
           r == RenderClaude(model, intent, {m})
<1>4. \/ r = RenderUnasked(can, i, {m}) \/ r = RenderDisabled(can, i, {m})
      \/ r = RenderAdaptive(can, i, {m}) \/ r = RenderManual(can, i, {m})
  <2>1. CASE ~HasStrength(i)
    BY <2>1 DEF RenderClaude
  <2>2. CASE HasStrength(i) /\ Disabled(i)
    BY <2>2 DEF RenderClaude
  <2>3. CASE HasStrength(i) /\ ~Disabled(i)
    BY <2>3 DEF RenderClaude
  <2> QED
    BY <2>1, <2>2, <2>3
<1> HIDE DEF Told, can, i, r
<1>5. Told(r)
  BY <1>2, <1>3, <1>4
<1> QED
  BY <1>5 DEF Told, r

\* LeftBehind, whoever is talking.
LeavesBehind(from, to, label) ==
    \/ label = "stop" /\ (to = "Responses" \/ (from = "Gemini" /\ to = "Claude"))
    \/ label = "format" /\ (to = "Claude" \/ from = "Gemini")

Bounded(s, out) == Positive(s.max) # {} => out.got.max = s.max \/ "claude_max_tokens_raised" \in out.notes

\* What arrives of the settings that are not about tools.
Arrives(from, to, s, out) ==
    out.ok =>
        /\ DOMAIN out.got = Fields
        /\ \A label \in s.labels \intersect {"stop", "format"} :
                label \in FromStopList(out.got.labels) \/ LeavesBehind(from, to, label)
        /\ Bounded(s, out)

LEMMA OutcomeFields ==
    ASSUME NEW ok, NEW got, NEW notes
    PROVE  LET out == Outcome(ok, got, notes) IN out.ok = ok /\ out.got = got /\ out.notes = notes
BY DEF Outcome

\* Requests of which the other converters keep everything.
LEMMA Copied ==
    ASSUME NEW from, NEW to, NEW s, NEW got, NEW labels, NEW notes, NEW ok, Carries(got, s.max, labels),
           \A label \in s.labels \intersect {"stop", "format"} : label \in FromStopList(labels) \/ LeavesBehind(from, to, label)
    PROVE  Arrives(from, to, s, Outcome(ok, got, notes))
<1> DEFINE out == Outcome(ok, got, notes)
<1>1. out.got = got
  BY OutcomeFields
<1> HIDE DEF out
<1>2. Bounded(s, out)
  BY <1>1 DEF Bounded, Carries
<1>3. Arrives(from, to, s, out)
  BY <1>1, <1>2 DEF Arrives, Carries
<1> QED
  BY <1>3 DEF out

LEMMA NothingArrives ==
    ASSUME NEW from, NEW to, NEW s
    PROVE  Arrives(from, to, s, Refused)
BY DEF Arrives, Refused, Outcome


LEMMA ForClaudeKeeps ==
    ASSUME NEW s, s.max \in Optional(Int), NEW source, NEW notes, NEW named, NEW origin, NEW default
    PROVE  LET out == ForClaude(s, source, notes, named, origin, default)
           IN  /\ DOMAIN out.got = Fields
               /\ "stop" \in s.labels => "stop" \in out.got.labels
               /\ Bounded(s, out)
<1> DEFINE positive == Positive(s.max)
           sampling == s.labels \intersect SamplingLabels
           able == CapabilityModel(named, origin)
           i == ForModel(able, Normalize(source))
           r == RenderClaude(able, i, Allowed(able, i, positive, default))
           a == ApplyReasoning(named, origin, source, positive, sampling, default)
           max == IF a.max = {} THEN {default} ELSE a.max
           labels == a.sampling \union (s.labels \intersect {"stop"})
           got == [Settings(max, labels) EXCEPT !.thinking = a.thinking, !.effort = a.effort]
           out == ForClaude(s, source, notes, named, origin, default)
<1>1. out = Outcome(a.ok, got, notes \union a.notes)
  <2> HIDE DEF a, sampling, positive
  <2> QED
    BY DEF ForClaude, Reasoned, a, sampling, positive
<1>2. a.max = r.max /\ r.notes \subseteq a.notes
  <2> DEFINE left == KeptSampling(r.sampling, sampling)
             n1 == NormalizeNotes(source)
             n2 == NoteIf(left # sampling, "claude_sampling")
             ok == ~TooLarge(able, i, positive)
  <2>1. a = [ok |-> ok, thinking |-> r.thinking, effort |-> r.effort, max |-> r.max, sampling |-> left,
             notes |-> n1 \union r.notes \union n2]
    BY DEF ApplyReasoning
  <2> HIDE DEF a, r, left, n1, n2, ok
  <2>2. a.max = r.max /\ a.notes = n1 \union r.notes \union n2
    BY <2>1
  <2> QED
    BY <2>2
<1>3. Carries(got, max, labels)
  <2> DEFINE plain == Settings(max, labels)
  <2>1. Carries(plain, max, labels)
    BY PlainSettings
  <2>2. {"max", "labels"} \subseteq Fields
    BY DEF Fields, Settings
  <2>3. got = [plain EXCEPT !.thinking = a.thinking, !.effort = a.effort]
    OBVIOUS
  <2> HIDE DEF plain, got, max, labels, a
  <2> QED
    BY <2>1, <2>2, <2>3 DEF Carries
<1>4. out.got = got /\ out.notes = notes \union a.notes
  <2> HIDE DEF a, got, out
  <2> QED
    BY <1>1, OutcomeFields
<1>5. ASSUME Positive(s.max) # {}
      PROVE  out.got.max = s.max \/ "claude_max_tokens_raised" \in out.notes
  <2>1. PICK m \in Int : s.max = {m} /\ positive = {m}
    BY <1>5 DEF Positive, Optional
  <2>2. Allowed(able, i, positive, default) = positive
    <3> DEFINE x == Allowed(able, i, positive, default)
    <3> HIDE DEF able, i, positive
    <3>1. x = positive
      BY <2>1 DEF Allowed
    <3> QED
      BY <3>1
  <2>3. r = RenderClaude(able, i, {m})
    BY <2>1, <2>2
  <2> HIDE DEF able, i, positive
  <2>4. RenderClaude(able, i, {m}).max = {m} \/ "claude_max_tokens_raised" \in RenderClaude(able, i, {m}).notes
    BY MaxArrives
  <2> HIDE DEF r, a, out, labels
  <2>5. r.max = {m} \/ "claude_max_tokens_raised" \in r.notes
    BY <2>3, <2>4
  <2>6. CASE r.max = {m}
    <3>1. got.max = {m}
      BY <1>2, <1>3, <2>6 DEF Carries
    <3> HIDE DEF got
    <3> QED
      BY <1>4, <2>1, <3>1
  <2>7. CASE "claude_max_tokens_raised" \in r.notes
    <3> HIDE DEF got
    <3> QED
      BY <1>2, <1>4, <2>7
  <2> QED
    BY <2>5, <2>6, <2>7
<1>6. "stop" \in s.labels => "stop" \in labels
  OBVIOUS
<1> HIDE DEF out, got, labels, max
<1>7. DOMAIN out.got = Fields /\ ("stop" \in s.labels => "stop" \in out.got.labels) /\ Bounded(s, out)
  BY <1>3, <1>4, <1>5, <1>6 DEF Bounded, Carries
<1> QED
  BY <1>7 DEF out

LEMMA ToClaudeArrives ==
    ASSUME NEW from \in {"Chat", "Responses"}, NEW s, s.max \in Optional(Int), NEW named, NEW origin, NEW default
    PROVE  /\ Arrives(from, "Claude", s, ChatToClaudeSettings(s, named, origin, default))
           /\ Arrives(from, "Claude", s, ResponsesToClaudeSettings(s, named, origin, default))
<1>1. ASSUME NEW source, NEW notes
      PROVE  Arrives(from, "Claude", s, ForClaude(s, source, notes, named, origin, default))
  <2> DEFINE out == ForClaude(s, source, notes, named, origin, default)
  <2>1. DOMAIN out.got = Fields /\ ("stop" \in s.labels => "stop" \in out.got.labels) /\ Bounded(s, out)
    BY ForClaudeKeeps
  <2> HIDE DEF out
  <2>2. Arrives(from, "Claude", s, out)
    BY <2>1 DEF Arrives, FromStopList, LeavesBehind
  <2> QED
    BY <2>2 DEF out
<1>2. Arrives(from, "Claude", s, Refused)
  BY NothingArrives
<1> QED
  BY <1>1, <1>2 DEF ChatToClaudeSettings, ResponsesToClaudeSettings

LEMMA ToGeminiArrives ==
    ASSUME NEW from, NEW s, NEW model
    PROVE  /\ Arrives(from, "Gemini", s, ChatToGeminiSettings(s, model))
           /\ Arrives(from, "Gemini", s, ResponsesToGeminiSettings(s, model))
<1>1. ASSUME NEW labels, NEW r,
             \A label \in s.labels \intersect {"stop", "format"} : label \in FromStopList(labels)
      PROVE  Arrives(from, "Gemini", s, ForGemini(s, labels, r))
  <2> DEFINE plain == Settings(s.max, labels)
             got == [plain EXCEPT !.config = r.merged.config]
             notes == r.notes \union r.merged.notes
  <2>1. Carries(plain, s.max, labels)
    BY PlainSettings
  <2>2. {"max", "labels"} \subseteq Fields
    BY DEF Fields, Settings
  <2>3. ForGemini(s, labels, r) = Outcome(r.ok, got, notes)
    BY DEF ForGemini
  <2> HIDE DEF plain, notes
  <2>4. Carries(got, s.max, labels)
    BY <2>1, <2>2 DEF Carries
  <2> HIDE DEF got
  <2> QED
    BY <1>1, <2>3, <2>4, Copied
<1>2. Arrives(from, "Gemini", s, Refused)
  BY NothingArrives
<1>3. \A label \in s.labels \intersect {"stop", "format"} :
            label \in FromStopList(FromStopList(s.labels) \ {"top_k", "n"}) /\ label \in FromStopList(s.labels)
  BY DEF FromStopList
<1>4. Arrives(from, "Gemini", s, ChatToGeminiSettings(s, model))
  BY <1>1, <1>2, <1>3 DEF ChatToGeminiSettings
<1>5. Arrives(from, "Gemini", s, ResponsesToGeminiSettings(s, model))
  BY <1>1, <1>2, <1>3 DEF ResponsesToGeminiSettings
<1> QED
  BY <1>4, <1>5

LEMMA ToResponsesArrives ==
    ASSUME NEW from, NEW s, NEW origin
    PROVE  /\ Arrives(from, "Responses", s, ChatToResponsesSettings(s))
           /\ Arrives(from, "Responses", s, ClaudeToResponsesSettings(s, origin))
<1>1. ASSUME NEW labels, NEW intent, NEW notes, "format" \in s.labels => "format" \in labels
      PROVE  Arrives(from, "Responses", s, Outcome(TRUE, ApplyToOpenAIResponses(Settings(s.max, labels), intent), notes))
  <2> DEFINE got == ApplyToOpenAIResponses(Settings(s.max, labels), intent)
  <2>1. Carries(got, s.max, labels)
    BY ResponsesSettings
  <2>2. \A label \in s.labels \intersect {"stop", "format"} :
            label \in FromStopList(labels) \/ LeavesBehind(from, "Responses", label)
    BY <1>1 DEF FromStopList, LeavesBehind
  <2> HIDE DEF got
  <2>3. Arrives(from, "Responses", s, Outcome(TRUE, got, notes))
    BY <2>1, <2>2, Copied
  <2> QED
    BY <2>3 DEF got
<1>2. Arrives(from, "Responses", s, Refused)
  BY NothingArrives
<1>3. Arrives(from, "Responses", s, ChatToResponsesSettings(s))
  BY <1>1, <1>2 DEF ChatToResponsesSettings
<1>4. Arrives(from, "Responses", s, ClaudeToResponsesSettings(s, origin))
  BY <1>1, <1>2 DEF ClaudeToResponsesSettings
<1> QED
  BY <1>3, <1>4

LEMMA ToChatArrives ==
    ASSUME NEW from, NEW s, NEW origin
    PROVE  /\ Arrives(from, "Chat", s, ClaudeToChatSettings(s, origin))
           /\ Arrives(from, "Chat", s, ResponsesToChatSettings(s))
           /\ from = "Gemini" => Arrives(from, "Chat", s, GeminiToChatSettings(s, origin))
<1>1. ASSUME NEW labels, NEW intent, NEW notes,
             \A label \in s.labels \intersect {"stop", "format"} :
                label \in FromStopList(labels) \/ LeavesBehind(from, "Chat", label)
      PROVE  Arrives(from, "Chat", s, Outcome(TRUE, ApplyToOpenAIChat(Settings(s.max, labels), intent), notes))
  <2> DEFINE got == ApplyToOpenAIChat(Settings(s.max, labels), intent)
  <2>1. Carries(got, s.max, labels)
    BY ChatSettings
  <2> HIDE DEF got
  <2>2. Arrives(from, "Chat", s, Outcome(TRUE, got, notes))
    BY <1>1, <2>1, Copied
  <2> QED
    BY <2>2 DEF got
<1>2. Arrives(from, "Chat", s, Refused)
  BY NothingArrives
<1>3. \A label \in s.labels \intersect {"stop", "format"} : label \in FromStopList(s.labels)
  BY DEF FromStopList
<1>4. from = "Gemini" => \A label \in s.labels \intersect {"stop", "format"} :
            label \in FromStopList(ToStopList(s.labels \ {"format"})) \/ LeavesBehind(from, "Chat", label)
  BY DEF FromStopList, ToStopList, LeavesBehind
<1>5. Arrives(from, "Chat", s, ClaudeToChatSettings(s, origin))
  BY <1>1, <1>2, <1>3 DEF ClaudeToChatSettings
<1>6. Arrives(from, "Chat", s, ResponsesToChatSettings(s))
  BY <1>1, <1>2, <1>3 DEF ResponsesToChatSettings
<1>7. from = "Gemini" => Arrives(from, "Chat", s, GeminiToChatSettings(s, origin))
  BY <1>1, <1>2, <1>4 DEF GeminiToChatSettings
<1> QED
  BY <1>5, <1>6, <1>7

\* The first step of a route of two.
LEMMA ThroughChat ==
    ASSUME NEW s, NEW origin
    PROVE  /\ LET chat == ClaudeToChatSettings(s, origin) IN chat.ok => Carries(chat.got, s.max, s.labels)
           /\ LET chat == GeminiToChatSettings(s, origin)
              IN  chat.ok => Carries(chat.got, s.max, ToStopList(s.labels \ {"format"}))
<1>1. ~Refused.ok
  BY DEF Refused, Outcome
<1>2. ASSUME NEW labels, NEW intent, NEW notes
      PROVE  Carries(Outcome(TRUE, ApplyToOpenAIChat(Settings(s.max, labels), intent), notes).got, s.max, labels)
  <2> DEFINE got == ApplyToOpenAIChat(Settings(s.max, labels), intent)
  <2>1. Carries(got, s.max, labels)
    BY ChatSettings
  <2> HIDE DEF got
  <2>2. Outcome(TRUE, got, notes).got = got
    BY DEF Outcome
  <2> QED
    BY <2>1, <2>2 DEF got
<1>3. LET chat == ClaudeToChatSettings(s, origin) IN chat.ok => Carries(chat.got, s.max, s.labels)
  BY <1>1, <1>2 DEF ClaudeToChatSettings
<1>4. LET chat == GeminiToChatSettings(s, origin)
      IN  chat.ok => Carries(chat.got, s.max, ToStopList(s.labels \ {"format"}))
  BY <1>1, <1>2 DEF GeminiToChatSettings
<1> QED
  BY <1>3, <1>4

\* What both steps let through arrives.
LEMMA BothSteps ==
    ASSUME NEW from, NEW to, NEW s, NEW first, NEW second,
           first.ok => /\ Arrives("Chat", to, first.got, second)
                       /\ first.got.max = s.max
                       /\ \A label \in s.labels \intersect {"stop", "format"} :
                            label \in first.got.labels \/ LeavesBehind(from, to, label)
    PROVE  Arrives(from, to, s, Through(first, second))
<1> DEFINE notes == first.notes \union second.notes
           out == Through(first, second)
<1>1. CASE ~first.ok
  BY <1>1, NothingArrives DEF Through
<1>2. CASE first.ok
  <2>1. out = Outcome(second.ok, second.got, notes)
    BY <1>2 DEF Through
  <2>2. out.ok = second.ok /\ out.got = second.got /\ out.notes = notes
    BY <2>1, OutcomeFields
  <2>3. \A label : LeavesBehind("Chat", to, label) => LeavesBehind(from, to, label)
    BY DEF LeavesBehind
  <2>4. Bounded(first.got, second) /\ first.got.max = s.max => Bounded(s, out)
    <3> HIDE DEF out
    <3> QED
      BY <2>2 DEF Bounded, notes
  <2> HIDE DEF out, notes
  <2>5. Arrives(from, to, s, out)
    BY <1>2, <2>2, <2>3, <2>4 DEF Arrives
  <2> QED
    BY <2>5 DEF out
<1> QED
  BY <1>1, <1>2

LEMMA ClaudeToGeminiArrives ==
    ASSUME NEW s, NEW origin, NEW model
    PROVE  Arrives("Claude", "Gemini", s, ChatThenGemini(ClaudeToChatSettings(s, origin), model))
<1> DEFINE chat == ClaudeToChatSettings(s, origin)
<1>1. chat.ok => Carries(chat.got, s.max, s.labels)
  BY ThroughChat
<1> HIDE DEF chat
<1>2. Arrives("Chat", "Gemini", chat.got, ChatToGeminiSettings(chat.got, model))
  BY ToGeminiArrives
<1>3. Arrives("Claude", "Gemini", s, Through(chat, ChatToGeminiSettings(chat.got, model)))
  BY <1>1, <1>2, BothSteps DEF Carries
<1> QED
  BY <1>3 DEF ChatThenGemini, chat

LEMMA GeminiThroughChat ==
    ASSUME NEW s, s.max \in Optional(Int), NEW origin, NEW model, NEW default
    PROVE  /\ Arrives("Gemini", "Claude", s, ChatThenClaude(GeminiToChatSettings(s, origin), model, origin, default))
           /\ Arrives("Gemini", "Responses", s, ChatThenResponses(GeminiToChatSettings(s, origin)))
<1> DEFINE chat == GeminiToChatSettings(s, origin)
<1>1. chat.ok => Carries(chat.got, s.max, ToStopList(s.labels \ {"format"}))
  BY ThroughChat
<1> HIDE DEF chat
<1>2. \A label \in {"stop", "format"} : LeavesBehind("Gemini", "Claude", label) /\ LeavesBehind("Gemini", "Responses", label)
  BY DEF LeavesBehind
<1>3. ASSUME chat.ok
      PROVE  Arrives("Chat", "Claude", chat.got, ChatToClaudeSettings(chat.got, model, origin, default))
  <2>1. chat.got.max \in Optional(Int)
    BY <1>1, <1>3 DEF Carries
  <2> QED
    BY <2>1, ToClaudeArrives
<1>4. Arrives("Chat", "Responses", chat.got, ChatToResponsesSettings(chat.got))
  BY ToResponsesArrives
<1>5. Arrives("Gemini", "Claude", s, Through(chat, ChatToClaudeSettings(chat.got, model, origin, default)))
  BY <1>1, <1>2, <1>3, BothSteps DEF Carries
<1>6. Arrives("Gemini", "Responses", s, Through(chat, ChatToResponsesSettings(chat.got)))
  BY <1>1, <1>2, <1>4, BothSteps DEF Carries
<1> QED
  BY <1>5, <1>6 DEF ChatThenClaude, ChatThenResponses, chat

\* So it is on each of the twelve routes.
LEMMA SettingsArrive ==
    ASSUME NEW from \in Protocols, NEW to \in Protocols, from # to,
           NEW s, s.max \in Optional(Int), NEW origin, NEW model, NEW default
    PROVE  Arrives(from, to, s, ConvertSettings(from, to, origin, model, default, s))
<1> DEFINE out == ConvertSettings(from, to, origin, model, default, s)
<1>1. CASE from = "Chat"
  <2>1. CASE to = "Claude"
    <3>1. out = ChatToClaudeSettings(s, origin, origin, default)
      BY <1>1, <2>1 DEF ConvertSettings
    <3> QED
      BY <1>1, <2>1, <3>1, ToClaudeArrives
  <2>2. CASE to = "Gemini"
    <3>1. out = ChatToGeminiSettings(s, model)
      BY <1>1, <2>2 DEF ConvertSettings
    <3> QED
      BY <1>1, <2>2, <3>1, ToGeminiArrives
  <2>3. CASE to = "Responses"
    <3>1. out = ChatToResponsesSettings(s)
      BY <1>1, <2>3 DEF ConvertSettings
    <3> QED
      BY <1>1, <2>3, <3>1, ToResponsesArrives
  <2> QED
    BY <1>1, <2>1, <2>2, <2>3 DEF Protocols
<1>2. CASE from = "Claude"
  <2>1. CASE to = "Chat"
    <3>1. out = ClaudeToChatSettings(s, origin)
      BY <1>2, <2>1 DEF ConvertSettings
    <3> QED
      BY <1>2, <2>1, <3>1, ToChatArrives
  <2>2. CASE to = "Gemini"
    <3>1. out = ChatThenGemini(ClaudeToChatSettings(s, origin), model)
      BY <1>2, <2>2 DEF ConvertSettings
    <3> QED
      BY <1>2, <2>2, <3>1, ClaudeToGeminiArrives
  <2>3. CASE to = "Responses"
    <3>1. out = ClaudeToResponsesSettings(s, origin)
      BY <1>2, <2>3 DEF ConvertSettings
    <3> QED
      BY <1>2, <2>3, <3>1, ToResponsesArrives
  <2> QED
    BY <1>2, <2>1, <2>2, <2>3 DEF Protocols
<1>3. CASE from = "Gemini"
  <2>1. CASE to = "Chat"
    <3>1. out = GeminiToChatSettings(s, origin)
      BY <1>3, <2>1 DEF ConvertSettings
    <3> QED
      BY <1>3, <2>1, <3>1, ToChatArrives
  <2>2. CASE to = "Claude"
    <3>1. out = ChatThenClaude(GeminiToChatSettings(s, origin), model, origin, default)
      BY <1>3, <2>2 DEF ConvertSettings
    <3> QED
      BY <1>3, <2>2, <3>1, GeminiThroughChat
  <2>3. CASE to = "Responses"
    <3>1. out = ChatThenResponses(GeminiToChatSettings(s, origin))
      BY <1>3, <2>3 DEF ConvertSettings
    <3> QED
      BY <1>3, <2>3, <3>1, GeminiThroughChat
  <2> QED
    BY <1>3, <2>1, <2>2, <2>3 DEF Protocols
<1>4. CASE from = "Responses"
  <2>1. CASE to = "Chat"
    <3>1. out = ResponsesToChatSettings(s)
      BY <1>4, <2>1 DEF ConvertSettings
    <3> QED
      BY <1>4, <2>1, <3>1, ToChatArrives
  <2>2. CASE to = "Claude"
    <3>1. out = ResponsesToClaudeSettings(s, origin, origin, default)
      BY <1>4, <2>2 DEF ConvertSettings
    <3> QED
      BY <1>4, <2>2, <3>1, ToClaudeArrives
  <2>3. CASE to = "Gemini"
    <3>1. out = ResponsesToGeminiSettings(s, model)
      BY <1>4, <2>3 DEF ConvertSettings
    <3> QED
      BY <1>4, <2>3, <3>1, ToGeminiArrives
  <2> QED
    BY <1>4, <2>1, <2>2, <2>3 DEF Protocols
<1> QED
  BY <1>1, <1>2, <1>3, <1>4 DEF Protocols

-----------------------------------------------------------------------------
(* What a readable request says is an intent. *)

LEMMA MaybeFacts ==
    ASSUME NEW S, NEW T, Maybe(S, T)
    PROVE  S \in Optional(T)
BY DEF Maybe, Optional

LEMMA IntentIsOne ==
    ASSUME NEW mode \in Modes, NEW effort \in Efforts \union {""}, NEW budget \in Optional(Int),
           NEW include \in Optional(BOOLEAN)
    PROVE  Intent(mode, effort, budget, include) \in Intents
BY DEF Intent, Intents

LEMMA NoneIncluded ==
    /\ {} \in Optional(BOOLEAN) /\ {TRUE} \in Optional(BOOLEAN) /\ {FALSE} \in Optional(BOOLEAN)
    /\ {} \in Optional(Int)
BY DEF Optional

LEMMA WordIntent ==
    ASSUME NEW effort, Parses(effort), NEW include \in Optional(BOOLEAN)
    PROVE  EffortIntent(effort, include) \in Intents
<1>1. {} \in Optional(Int)
  BY DEF Optional
<1> QED
  BY <1>1 DEF EffortIntent, Intent, Intents, Modes, Parses

LEMMA NestedFacts ==
    ASSUME NEW n, Parses(n.effort), Maybe(n.max, Int), Maybe(n.exclude, BOOLEAN)
    PROVE  NestedIntent(n) \in Intents
<1> DEFINE mode == CASE n.effort = "none"                                -> "disabled"
                     [] n.effort # "none" /\ n.enabled = {TRUE}          -> "enabled"
                     [] n.effort # "none" /\ n.enabled = {FALSE}         -> "disabled"
                     [] n.effort \notin {"none", ""} /\ n.enabled = {}   -> "enabled"
                     [] OTHER                                            -> "unset"
           effort == IF n.effort = "" /\ n.enabled = {FALSE} THEN "none" ELSE n.effort
           include == {~x : x \in n.exclude}
<1>1. mode \in Modes
  BY DEF Modes
<1>2. effort \in Efforts \union {""}
  BY DEF Parses, Efforts
<1>3. include \in Optional(BOOLEAN)
  <2>1. CASE n.exclude = {}
    BY <2>1, NoneIncluded
  <2>2. CASE \E x \in BOOLEAN : n.exclude = {x}
    <3>1. PICK x \in BOOLEAN : n.exclude = {x}
      BY <2>2
    <3>2. include = {~x}
      BY <3>1
    <3> QED
      BY <3>2 DEF Optional
  <2> QED
    BY <2>1, <2>2 DEF Maybe
<1>4. n.max \in Optional(Int)
  BY MaybeFacts
<1>5. NestedIntent(n) = Intent(mode, effort, n.max, include)
  BY DEF NestedIntent
<1> HIDE DEF mode, effort, include
<1> QED
  BY <1>1, <1>2, <1>3, <1>4, <1>5, IntentIsOne

LEMMA StatedFacts ==
    ASSUME NEW chat, ReadableChat(chat), Maybe(chat.nested, chat.nested),
           \A n \in chat.nested : Maybe(n.max, Int) /\ Maybe(n.exclude, BOOLEAN)
    PROVE  Stated(chat) \in Intents
<1>1. EffortIntent(chat.effort, {}) \in Intents
  BY WordIntent, NoneIncluded DEF ReadableChat
<1>2. CASE chat.nested = {}
  BY <1>1, <1>2 DEF Stated
<1>3. CASE chat.nested # {}
  <2> DEFINE n == CHOOSE x \in chat.nested : TRUE
  <2>1. n \in chat.nested
    BY <1>3
  <2>2. Stated(chat) = MergeExplicit(EffortIntent(chat.effort, {}), NestedIntent(n))
    BY <1>3 DEF Stated
  <2> HIDE DEF n
  <2>3. NestedIntent(n) \in Intents
    BY <2>1, NestedFacts DEF ReadableChat
  <2> QED
    BY <1>1, <2>2, <2>3, MergeFacts
<1> QED
  BY <1>2, <1>3

LEMMA ChatIntent ==
    ASSUME NEW chat, ReadableChat(chat), Maybe(chat.nested, chat.nested),
           \A n \in chat.nested : Maybe(n.max, Int) /\ Maybe(n.exclude, BOOLEAN),
           chat.pivot = {} \/ \E i \in Intents : chat.pivot = {i}
    PROVE  FromOpenAIChat(chat) \in Intents
<1>1. Stated(chat) \in Intents
  BY StatedFacts
<1>2. CASE chat.pivot = {}
  BY <1>1, <1>2, NormalizeOnce DEF FromOpenAIChat
<1>3. CASE \E i \in Intents : chat.pivot = {i}
  <2>1. PICK i \in Intents : chat.pivot = {i}
    BY <1>3
  <2> DEFINE beside == StatedBeside(chat, i)
  <2>2. FromOpenAIChat(chat) = MergeExplicit(beside, i)
    BY <2>1 DEF FromOpenAIChat
  <2>3. beside \in Intents
    BY <1>1 DEF StatedBeside, Intents, Modes
  <2> HIDE DEF beside
  <2> QED
    BY <2>2, <2>3, MergeFacts
<1> QED
  BY <1>2, <1>3

\* A request written from an intent says that intent, to the converter that reads it.
LEMMA PassedOn ==
    ASSUME NEW max, NEW labels, NEW intent \in Intents
    PROVE  LET got == ApplyToOpenAIChat(Settings(max, labels), intent)
           IN  /\ got.nested = {} /\ got.config = {} /\ got.max = max
               /\ got.pivot = {} \/ got.pivot = {Normalize(intent)}
               /\ ReadableChat(got) /\ FromOpenAIChat(got) \in Intents
<1> DEFINE s == Settings(max, labels)
           i == Normalize(intent)
           effort == EffectiveEffort(i)
           e == IF effort # "" THEN effort ELSE s.effort
           p == IF IsEmpty(i) THEN s.pivot ELSE {i}
           got == ApplyToOpenAIChat(s, intent)
<1>1. s.nested = {} /\ s.config = {} /\ s.max = max /\ s.pivot = {} /\ {"nested", "config", "max", "pivot"} \subseteq DOMAIN s
  BY DEF Settings
<1>2. got = [s EXCEPT !.effort = e, !.pivot = p]
  <2> HIDE DEF s
  <2> QED
    BY DEF ApplyToOpenAIChat
<1>3. i \in Intents
  BY NormalizeOnce
<1>4. p = {} \/ p = {i}
  BY <1>1
<1>5. Parses(e)
  <2>1. Parses(effort)
    <3>1. \A b : EffortFromBudget(b) \in Efforts
      BY DEF EffortFromBudget, Efforts
    <3>2. Normalize(i) \in Intents
      BY <1>3, NormalizeOnce
    <3> DEFINE n == Normalize(i)
    <3>3. n.effort \in Efforts \union {""} /\ "none" \in Efforts /\ "high" \in Efforts
      BY <3>2 DEF Intents, Efforts
    <3>4. effort \in {"none", n.effort, "high", ""} \/ \E b : effort = EffortFromBudget(b)
      <4> HIDE DEF i
      <4>1. effort \in {"none", n.effort, EffortFromBudget(CHOOSE b \in n.budget : TRUE), "high", ""}
        BY DEF EffectiveEffort
      <4> QED
        BY <4>1
    <3> HIDE DEF n
    <3> QED
      BY <3>1, <3>3, <3>4 DEF Parses
  <2>2. s.effort = "" /\ Parses("")
    BY DEF Settings, Parses
  <2> QED
    BY <2>1, <2>2
<1>6. "effort" \in DOMAIN s
  BY DEF Settings
<1> HIDE DEF s, e, p, i, got
<1>7. got.nested = {} /\ got.config = {} /\ got.max = max /\ got.pivot = p /\ got.effort = e
  BY <1>1, <1>2, <1>6
<1>8. ReadableChat(got)
  BY <1>5, <1>7 DEF ReadableChat
<1>9. FromOpenAIChat(got) \in Intents
  BY <1>3, <1>4, <1>7, <1>8, ChatIntent DEF Maybe
<1> QED
  BY <1>4, <1>7, <1>8, <1>9 DEF got, s, i

LEMMA ResponsesIntent ==
    ASSUME NEW responses, Parses(responses.effort)
    PROVE  FromOpenAIResponses(responses) \in Intents
BY WordIntent, NoneIncluded, NormalizeOnce DEF FromOpenAIResponses

LEMMA ClaudeStatedFacts ==
    ASSUME NEW claude, Parses(claude.effort), Maybe(claude.thinking, claude.thinking),
           \A t \in claude.thinking : Maybe(t.budget, Int)
    PROVE  ClaudeStated(claude) \in Intents /\ FromClaude(claude) \in Intents
<1>1. CASE claude.thinking = {}
  <2>1. ClaudeStated(claude) = Intent("unset", claude.effort, {}, {})
    BY <1>1 DEF ClaudeStated
  <2>2. "unset" \in Modes /\ claude.effort \in Efforts \union {""}
    BY DEF Modes, Parses
  <2>3. ClaudeStated(claude) \in Intents
    BY <2>1, <2>2, IntentIsOne, NoneIncluded
  <2> QED
    BY <2>3, NormalizeOnce DEF FromClaude
<1>2. CASE claude.thinking # {}
  <2> DEFINE t == CHOOSE x \in claude.thinking : TRUE
             mode == IF t.type \in {"adaptive", "disabled"} THEN t.type ELSE "enabled"
             effort == IF claude.effort # "" THEN claude.effort ELSE IF t.type = "disabled" THEN "none" ELSE ""
  <2>1. t \in claude.thinking
    BY <1>2
  <2>2. ClaudeStated(claude) = Intent(mode, effort, t.budget, ShownAs(t.display))
    BY <1>2 DEF ClaudeStated
  <2>3. mode \in Modes
    BY DEF Modes
  <2>4. effort \in Efforts \union {""}
    BY DEF Parses, Efforts
  <2> HIDE DEF t, mode, effort
  <2>5. t.budget \in Optional(Int)
    BY <2>1, MaybeFacts
  <2>6. ShownAs(t.display) \in Optional(BOOLEAN)
    BY NoneIncluded DEF ShownAs
  <2>7. ClaudeStated(claude) \in Intents
    BY <2>2, <2>3, <2>4, <2>5, <2>6, IntentIsOne
  <2> QED
    BY <2>7, NormalizeOnce DEF FromClaude
<1> QED
  BY <1>1, <1>2

LEMMA ClaudeIntentFacts ==
    ASSUME NEW claude, Parses(claude.effort), Maybe(claude.thinking, claude.thinking),
           \A t \in claude.thinking : Maybe(t.budget, Int), NEW origin
    PROVE  ClaudeIntent(claude, origin) \in Intents
<1> DEFINE i == FromClaude(claude)
<1>1. i \in Intents
  BY ClaudeStatedFacts
<1>2. ClaudeIntent(claude, origin) = ResolveClaudeDefault(origin, i)
  BY DEF ClaudeIntent
<1> HIDE DEF i
<1>3. [i EXCEPT !.mode = "adaptive", !.effort = "high"] \in Intents
  BY <1>1 DEF Intents, Modes, Efforts
<1> QED
  BY <1>1, <1>2, <1>3 DEF ResolveClaudeDefault

LEMMA GeminiDefaultFacts ==
    ASSUME NEW model, NEW i \in Intents
    PROVE  ResolveGeminiDefault(model, i) \in Intents
<1>1. {-1} \in Optional(Int) /\ {0} \in Optional(Int)
  BY DEF Optional
<1>2. DefaultEffort(model) \in Efforts \union {""}
  BY DEF DefaultEffort, Efforts
<1>3. /\ [i EXCEPT !.mode = "disabled", !.effort = "none", !.budget = {0}] \in Intents
      /\ [i EXCEPT !.mode = "enabled", !.budget = {-1}] \in Intents
      /\ [i EXCEPT !.mode = "enabled", !.effort = DefaultEffort(model)] \in Intents
  BY <1>1, <1>2 DEF Intents, Modes, Efforts
<1>4. ResolveGeminiDefault(model, i) \in
        {i, [i EXCEPT !.mode = "disabled", !.effort = "none", !.budget = {0}], [i EXCEPT !.mode = "enabled", !.budget = {-1}],
         [i EXCEPT !.mode = "enabled", !.effort = DefaultEffort(model)]}
  BY DEF ResolveGeminiDefault
<1> QED
  BY <1>3, <1>4

-----------------------------------------------------------------------------
(* What a Claude upstream is given. *)

\* The models that take no control of sampling are those that think unless told not
\* to, or cannot be told; all of them have adaptive thinking.
LEMMA StrictFamilies ==
    ASSUME NEW model
    PROVE  LET can == ClaudeCan(model)
           IN  /\ "default" \in can \/ "disable" \notin can => "strict" \in can
               /\ "strict" \in can => "adaptive" \in can
BY DEF ClaudeCan

\* A budget turns thinking on or off.
LEMMA BudgetSpeaks ==
    ASSUME NEW i \in Intents, Normalize(i).budget # {}
    PROVE  Normalize(i).mode # "unset"
<1> DEFINE f == Floored(i)
           n == Normalize(i)
<1>1. f \in Intents
  BY FlooredFacts
<1>2. n = Settle(f) /\ n.budget = f.budget
  BY <1>1, SettleFacts DEF Normalize
<1> HIDE DEF f, n
<1>3. PICK b \in Int : f.budget = {b}
  BY <1>1, <1>2, IntentFields DEF n
<1>4. (0 \in f.budget <=> b = 0) /\ (Spends(f) <=> b # 0)
  BY <1>3 DEF Spends
<1>5. DOMAIN f = {"mode", "effort", "budget", "include"}
  BY <1>1 DEF Intents
<1>6. Settle(f).mode # "unset"
  <2>1. CASE b = 0
    BY <1>4, <1>5, <2>1 DEF Settle
  <2>2. CASE b # 0 /\ Disabled(f)
    <3>1. Settle(f) = [f EXCEPT !.mode = "enabled", !.effort = ""]
      BY <1>3, <1>4, <2>2 DEF Settle
    <3> QED
      BY <1>5, <3>1
  <2>3. CASE b # 0 /\ ~Disabled(f)
    <3>1. Settle(f) = IF f.mode = "unset" THEN [f EXCEPT !.mode = "enabled"] ELSE f
      BY <1>3, <1>4, <2>3 DEF Settle
    <3> QED
      BY <1>5, <3>1
  <2> QED
    BY <2>1, <2>2, <2>3
<1> QED
  BY <1>2, <1>6 DEF n

\* What happens to sampling, next to what happens to thinking.
Consistently(can, thinking, sampling) ==
    /\ sampling \in {"removed", "constrained", "kept"}
    /\ (\E t \in thinking : t.type # "disabled") => sampling # "kept"
    /\ "strict" \in can /\ (\A t \in thinking : t.type # "enabled") => sampling = "removed"

LEMMA SamplingFollows ==
    ASSUME NEW model, NEW intent \in Intents, NEW max \in Optional(Nat)
    PROVE  LET r == RenderClaude(model, intent, max)
           IN  /\ Consistently(ClaudeCan(model), r.thinking, r.sampling)
               /\ r.max = max \/ \E room \in Int : room > 1024 /\ r.max = {room}
<1> DEFINE can == ClaudeCan(model)
           i == IF JudgedLater(intent) THEN intent ELSE Normalize(intent)
           r == RenderClaude(model, intent, max)
           Fits(x) == /\ Consistently(can, x.thinking, x.sampling)
                      /\ x.max = max \/ \E room \in Int : room > 1024 /\ x.max = {room}
<1>1. i \in Intents
  BY NormalizeOnce
<1>2. ~Disabled(i) /\ i.budget # {} => i.mode # "unset"
  <2>1. JudgedLater(intent) => i = intent /\ Disabled(i)
    BY DEF JudgedLater, Disabled
  <2>2. ~JudgedLater(intent) => i = Normalize(intent)
    OBVIOUS
  <2> HIDE DEF i
  <2> QED
    BY <2>1, <2>2, BudgetSpeaks
<1>3. ("default" \in can \/ "disable" \notin can => "strict" \in can) /\ ("strict" \in can => "adaptive" \in can)
  BY StrictFamilies
<1>4. ("strict" \in can => Sampling(can) = "removed") /\ Sampling(can) \in {"removed", "kept"}
  BY DEF Sampling
<1>5. /\ \A type, budget, include : \A t \in ThinkingBlock(type, budget, include) : t.type = type
      /\ \A type, budget, include : ThinkingBlock(type, budget, include) # {}
  BY DEF ThinkingBlock
<1> HIDE DEF can, i
<1>6. r = IF ~HasStrength(i) THEN RenderUnasked(can, i, max)
          ELSE IF Disabled(i) THEN RenderDisabled(can, i, max)
          ELSE IF "adaptive" \in can /\ ~PrefersManual(can, i) THEN RenderAdaptive(can, i, max)
          ELSE RenderManual(can, i, max)
  BY DEF RenderClaude, can, i
<1> HIDE DEF r
<1>7. \A thinking, effort, sampling, notes :
        LET x == ClaudeRender(thinking, effort, max, sampling, notes)
        IN  x.thinking = thinking /\ x.sampling = sampling /\ x.max = max
  BY DEF ClaudeRender
<1>8. \A sampling \in {"removed", "constrained", "kept"} :
        ("strict" \in can => sampling = "removed") => Consistently(can, {}, sampling)
  BY DEF Consistently
<1>9. CASE ~HasStrength(i)
  <2> DEFINE x == RenderUnasked(can, i, max)
  <2>1. /\ x.sampling = Sampling(can) /\ x.max = max
        /\ x.thinking = {} \/ ("default" \in can /\ x.thinking = ThinkingBlock("adaptive", {}, i.include))
    BY DEF RenderUnasked, ClaudeRender
  <2> HIDE DEF x
  <2>2. Consistently(can, x.thinking, x.sampling)
    BY <1>3, <1>4, <1>5, <1>8, <2>1 DEF Consistently
  <2> QED
    BY <1>6, <1>9, <2>1, <2>2 DEF x, r, can
<1>10. CASE HasStrength(i) /\ Disabled(i)
  <2> DEFINE x == RenderDisabled(can, i, max)
  <2>1. /\ x.sampling = Sampling(can) /\ x.max = max
        /\ \/ x.thinking = ThinkingBlock("disabled", {}, {})
           \/ "disable" \notin can /\ x.thinking = ThinkingBlock("adaptive", {}, i.include)
    BY DEF RenderDisabled, ClaudeRender
  <2> HIDE DEF x
  <2>2. Consistently(can, x.thinking, x.sampling)
    BY <1>3, <1>4, <1>5, <2>1 DEF Consistently
  <2> QED
    BY <1>6, <1>10, <2>1, <2>2 DEF x, r, can
<1>11. CASE HasStrength(i) /\ ~Disabled(i) /\ "adaptive" \in can /\ ~PrefersManual(can, i)
  <2> DEFINE x == RenderAdaptive(can, i, max)
  <2>1. /\ x.max = max
        /\ \/ x.thinking = {} /\ x.sampling = Sampling(can)
           \/ x.sampling = (IF "strict" \in can THEN "removed" ELSE "constrained")
    BY DEF RenderAdaptive, ClaudeRender
  <2>2. x.thinking = {} \/ x.thinking = ThinkingBlock("adaptive", {}, i.include)
    BY DEF RenderAdaptive, ClaudeRender
  <2> HIDE DEF x
  <2>3. Consistently(can, x.thinking, x.sampling)
    BY <1>4, <1>5, <2>1, <2>2 DEF Consistently
  <2> QED
    BY <1>6, <1>11, <2>1, <2>3 DEF x, r, can
<1>12. CASE HasStrength(i) /\ ~Disabled(i) /\ ("adaptive" \notin can \/ PrefersManual(can, i))
  <2> DEFINE j == IF i.mode # "adaptive" THEN i
                  ELSE [i EXCEPT !.mode = "enabled", !.effort = IF @ = "" THEN "high" ELSE @]
             room == RoomFor(j, max)
             budget == ManualBudget(j, room)
             x == RenderManual(can, i, max)
  <2>1. j \in Intents
    BY <1>1 DEF Intents, Modes, Efforts
  <2>2. j.mode # "unset" \/ "strict" \notin can
    <3>1. CASE i.mode = "adaptive"
      <4>1. j.mode = "enabled"
        BY <1>1, <3>1 DEF Intents
      <4> QED
        BY <4>1
    <3>2. CASE i.mode # "adaptive"
      BY <1>2, <1>3, <1>12, <3>2 DEF PrefersManual
    <3> QED
      BY <3>1, <3>2
  <2>3. \/ j.mode = "unset" /\ x.thinking = {} /\ x.sampling = "kept" /\ x.max = max
        \/ /\ j.mode # "unset" /\ x.thinking = ThinkingBlock("enabled", {budget}, j.include)
           /\ x.sampling = "constrained" /\ x.max = {room}
    <3> HIDE DEF j, room, budget
    <3> QED
      BY DEF RenderManual, ClaudeRender, j, room, budget
  <2> HIDE DEF j, room, budget, x
  <2>4. room \in Int /\ room > 1024
    BY <2>1, RoomFacts DEF room
  <2>5. Consistently(can, x.thinking, x.sampling)
    <3>1. CASE x.thinking = {}
      BY <1>5, <1>8, <2>2, <2>3, <3>1
    <3>2. CASE x.thinking # {}
      BY <1>5, <2>3, <3>2 DEF Consistently
    <3> QED
      BY <3>1, <3>2
  <2> QED
    BY <1>6, <1>12, <2>3, <2>4, <2>5 DEF x, r, can
<1> QED
  BY <1>9, <1>10, <1>11, <1>12

\* max_tokens stays positive.
LEMMA AllowedFacts ==
    ASSUME NEW model, NEW i \in Intents, NEW max \in Optional(Nat), \A m \in max : m > 0, NEW default \in Nat
    PROVE  LET allowed == Allowed(model, i, max, default)
           IN  allowed \in Optional(Nat) /\ \A m \in allowed : m > 0
<1> DEFINE least == IF default > 0 THEN default ELSE 1280
           roomy == PrefersManual(ClaudeCan(model), i) /\ \E b \in i.budget : b >= 0
           only == IF roomy THEN Larger(least, The(i.budget) + 1) ELSE least
           allowed == Allowed(model, i, max, default)
<1>1. least \in Nat /\ least > 0
  OBVIOUS
<1>2. only \in Nat /\ only > 0
  <2>1. CASE roomy
    <3>1. PICK b \in Int : i.budget = {b}
      BY <2>1, IntentFields
    <3>2. The(i.budget) = b /\ b >= 0
      BY <2>1, <3>1 DEF The
    <3> HIDE DEF least
    <3> QED
      BY <1>1, <2>1, <3>2 DEF Larger
  <2>2. CASE ~roomy
    BY <1>1, <2>2
  <2> QED
    BY <2>1, <2>2
<1>3. allowed = max \/ allowed = {only}
  <2>1. allowed = IF max # {} \/ ~HasStrength(i) THEN max ELSE {only}
    BY DEF Allowed
  <2> QED
    BY <2>1
<1> HIDE DEF only, allowed
<1> QED
  BY <1>2, <1>3 DEF Optional, allowed

LEMMA ForModelFacts ==
    ASSUME NEW model, NEW i \in Intents
    PROVE  ForModel(model, i) \in Intents
<1>1. [i EXCEPT !.mode = "enabled", !.effort = IF @ = "" THEN "high" ELSE @] \in Intents
  BY DEF Intents, Modes, Efforts
<1> QED
  BY <1>1 DEF ForModel

\* What the API takes of a request for a model of that family.
ClaudeAccepts(can, got) ==
    (\E m \in got.max : m > 0) /\ AcceptsThinking(can, got) /\ AcceptsSampling(can, got)

LEMMA ForClaudeFits ==
    ASSUME NEW s, s.max \in Optional(Nat), NEW source \in Intents, NEW notes, NEW named, NEW origin,
           NEW default \in Nat, default > 0
    PROVE  ClaudeAccepts(ClaudeCan(CapabilityModel(named, origin)), ForClaude(s, source, notes, named, origin, default).got)
<1> DEFINE positive == Positive(s.max)
           sampling == s.labels \intersect SamplingLabels
           able == CapabilityModel(named, origin)
           can == ClaudeCan(able)
           i == ForModel(able, Normalize(source))
           allowed == Allowed(able, i, positive, default)
           r == RenderClaude(able, i, allowed)
           left == KeptSampling(r.sampling, sampling)
           a == ApplyReasoning(named, origin, source, positive, sampling, default)
           max == IF a.max = {} THEN {default} ELSE a.max
           labels == a.sampling \union (s.labels \intersect {"stop"})
           got == [Settings(max, labels) EXCEPT !.thinking = a.thinking, !.effort = a.effort]
           out == ForClaude(s, source, notes, named, origin, default)
<1>1. out.got = got
  <2>1. out = Outcome(a.ok, got, notes \union a.notes)
    <3> HIDE DEF a, sampling, positive
    <3> QED
      BY DEF ForClaude, Reasoned, a, sampling, positive
  <2> HIDE DEF out, a, got
  <2> QED
    BY <2>1 DEF Outcome
<1>2. a.thinking = r.thinking /\ a.max = r.max /\ a.sampling = left
  <2> DEFINE n1 == NormalizeNotes(source)
             n2 == NoteIf(left # sampling, "claude_sampling")
             ok == ~TooLarge(able, i, positive)
  <2>1. a = [ok |-> ok, thinking |-> r.thinking, effort |-> r.effort, max |-> r.max, sampling |-> left,
             notes |-> n1 \union r.notes \union n2]
    BY DEF ApplyReasoning
  <2> HIDE DEF a, r, left, n1, n2, ok
  <2> QED
    BY <2>1
<1>3. got.max = max /\ got.labels = labels /\ got.thinking = a.thinking
  <2> DEFINE plain == Settings(max, labels)
  <2>1. plain.max = max /\ plain.labels = labels /\ {"max", "labels", "thinking"} \subseteq DOMAIN plain
    <3> HIDE DEF max, labels
    <3> QED
      BY DEF Settings
  <2> HIDE DEF plain, max, labels, a
  <2>2. /\ [plain EXCEPT !.thinking = a.thinking, !.effort = a.effort].max = max
        /\ [plain EXCEPT !.thinking = a.thinking, !.effort = a.effort].labels = labels
        /\ [plain EXCEPT !.thinking = a.thinking, !.effort = a.effort].thinking = a.thinking
    BY <2>1
  <2> QED
    BY <2>2 DEF plain
<1>4. i \in Intents
  BY NormalizeOnce, ForModelFacts
<1>5. positive \in Optional(Nat) /\ \A m \in positive : m > 0
  <2>1. CASE s.max = {}
    BY <2>1 DEF Positive, Optional
  <2>2. CASE \E m \in Nat : s.max = {m}
    <3>1. PICK m \in Nat : s.max = {m}
      BY <2>2
    <3>2. positive = {} \/ positive = {m}
      BY <3>1 DEF Positive
    <3> QED
      BY <3>2 DEF Positive, Optional
  <2> QED
    BY <2>1, <2>2 DEF Optional
<1>6. allowed \in Optional(Nat) /\ \A m \in allowed : m > 0
  <2> HIDE DEF i, positive
  <2> QED
    BY <1>4, <1>5, AllowedFacts
<1>7. ClaudeTakes(can, r.thinking, r.max)
  <2> HIDE DEF i, allowed
  <2> QED
    BY <1>4, <1>6, ClaudeIsAskedWhatItCan
<1>8. /\ Consistently(can, r.thinking, r.sampling)
      /\ r.max = allowed \/ \E room \in Int : room > 1024 /\ r.max = {room}
  <2> HIDE DEF i, allowed
  <2> QED
    BY <1>4, <1>6, SamplingFollows
<1> HIDE DEF able, can, i, allowed, r, a, got, out
<1>9. \E m \in max : m > 0
  <2>1. CASE a.max = {}
    BY <2>1
  <2>2. CASE a.max # {}
    <3>1. max = r.max
      BY <1>2, <2>2
    <3>2. CASE r.max = allowed
      <4>1. allowed # {}
        BY <1>2, <2>2, <3>2
      <4> HIDE DEF max
      <4> QED
        BY <1>6, <3>1, <3>2, <4>1
    <3>3. CASE \E room \in Int : room > 1024 /\ r.max = {room}
      <4>1. PICK room \in Int : room > 1024 /\ r.max = {room}
        BY <3>3
      <4> HIDE DEF max
      <4> QED
        BY <3>1, <4>1
    <3> QED
      BY <1>8, <3>2, <3>3
  <2> QED
    BY <2>1, <2>2
<1>10. ClaudeTakes(can, r.thinking, max)
  <2>1. CASE a.max = {}
    <3>1. \A t \in r.thinking : t.type # "enabled"
      BY <1>2, <1>7, <2>1 DEF ClaudeTakes
    <3> QED
      BY <1>7, <3>1 DEF ClaudeTakes
  <2>2. CASE a.max # {}
    BY <1>2, <1>7, <2>2
  <2> QED
    BY <2>1, <2>2
<1>11. /\ r.sampling = "removed" => left = {}
       /\ r.sampling # "kept" => left \intersect {"temperature", "top_p", "top_k"} = {}
                                 \/ r.sampling \notin {"removed", "constrained"}
  BY DEF KeptSampling
<1>12. r.sampling \in {"removed", "constrained", "kept"}
  BY <1>8 DEF Consistently
<1>13. labels \intersect SamplingLabels \subseteq left
  BY <1>2 DEF SamplingLabels
<1> HIDE DEF max, labels, left
<1>14. AcceptsThinking(can, got)
  <2>1. ASSUME NEW t \in got.thinking
        PROVE  /\ t.type = "adaptive" => "adaptive" \in can
               /\ t.type = "enabled"  => "manual" \in can /\ \A b \in t.budget, m \in got.max : b \in 1024..(m - 1)
               /\ t.type = "disabled" => "disable" \in can
               /\ t.type # "disabled" => got.labels \intersect {"temperature", "top_p", "top_k"} = {}
    <3>1. t \in r.thinking
      BY <1>2, <1>3
    <3>2. t.type # "disabled" => left \intersect {"temperature", "top_p", "top_k"} = {}
      BY <1>8, <1>11, <1>12, <3>1 DEF Consistently
    <3>3. t.type # "disabled" => got.labels \intersect {"temperature", "top_p", "top_k"} = {}
      BY <1>3, <1>13, <3>2 DEF SamplingLabels
    <3>4. t.type = "enabled" => "manual" \in can /\ \A b \in t.budget, m \in got.max : b \in 1024..(m - 1)
      BY <1>3, <1>10, <3>1 DEF ClaudeTakes
    <3>5. (t.type = "adaptive" => "adaptive" \in can) /\ (t.type = "disabled" => "disable" \in can)
      BY <1>10, <3>1 DEF ClaudeTakes
    <3> QED
      BY <3>3, <3>4, <3>5
  <2> QED
    BY <2>1 DEF AcceptsThinking
<1>15. AcceptsSampling(can, got)
  <2>1. ASSUME "strict" \in can, \A t \in got.thinking : t.type # "enabled"
        PROVE  got.labels \intersect SamplingLabels = {}
    <3>1. r.sampling = "removed"
      BY <1>2, <1>3, <1>8, <2>1 DEF Consistently
    <3> QED
      BY <1>3, <1>11, <1>13, <3>1
  <2> QED
    BY <2>1 DEF AcceptsSampling
<1>16. ClaudeAccepts(can, got)
  BY <1>3, <1>9, <1>14, <1>15 DEF ClaudeAccepts
<1> QED
  BY <1>1, <1>16 DEF can, able, out

-----------------------------------------------------------------------------
(* What a Gemini upstream is given. *)

\* A config the model takes, with a budget or a level.
GeminiAccepts(model, c) == GeminiTakes(model, c) /\ (c.budget = {} \/ c.level = "")

\* A config as a client can write it.
WellMade(config) ==
    /\ Maybe(config, config)
    /\ \A c \in config : c = Config(c.budget, c.level, c.include) /\ Maybe(c.budget, Int) /\ Maybe(c.include, BOOLEAN)

\* One that can be read is one with a level of the known ones, as far as the model
\* has any use of it.
LEMMA ReadableConfig ==
    ASSUME NEW model, NEW config, WellMade(config), ReadableFor(model, config)
    PROVE  \E written \in Optional(GeminiConfigs) :
                /\ NormalizeConfig(model, written) = NormalizeConfig(model, config)
                /\ GeminiDialect(model).kind = "unknown" => written = config /\ ReadableGemini(written)
<1>1. CASE config = {}
  <2>1. {} \in Optional(GeminiConfigs)
    BY DEF Optional
  <2> QED
    BY <1>1, <2>1 DEF ReadableFor
<1>2. CASE config # {}
  <2>1. PICK c \in config : config = {c}
    BY <1>2 DEF WellMade, Maybe
  <2>2. c = Config(c.budget, c.level, c.include) /\ c.budget \in Optional(Int) /\ c.include \in Optional(BOOLEAN)
    BY <2>1, MaybeFacts DEF WellMade
  <2>3. CASE Parses(c.level)
    <3>1. Config(c.budget, c.level, c.include) \in GeminiConfigs
      BY <2>2, <2>3 DEF Config, GeminiConfigs, Parses
    <3>2. config \in Optional(GeminiConfigs)
      BY <2>1, <2>2, <3>1 DEF Optional
    <3> QED
      BY <3>2 DEF ReadableFor
  <2>4. CASE GeminiDialect(model).kind = "fixed"
    <3> DEFINE d == GeminiDialect(model)
               bare == Config({}, "", c.include)
    <3>1. \A g : OneControl(d, g) = g
      BY <2>4 DEF OneControl
    <3>2. bare \in GeminiConfigs /\ bare.include = c.include
      BY <2>2, NoneIncluded DEF Config, GeminiConfigs
    <3> HIDE DEF bare, d
    <3>3. \A g : NormalizeConfig(model, {g}) =
                    IF d.include /\ g.include # {} THEN {Config({}, "", g.include)} ELSE {}
      <4> SUFFICES ASSUME NEW g
                   PROVE  NormalizeConfig(model, {g}) =
                            IF d.include /\ g.include # {} THEN {Config({}, "", g.include)} ELSE {}
        OBVIOUS
      <4>1. d.kind = "fixed"
        BY <2>4 DEF d
      <4> DEFINE x == OneControl(d, g)
                 words == IF x.level = "" THEN x.budget ELSE {BudgetFor(x.level)}
                 made == CASE d.kind = "fixed"   -> IF d.include /\ x.include # {} THEN {Config({}, "", x.include)} ELSE {}
                           [] d.kind = "unknown" -> {x}
                           [] d.kind = "budget"  -> {Config({NativeBudget(d, b) : b \in words}, "", x.include)}
                           [] d.kind = "level"   -> {Config({}, IF NativeLevel(x) = "" THEN "" ELSE LevelFor(model, NativeLevel(x)),
                                                            x.include)}
      <4>2. NormalizeConfig(model, {g}) = made
        BY DEF NormalizeConfig, d
      <4>3. made = IF d.include /\ x.include # {} THEN {Config({}, "", x.include)} ELSE {}
        BY <4>1
      <4>4. x = g
        BY <3>1
      <4> HIDE DEF x, made
      <4> QED
        BY <4>2, <4>3, <4>4
    <3>4. NormalizeConfig(model, {bare}) = NormalizeConfig(model, {c})
      BY <3>2, <3>3
    <3>5. {bare} \in Optional(GeminiConfigs)
      BY <3>2 DEF Optional
    <3> QED
      BY <2>1, <2>4, <3>4, <3>5
  <2> QED
    BY <2>1, <2>3, <2>4 DEF ReadableFor
<1> QED
  BY <1>1, <1>2

\* Only a model nobody knows could be sent both controls.
LEMMA OneSided ==
    ASSUME NEW model, NEW written \in Optional(GeminiConfigs), NEW source \in Intents, NEW max \in Optional(Nat),
           GeminiDialect(model).kind = "unknown" => ReadableGemini(written)
    PROVE  \A c \in MergedConfig(model, NormalizeConfig(model, written), source, max).config : c.budget = {} \/ c.level = ""
<1> DEFINE config == NormalizeConfig(model, written)
           d      == GeminiDialect(model)
           merged == MergedConfig(model, config, source, max).config
<1>1. CASE d.kind # "unknown"
  <2>1. d.kind \in {"fixed", "level", "budget"}
    BY <1>1, GeminiFamilies
  <2>2. \A c \in merged : GeminiTakes(model, c)
    BY ThinkingConfigFits
  <2> HIDE DEF merged
  <2> QED
    BY <2>1, <2>2 DEF GeminiTakes, merged
<1>2. CASE d.kind = "unknown"
  <2>1. config = written
    <3>1. \A g : OneControl(d, g) = g
      BY <1>2 DEF OneControl
    <3> DEFINE Made(g) ==
                 LET x == OneControl(d, g)
                     words == IF x.level = "" THEN x.budget ELSE {BudgetFor(x.level)}
                 IN  CASE d.kind = "fixed"   -> IF d.include /\ x.include # {} THEN {Config({}, "", x.include)} ELSE {}
                       [] d.kind = "unknown" -> {x}
                       [] d.kind = "budget"  -> {Config({NativeBudget(d, b) : b \in words}, "", x.include)}
                       [] d.kind = "level"   -> {Config({}, IF NativeLevel(x) = "" THEN "" ELSE LevelFor(model, NativeLevel(x)),
                                                        x.include)}
    <3>2. config = UNION {Made(g) : g \in written}
      BY DEF NormalizeConfig
    <3>3. \A g : Made(g) = {g}
      BY <1>2, <3>1
    <3> HIDE DEF Made, config
    <3> QED
      BY <3>2, <3>3
  <2>2. \A c \in config : c.budget = {} \/ c.level = ""
    BY <1>2, <2>1 DEF ReadableGemini
  <2> DEFINE native   == FromGemini(config)
             explicit == MergeExplicit(NativeFirst(native, source), SourceSecond(native, source))
             asked    == ResolveEnabledDefault(model, explicit)
  <2>3. merged = ConfigFor(model, config, native, explicit, max)
    BY DEF MergedConfig
  <2>4. \A c \in RenderGemini(model, asked, max) : c.budget = {}
    <3> DEFINE i == Normalize(asked)
               bare == Config({}, "", i.include)
               shown == IF i.include = {} THEN {} ELSE {bare}
               spent == {Config(SpentBudget(d, i, max), "", i.include)}
               level == {Config({}, UsedLevel(model, i), i.include)}
    <3>1. RenderGemini(model, asked, max) =
            IF IsEmpty(i) THEN {}
            ELSE CASE d.kind = "fixed" -> IF d.include THEN shown ELSE {} [] d.kind = "unknown" -> shown
                   [] d.kind = "budget" -> spent [] d.kind = "level" -> level
      <4> HIDE DEF asked
      <4> QED
        BY DEF RenderGemini
    <3> HIDE DEF spent, level, shown
    <3>2. RenderGemini(model, asked, max) \subseteq shown
      <4> HIDE DEF i, asked, d
      <4> QED
        BY <1>2, <3>1
    <3>3. bare.budget = {}
      BY DEF Config
    <3> HIDE DEF bare
    <3>4. \A c \in shown : c.budget = {}
      BY <3>3 DEF shown
    <3> QED
      BY <3>2, <3>4
  <2>5. ASSUME NEW c \in config
        PROVE  LET k == [c EXCEPT !.include = Either(explicit.include, @)] IN k.budget = {} \/ k.level = ""
    <3> DEFINE inc == Either(explicit.include, c.include)
    <3>1. DOMAIN c = {"budget", "level", "include"}
      BY <2>1 DEF Optional, GeminiConfigs
    <3> HIDE DEF explicit, config
    <3>2. /\ [c EXCEPT !.include = Either(explicit.include, @)].budget = c.budget
          /\ [c EXCEPT !.include = Either(explicit.include, @)].level = c.level
      BY <3>1
    <3> QED
      BY <2>2, <3>2
  <2> HIDE DEF config, native, explicit
  <2>6. \A c \in ConfigFor(model, config, native, explicit, max) : c.budget = {} \/ c.level = ""
    BY <2>2, <2>4, <2>5 DEF ConfigFor, asked
  <2> QED
    BY <2>3, <2>6 DEF config
<1> QED
  BY <1>1, <1>2

LEMMA ForGeminiFits ==
    ASSUME NEW s, s.max \in Optional(Nat), NEW labels, NEW model, NEW config, WellMade(config),
           NEW chat, FromOpenAIChat(chat) \in Intents
    PROVE  LET out == ForGemini(s, labels, ApplyThinkingConfig(model, config, chat, s.max))
           IN  out.ok => \A c \in out.got.config : GeminiAccepts(model, c)
<1> DEFINE source == FromOpenAIChat(chat)
           normal == NormalizeConfig(model, config)
           merged == MergedConfig(model, normal, source, s.max)
           r == ApplyThinkingConfig(model, config, chat, s.max)
           plain == Settings(s.max, labels)
           got == [plain EXCEPT !.config = merged.config]
           out == ForGemini(s, labels, r)
<1>1. r.ok = ReadableFor(model, config) /\ r.merged = merged
  <2> DEFINE notes == FromOpenAIChatNotes(chat) \union NormalizeConfigNotes(model, config)
             ok == ReadableFor(model, config)
  <2>1. r = [ok |-> ok, merged |-> merged, notes |-> notes]
    BY DEF ApplyThinkingConfig
  <2> HIDE DEF r, notes, merged, ok
  <2>2. r.ok = ok /\ r.merged = merged
    BY <2>1
  <2> QED
    BY <2>2 DEF ok
<1>2. out.ok = r.ok /\ out.got = got
  <2> DEFINE notes == r.notes \union r.merged.notes
  <2>1. out = Outcome(r.ok, [plain EXCEPT !.config = r.merged.config], notes)
    <3> HIDE DEF r
    <3> QED
      BY DEF ForGemini
  <2>2. out = Outcome(r.ok, got, notes)
    BY <1>1, <2>1
  <2> HIDE DEF out, got, r, notes
  <2> QED
    BY <2>2, OutcomeFields
<1>3. got.config = merged.config
  <2>1. "config" \in DOMAIN plain
    BY DEF Settings
  <2> HIDE DEF plain, merged
  <2> QED
    BY <2>1
<1> SUFFICES ASSUME ReadableFor(model, config)
             PROVE  \A c \in merged.config : GeminiAccepts(model, c)
  <2> HIDE DEF out, got, r, merged
  <2> QED
    BY <1>1, <1>2, <1>3 DEF out, r
<1>4. PICK written \in Optional(GeminiConfigs) :
            /\ NormalizeConfig(model, written) = normal
            /\ GeminiDialect(model).kind = "unknown" => ReadableGemini(written)
  BY ReadableConfig
<1> HIDE DEF source, normal
<1>5. source \in Intents
  BY DEF source
<1>6. \A c \in MergedConfig(model, NormalizeConfig(model, written), source, s.max).config : GeminiTakes(model, c)
  BY <1>5, ThinkingConfigFits
<1>7. \A c \in MergedConfig(model, NormalizeConfig(model, written), source, s.max).config : c.budget = {} \/ c.level = ""
  BY <1>4, <1>5, OneSided
<1> QED
  BY <1>4, <1>6, <1>7 DEF GeminiAccepts

-----------------------------------------------------------------------------
(* So it is on each of the routes to them. *)

\* What the upstream's API takes; named is the model whose abilities are looked up.
Fits(to, named, model, origin, out) ==
    out.ok =>
        /\ to = "Claude" => ClaudeAccepts(ClaudeCan(CapabilityModel(named, origin)), out.got)
        /\ to = "Gemini" => \A c \in out.got.config : GeminiAccepts(model, c)

LEMMA RefusedFits ==
    ASSUME NEW to, NEW named, NEW model, NEW origin
    PROVE  Fits(to, named, model, origin, Refused)
BY DEF Fits, Refused, Outcome

LEMMA ThinkingFacts ==
    ASSUME NEW s, ProperThinking(s)
    PROVE  /\ WellMade(s.config)
           /\ ReadableChat(s) => FromOpenAIChat(s) \in Intents
           /\ Parses(s.effort) => \A origin : ClaudeIntent(s, origin) \in Intents
<1>1. WellMade(s.config)
  BY DEF ProperThinking, WellMade
<1>2. ReadableChat(s) => FromOpenAIChat(s) \in Intents
  BY ChatIntent DEF ProperThinking
<1>3. Parses(s.effort) => \A origin : ClaudeIntent(s, origin) \in Intents
  BY ClaudeIntentFacts DEF ProperThinking
<1> QED
  BY <1>1, <1>2, <1>3

\* From Chat, also in the second step of a route.
LEMMA ChatFits ==
    ASSUME NEW s, s.max \in Optional(Nat), ReadableChat(s) => FromOpenAIChat(s) \in Intents,
           NEW named, NEW model, NEW origin, NEW default \in Nat
    PROVE  /\ default > 0 => Fits("Claude", named, model, origin, ChatToClaudeSettings(s, named, origin, default))
           /\ WellMade(s.config) => Fits("Gemini", named, model, origin, ChatToGeminiSettings(s, model))
<1>1. ASSUME default > 0
      PROVE  Fits("Claude", named, model, origin, ChatToClaudeSettings(s, named, origin, default))
  <2> DEFINE source == FromOpenAIChat(s)
             notes == FromOpenAIChatNotes(s)
             out == ForClaude(s, source, notes, named, origin, default)
  <2>1. ReadableChat(s) => ClaudeAccepts(ClaudeCan(CapabilityModel(named, origin)), out.got)
    <3> HIDE DEF notes
    <3> QED
      BY <1>1, ForClaudeFits
  <2>2. ChatToClaudeSettings(s, named, origin, default) = IF ~ReadableChat(s) THEN Refused ELSE out
    BY DEF ChatToClaudeSettings
  <2> HIDE DEF out
  <2>3. ReadableChat(s) => Fits("Claude", named, model, origin, out)
    BY <2>1 DEF Fits
  <2> QED
    BY <2>2, <2>3, RefusedFits
<1>2. ASSUME WellMade(s.config)
      PROVE  Fits("Gemini", named, model, origin, ChatToGeminiSettings(s, model))
  <2> DEFINE labels == FromStopList(s.labels) \ {"top_k", "n"}
             out == ForGemini(s, labels, ApplyThinkingConfig(model, s.config, s, s.max))
  <2>1. ReadableChat(s) => (out.ok => \A c \in out.got.config : GeminiAccepts(model, c))
    <3> HIDE DEF labels
    <3> QED
      BY <1>2, ForGeminiFits
  <2>2. ChatToGeminiSettings(s, model) = IF ~ReadableChat(s) THEN Refused ELSE out
    BY DEF ChatToGeminiSettings
  <2> HIDE DEF out
  <2>3. ReadableChat(s) => Fits("Gemini", named, model, origin, out)
    BY <2>1 DEF Fits
  <2> QED
    BY <2>2, <2>3, RefusedFits
<1> QED
  BY <1>1, <1>2

\* The first step of a route of two leaves a request that can be read.
LEMMA FirstStep ==
    ASSUME NEW s, s.max \in Optional(Nat), ProperThinking(s), NEW origin
    PROVE  LET Good(chat) == chat.ok => /\ chat.got.max \in Optional(Nat) /\ WellMade(chat.got.config)
                                        /\ ReadableChat(chat.got) => FromOpenAIChat(chat.got) \in Intents
           IN  Good(ClaudeToChatSettings(s, origin)) /\ Good(GeminiToChatSettings(s, origin))
<1> DEFINE Good(chat) == chat.ok => /\ chat.got.max \in Optional(Nat) /\ WellMade(chat.got.config)
                                    /\ ReadableChat(chat.got) => FromOpenAIChat(chat.got) \in Intents
<1>1. Good(Refused)
  BY DEF Refused, Outcome
<1>2. ASSUME NEW labels, NEW intent \in Intents, NEW notes
      PROVE  Good(Outcome(TRUE, ApplyToOpenAIChat(Settings(s.max, labels), intent), notes))
  <2> DEFINE got == ApplyToOpenAIChat(Settings(s.max, labels), intent)
             out == Outcome(TRUE, got, notes)
  <2>1. got.config = {} /\ got.max = s.max /\ FromOpenAIChat(got) \in Intents
    BY PassedOn
  <2>2. WellMade({})
    BY DEF WellMade, Maybe
  <2> HIDE DEF got
  <2>3. out.got = got
    BY DEF Outcome
  <2> HIDE DEF out
  <2>4. Good(out)
    BY <2>1, <2>2, <2>3
  <2> QED
    BY <2>4 DEF out, got
<1> HIDE DEF Good
<1>3. Good(ClaudeToChatSettings(s, origin))
  <2> DEFINE intent == ClaudeIntent(s, origin)
             out == Outcome(TRUE, ApplyToOpenAIChat(Settings(s.max, s.labels), intent), FromClaudeNotes(s))
  <2>1. ClaudeToChatSettings(s, origin) = IF ~Parses(s.effort) THEN Refused ELSE out
    BY DEF ClaudeToChatSettings
  <2>2. Parses(s.effort) => intent \in Intents
    BY ThinkingFacts
  <2> HIDE DEF intent
  <2>3. Parses(s.effort) => Good(out)
    BY <1>2, <2>2
  <2> QED
    BY <1>1, <2>1, <2>3
<1>4. Good(GeminiToChatSettings(s, origin))
  <2> DEFINE config == NormalizeConfig(origin, s.config)
             readable == ReadableFor(origin, s.config) /\ ReadableGemini(config)
             intent == ResolveGeminiDefault(origin, FromGemini(config))
             labels == ToStopList(s.labels \ {"format"})
             notes == NormalizeConfigNotes(origin, s.config) \union FromGeminiNotes(config)
             out == Outcome(TRUE, ApplyToOpenAIChat(Settings(s.max, labels), intent), notes)
  <2>1. GeminiToChatSettings(s, origin) = IF ~readable THEN Refused ELSE out
    BY DEF GeminiToChatSettings
  <2>2. readable => intent \in Intents
    <3> SUFFICES ASSUME readable
                 PROVE  intent \in Intents
      OBVIOUS
    <3>1. WellMade(s.config)
      BY ThinkingFacts
    <3>2. PICK written \in Optional(GeminiConfigs) : NormalizeConfig(origin, written) = config
      BY <3>1, ReadableConfig
    <3>3. config \in Optional(GeminiConfigs)
      <4>1. CASE written = {}
        <5>1. NormalizeConfig(origin, {}) = {} /\ {} \in Optional(GeminiConfigs)
          BY DEF NormalizeConfig, Optional
        <5> HIDE DEF config
        <5> QED
          BY <3>2, <4>1, <5>1
      <4>2. CASE \E g \in GeminiConfigs : written = {g}
        <5> HIDE DEF config
        <5> QED
          BY <3>2, <4>2, NormalizedConfig
      <4> QED
        BY <4>1, <4>2 DEF Optional
    <3> HIDE DEF config
    <3> QED
      BY <3>3, NativeIntent, GeminiDefaultFacts
  <2> HIDE DEF intent, labels, notes, readable
  <2>3. readable => Good(out)
    BY <1>2, <2>2
  <2> HIDE DEF out
  <2> QED
    BY <1>1, <2>1, <2>3
<1> QED
  BY <1>3, <1>4 DEF Good

LEMMA ThroughFits ==
    ASSUME NEW to, NEW named, NEW model, NEW origin, NEW first, NEW second,
           first.ok => Fits(to, named, model, origin, second)
    PROVE  Fits(to, named, model, origin, Through(first, second))
<1> DEFINE notes == first.notes \union second.notes
           out == Through(first, second)
<1>1. out = IF ~first.ok THEN Refused ELSE Outcome(second.ok, second.got, notes)
  BY DEF Through
<1>2. CASE ~first.ok
  BY <1>1, <1>2, RefusedFits
<1>3. CASE first.ok
  <2>1. out = Outcome(second.ok, second.got, notes)
    BY <1>1, <1>3
  <2> HIDE DEF out, notes
  <2>2. out.ok = second.ok /\ out.got = second.got
    BY <2>1, OutcomeFields
  <2>3. Fits(to, named, model, origin, out)
    BY <1>3, <2>2 DEF Fits
  <2> QED
    BY <2>3 DEF out
<1> QED
  BY <1>2, <1>3

\* The abilities that are looked up, by the client's protocol.
Named(from, model, origin) == IF from = "Gemini" THEN model ELSE origin

LEMMA RouteFits ==
    ASSUME NEW from \in Protocols, NEW to \in {"Claude", "Gemini"}, from # to,
           NEW s, s.max \in Optional(Nat), ProperThinking(s), NEW origin, NEW model,
           NEW default \in Nat, to = "Claude" => default > 0
    PROVE  Fits(to, Named(from, model, origin), model, origin, ConvertSettings(from, to, origin, model, default, s))
<1> DEFINE out == ConvertSettings(from, to, origin, model, default, s)
<1>1. WellMade(s.config) /\ (ReadableChat(s) => FromOpenAIChat(s) \in Intents)
  BY ThinkingFacts
<1>2. CASE from = "Chat"
  <2>1. CASE to = "Claude"
    <3>1. out = ChatToClaudeSettings(s, origin, origin, default)
      BY <1>2, <2>1 DEF ConvertSettings
    <3> HIDE DEF out
    <3> QED
      BY <1>1, <1>2, <2>1, <3>1, ChatFits DEF Named, out
  <2>2. CASE to = "Gemini"
    <3>1. out = ChatToGeminiSettings(s, model)
      BY <1>2, <2>2 DEF ConvertSettings
    <3> HIDE DEF out
    <3> QED
      BY <1>1, <1>2, <2>2, <3>1, ChatFits DEF Named, out
  <2> QED
    BY <2>1, <2>2
<1>3. CASE from = "Responses"
  <2> DEFINE source == FromOpenAIResponses(s)
  <2>1. Parses(s.effort) => source \in Intents
    BY ResponsesIntent
  <2>2. CASE to = "Claude"
    <3> DEFINE claude == ForClaude(s, source, {}, origin, origin, default)
    <3>1. out = IF ~FromResponses(s) THEN Refused ELSE claude
      BY <1>3, <2>2 DEF ConvertSettings, ResponsesToClaudeSettings
    <3>2. Parses(s.effort) => ClaudeAccepts(ClaudeCan(CapabilityModel(origin, origin)), claude.got)
      <4> HIDE DEF source
      <4> QED
        BY <2>1, <2>2, ForClaudeFits
    <3> HIDE DEF claude, source
    <3>3. FromResponses(s) => Fits(to, origin, model, origin, claude)
      BY <2>2, <3>2 DEF Fits, FromResponses
    <3> HIDE DEF out
    <3>4. Fits(to, origin, model, origin, out)
      BY <3>1, <3>3, RefusedFits
    <3> QED
      BY <1>3, <3>4 DEF Named, out
  <2>3. CASE to = "Gemini"
    <3> DEFINE chat == ApplyToOpenAIChat(Settings({}, {}), source)
               gemini == ForGemini(s, s.labels, ApplyThinkingConfig(model, {}, chat, s.max))
    <3>1. out = IF ~FromResponses(s) THEN Refused ELSE gemini
      BY <1>3, <2>3 DEF ConvertSettings, ResponsesToGeminiSettings
    <3>2. FromResponses(s) => FromOpenAIChat(chat) \in Intents
      <4> HIDE DEF source
      <4> QED
        BY <2>1, PassedOn DEF FromResponses
    <3>3. WellMade({})
      BY DEF WellMade, Maybe
    <3> HIDE DEF chat, source
    <3>4. FromResponses(s) => (gemini.ok => \A c \in gemini.got.config : GeminiAccepts(model, c))
      BY <3>2, <3>3, ForGeminiFits
    <3> HIDE DEF gemini
    <3>5. FromResponses(s) => Fits(to, origin, model, origin, gemini)
      BY <2>3, <3>4 DEF Fits
    <3> HIDE DEF out
    <3>6. Fits(to, origin, model, origin, out)
      BY <3>1, <3>5, RefusedFits
    <3> QED
      BY <1>3, <3>6 DEF Named, out
  <2> QED
    BY <2>2, <2>3
<1>4. CASE from = "Claude"
  <2> DEFINE first == ClaudeToChatSettings(s, origin)
             second == ChatToGeminiSettings(first.got, model)
  <2>1. to = "Gemini"
    BY <1>4
  <2>2. out = Through(first, second)
    BY <1>4, <2>1 DEF ConvertSettings, ChatThenGemini
  <2>3. first.ok => /\ first.got.max \in Optional(Nat) /\ WellMade(first.got.config)
                    /\ ReadableChat(first.got) => FromOpenAIChat(first.got) \in Intents
    BY FirstStep
  <2> HIDE DEF first, out
  <2>4. first.ok => Fits("Gemini", origin, model, origin, second)
    BY <2>3, ChatFits
  <2> HIDE DEF second
  <2>5. Fits("Gemini", origin, model, origin, out)
    BY <2>2, <2>4, ThroughFits
  <2> QED
    BY <1>4, <2>1, <2>5 DEF Named, out
<1>5. CASE from = "Gemini"
  <2> DEFINE first == GeminiToChatSettings(s, origin)
             second == ChatToClaudeSettings(first.got, model, origin, default)
  <2>1. to = "Claude"
    BY <1>5
  <2>2. out = Through(first, second)
    BY <1>5, <2>1 DEF ConvertSettings, ChatThenClaude
  <2>3. first.ok => /\ first.got.max \in Optional(Nat)
                    /\ ReadableChat(first.got) => FromOpenAIChat(first.got) \in Intents
    BY FirstStep
  <2> HIDE DEF first, out
  <2>4. first.ok => Fits("Claude", model, model, origin, second)
    BY <2>1, <2>3, ChatFits
  <2> HIDE DEF second
  <2>5. Fits("Claude", model, model, origin, out)
    BY <2>2, <2>4, ThroughFits
  <2> QED
    BY <1>5, <2>1, <2>5 DEF Named, out
<1> QED
  BY <1>2, <1>3, <1>4, <1>5 DEF Protocols

-----------------------------------------------------------------------------
(* What a conversation is about. *)

\* The upstream is given what becomes of the profile.
SettingsInv ==
    /\ ProperProfile(profile)
    /\ client = profile.from /\ upstream = profile.to
    /\ phase = "answer" => given = Given(upstream, profile) /\ given.ok

\* What is known of a request.
LEMMA RequestFacts ==
    ASSUME NEW protocol, NEW s, ProperRequest(protocol, s)
    PROVE  /\ DOMAIN s = Fields
           /\ s.max \in Optional(Nat) /\ s.max \in Optional(Int)
           /\ \E U : s.tools \in Seq(U)
           /\ ProperTools(protocol, s.tools)
           /\ ProperThinking(s)
<1>1. s.max \in Optional(Nat) /\ s.max \in Optional(Int)
  <2>1. s.max \in Optional(Nat)
    BY MaybeFacts DEF ProperRequest
  <2> QED
    BY <2>1 DEF Optional
<1> QED
  BY <1>1 DEF ProperRequest, ProperTools, Fields

LEMMA PlainIsProper ==
    ASSUME NEW from \in Protocols, NEW to \in Protocols
    PROVE  ProperProfile(Plain(from, to)) /\ Plain(from, to).default > 0
<1> DEFINE s == Settings({}, {})
<1>1. /\ DOMAIN s = Fields /\ s.max = {} /\ s.tools = <<>>
      /\ s.nested = {} /\ s.config = {} /\ s.thinking = {} /\ s.pivot = {}
  BY DEF Settings, Fields
<1>2. <<>> \in Seq({}) /\ DOMAIN <<>> = {}
  OBVIOUS
<1> DEFINE p == Plain(from, to)
<1>4. /\ DOMAIN p = {"from", "to", "origin", "model", "default", "asked"}
      /\ p.from = from /\ p.to = to /\ p.asked = s /\ p.default = 8192
  BY DEF Plain, Profile
<1> HIDE DEF s, p
<1>5. ProperRequest(from, s)
  <2>1. \A T : Maybe({}, T)
    BY DEF Maybe
  <2>2. ProperThinking(s)
    BY <1>1, <2>1 DEF ProperThinking
  <2> QED
    BY <1>1, <1>2, <2>1, <2>2 DEF ProperRequest, Fields
<1>6. ProperProfile(p)
  BY <1>4, <1>5 DEF ProperProfile
<1> QED
  BY <1>4, <1>6 DEF p

LEMMA SettingsInvInit ==
    ASSUME Init
    PROVE  SettingsInv
<1>1. profile \in {Plain(pair[1], pair[2]) : pair \in Pairs} \union Profiles
  BY DEF Init
<1>2. CASE profile \in Profiles
  BY <1>2, ProfilesAssumption DEF SettingsInv, Init
<1>3. CASE profile \in {Plain(pair[1], pair[2]) : pair \in Pairs}
  <2>1. PICK pair \in Pairs : profile = Plain(pair[1], pair[2])
    BY <1>3
  <2>2. pair[1] \in Protocols /\ pair[2] \in Protocols
    BY ProfilesAssumption
  <2>3. ProperProfile(profile)
    BY <2>1, <2>2, PlainIsProper
  <2> QED
    BY <2>3 DEF SettingsInv, Init
<1> QED
  BY <1>1, <1>2, <1>3

LEMMA SettingsInvNext ==
    ASSUME SettingsInv, [Next]_vars
    PROVE  SettingsInv'
<1>1. ASSUME profile' = profile, client' = client, upstream' = upstream,
             phase' = "answer" => given' = Given(upstream, profile) /\ given'.ok
      PROVE  SettingsInv'
  BY <1>1 DEF SettingsInv
<1>2. CASE UserSays
  BY <1>1, <1>2 DEF UserSays
<1>3. CASE Ask
  BY <1>1, <1>3 DEF Ask
<1>4. CASE AnswerArrives
  BY <1>1, <1>4 DEF AnswerArrives
<1>5. CASE RunTools
  BY <1>1, <1>5 DEF RunTools
<1>6. CASE Switch
  <2>1. PICK other \in Protocols : upstream' = other /\ profile' = [profile EXCEPT !.to = other]
    BY <1>6 DEF Switch
  <2>2. client' = client /\ phase' # "answer"
    BY <1>6 DEF Switch
  <2>3. DOMAIN profile = {"from", "to", "origin", "model", "default", "asked"}
    BY DEF SettingsInv, ProperProfile
  <2>4. profile'.from = profile.from /\ profile'.asked = profile.asked /\ profile'.to = other
        /\ profile'.default = profile.default /\ DOMAIN profile' = DOMAIN profile
    BY <2>1, <2>3
  <2>5. profile.default > 0
    <3>1. profile = Plain(profile.from, profile.to)
      BY <1>6 DEF Switch, IsPlain
    <3>2. profile.from \in Protocols /\ profile.to \in Protocols
      BY DEF SettingsInv, ProperProfile
    <3> QED
      BY <3>1, <3>2, PlainIsProper
  <2>6. ProperProfile(profile')
    BY <2>3, <2>4, <2>5 DEF SettingsInv, ProperProfile
  <2> QED
    BY <2>1, <2>2, <2>4, <2>6 DEF SettingsInv
<1>7. CASE Forget
  BY <1>1, <1>7 DEF Forget
<1>8. CASE UNCHANGED vars
  BY <1>1, <1>8 DEF vars, SettingsInv
<1> QED
  BY <1>2, <1>3, <1>4, <1>5, <1>6, <1>7, <1>8 DEF Next

\* What the upstream of a conversion is given.
LEMMA GivenFacts ==
    ASSUME SettingsInv, Converted
    PROVE  LET s     == [Asked EXCEPT !.tools = <<>>, !.choice = {}, !.parallel = {}]
               rest  == ConvertSettings(client, upstream, profile.origin, profile.model, profile.default, s)
               tools == ConvertTools(client, upstream, Asked)
           IN  /\ client \in Protocols /\ upstream \in Protocols /\ client # upstream
               /\ ProperRequest(client, Asked)
               /\ rest.ok /\ tools.ok
               /\ s.max = Asked.max /\ s.labels = Asked.labels /\ ProperThinking(s)
               /\ Got.labels = FromStopList(rest.got.labels) /\ Got.max = rest.got.max
               /\ Got.thinking = rest.got.thinking /\ Got.config = rest.got.config
               /\ Got.tools = tools.tools /\ Got.choice = tools.choice /\ Got.parallel = tools.parallel
               /\ given.notes = rest.notes /\ given.toolNotes = tools.notes
<1> DEFINE s     == [Asked EXCEPT !.tools = <<>>, !.choice = {}, !.parallel = {}]
           rest  == ConvertSettings(client, upstream, profile.origin, profile.model, profile.default, s)
           tools == ConvertTools(client, upstream, Asked)
<1>1. client \in Protocols /\ upstream \in Protocols /\ client # upstream /\ ProperRequest(client, Asked)
      /\ client = profile.from
  BY DEF SettingsInv, ProperProfile, Converted, Asked
<1>2. given = Joined(rest, tools) /\ given.ok
  <2>1. given = Given(upstream, profile) /\ given.ok
    BY DEF SettingsInv, Converted
  <2> QED
    BY <1>1, <2>1 DEF Given, ConvertRequestSettings, Asked
<1>3. s.max = Asked.max /\ s.labels = Asked.labels /\ s.max \in Optional(Int) /\ ProperThinking(s)
  <2>1. DOMAIN Asked = Fields /\ Asked.max \in Optional(Int) /\ ProperThinking(Asked)
    BY <1>1, RequestFacts
  <2>2. {"max", "labels", "nested", "config", "thinking", "pivot"} \subseteq Fields
    BY DEF Fields, Settings
  <2>3. /\ s.max = Asked.max /\ s.labels = Asked.labels
        /\ s.nested = Asked.nested /\ s.config = Asked.config /\ s.thinking = Asked.thinking /\ s.pivot = Asked.pivot
    BY <2>1, <2>2
  <2> HIDE DEF s
  <2>4. ProperThinking(s)
    BY <2>1, <2>3 DEF ProperThinking
  <2> QED
    BY <2>1, <2>3, <2>4
<1> HIDE DEF s
<1>4. Arrives(client, upstream, s, rest)
  BY <1>1, <1>3, SettingsArrive
<1> HIDE DEF rest, tools
<1>5. rest.ok /\ tools.ok /\ given.notes = rest.notes /\ given.toolNotes = tools.notes
  BY <1>2 DEF Joined
<1> DEFINE r == rest.got
<1>6. DOMAIN r = Fields
  BY <1>4, <1>5 DEF Arrives
<1>7. Got = [r EXCEPT !.labels = FromStopList(@), !.tools = tools.tools, !.choice = tools.choice, !.parallel = tools.parallel]
  BY <1>2 DEF Joined, Got
<1>8. Fields = {"effort", "nested", "pivot", "summary", "thinking", "config", "max", "labels", "tools", "choice", "parallel"}
  BY DEF Fields, Settings
<1> HIDE DEF r
<1>9. /\ Got.labels = FromStopList(r.labels) /\ Got.max = r.max /\ Got.thinking = r.thinking /\ Got.config = r.config
      /\ Got.tools = tools.tools /\ Got.choice = tools.choice /\ Got.parallel = tools.parallel
  BY <1>6, <1>7, <1>8
<1> QED
  BY <1>1, <1>3, <1>5, <1>9 DEF r, s, rest, tools

\* In every state of that invariant, every tool of a converted request is kept.
LEMMA EveryToolIsKept ==
    ASSUME SettingsInv, Converted, NEW i \in DOMAIN AskedDefinitions
    PROVE  ToolKept(i)
<1> DEFINE tools == ConvertTools(client, upstream, Asked)
           asked == AskedDefinitions
           got   == GotDefinitions
           d     == asked[i]
           made  == {j \in DOMAIN got : Realizes(got[j], d)}
           Noted0(option) == NotedOption(client, upstream, d, option)
<1>1. /\ client \in Protocols /\ upstream \in Protocols /\ client # upstream
      /\ ProperRequest(client, Asked)
      /\ Got.tools = tools.tools /\ given.toolNotes = tools.notes
  BY GivenFacts
<1>2. PICK U : Asked.tools \in Seq(U)
  BY <1>1, RequestFacts
<1>3. asked = Definitions(client, Asked.tools)
  BY DEF AskedDefinitions
<1>4. got = Definitions(upstream, ToolsFor(upstream, asked))
  BY <1>1, <1>3, ToolsWritten DEF GotDefinitions
<1>5. \/ d.options = {} /\ ToolNotes(client, upstream, d) # {}
      \/ \E j \in DOMAIN got : Realizes(got[j], d) /\ \A option \in d.options : option \in got[j].options \/ Noted0(option)
  <2>1. ProperTools(client, Asked.tools)
    BY <1>1, RequestFacts
  <2> HIDE DEF asked, got
  <2> QED
    BY <1>1, <1>2, <1>3, <1>4, <2>1, ToolsAreKept DEF asked
<1>6. \A code \in ToolNotes(client, upstream, d) : <<i, code>> \in given.toolNotes
  BY <1>1, <1>3, ToolsNoted
<1> HIDE DEF asked, got, tools, d
<1>7. ASSUME NEW code \in ToolNotes(client, upstream, d)
      PROVE  ToldOf(i)
  <2>1. <<i, code>> \in given.toolNotes
    BY <1>6
  <2>2. <<i, code>>[1] = i
    OBVIOUS
  <2> QED
    BY <2>1, <2>2 DEF ToldOf
<1>8. ASSUME NEW option, Noted0(option)
      PROVE  Speaks(i, option)
  <2>1. CASE \E loss \in SearchLosses(upstream) : option \in loss[2] /\ loss[1] \in ToolNotes(client, upstream, d)
    <3>1. PICK loss \in SearchLosses(upstream) : option \in loss[2] /\ loss[1] \in ToolNotes(client, upstream, d)
      BY <2>1
    <3>2. <<i, loss[1]>> \in given.toolNotes
      BY <1>6, <3>1
    <3> QED
      BY <3>1, <3>2 DEF Speaks
  <2>2. CASE option = "strict" /\ "unsupported_function_strict" \in ToolNotes(client, upstream, d)
    <3>1. <<i, "unsupported_function_strict">> \in given.toolNotes
      BY <1>6, <2>2
    <3> QED
      BY <2>2, <3>1 DEF Speaks
  <2>3. CASE option = "config" /\ ToolNotes(client, upstream, d) # {}
    BY <1>7, <2>3 DEF Speaks
  <2> QED
    BY <1>8, <2>1, <2>2, <2>3 DEF NotedOption
<1> HIDE DEF Noted0
<1>9. CASE d.options = {} /\ ToolNotes(client, upstream, d) # {}
  BY <1>7, <1>9 DEF ToolKept, d, asked
<1>10. CASE \E j \in DOMAIN got : Realizes(got[j], d) /\ \A option \in d.options : option \in got[j].options \/ Noted0(option)
  <2>1. PICK j \in DOMAIN got : Realizes(got[j], d) /\ \A option \in d.options : option \in got[j].options \/ Noted0(option)
    BY <1>10
  <2>2. j \in made
    BY <2>1
  <2>3. \A option \in d.options : Speaks(i, option) \/ option \in got[j].options
    BY <1>8, <2>1
  <2>4. made # {} /\ \A option \in d.options : Speaks(i, option) \/ \E k \in made : option \in got[k].options
    BY <2>2, <2>3
  <2> QED
    BY <2>4 DEF ToolKept, d, asked, got
<1> QED
  BY <1>5, <1>9, <1>10

LEMMA NothingIsDropped ==
    ASSUME SettingsInv
    PROVE  NothingDroppedSilently
<1> SUFFICES ASSUME Converted
             PROVE  /\ \A i \in DOMAIN AskedDefinitions : ToolKept(i)
                    /\ ChoiceKept
                    /\ Asked.parallel = {FALSE} => Got.parallel = {FALSE} \/ ToldOf(0) \/ \E c \in Got.choice : c.word = "none"
                    /\ \A label \in Asked.labels \intersect {"stop", "format"} : label \in Got.labels \/ LeftBehind(label)
                    /\ Positive(Asked.max) # {} => Got.max = Asked.max \/ Noted({"claude_max_tokens_raised"})
  BY DEF NothingDroppedSilently
<1> DEFINE s     == [Asked EXCEPT !.tools = <<>>, !.choice = {}, !.parallel = {}]
           rest  == ConvertSettings(client, upstream, profile.origin, profile.model, profile.default, s)
           tools == ConvertTools(client, upstream, Asked)
<1>1. /\ client \in Protocols /\ upstream \in Protocols /\ client # upstream
      /\ ProperRequest(client, Asked)
      /\ rest.ok /\ tools.ok
      /\ s.max = Asked.max /\ s.labels = Asked.labels
      /\ Got.labels = FromStopList(rest.got.labels) /\ Got.max = rest.got.max
      /\ Got.tools = tools.tools /\ Got.choice = tools.choice /\ Got.parallel = tools.parallel
      /\ given.notes = rest.notes /\ given.toolNotes = tools.notes
  BY GivenFacts
<1>2. (\E note \in tools.notes : note[1] = 0) => ToldOf(0)
  BY <1>1 DEF ToldOf
<1>3. ChoiceKept
  <2>1. PICK U : Asked.tools \in Seq(U)
    BY <1>1, RequestFacts
  <2>2. Readable(client, Asked.tools, Asked.choice)
    BY <1>1, ToolsOutcome
  <2>3. ASSUME NEW c \in Asked.choice
        PROVE  ToldOf(0) \/ \E g \in Got.choice :
                    SameChoice(MeantBy(client, c, AskedDefinitions), MeantBy(upstream, g, GotDefinitions))
    <3>1. (\E note \in tools.notes : note[1] = 0)
          \/ \E g \in tools.choice : SameChoice(MeantBy(client, c, Definitions(client, Asked.tools)),
                                                MeantBy(upstream, g, GotDefinitions))
      <4> DEFINE a == Asked
                 gd == GotDefinitions
      <4>1. a.tools \in Seq(U) /\ Readable(client, a.tools, a.choice) /\ c \in a.choice
        BY <2>1, <2>2
      <4> HIDE DEF a, gd
      <4>2. LET out == ConvertTools(client, upstream, a)
                m   == MeantBy(client, c, Definitions(client, a.tools))
            IN  (\E note \in out.notes : note[1] = 0) \/ \E g \in out.choice : SameChoice(m, MeantBy(upstream, g, gd))
        BY <1>1, <4>1, ChoiceIsKept
      <4> QED
        BY <4>2 DEF a, gd
    <3> HIDE DEF tools
    <3> QED
      BY <1>1, <1>2, <3>1 DEF AskedDefinitions
  <2> QED
    BY <2>3 DEF ChoiceKept
<1>4. Asked.parallel = {FALSE} => Got.parallel = {FALSE} \/ ToldOf(0) \/ \E c \in Got.choice : c.word = "none"
  <2>1. Asked.parallel = {FALSE} =>
            tools.parallel = {FALSE} \/ (\E note \in tools.notes : note[1] = 0) \/ \E g \in tools.choice : g.word = "none"
    BY <1>1, ParallelIsKept
  <2> HIDE DEF tools
  <2> QED
    BY <1>1, <1>2, <2>1
<1>5. Arrives(client, upstream, s, rest)
  <2>1. s.max \in Optional(Int)
    <3>1. Asked.max \in Optional(Int)
      BY <1>1, RequestFacts
    <3> QED
      BY <1>1, <3>1
  <2> HIDE DEF s
  <2> QED
    BY <1>1, <2>1, SettingsArrive
<1> HIDE DEF s, rest, tools
<1>6. \A label \in Asked.labels \intersect {"stop", "format"} : label \in Got.labels \/ LeftBehind(label)
  BY <1>1, <1>5 DEF Arrives, LeavesBehind, LeftBehind
<1>7. Positive(Asked.max) # {} => Got.max = Asked.max \/ Noted({"claude_max_tokens_raised"})
  BY <1>1, <1>5 DEF Arrives, Bounded, Noted
<1>8. \A i \in DOMAIN AskedDefinitions : ToolKept(i)
  BY EveryToolIsKept
<1> QED
  BY <1>3, <1>4, <1>6, <1>7, <1>8

\* Whatever is asked of any upstream: each tool, the choice among them, the wish for
\* one call at a time, stop sequences, the answer's form and max_tokens are in the
\* converted request, or a note (or the list of what a protocol has no place for)
\* tells of it.  For every list of tools and every setting, of which the run tries
\* one or two at a time.
THEOREM NothingDroppedHolds == Spec => []NothingDroppedSilently
<1>1. Init => SettingsInv
  BY SettingsInvInit
<1>2. SettingsInv /\ [Next]_vars => SettingsInv'
  BY SettingsInvNext
<1>3. SettingsInv => NothingDroppedSilently
  BY NothingIsDropped
<1> QED
  BY <1>1, <1>2, <1>3, PTL DEF Spec
-----------------------------------------------------------------------------
(* What its upstream accepts. *)

LEMMA GivenToClaude ==
    ASSUME SettingsInv, Converted, upstream = "Claude"
    PROVE  AcceptableToClaude
<1> DEFINE s    == [Asked EXCEPT !.tools = <<>>, !.choice = {}, !.parallel = {}]
           rest == ConvertSettings(client, upstream, profile.origin, profile.model, profile.default, s)
           named == Named(client, profile.model, profile.origin)
           can  == ClaudeCan(CapabilityModel(named, profile.origin))
<1>1. /\ client \in Protocols /\ client # upstream /\ ProperRequest(client, Asked)
      /\ rest.ok /\ s.max = Asked.max /\ ProperThinking(s)
      /\ Got.labels = FromStopList(rest.got.labels) /\ Got.max = rest.got.max /\ Got.thinking = rest.got.thinking
  BY GivenFacts
<1>2. s.max \in Optional(Nat)
  <2>1. Asked.max \in Optional(Nat)
    BY <1>1, RequestFacts
  <2> QED
    BY <1>1, <2>1
<1>3. profile.default \in Nat /\ profile.default > 0
  BY DEF SettingsInv, ProperProfile
<1> HIDE DEF s
<1>4. Fits(upstream, named, profile.model, profile.origin, rest)
  BY <1>1, <1>2, <1>3, RouteFits
<1> HIDE DEF rest, named
<1>5. ClaudeAccepts(can, rest.got)
  BY <1>1, <1>4 DEF Fits
<1> HIDE DEF can
<1> DEFINE r == rest.got
<1>6. FromStopList(r.labels) \intersect SamplingLabels = r.labels \intersect SamplingLabels
      /\ FromStopList(r.labels) \intersect {"temperature", "top_p", "top_k"} = r.labels \intersect {"temperature", "top_p", "top_k"}
  BY DEF FromStopList, SamplingLabels
<1> HIDE DEF r
<1>7. (\E m \in Got.max : m > 0) /\ AcceptsThinking(can, Got) /\ AcceptsSampling(can, Got)
  BY <1>1, <1>5, <1>6 DEF ClaudeAccepts, AcceptsThinking, AcceptsSampling, r
<1>8. ~MistakenModel => can = ClaudeCan(CapabilityModel(profile.model, profile.origin))
  <2>1. client \in {"Chat", "Responses", "Gemini"}
    BY <1>1 DEF Protocols
  <2>2. ~MistakenModel => named = profile.model
    BY <2>1 DEF MistakenModel, named, Named
  <2> QED
    BY <2>2 DEF can
<1> QED
  BY <1>7, <1>8 DEF AcceptableToClaude

LEMMA GivenToGemini ==
    ASSUME SettingsInv, Converted, upstream = "Gemini"
    PROVE  AcceptableToGemini
<1> DEFINE s    == [Asked EXCEPT !.tools = <<>>, !.choice = {}, !.parallel = {}]
           rest == ConvertSettings(client, upstream, profile.origin, profile.model, profile.default, s)
           named == Named(client, profile.model, profile.origin)
<1>1. /\ client \in Protocols /\ client # upstream /\ ProperRequest(client, Asked)
      /\ rest.ok /\ s.max = Asked.max /\ ProperThinking(s) /\ Got.config = rest.got.config
  BY GivenFacts
<1>2. s.max \in Optional(Nat)
  <2>1. Asked.max \in Optional(Nat)
    BY <1>1, RequestFacts
  <2> QED
    BY <1>1, <2>1
<1>3. profile.default \in Nat
  BY DEF SettingsInv, ProperProfile
<1> HIDE DEF s
<1>4. Fits(upstream, named, profile.model, profile.origin, rest)
  BY <1>1, <1>2, <1>3, RouteFits
<1> HIDE DEF rest, named
<1>5. \A c \in Got.config : GeminiAccepts(profile.model, c)
  BY <1>1, <1>4 DEF Fits
<1> QED
  BY <1>5 DEF GeminiAccepts, GeminiTakes, AcceptableToGemini

\* What a choice means, by the words it is made of.
LEMMA MeantNames ==
    ASSUME NEW from \in Protocols, NEW c, NEW definitions
    PROVE  LET m == MeantBy(from, c, definitions)
           IN  /\ m.mode = "required" => c.word \in {"required", "any", "ANY"}
               /\ m.mode = "named" => \/ c.word \in {"function", "tool"} /\ m.name = c.name
                                      \/ m.name \in c.names
                                      \/ c.word \in {"web_search", "web_search_preview"}
<1> DEFINE Says(m) == /\ m.mode = "required" => c.word \in {"required", "any", "ANY"}
                      /\ m.mode = "named" => \/ c.word \in {"function", "tool"} /\ m.name = c.name
                                             \/ m.name \in c.names
                                             \/ c.word \in {"web_search", "web_search_preview"}
<1>1. \A mode : Plainly(mode).mode = mode
  BY DEF Plainly, Meant
<1>2. \A kind, name : Meant("named", kind, name, {}).mode = "named" /\ Meant("named", kind, name, {}).name = name
  BY DEF Meant
<1>3. Says(FromWord(c.word))
  <2> DEFINE m == FromWord(c.word)
  <2>1. /\ c.word = "none" => m = Plainly("none")
        /\ c.word = "auto" => m = Plainly("auto")
        /\ c.word \in {"required", "any"} => m = Plainly("required")
        /\ c.word \notin {"none", "auto", "required", "any"} => m = Plainly("opaque")
    BY WordReading
  <2> HIDE DEF m
  <2>2. Says(m)
    BY <1>1, <2>1
  <2> QED
    BY <2>2 DEF m
<1>4. \A kind : c.word \in {"function", "tool"} => Says(Meant("named", kind, c.name, {}))
  BY <1>2
<1>5. Says(Plainly("opaque")) /\ Says(Plainly("none")) /\ Says(Plainly("auto"))
  BY <1>1
<1>6. c.word \in {"web_search", "web_search_preview"} => Says(Meant("named", "web_search", "web_search", {}))
  BY <1>2
<1>7. c.word = "ANY" => Says(Meant("required", "function", "", c.names))
  <2>1. Meant("required", "function", "", c.names).mode = "required"
    BY DEF Meant
  <2> QED
    BY <2>1
<1>8. (\E n \in c.names : c.names = {n}) => Says(Meant("named", "function", CHOOSE n \in c.names : TRUE, {}))
  <2> DEFINE only == CHOOSE n \in c.names : TRUE
  <2>1. (\E n \in c.names : c.names = {n}) => only \in c.names
    OBVIOUS
  <2> HIDE DEF only
  <2>2. Meant("named", "function", only, {}).mode = "named" /\ Meant("named", "function", only, {}).name = only
    BY <1>2
  <2>3. (\E n \in c.names : c.names = {n}) => Says(Meant("named", "function", only, {}))
    BY <2>1, <2>2
  <2> QED
    BY <2>3 DEF only
<1> HIDE DEF Says
<1>9. Says(ChatMeant(c))
  BY <1>3, <1>4 DEF ChatMeant
<1>10. Says(ResponsesMeant(c))
  BY <1>3, <1>4, <1>6, ResponsesChoiceReading
<1>11. Says(ClaudeMeant(c, definitions))
  BY <1>3, <1>4, <1>5, ClaudeChoiceReading
<1>12. Says(GeminiMeant(c))
  <2> DEFINE m == GeminiMeant(c)
             only == CHOOSE n \in c.names : TRUE
  <2>1. /\ c.word = "NONE" => m = Plainly("none")
        /\ c.word \in {"", "AUTO"} => m = Plainly("auto")
        /\ c.word = "ANY" /\ (\E n \in c.names : c.names = {n}) => m = Meant("named", "function", only, {})
        /\ c.word = "ANY" /\ ~(\E n \in c.names : c.names = {n}) => m = Meant("required", "function", "", c.names)
        /\ c.word \notin {"NONE", "", "AUTO", "ANY"} => m = Plainly("opaque")
    BY GeminiChoiceReading
  <2>2. (\E n \in c.names : c.names = {n}) => Says(Meant("named", "function", only, {}))
    BY <1>8
  <2> HIDE DEF m, only
  <2>3. Says(m)
    BY <1>5, <1>7, <2>1, <2>2
  <2> QED
    BY <2>3 DEF m
<1>13. Says(MeantBy(from, c, definitions))
  BY <1>9, <1>10, <1>11, <1>12, ChoiceReading DEF Protocols
<1> QED
  BY <1>13 DEF Says

\* A tool that is neither a function nor a search is left out with a note, or is one
\* of Gemini's own that a Chat client asked for by name.
LEMMA OthersAreTold ==
    ASSUME SettingsInv, Converted, NEW i \in DOMAIN AskedDefinitions,
           AskedDefinitions[i].kind \notin {"function", "web_search"}
    PROVE  ToldOf(i) \/ (client = "Chat" /\ PseudoHosted(Asked.tools[i].name) # {})
<1> DEFINE d == AskedDefinitions[i]
           t == Asked.tools[i]
           tools == ConvertTools(client, upstream, Asked)
<1>1. /\ client \in Protocols /\ upstream \in Protocols /\ client # upstream /\ ProperRequest(client, Asked)
      /\ given.toolNotes = tools.notes
  BY GivenFacts
<1>2. i \in DOMAIN Asked.tools /\ d = DefinitionOf(client, t)
  BY DEF AskedDefinitions, Definitions
<1>3. ProperTool(client, t)
  BY <1>1, <1>2 DEF ProperRequest
<1>4. \A code \in ToolNotes(client, upstream, d) : <<i, code>> \in given.toolNotes
  <2>1. AskedDefinitions = Definitions(client, Asked.tools)
    BY DEF AskedDefinitions
  <2> QED
    BY <1>1, <2>1, ToolsOutcome
<1> HIDE DEF d, t, tools
<1>5. ~NativeGemini(upstream, d) => ToldOf(i)
  <2> DEFINE code == OtherNote(client, upstream, d)
  <2>1. ~NativeGemini(upstream, d) => ToolNotes(client, upstream, d) = {code}
    BY DEF ToolNotes, d
  <2> HIDE DEF code
  <2>2. ~NativeGemini(upstream, d) => <<i, code>> \in given.toolNotes
    BY <1>4, <2>1
  <2>3. <<i, code>>[1] = i
    OBVIOUS
  <2> QED
    BY <2>2, <2>3 DEF ToldOf
<1>6. NativeGemini(upstream, d) => client = "Chat" /\ PseudoHosted(t.name) # {}
  <2> SUFFICES ASSUME upstream = "Gemini", d.native \in {"codeExecution", "urlContext"}
               PROVE  client = "Chat" /\ PseudoHosted(t.name) # {}
    BY DEF NativeGemini
  <2>1. t.type \notin {"codeExecution", "urlContext"}
    BY <1>1, <1>3 DEF ProperTool
  <2> DEFINE Is(x, native) == \E kind, name, options : x = Definition(kind, native, name, options)
  <2>2. Is(ResponsesDefinition(t), "") \/ Is(ResponsesDefinition(t), t.type)
    BY ResponsesReading
  <2>3. Is(ClaudeDefinition(t), "") \/ Is(ClaudeDefinition(t), t.type)
    BY ClaudeReading
  <2>4. \/ Is(ChatDefinition(t), "") \/ Is(ChatDefinition(t), t.type) \/ ChatDefinition(t) = ResponsesDefinition(t)
        \/ PseudoHosted(t.name) # {}
    <3>1. ChatDefinition(t) \in PseudoHosted(t.name) => PseudoHosted(t.name) # {}
      OBVIOUS
    <3> QED
      BY <3>1, ChatReading
  <2>5. \A x, native : Is(x, native) => x.native = native
    BY DEF Definition
  <2> HIDE DEF Is
  <2>6. client \in {"Chat", "Claude", "Responses"}
    BY <1>1 DEF Protocols
  <2>7. /\ client = "Chat" => d = ChatDefinition(t)
        /\ client = "Claude" => d = ClaudeDefinition(t)
        /\ client = "Responses" => d = ResponsesDefinition(t)
    BY <1>2 DEF DefinitionOf
  <2> QED
    BY <2>1, <2>2, <2>3, <2>4, <2>5, <2>6, <2>7
<1> QED
  BY <1>5, <1>6 DEF t

\* A tool that is offered is offered upstream, or told of, or one of Gemini's own.
LEMMA OfferedThere ==
    ASSUME SettingsInv, Converted, NEW i \in DOMAIN AskedDefinitions
    PROVE  \/ ToldOf(i)
           \/ client = "Chat" /\ PseudoHosted(Asked.tools[i].name) # {}
           \/ AskedDefinitions[i].kind = "web_search" /\ \E j \in DOMAIN GotDefinitions : GotDefinitions[j].kind = "web_search"
           \/ \E j \in DOMAIN GotDefinitions : GotDefinitions[j].name = Asked.tools[i].name
<1> DEFINE d == AskedDefinitions[i]
           got == GotDefinitions
           made == {j \in DOMAIN got : Realizes(got[j], d)}
<1>1. client \in Protocols /\ ProperRequest(client, Asked)
  BY GivenFacts
<1>2. made # {} \/ ToldOf(i)
  BY EveryToolIsKept DEF ToolKept
<1>3. CASE made # {} /\ d.kind = "web_search"
  BY <1>3 DEF Realizes
<1>4. CASE made # {} /\ d.kind = "function"
  <2> DEFINE t == Asked.tools[i]
  <2>1. d = DefinitionOf(client, t) /\ i \in DOMAIN Asked.tools
    BY DEF AskedDefinitions, Definitions
  <2>2. ProperTool(client, t)
    BY <1>1, <2>1 DEF ProperRequest
  <2> HIDE DEF t, d
  <2>3. d.name = t.name
    BY <1>1, <1>4, <2>1, <2>2, DefinitionFacts
  <2> HIDE DEF got
  <2>4. \E j \in DOMAIN got : got[j].name = d.name
    BY <1>4 DEF Realizes
  <2> QED
    BY <2>3, <2>4 DEF t, got
<1>5. CASE d.kind \notin {"function", "web_search"}
  BY <1>5, OthersAreTold
<1> QED
  BY <1>2, <1>3, <1>4, <1>5

LEMMA ChoiceIsAcceptable ==
    ASSUME SettingsInv, Converted, ChoosesOffered(Asked)
    PROVE  AcceptableChoice
<1> DEFINE Fine(m) ==
               \/ m.mode \in {"auto", "none", "opaque"}
               \/ m.mode = "required" /\ GotDefinitions # <<>>
               \/ m.mode = "named" /\ \E j \in DOMAIN GotDefinitions :
                       GotDefinitions[j].name = m.name \/ GotDefinitions[j].kind = "web_search"
               \/ \E i \in DOMAIN AskedDefinitions : ToldOf(i)
               \/ client = "Chat" /\ PseudoHosted(m.name) # {}
           tools == ConvertTools(client, upstream, Asked)
<1>1. /\ client \in Protocols /\ upstream \in Protocols /\ client # upstream /\ ProperRequest(client, Asked)
      /\ tools.ok /\ Got.choice = tools.choice
  BY GivenFacts
<1>2. PICK U : Asked.tools \in Seq(U)
  BY <1>1, RequestFacts
<1>3. Got.choice = WrittenChoice(client, upstream, Asked) /\ Readable(client, Asked.tools, Asked.choice)
  BY <1>1, ToolsOutcome
<1>4. AskedDefinitions = Definitions(client, Asked.tools) /\ DOMAIN AskedDefinitions = DOMAIN Asked.tools
  BY DEF AskedDefinitions, Definitions
<1> HIDE DEF tools
<1> SUFFICES ASSUME NEW g \in Got.choice
             PROVE  Fine(MeantBy(upstream, g, GotDefinitions))
  BY DEF AcceptableChoice
<1> DEFINE meantHere == {MeantBy(client, c, AskedDefinitions) : c \in Asked.choice}
<1>5. (upstream = "Claude" /\ g = Choice("auto", "", {})) \/ \E m \in meantHere : g \in ChoiceFor(upstream, Narrowed(m))
  <2> DEFINE a == Asked
  <2>1. WrittenChoice(client, upstream, a) =
            IF upstream = "Claude" THEN ClaudeChoice(meantHere, a.parallel)
            ELSE UNION {ChoiceFor(upstream, Narrowed(m)) : m \in meantHere}
    BY <1>4 DEF WrittenChoice
  <2> HIDE DEF a, meantHere
  <2>2. ClaudeChoice(meantHere, a.parallel) =
            IF meantHere = {} /\ a.parallel # {} THEN {Choice("auto", "", {})}
            ELSE UNION {ChoiceFor("Claude", Narrowed(m)) : m \in meantHere}
    BY DEF ClaudeChoice
  <2> DEFINE plain == Choice("auto", "", {})
  <2>3. ClaudeChoice(meantHere, a.parallel) = {plain}
        \/ ClaudeChoice(meantHere, a.parallel) = UNION {ChoiceFor("Claude", Narrowed(m)) : m \in meantHere}
    BY <2>2
  <2>4. g \in WrittenChoice(client, upstream, a)
    BY <1>3 DEF a
  <2> HIDE DEF plain
  <2>5. (upstream = "Claude" /\ g = plain) \/ g \in UNION {ChoiceFor(upstream, Narrowed(m)) : m \in meantHere}
    BY <2>1, <2>3, <2>4
  <2> QED
    BY <2>5 DEF plain
<1>6. CASE upstream = "Claude" /\ g = Choice("auto", "", {})
  <2> DEFINE read == MeantBy(upstream, g, GotDefinitions)
  <2>1. g.word = "auto"
    BY <1>6 DEF Choice
  <2>2. read = FromWord("auto")
    BY <1>6, <2>1, ChoiceReading, ClaudeChoiceReading
  <2>3. FromWord("auto") = Plainly("auto")
    BY WordReading
  <2>4. Plainly("auto").mode = "auto"
    BY DEF Plainly, Meant
  <2> HIDE DEF read
  <2>5. Fine(read)
    BY <2>2, <2>3, <2>4
  <2> QED
    BY <2>5 DEF read
<1>7. ASSUME NEW c \in Asked.choice, g \in ChoiceFor(upstream, Narrowed(MeantBy(client, c, AskedDefinitions)))
      PROVE  Fine(MeantBy(upstream, g, GotDefinitions))
  <2> DEFINE m    == MeantBy(client, c, AskedDefinitions)
             read == MeantBy(upstream, g, GotDefinitions)
             names == {Asked.tools[i].name : i \in DOMAIN Asked.tools}
  <2>1. PICK mode, kind, name, restricted : m = Meant(mode, kind, name, restricted)
    BY <1>1, ChoiceFields
  <2>2. g \in ChoiceFor(upstream, m)
    <3> HIDE DEF m
    <3>1. g \in ChoiceFor(upstream, Narrowed(m))
      BY <1>7 DEF m
    <3> QED
      BY <1>1, <2>1, <3>1, NarrowedIsSaidAlike
  <2>3. MeantShape(m)
    <3> DEFINE a == Asked
    <3>1. a.tools \in Seq(U) /\ Readable(client, a.tools, a.choice) /\ c \in a.choice
      BY <1>2, <1>3
    <3>2. m = MeantBy(client, c, Definitions(client, a.tools))
      BY <1>4
    <3> HIDE DEF a, m
    <3> QED
      BY <1>1, <3>1, <3>2, ChoiceShape
  <2>4. /\ m.mode = "required" => c.word \in {"required", "any", "ANY"}
        /\ m.mode = "named" => \/ c.word \in {"function", "tool"} /\ m.name = c.name
                               \/ m.name \in c.names
                               \/ c.word \in {"web_search", "web_search_preview"}
    BY <1>1, MeantNames
  <2>5. /\ c.word \in {"function", "tool"} => c.name \in names
        /\ c.names \subseteq names
        /\ c.word \in {"required", "any", "ANY"} => Asked.tools # <<>>
        /\ c.word \in {"web_search", "web_search_preview"} =>
                \E i \in DOMAIN AskedDefinitions : AskedDefinitions[i].kind = "web_search"
    BY DEF ChoosesOffered
  <2> HIDE DEF m
  <2>6. read.mode = m.mode /\ read.name = m.name
    BY <1>1, <2>2, <2>3, ChoiceIsSaid
  <2> HIDE DEF read
  <2>7. m.mode \in {"opaque", "auto", "none", "required", "named"}
    BY <2>3 DEF MeantShape
  <2>8. ASSUME m.mode = "required"
        PROVE  GotDefinitions # <<>> \/ \E i \in DOMAIN AskedDefinitions : ToldOf(i)
    <3>1. 1 \in DOMAIN AskedDefinitions
      <4>1. Asked.tools # <<>>
        BY <2>4, <2>5, <2>8
      <4> DEFINE list == Asked.tools
      <4>2. list \in Seq(U) /\ list # <<>>
        BY <1>2, <4>1
      <4> HIDE DEF list
      <4>3. 1 \in DOMAIN list
        BY <4>2
      <4> QED
        BY <1>4, <4>3 DEF list
    <3>2. CASE ToldOf(1)
      BY <3>1, <3>2
    <3>3. CASE \E j \in DOMAIN GotDefinitions : Realizes(GotDefinitions[j], AskedDefinitions[1])
      BY <3>3
    <3> QED
      BY <3>1, <3>2, <3>3, EveryToolIsKept DEF ToolKept
  <2>9. ASSUME m.mode = "named"
        PROVE  Fine(read)
    <3>1. CASE \E i \in DOMAIN AskedDefinitions : AskedDefinitions[i].kind = "web_search"
      <4>1. PICK i \in DOMAIN AskedDefinitions : AskedDefinitions[i].kind = "web_search"
        BY <3>1
      <4>2. CASE ToldOf(i)
        BY <4>2
      <4>3. CASE \E j \in DOMAIN GotDefinitions : Realizes(GotDefinitions[j], AskedDefinitions[i])
        BY <2>6, <2>9, <4>1, <4>3 DEF Realizes
      <4> QED
        BY <4>1, <4>2, <4>3, EveryToolIsKept DEF ToolKept
    <3>2. CASE m.name \in names
      <4>1. PICK i \in DOMAIN Asked.tools : m.name = Asked.tools[i].name
        BY <3>2
      <4>2. i \in DOMAIN AskedDefinitions
        BY <1>4
      <4> QED
        BY <2>6, <2>9, <4>1, <4>2, OfferedThere
    <3> QED
      BY <2>4, <2>5, <2>9, <3>1, <3>2
  <2> QED
    BY <2>6, <2>7, <2>8, <2>9 DEF read
<1> QED
  BY <1>5, <1>6, <1>7

LEMMA SettingsAreAcceptable ==
    ASSUME SettingsInv
    PROVE  AcceptableSettings
BY GivenToClaude, GivenToGemini, ChoiceIsAcceptable DEF AcceptableSettings

\* Whatever is asked, the upstream's API takes the settings it is given: thinking of
\* a kind the model has, 1024 <= budget < max_tokens, no sampling beside thinking; a
\* budget or a level that is the Gemini model's; a choice of a tool that is there.
\* For every budget, max_tokens, model name, list of tools and configured default.
THEOREM SettingsAccepted == Spec => []AcceptableSettings
<1>1. Init => SettingsInv
  BY SettingsInvInit
<1>2. SettingsInv /\ [Next]_vars => SettingsInv'
  BY SettingsInvNext
<1>3. SettingsInv => AcceptableSettings
  BY SettingsAreAcceptable
<1> QED
  BY <1>1, <1>2, <1>3, PTL DEF Spec
=============================================================================
