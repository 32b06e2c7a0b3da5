---------------------------- MODULE Conversation ----------------------------
(***************************************************************************)
(* A conversation that is not streamed: a client that speaks one protocol,  *)
(* keeps the whole history itself and sends it with every request; the      *)
(* converters that write it in the upstream's protocol; and the converters  *)
(* that bring the answer back, which the client then repeats in its next    *)
(* request.  The operator may switch to an upstream of another protocol in  *)
(* the middle, and a client may forget the oldest turn.                     *)
(*                                                                          *)
(* A request also has settings.  They are converted with every request, but    *)
(* stay the same in a conversation: a conversation about them (a profile) is   *)
(* one question with nothing unusual in its messages.                          *)
(*                                                                          *)
(* history is the client's document, sent the last request the present      *)
(* upstream got, said what everyone really said: a sequence of atoms, each  *)
(* a word of a text, an image, a call, a result or a thought.               *)
(***************************************************************************)
EXTENDS ChatRequests, ClaudeRequests, GeminiRequests, ResponsesRequests, BufferedAnswers, RequestSettings, FiniteSets

CONSTANTS Pairs,        \* <<client's protocol, upstream's protocol>> at the beginning
          Profiles,     \* records of Profile: conversations of one question about their settings
          Systems,      \* whether there is a system prompt
          Sayings,      \* what the user may say first (later a text): sequences of "text" and "image"
          Utterances,   \* what a model may answer: sequences of piece kinds
          MaxTurns, MaxSwitches, MaxForgets

VARIABLES client, upstream, ids, history, said, sent, pending, turn, phase, meant, told, switches, forgets,
          profile, given

vars == <<client, upstream, ids, history, said, sent, pending, turn, phase, meant, told, switches, forgets, profile, given>>

Protocols == {"Chat", "Claude", "Gemini", "Responses"}
NoRequest == Document(<<>>, <<>>)

\* Who talks to whom, under which model names (the client's and the upstream's),
\* with which configured max_tokens for Claude and which settings.
Profile(from, to, origin, model, default, asked) ==
    [from |-> from, to |-> to, origin |-> origin, model |-> model, default |-> default, asked |-> asked]

Plain(from, to) == Profile(from, to, "some-model", "some-model", 8192, Settings({}, {}))
IsPlain == profile = Plain(profile.from, profile.to)

\* What the upstream is given of the settings.
Given(to, p) == ConvertRequestSettings(p.from, to, p.origin, p.model, p.default, p.asked)
NothingGiven == [ok |-> TRUE, got |-> Settings({}, {}), notes |-> {}, toolNotes |-> {}]

-----------------------------------------------------------------------------
(* What a profile asks for. *)

\* A tool that a client of the protocol offers.  Of a function's fields only
\* "strict" asks for something; Gemini's names for its own tools mean those tools
\* (to a Chat converter also as names of functions) and are no names for others.
ProperTool(protocol, t) ==
    /\ DefinitionOf(protocol, t).kind = "function" =>
        t.options \subseteq {"strict"} /\ (protocol # "Chat" => PseudoHosted(t.name) = {})
    /\ protocol # "Gemini" => t.type \notin {"codeExecution", "urlContext"}

\* An optional value of that type.
Maybe(S, type) == S \subseteq type /\ (S = {} \/ \E x \in S : S = {x})

\* The optional parts about thinking have optional fields.
ProperThinking(s) ==
    /\ Maybe(s.nested, s.nested) /\ Maybe(s.config, s.config) /\ Maybe(s.thinking, s.thinking)
    /\ \A n \in s.nested : Maybe(n.enabled, BOOLEAN) /\ Maybe(n.max, Int) /\ Maybe(n.exclude, BOOLEAN)
    /\ \A c \in s.config : c = Config(c.budget, c.level, c.include) /\ Maybe(c.budget, Int) /\ Maybe(c.include, BOOLEAN)
    /\ \A t \in s.thinking : Maybe(t.budget, Int)
    /\ s.pivot = {}

\* A request has at most one max_tokens, which is unsigned, and a list of such tools.
ProperRequest(protocol, s) ==
    /\ DOMAIN s = DOMAIN Settings({}, {})
    /\ Maybe(s.max, Nat)
    /\ ProperThinking(s)
    /\ s.tools \in Seq({s.tools[i] : i \in DOMAIN s.tools})
    /\ \A i \in DOMAIN s.tools : ProperTool(protocol, s.tools[i])

ProperProfile(p) ==
    /\ DOMAIN p = {"from", "to", "origin", "model", "default", "asked"}
    /\ p.from \in Protocols /\ p.to \in Protocols
    /\ p.default \in Nat /\ (p.to = "Claude" => p.default > 0)
    /\ ProperRequest(p.from, p.asked)

ASSUME ProfilesAssumption ==
    /\ Pairs \subseteq Protocols \X Protocols
    /\ \A p \in Profiles : ProperProfile(p)

-----------------------------------------------------------------------------
(* The routes of text_converter_registry.go. *)

ConvertRequest(from, to, doc) ==
    CASE from = to -> doc
      [] from = "Chat" /\ to = "Claude"         -> ChatToClaude(doc)
      [] from = "Chat" /\ to = "Gemini"         -> ChatToGemini(doc)
      [] from = "Chat" /\ to = "Responses"      -> ChatToResponses(doc)
      [] from = "Claude" /\ to = "Chat"         -> ClaudeToChat(doc)
      [] from = "Claude" /\ to = "Gemini"       -> ChatToGemini(ClaudeToChat(doc))
      [] from = "Claude" /\ to = "Responses"    -> ClaudeToResponses(doc)
      [] from = "Gemini" /\ to = "Chat"         -> GeminiToChat(doc)
      [] from = "Gemini" /\ to = "Claude"       -> ChatToClaude(GeminiToChat(doc))
      [] from = "Gemini" /\ to = "Responses"    -> ChatToResponses(GeminiToChat(doc))
      [] from = "Responses" /\ to = "Chat"      -> ResponsesToChat(doc)
      [] from = "Responses" /\ to = "Claude"    -> ResponsesToClaude(doc)
      [] from = "Responses" /\ to = "Gemini"    -> ResponsesToGemini(doc)

ToChatAnswer(from, a, fresh) ==
    CASE from = "Chat"      -> a
      [] from = "Claude"    -> ClaudeToChatAnswer(a)
      [] from = "Gemini"    -> GeminiToChatAnswer(a, fresh)
      [] from = "Responses" -> ResponsesToChatAnswer(a)

FromChatAnswer(to, a) ==
    CASE to = "Chat"      -> a
      [] to = "Claude"    -> ChatToClaudeAnswer(a)
      [] to = "Gemini"    -> ChatToGeminiAnswer(a)
      [] to = "Responses" -> ChatToResponsesAnswer(a)

ConvertAnswer(from, to, a, fresh) ==
    CASE from = to -> a
      [] from = "Responses" /\ to = "Claude" -> ResponsesToClaudeAnswer(a)
      [] OTHER -> FromChatAnswer(to, ToChatAnswer(from, a, fresh))

-----------------------------------------------------------------------------
(* What the client writes. *)

Atom(role, k, w) == [role |-> role, k |-> k, w |-> w]
Say(role, parts) ==
    FlattenSeq([i \in DOMAIN parts |-> [j \in DOMAIN parts[i].v |-> Atom(role, parts[i].k, parts[i].v[j])]])

Opening(protocol) ==
    LET text == <<Word("system", 0, 1)>>
    IN  IF protocol = "Chat" THEN Document(<<>>, <<StringMessage("system", text)>>) ELSE Document(<<text>>, <<>>)

UserEntry(parts) ==
    IF client # "Gemini" /\ Len(parts) = 1 /\ parts[1].k = "text" THEN StringMessage("user", parts[1].v)
    ELSE Message("user", "array", parts)

\* One entry per result, or one entry for all.
ResultEntries(results) ==
    CASE client = "Chat" ->
            [i \in DOMAIN results |-> [StringMessage("tool", results[i].v) EXCEPT !.id = results[i].id]]
      [] client = "Responses" ->
            [i \in DOMAIN results |->
                [Entry(IF results[i].k = "custom_result" THEN "custom_tool_call_output" ELSE "function_call_output",
                       "", "string", <<Text(results[i].v)>>) EXCEPT !.id = results[i].id]]
      [] client = "Claude" ->
            <<Message("user", "array", [i \in DOMAIN results |-> [results[i] EXCEPT !.name = NoName]])>>
      [] client = "Gemini" -> <<Message("user", "array", results)>>

\* An older Gemini client has no ids.
Written(entries) ==
    IF client # "Gemini" \/ ids THEN entries
    ELSE [i \in DOMAIN entries |-> [entries[i] EXCEPT !.content = [j \in DOMAIN @ |-> [@[j] EXCEPT !.id = NoId]]]]

\* The calls of an answer, as the client reads them.
CallsOf(entries) ==
    FlattenSeq([i \in DOMAIN entries |->
        CASE entries[i].type \in CallTypes ->
                <<[ItemCall(entries[i]) EXCEPT !.k = IF entries[i].type = "custom_tool_call" THEN "custom" ELSE "call"]>>
          [] entries[i].type = "message" -> entries[i].calls \o OfKind(entries[i].content, {"call"})
          [] OTHER -> <<>>])

\* The output of a call says of which call it is.
Output(call) ==
    [k |-> IF call.k = "custom" THEN "custom_result" ELSE "result", id |-> call.id, name |-> call.name,
     v |-> <<Word("output", call.v[1][2], call.v[1][3])>>]

-----------------------------------------------------------------------------
(* What the upstream writes. *)

CallId(i) == IF upstream = "Gemini" /\ ~ids THEN NoId ELSE "c" \o ToString(turn) \o ToString(i)

Piece(kind, i) ==
    CASE kind = "think"           -> Thinking(<<Word("thought", turn, i)>>)
      [] kind = "bare"            -> Part("bare", <<Word("thought", turn, i)>>)
      [] kind = "text"            -> Text(<<Word("model", turn, i)>>)
      [] kind \in {"f", "g"}      -> Call(CallId(i), kind, <<Word("args", turn, i)>>)
      [] kind = "custom"          -> [Call(CallId(i), "x", <<Word("args", turn, i)>>) EXCEPT !.k = "custom"]

Pieces(utterance) == [i \in DOMAIN utterance |-> Piece(utterance[i], i)]

\* An item per piece; reasoning is told as a summary, or bare, as content.
OutputItems(utterance) ==
    [i \in DOMAIN utterance |->
        LET p == Piece(utterance[i], i)
        IN  CASE utterance[i] = "think" -> [Entry("reasoning", "", "null", <<>>) EXCEPT !.thought = p.v]
              [] utterance[i] = "bare"  -> Entry("reasoning", "", "array", <<Text(p.v)>>)
              [] utterance[i] = "text"  -> Message("assistant", "array", <<p>>)
              [] OTHER -> [Entry(IF utterance[i] = "custom" THEN "custom_tool_call" ELSE "function_call",
                                 "", "string", <<Text(p.v)>>) EXCEPT !.id = p.id, !.name = p.name]]

\* Only Responses has custom calls and bare reasoning.
CanSay(utterance) == upstream = "Responses" \/ \A i \in DOMAIN utterance : utterance[i] \notin {"custom", "bare"}

CutOff  == {"length", "max_tokens", "MAX_TOKENS", "incomplete"}

UpstreamAnswer(utterance, finish) ==
    LET parts == Pieces(utterance)
        calls == OfKind(parts, {"call"})
    IN  CASE upstream = "Chat" ->
                ChatAnswer(JoinedText(parts), FlattenSeq(Values(OfKind(parts, {"thinking"}))), calls,
                           CASE finish = "length" -> "length" [] finish # "length" /\ calls # <<>> -> "tool_calls"
                             [] OTHER -> "stop")
          [] upstream = "Claude" ->
                Answer(<<Message("assistant", "array", parts)>>,
                       CASE finish = "length" -> "max_tokens" [] finish # "length" /\ calls # <<>> -> "tool_use"
                         [] OTHER -> "end_turn")
          [] upstream = "Gemini" ->
                Answer(<<Message("model", "array", parts)>>, IF finish = "length" THEN "MAX_TOKENS" ELSE "STOP")
          [] upstream = "Responses" ->
                Answer(OutputItems(utterance), IF finish = "length" THEN "incomplete" ELSE "completed")

\* How many ids were generated up to now.
FreshIds == Cardinality({i \in DOMAIN said : said[i].k \in {"call", "custom"}})

-----------------------------------------------------------------------------
Init ==
    /\ profile \in {Plain(pair[1], pair[2]) : pair \in Pairs} \union Profiles
    /\ client = profile.from /\ upstream = profile.to /\ given = NothingGiven
    /\ ids \in IF IsPlain /\ "Gemini" \in {client, upstream} THEN BOOLEAN ELSE {TRUE}
    /\ \E system \in Systems :
        /\ history = IF system THEN Opening(client) ELSE Document(<<>>, <<>>)
        /\ said = IF system THEN <<Atom("system", "text", Word("system", 0, 1))>> ELSE <<>>
    /\ sent = NoRequest /\ pending = <<>>
    /\ turn = 1 /\ phase = "user"
    /\ meant = "stop" /\ told = "stop"
    /\ switches = 0 /\ forgets = 0

UserSays ==
    /\ phase = "user" /\ turn < MaxTurns
    /\ \E saying \in IF turn = 1 /\ IsPlain THEN Sayings ELSE {<<"text">>} :
        LET parts == [i \in DOMAIN saying |-> Part(saying[i], <<Word("user", turn, i)>>)]
        IN  /\ history' = [history EXCEPT !.entries = Append(@, UserEntry(parts))]
            /\ said' = said \o Say("user", parts)
    /\ phase' = "ask" /\ meant' = "stop" /\ told' = "stop"
    /\ UNCHANGED <<client, upstream, ids, sent, pending, turn, switches, forgets, profile, given>>

\* ConvertRequest, and the upstream call.
Ask ==
    /\ phase = "ask"
    /\ given' = Given(upstream, profile)
    /\ sent' = IF given'.ok THEN ConvertRequest(client, upstream, history) ELSE NoRequest
    /\ phase' = IF given'.ok THEN "answer" ELSE "refused"
    /\ turn' = turn + 1
    /\ UNCHANGED <<client, upstream, ids, history, said, pending, meant, told, switches, forgets, profile>>

\* The upstream answers and the client adds what it is told to its history.
AnswerArrives ==
    /\ phase = "answer" /\ IsPlain
    /\ \E utterance \in Utterances, finish \in {"stop", "length"} :
        /\ CanSay(utterance)
        /\ \E a \in {ConvertAnswer(upstream, client, UpstreamAnswer(utterance, finish), FreshIds)} :
            /\ history' = [history EXCEPT !.entries = @ \o Written(a.entries)]
            /\ pending' = CallsOf(Written(a.entries))
            /\ told' = a.finish
        /\ said' = said \o Say("model", Pieces(utterance))
        /\ meant' = finish
    /\ phase' = IF pending' = <<>> THEN "user" ELSE "tools"
    /\ turn' = IF pending' = <<>> THEN turn + 1 ELSE turn
    /\ UNCHANGED <<client, upstream, ids, sent, switches, forgets, profile, given>>

\* Without ids the order tells calls of one name apart, and the client keeps it.
Unambiguous(order) ==
    client = "Gemini" /\ ~ids =>
        \A i, j \in DOMAIN order :
            i < j /\ pending[order[i]].name = pending[order[j]].name => order[i] < order[j]

\* The client runs the calls, in any order, and may let its user add a word.
RunTools ==
    /\ phase = "tools" /\ turn < MaxTurns
    /\ \E order \in SetToAllKPermutations(DOMAIN pending), remark \in BOOLEAN :
        LET results == [i \in DOMAIN order |-> Output(pending[order[i]])]
            words   == IF remark THEN <<Text(<<Word("user", turn, 0)>>)>> ELSE <<>>
            entries == Written(ResultEntries(results))
        IN  /\ Len(order) = Len(pending) /\ Unambiguous(order)
            /\ history' = [history EXCEPT !.entries =
                    CASE ~remark -> @ \o entries
                      [] remark /\ client \in {"Claude", "Gemini"} -> @ \o Extend(entries, words)
                      [] OTHER -> @ \o entries \o <<UserEntry(words)>>]
            /\ said' = said \o Say("user", results) \o Say("user", words)
    /\ pending' = <<>> /\ phase' = "ask" /\ meant' = "stop" /\ told' = "stop"
    /\ UNCHANGED <<client, upstream, ids, sent, turn, switches, forgets, profile, given>>

\* The operator makes another upstream the active one.
Switch ==
    /\ phase \in {"user", "tools"} /\ switches < MaxSwitches /\ said # <<>> /\ IsPlain
    /\ \E other \in Protocols \ {upstream} : upstream' = other /\ profile' = [profile EXCEPT !.to = other]
    /\ switches' = switches + 1 /\ sent' = NoRequest /\ given' = NothingGiven /\ meant' = "stop" /\ told' = "stop"
    /\ UNCHANGED <<client, ids, history, said, pending, turn, phase, forgets>>

\* A client short of context drops the user's first message; Claude and Gemini
\* want one at the beginning.
Forget ==
    /\ phase = "user" /\ forgets < MaxForgets /\ turn > 1 /\ client \in {"Chat", "Responses"}
    /\ \E i \in DOMAIN history.entries :
        /\ history.entries[i].role = "user" /\ \A j \in 1..(i - 1) : history.entries[j].role = "system"
        /\ history' = [history EXCEPT !.entries = RemoveAt(@, i)]
    /\ said' = SelectSeq(said, LAMBDA atom : atom.w[2] # 1)
    /\ forgets' = forgets + 1 /\ sent' = NoRequest /\ given' = NothingGiven
    /\ UNCHANGED <<client, upstream, ids, pending, turn, phase, meant, told, switches, profile>>

Next == UserSays \/ Ask \/ AnswerArrives \/ RunTools \/ Switch \/ Forget

Spec == Init /\ [][Next]_vars

-----------------------------------------------------------------------------
(* What a document says, as atoms: fillers and empty texts say nothing. *)

Side(entry) ==
    CASE entry.role \in {"assistant", "model"} \/ entry.type \in CallTypes \union {"reasoning"} -> "model"
      [] entry.role \in SystemRoles -> "system"
      [] OTHER -> "user"

\* The parts of an entry, whatever place the protocol has for them.
AllParts(entry) ==
    LET whole(k) == <<[k |-> k, v |-> JoinedText(entry.content), id |-> entry.id, name |-> entry.name]>>
    IN  CASE entry.type \in CallTypes   -> whole("call")
          [] entry.type \in OutputTypes \/ entry.role \in ToolRoles -> whole("result")
          [] entry.type = "reasoning"   -> <<Thinking(ReasoningText(entry))>>
          [] OTHER -> (IF entry.thought = <<>> THEN <<>> ELSE <<Thinking(entry.thought)>>)
                      \o entry.content \o entry.calls

Atoms(doc) ==
    SelectSeq(FlattenSeq([i \in DOMAIN doc.system |-> Say("system", <<Text(doc.system[i])>>)])
              \o FlattenSeq([i \in DOMAIN doc.entries |-> Say(Side(doc.entries[i]), AllParts(doc.entries[i]))]),
              LAMBDA atom : atom.w[1] # "filler")

Common(k) == CASE k = "custom" -> "call" [] k = "custom_result" -> "result" [] OTHER -> k
InCommon(atoms) == [i \in DOMAIN atoms |-> [atoms[i] EXCEPT !.k = Common(@)]]

Speech(atoms) == SelectSeq(InCommon(atoms), LAMBDA atom : atom.k \in {"text", "image"} /\ atom.w[1] # "thought")
Tooling(atoms) == SelectSeq(InCommon(atoms), LAMBDA atom : atom.k \in {"call", "result"})
Thoughts(atoms) == SelectSeq(atoms, LAMBDA atom : atom.k = "thinking")

\* What the converters leave out of a request, by design or not: the text a
\* model said beside its calls, and custom calls and their outputs.
BesideCalls(atom) ==
    /\ atom.role = "model" /\ atom.k = "text"
    /\ \E i \in DOMAIN said : said[i].k \in {"call", "custom"} /\ said[i].w[2] = atom.w[2]

Lost(atom) ==
    \/ client = "Claude" /\ upstream \in {"Chat", "Gemini"} /\ BesideCalls(atom)
    \/ client = "Gemini" /\ upstream # "Gemini" /\ BesideCalls(atom)
    \/ client = "Responses" /\ upstream = "Chat" /\ atom.k = "custom_result"
    \/ client = "Responses" /\ upstream = "Gemini" /\ atom.k \in {"custom", "custom_result"}

Kept == SelectSeq(said, LAMBDA atom : ~Lost(atom))

-----------------------------------------------------------------------------
TypeOK ==
    /\ client \in Protocols /\ upstream \in Protocols /\ ids \in BOOLEAN
    /\ phase \in {"user", "ask", "answer", "tools", "refused"} /\ turn \in 1..(MaxTurns + 1)
    /\ switches \in 0..MaxSwitches /\ forgets \in 0..MaxForgets

\* Whatever pair of protocols, however often the upstream changed on the way:
\* the request has every text, image, call and output of the conversation, once,
\* in its order and on its side, but for the losses Lost names.
NothingForgotten ==
    phase = "answer" => /\ Speech(Atoms(sent))  = Speech(Kept)
                        /\ Tooling(Atoms(sent)) = Tooling(Kept)

\* The client's own history, made of answers that were converted, says what the
\* upstreams said.
HistoryIsTrue ==
    phase = "ask" => /\ Speech(Atoms(history))  = Speech(said)
                     /\ Tooling(Atoms(history)) = Tooling(said)

CallPlaces(entries) ==
    {p \in (DOMAIN entries) \X (1..4) : p[2] \in DOMAIN AllParts(entries[p[1]]) /\ AllParts(entries[p[1]])[p[2]].k = "call"}
ResultPlaces(entries) ==
    {p \in (DOMAIN entries) \X (1..4) : p[2] \in DOMAIN AllParts(entries[p[1]]) /\ AllParts(entries[p[1]])[p[2]].k = "result"}
PartAt(entries, p) == AllParts(entries[p[1]])[p[2]]
SameCall(call, result) == call.v[1][2] = result.v[1][2] /\ call.v[1][3] = result.v[1][3]

\* A Responses client's reasoning items and custom outputs become messages of the
\* user between the calls and the results: a flaw of the route to Chat.
Stray(entry) ==
    /\ client = "Responses" /\ entry.role = "user"
    /\ entry = StringMessage("user", <<>>) \/ OfKind(entry.content, {"raw"}) # <<>>
Torn(entry) == Stray(entry) \/ (client = "Responses" /\ entry.calls # <<>>)

\* Where the upstream looks for the result of a call.
InPlace(entries, c, r) ==
    /\ c < r
    /\ upstream = "Chat" => \A i \in (c + 1)..(r - 1) : entries[i].role \in ToolRoles \/ Torn(entries[i])
    /\ upstream \in {"Claude", "Gemini"} => \A i \in (c + 1)..(r - 1) : Side(entries[i]) = "user"

\* The upstream reads each output as the answer to the call it was made for: the
\* id is that call's and no other's, for Gemini the name too, and it stands where
\* the protocol wants it.
ResultsMatch ==
    phase = "answer" =>
        \A r \in ResultPlaces(sent.entries) :
            LET result == PartAt(sent.entries, r)
                meantFor == {c \in CallPlaces(sent.entries) : SameCall(PartAt(sent.entries, c), result)}
                readAs   == {c \in CallPlaces(sent.entries) : PartAt(sent.entries, c).id = result.id}
            IN  /\ meantFor # {} /\ (result.id # NoId => readAs = meantFor)
                /\ \A c \in meantFor : InPlace(sent.entries, c[1], r[1])
                /\ upstream = "Gemini" => \A c \in meantFor : PartAt(sent.entries, c).name = result.name

\* After an empty answer the user's next text may be joined to the last one.
Grows(old, new) ==
    old = new \/ (old.role = new.role /\ IsString(old) /\ IsPrefix(StringContent(old), StringContent(new)))

Continues(old, new) ==
    /\ old.system = new.system /\ Len(old.entries) <= Len(new.entries)
    /\ \A i \in 1..(Len(old.entries) - 1) : old.entries[i] = new.entries[i]
    /\ Grows(Last(old.entries), new.entries[Len(old.entries)])

\* With the same upstream a request begins with the whole request before it:
\* nothing that was sent is worded, numbered or ordered anew (and the upstream's
\* prompt cache stays good).
FollowsUp == [][sent # NoRequest /\ sent' \notin {sent, NoRequest} => Continues(sent, sent')]_vars

\* An answer the upstream cut off is not told as complete, whatever the protocols
\* (but for Gemini's answers with calls, where the calls decide).
CutIsTold ==
    phase \in {"user", "tools"} /\ meant = "length" =>
        told \in CutOff \/ (upstream = "Gemini" /\ client # "Gemini" /\ pending # <<>>)

\* A thought is not told, or repeated, as speech; but Responses reasoning that has
\* a content is told as text in an answer without one (ExtractOutputTextFromResponses),
\* and passed on to Chat in a message of the user (Stray).
BareOnly(word) ==
    /\ \E i \in DOMAIN said : said[i].k = "bare" /\ said[i].w = word
    /\ ~\E i \in DOMAIN said : said[i].role = "model" /\ said[i].k = "text" /\ said[i].w[2] = word[2]

ThoughtsStayThoughts ==
    phase = "answer" => \A atom \in ToSet(Atoms(history)) \union ToSet(Atoms(sent)) :
        atom.w[1] = "thought" => atom.k = "thinking" \/ BareOnly(atom.w) \/ (atom.k = "raw" /\ client = "Responses")

\* What Claude wants of any request's messages.
AcceptableMessages ==
    phase = "answer" /\ upstream = "Claude" /\ client # "Claude" =>
        /\ sent.entries # <<>> /\ sent.entries[1].role = "user"
        /\ \A i \in DOMAIN sent.entries :
            /\ AllParts(sent.entries[i]) # <<>>
            /\ NonEmpty(AllParts(sent.entries[i])) = AllParts(sent.entries[i])

\* The upstream takes the messages of a request: each output stands where its
\* protocol looks for it and names its call, and Claude gets a conversation that
\* begins with the user and has no empty message and no empty text.
MessagesFit == ResultsMatch /\ AcceptableMessages
=============================================================================
