---------------------------- MODULE RelaySession ----------------------------
(***************************************************************************)
(* The life of relay requests: the gates of Proxy.ServeHTTP, the session   *)
(* (internal/proxy/proxy.go) and its buffered and streaming answers        *)
(* (internal/proxy/response.go), against an upstream that answers, errs,   *)
(* stalls, breaks off or sends frames of every kind, and a client that     *)
(* may leave at any moment.                                                *)
(*                                                                         *)
(* What a converter does to a chunk is left to its own module; here it     *)
(* either yields output or fails.  Chunks are numbered, so that what the   *)
(* client receives can be compared with what the upstream sent.            *)
(***************************************************************************)
EXTENDS Integers, Sequences, FiniteSets

CONSTANTS
    Sessions,   \* requests
    Formats,    \* protocols of clients and of the upstream
    Flaws,      \* sets of things wrong with a request
    Kinds,      \* kinds of frames the upstream sends
    MaxFrames   \* bound: frames per upstream stream

ASSUME KindsAssumption == Kinds \subseteq {"chunk", "quiet", "junk", "poison", "done"}
ASSUME FlawsAssumption == Flaws \subseteq SUBSET {"method", "path", "key", "body", "model"}

VARIABLES
    req,        \* req[s]: client and upstream protocol, streaming
    pc,         \* where the handler is
    gone,       \* the client hung up; the request context is cancelled
    upst,       \* the upstream's side: "idle", "open", "closed" or "broken"
    inbox,      \* frames on their way to the relay
    sent,       \* history: every frame the upstream sent
    body,       \* response.Body: "none", "open", "closed"
    wire,       \* what was written to the client: status and frames
    event,      \* session.event: status and error
    streamErr,  \* streamResponse's streamErr
    log         \* the conversion history, as appended

reqVars == <<req, gone>>
upVars  == <<upst, inbox, sent>>
vars == <<reqVars, upVars, pc, body, wire, event, streamErr, log>>

Cross(s) == req[s].client # req[s].upstream

Init ==
    /\ req = [s \in Sessions |-> [client |-> "", upstream |-> "", streaming |-> FALSE]]
    /\ pc = [s \in Sessions |-> "new"]
    /\ gone = [s \in Sessions |-> FALSE]
    /\ upst = [s \in Sessions |-> "idle"]
    /\ inbox = [s \in Sessions |-> <<>>]
    /\ sent = [s \in Sessions |-> <<>>]
    /\ body = [s \in Sessions |-> "none"]
    /\ wire = [s \in Sessions |-> [status |-> 0, frames |-> <<>>]]
    /\ event = [s \in Sessions |-> [status |-> 0, error |-> ""]]
    /\ streamErr = [s \in Sessions |-> ""]
    /\ log = <<>>

Goto(s, label) == pc' = [pc EXCEPT ![s] = label]

\* w.WriteHeader and one body, or one frame after it.
WriteHeader(s, status, frames) == wire' = [wire EXCEPT ![s] = [status |-> status, frames |-> frames]]
WriteFrame(s, frame) == wire' = [wire EXCEPT ![s].frames = Append(@, frame)]

-----------------------------------------------------------------------------
(* The gates of ServeHTTP, in their order.                                 *)

GateStatus(flaws) ==
    IF "method" \in flaws THEN 405
    ELSE IF "path" \in flaws THEN 404
    ELSE IF "key" \in flaws THEN 401
    ELSE 400

Arrive(s, client, upstream, streaming, flaws) ==
    /\ pc[s] = "new"
    /\ req' = [req EXCEPT ![s] = [client |-> client, upstream |-> upstream, streaming |-> streaming]]
    /\ IF flaws = {}
       THEN Goto(s, "prepare") /\ UNCHANGED wire
       ELSE Goto(s, "refused") /\ WriteHeader(s, GateStatus(flaws), <<"error">>)
    /\ UNCHANGED <<gone, upVars, body, event, streamErr, log>>

-----------------------------------------------------------------------------
(* session.handle.                                                         *)

\* Leaving handle: the deferred Body.Close runs when there is a body.
Leave(s) == IF body[s] = "open" THEN "close" ELSE "log"

\* Bug: the status is written to the client and not to the event.
FailUnrecorded(s, status, reason) ==
    /\ event' = [event EXCEPT ![s].error = reason]
    /\ WriteHeader(s, status, <<"error">>)
    /\ Goto(s, Leave(s))

\* session.fail
Fail(s, status, reason) ==
    /\ event' = [event EXCEPT ![s] = [status |-> status, error |-> reason]]
    /\ WriteHeader(s, status, <<"error">>)
    /\ Goto(s, Leave(s))

\* convertRequest (only a cross-protocol conversion fails), then
\* buildUpstreamRequest.
Prepare(s) ==
    /\ pc[s] = "prepare"
    /\ \/ Goto(s, "do") /\ UNCHANGED <<event, wire>>
       \/ Cross(s) /\ Fail(s, 400, "convert request")
       \/ Fail(s, 400, "build request")
    /\ UNCHANGED <<reqVars, upVars, body, streamErr, log>>

\* client.Do: headers arrive, or the dial, the header timeout or the
\* client's departure ends it.
Do(s) ==
    /\ pc[s] = "do"
    /\ \/ /\ upst' = [upst EXCEPT ![s] = "open"]
          /\ body' = [body EXCEPT ![s] = "open"]
          /\ \E label \in {"relay_error", IF req[s].streaming THEN "open" ELSE "buffered"} :
                Goto(s, label)
          /\ UNCHANGED <<event, wire>>
       \/ /\ Fail(s, 502, "upstream request failed")
          /\ UNCHANGED <<upst, body>>
    /\ UNCHANGED <<reqVars, inbox, sent, streamErr, log>>

\* Bug: the read is not bound to the client's request.
BodyEndedUpstream(s) == upst[s] \in {"closed", "broken"}

\* Bug: a connection that breaks off is waited on.
BodyEndedWhole(s) == upst[s] = "closed" \/ gone[s]

\* The body has been read to its end, or reading it failed.
BodyEnded(s) == upst[s] \in {"closed", "broken"} \/ gone[s]

RecordUpstreamError(s) ==
    event' = [event EXCEPT ![s] = [status |-> 429, error |-> "upstream returned 429"]]

\* relayUpstreamError: the upstream's status (429 stands for any) and what
\* was read of its body.
RelayUpstreamError(s) ==
    /\ pc[s] = "relay_error"
    /\ BodyEnded(s)
    /\ WriteHeader(s, 429, <<"body">>)
    /\ RecordUpstreamError(s)
    /\ Goto(s, Leave(s))
    /\ UNCHANGED <<reqVars, upVars, body, streamErr, log>>

\* bufferedResponse
Buffered(s) ==
    /\ pc[s] = "buffered"
    /\ BodyEnded(s)
    /\ \/ /\ upst[s] = "closed"
          /\ WriteHeader(s, 200, <<"body">>)
          /\ event' = [event EXCEPT ![s].status = 200]
          /\ Goto(s, Leave(s))
       \/ upst[s] = "closed" /\ Cross(s) /\ Fail(s, 502, "decode or convert response")
       \/ upst[s] = "closed" /\ Cross(s) /\ Fail(s, 500, "encode response")
       \/ (upst[s] = "broken" \/ gone[s]) /\ Fail(s, 502, "read upstream response")
    /\ UNCHANGED <<reqVars, upVars, body, streamErr, log>>

-----------------------------------------------------------------------------
(* session.streamResponse.                                                 *)

\* The stream state is created, then 200 is committed.
StreamOpen(s) ==
    /\ pc[s] = "open"
    /\ \/ /\ WriteHeader(s, 200, <<>>)
          /\ event' = [event EXCEPT ![s].status = 200]
          /\ Goto(s, "read")
       \/ Cross(s) /\ Fail(s, 400, "no converter")
    /\ UNCHANGED <<reqVars, upVars, body, streamErr, log>>

\* emit returned false: "client disconnected" is recorded and the pump stops.
Disconnected(s) ==
    /\ event' = [event EXCEPT ![s].error = "client disconnected"]
    /\ Goto(s, "close")
    /\ UNCHANGED <<wire, streamErr>>

\* ConvertStreamResponseChunk failed: leave the loop.
ConversionFailed(s) ==
    /\ streamErr' = [streamErr EXCEPT ![s] = "convert"]
    /\ Goto(s, "finalize")
    /\ UNCHANGED <<wire, event>>

\* DecodeStreamEvent failed: "a single malformed frame must not kill the stream".
DecodeFailed(s) == UNCHANGED <<pc, wire, event, streamErr>>

\* One frame: decode, convert, emit.
Handle(s, frame) ==
    CASE frame.kind = "junk"   -> DecodeFailed(s)
      [] frame.kind = "quiet"  -> UNCHANGED <<pc, wire, event, streamErr>>
      [] frame.kind = "done"   -> Goto(s, "finalize") /\ UNCHANGED <<wire, event, streamErr>>
      [] frame.kind = "poison" /\ Cross(s) -> ConversionFailed(s)
      [] OTHER -> \/ /\ WriteFrame(s, frame)
                     /\ UNCHANGED <<pc, event, streamErr>>
                  \/ gone[s] /\ Disconnected(s)

\* Bug: a read error is not kept.
ReadErrorIgnored(s) == UNCHANGED streamErr

ReadError(s) == streamErr' = [streamErr EXCEPT ![s] = "read"]

\* reader.Next: a frame, the end of the stream, or an error; a cancelled
\* context ends a read, frames already buffered may still be returned.
Read(s) ==
    /\ pc[s] = "read"
    /\ \/ /\ inbox[s] # <<>>
          /\ inbox' = [inbox EXCEPT ![s] = Tail(@)]
          /\ Handle(s, Head(inbox[s]))
       \/ /\ inbox[s] = <<>> /\ upst[s] = "closed"
          /\ Goto(s, "finalize")
          /\ UNCHANGED <<inbox, wire, event, streamErr>>
       \/ /\ gone[s] \/ (inbox[s] = <<>> /\ upst[s] = "broken")
          /\ ReadError(s)
          /\ Goto(s, "finalize")
          /\ UNCHANGED <<inbox, wire, event>>
    /\ UNCHANGED <<reqVars, upst, sent, body, log>>

\* FinalizeStreamResponse and the emission of what it backfills; between
\* equal protocols it yields nothing.
Finalize(s) ==
    /\ pc[s] = "finalize"
    /\ \/ ~Cross(s) /\ Goto(s, "sentinel") /\ UNCHANGED <<wire, event, streamErr>>
       \/ /\ Cross(s)
          /\ WriteFrame(s, "final")
          /\ Goto(s, "sentinel")
          /\ UNCHANGED <<event, streamErr>>
       \/ /\ Cross(s)
          /\ streamErr' = [streamErr EXCEPT ![s] = "finalize"]
          /\ Goto(s, "sentinel")
          /\ UNCHANGED <<wire, event>>
       \/ Cross(s) /\ gone[s] /\ Disconnected(s)
    /\ UNCHANGED <<reqVars, upVars, body, log>>

\* "OpenAI Chat clients wait for an explicit sentinel"
WantsDone(s) == req[s].client = "openai"

\* finishStream
FinishStream(s) ==
    event' = [event EXCEPT ![s].error = IF streamErr[s] # "" THEN streamErr[s] ELSE @]

Sentinel(s) ==
    /\ pc[s] = "sentinel"
    /\ IF WantsDone(s) THEN WriteFrame(s, "[DONE]") ELSE UNCHANGED wire
    /\ FinishStream(s)
    /\ Goto(s, "close")
    /\ UNCHANGED <<reqVars, upVars, body, streamErr, log>>

-----------------------------------------------------------------------------
(* The deferred calls: Body.Close when handle returns, events.append when  *)
(* ServeHTTP does.                                                         *)

\* Bug: the body is not closed.
ReleaseNothing(s) == UNCHANGED body

Release(s) == body' = [body EXCEPT ![s] = "closed"]

CloseBody(s) ==
    /\ pc[s] = "close"
    /\ Release(s)
    /\ Goto(s, "log")
    /\ UNCHANGED <<reqVars, upVars, wire, event, streamErr, log>>

\* Bug: a failed request leaves no event.
LogSuccesses(s) ==
    log' = IF event[s].error = "" THEN Append(log, [session |-> s, event |-> event[s]]) ELSE log

LogEvent(s) == log' = Append(log, [session |-> s, event |-> event[s]])

Record(s) ==
    /\ pc[s] = "log"
    /\ LogEvent(s)
    /\ Goto(s, "end")
    /\ UNCHANGED <<reqVars, upVars, body, wire, event, streamErr>>

Serve(s) ==
    \/ Prepare(s) \/ Do(s) \/ RelayUpstreamError(s) \/ Buffered(s)
    \/ StreamOpen(s) \/ Read(s) \/ Finalize(s) \/ Sentinel(s)
    \/ CloseBody(s) \/ Record(s)

-----------------------------------------------------------------------------
(* The client and the upstream.                                            *)

ClientLeaves(s) ==
    /\ pc[s] \notin {"new", "refused", "end"}
    /\ ~gone[s]
    /\ gone' = [gone EXCEPT ![s] = TRUE]
    /\ UNCHANGED <<req, upVars, pc, body, wire, event, streamErr, log>>

UpstreamSends(s, kind) ==
    /\ upst[s] = "open"
    /\ req[s].streaming
    /\ Len(sent[s]) < MaxFrames
    /\ LET frame == [kind |-> kind, n |-> Len(sent[s]) + 1]
       IN  /\ inbox' = [inbox EXCEPT ![s] = Append(@, frame)]
           /\ sent' = [sent EXCEPT ![s] = Append(@, frame)]
    /\ UNCHANGED <<reqVars, upst, pc, body, wire, event, streamErr, log>>

UpstreamEnds(s, how) ==
    /\ upst[s] = "open"
    /\ upst' = [upst EXCEPT ![s] = how]
    /\ UNCHANGED <<reqVars, inbox, sent, pc, body, wire, event, streamErr, log>>

Next ==
    \E s \in Sessions :
        \/ \E client, upstream \in Formats, streaming \in BOOLEAN, flaws \in Flaws :
              Arrive(s, client, upstream, streaming, flaws)
        \/ Serve(s)
        \/ ClientLeaves(s)
        \/ \E kind \in Kinds : UpstreamSends(s, kind)
        \/ \E how \in {"closed", "broken"} : UpstreamEnds(s, how)

(* A handler that can take a step takes it; client.Do returns within the   *)
(* header timeout.  Nothing is assumed of the client or of the upstream.   *)
Spec == Init /\ [][Next]_vars /\ \A s \in Sessions : WF_vars(Serve(s))

-----------------------------------------------------------------------------
TypeOK ==
    /\ \A s \in Sessions :
          /\ pc[s] \in {"new", "refused", "prepare", "do", "relay_error", "buffered", "open",
                        "read", "finalize", "sentinel", "close", "log", "end"}
          /\ upst[s] \in {"idle", "open", "closed", "broken"}
          /\ body[s] \in {"none", "open", "closed"}
          /\ wire[s].status \in {0, 200, 400, 401, 404, 405, 429, 500, 502}
          /\ event[s].status \in {0, 200, 400, 429, 500, 502}
          /\ pc[s] = "close" => body[s] = "open"
          /\ streamErr[s] # "" => req[s].streaming
          /\ pc[s] \in {"read", "finalize", "sentinel"} => event[s].error = ""
    /\ Len(log) <= Cardinality(Sessions)

Entries(s) == {i \in 1 .. Len(log) : log[i].session = s}

(* Every admitted request leaves exactly one event, with the status the    *)
(* client was sent; a refused one leaves none.                             *)
OneTrueEvent ==
    \A s \in Sessions :
        /\ Cardinality(Entries(s)) = IF pc[s] = "end" THEN 1 ELSE 0
        /\ \A i \in Entries(s) : log[i].event.status = wire[s].status

Dones(s) == {i \in 1 .. Len(sent[s]) : sent[s][i].kind = "done"}

\* The frames that reach the client: chunks, and between equal protocols
\* also what no converter could take.
Passes(frame, cross) == frame.kind = "chunk" \/ (frame.kind = "poison" /\ ~cross)
Forwarded(frames, cross) ==
    LET out[i \in 0 .. Len(frames)] ==
            IF i = 0 THEN <<>>
            ELSE IF Passes(frames[i], cross) THEN Append(out[i - 1], frames[i])
            ELSE out[i - 1]
    IN  out[Len(frames)]

\* The frames a client must have received when its stream went well.
FirstDone(s) ==
    IF Dones(s) = {} THEN Len(sent[s]) ELSE CHOOSE i \in Dones(s) : \A j \in Dones(s) : i <= j
Expected(s) ==
    Forwarded(SubSeq(sent[s], 1, FirstDone(s)), Cross(s))
    \o (IF Cross(s) THEN <<"final">> ELSE <<>>)
    \o (IF req[s].client = "openai" THEN <<"[DONE]">> ELSE <<>>)

(* An event without an error means the client got everything: every chunk  *)
(* the upstream sent before its end, once and in order, whatever malformed *)
(* frames lay between them, then the terminal frame and, for an OpenAI     *)
(* client and no other, the sentinel.                                      *)
CleanMeansComplete ==
    \A s \in Sessions : \A i \in Entries(s) :
        log[i].event.error = "" =>
            /\ wire[s].status = 200
            /\ req[s].streaming =>
                  /\ upst[s] = "closed" \/ Dones(s) # {}
                  /\ wire[s].frames = Expected(s)

(* The upstream's body is released before the request is recorded, on      *)
(* every path out of the handler.                                          *)
BodyReleased == \A s \in Sessions : pc[s] \in {"log", "end"} => body[s] # "open"

(* A client that leaves does not keep the handler: not while waiting for   *)
(* headers, not in a stalled body, not in a stalled stream.                *)
LeavingEnds == \A s \in Sessions : (gone[s] /\ pc[s] # "end") ~> pc[s] = "end"

(* The request ends when the upstream's side has ended.                    *)
EndsWithUpstream ==
    \A s \in Sessions : upst[s] \in {"closed", "broken"} ~> pc[s] = "end"

(* After a failed conversion "the only honest option is to stop": nothing  *)
(* more is sent to the client.                                             *)
HonestStop ==
    [][\A s \in Sessions : streamErr[s] = "convert" => wire'[s].frames = wire[s].frames]_vars
=============================================================================
