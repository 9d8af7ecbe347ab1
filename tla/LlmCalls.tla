------------------------------ MODULE LlmCalls -------------------------------
(***************************************************************************)
(* One call of a language model by an agent, through LlmFacade             *)
(* (llm_facade.py) to the platform (platform_namespace.py) or to the       *)
(* agent's own provider (byok_llm.py).  Four clients call in four ways:    *)
(* sectioned authoring reads a stream of text and retries                  *)
(* (_stream_llm_text), a handler reads a stream and stitches its tool      *)
(* calls with a ToolCallAccumulator (llm_contract.py), a handler awaits    *)
(* chat, which reads the same stream for it, and a handler awaits          *)
(* structured, one POST.                                                   *)
(*                                                                         *)
(* A text is the sequence of its tokens <<attempt, n>>; the arguments of a *)
(* tool call are the sequence of the pieces they came in, numbered through *)
(* the response.  Blank lines, usage and finish reasons are left out, and  *)
(* the waits between attempts are steps.                                   *)
(***************************************************************************)
EXTENDS Integers, Sequences, FiniteSets, SequencesExt, Selection

CONSTANTS
  MaxAttempts, \* _max_llm_stream_attempts
  MaxEvents,   \* bound: what one response holds, text chunks and pieces together
  LlmSetups    \* [client, backend, style] to check, of LlmSetup

Clients  == {"author", "agent", "chat", "structured"}
Backends == {"platform", "byok", "none"}
\* how a provider marks the pieces of a call: by an index, with or without an id in the
\* first one, by the id in every one, or by the id in the first one and nothing after it
Styles   == {"index", "index_and_id", "id", "first_id"}
LlmSetup == [client : Clients, backend : Backends, style : Styles]

ASSUME LlmAssumption ==
  MaxAttempts \in Nat \ {0} /\ MaxEvents \in Nat \ {0} /\ LlmSetups \subseteq LlmSetup

Calls == 0 .. 1 \* bound: the tool calls of one response

\* error codes the platform answers with, an answer without one by its status, the codes
\* the SDK adds, and exceptions that have none
PlatformCodes == {"quota_exceeded", "rate_limited", "denied_by_binding", "internal_error", "invalid_args",
                  "status_403", "status_500"}
LocalCodes    == {"stream_closed_without_completion", "non_json_stream_event",
                  "stream_heartbeat_timeout", "transport_error"}
OtherErrors   == {"platform_llm_structured_timeout", "non_json_response", "provider_error", "no_backend"}

\* what a failure says beside its code: in its text one of the phrases for a lost connection
\* ("marker"), or in the envelope of a POST that it may be retried, that it may not, or
\* that its kind is platform_unavailable
NoHint        == "none"
EnvelopeHints == {"retryable", "final", "unavailable"}

Failure(codes, hints) == [code : codes, hint : hints]
\* bound: a marker only where it changes something; every other code of a stream may pass anyway
StreamFailures ==
  Failure(PlatformCodes \cup LocalCodes, {NoHint}) \cup Failure({"denied_by_binding"}, {"marker"})
PostFailures ==
  Failure(PlatformCodes, {NoHint} \cup EnvelopeHints)
    \cup Failure({"transport_error", "platform_llm_structured_timeout", "non_json_response"}, {NoHint})
ProviderFailures == Failure({"provider_error"}, {NoHint, "marker"})
NoBackend        == [code |-> "no_backend", hint |-> NoHint]

VARIABLES
  llm,     \* the setup; it never changes
  phase,   \* "ready" to send a request, "reading" a response, "answered" or "raised"
  attempt, \* which request this is
  sent,    \* what the server has sent of this response: texts, pieces, [DONE]
  parts,   \* content_parts of _translate_openai_sse
  chunks,  \* the text the client holds
  acc,     \* the ToolCallAccumulator of _translate_openai_sse
  heard,   \* the one of the client, fed with normalised events
  answer,  \* the result the client is given
  raised,  \* the error it is given
  refused  \* how the failed attempts failed, in order

llmVars == <<llm, phase, attempt, sent, parts, chunks, acc, heard, answer, raised, refused>>

-----------------------------------------------------------------------------
(* Stitching tool calls: normalise_tool_call_chunks, ToolCallAccumulator.   *)

Unset == -1
NoId  == "none"

\* f with v at x, where f need not have had a value
Put(f, x, v) == [y \in DOMAIN f \cup {x} |-> IF y = x THEN v ELSE f[y]]

\* normalise_tool_call_chunks starts with an empty state
Unstitched == [ids |-> <<>>, indexes |-> <<>>, next |-> Unset, last |-> Unset]

\* the index of a piece: its own, the one of its id, or what came before it
IndexOf(st, piece, ordinal) ==
  CASE piece.index # Unset -> piece.index
    [] piece.index = Unset /\ piece.id # NoId ->
         IF piece.id \in DOMAIN st.indexes THEN st.indexes[piece.id]
         ELSE IF st.next = Unset THEN 0 ELSE st.next
    [] OTHER ->
         IF ordinal \in DOMAIN st.ids THEN ordinal
         ELSE IF st.last # Unset THEN st.last
         ELSE IF st.next = Unset THEN ordinal ELSE st.next

GeneratedId(i) == <<"call_0", "call_1">>[i + 1]

\* a piece with an id binds its index to it; one without takes the id of its index
StableId(st, piece, i) ==
  CASE piece.id # NoId -> piece.id
    [] piece.id = NoId /\ i \in DOMAIN st.ids -> st.ids[i]
    [] OTHER -> IF piece.first THEN GeneratedId(i) ELSE NoId

Bound(st, piece, i) ==
  LET id == StableId(st, piece, i)
      kept == [st EXCEPT !.ids = Put(@, i, id), !.indexes = Put(@, id, i)] IN
  IF piece.id = NoId THEN kept
  ELSE [kept EXCEPT !.last = i, !.next = IF @ > i + 1 THEN @ ELSE i + 1]

\* add_chunks: calls in the order of their first piece, each with its argument parts
Empty == [stitch |-> Unstitched, order |-> <<>>, named |-> {}, args |-> <<>>]

AddPiece(a, piece, ordinal) ==
  LET i  == IndexOf(a.stitch, piece, ordinal)
      id == StableId(a.stitch, piece, i) IN
  IF id = NoId THEN a
  ELSE [stitch |-> Bound(a.stitch, piece, i),
        order  |-> IF Contains(a.order, id) THEN a.order ELSE Append(a.order, id),
        named  |-> IF piece.first THEN a.named \cup {id} ELSE a.named,
        args   |-> IF id \in DOMAIN a.args THEN [a.args EXCEPT ![id] = Append(@, piece.part)]
                   ELSE Put(a.args, id, <<piece.part>>)]

AddChunks(a, pieces) ==
  LET added[n \in 0 .. Len(pieces)] ==
        IF n = 0 THEN a ELSE AddPiece(added[n - 1], pieces[n], n - 1)
  IN added[Len(pieces)]

\* the event as invoke_event_stream hands it on: each piece with its id and its index
NormaliseStreamEvent(a, pieces) ==
  LET upTo(n) == AddChunks(a, SubSeq(pieces, 1, n - 1)).stitch
      i(n)    == IndexOf(upTo(n), pieces[n], n - 1) IN
  [n \in DOMAIN pieces |-> [pieces[n] EXCEPT !.index = i(n), !.id = StableId(upTo(n), pieces[n], i(n))]]

\* tool_calls leaves out what has no name
ToolCallsOf(a) ==
  LET named == Chosen(a.order, {n \in DOMAIN a.order : a.order[n] \in a.named}) IN
  [n \in DOMAIN named |-> a.args[named[n]]]

-----------------------------------------------------------------------------
(* Errors: classify_envelope_error, _unwrap, is_transient.                  *)

\* a POST knows its status, and a stream does not tell
ClassifyEnvelopeError(code) ==
  IF code = "denied_by_binding" \/ (code = "status_403" /\ llm.client = "structured")
  THEN "binding_denied" ELSE "platform_unavailable"

\* what a call of the platform that failed like this is recorded as
Kind(failure) ==
  CASE failure.hint = "unavailable" -> "platform_unavailable"
    [] failure.code \in {"stream_heartbeat_timeout", "transport_error"} -> "transport_error"
    [] failure.code = "platform_llm_structured_timeout" -> "timeout"
    [] failure.code = "non_json_response" -> "schema_violation"
    [] OTHER -> ClassifyEnvelopeError(failure.code)

\* the class of error _unwrap makes of it
ErrorClass(failure) ==
  CASE failure.code = "quota_exceeded" -> "QuotaExceededError"
    [] Kind(failure) = "transport_error" -> "PlatformLlmTransportError"
    [] Kind(failure) = "timeout" -> "PlatformLlmTimeoutError"
    [] failure.code = "invalid_args" -> "PlatformLlmSchemaError"
    [] failure.code = "rate_limited" -> "PlatformLlmQuotaError"
    [] OTHER -> "PlatformLlmCallError"

Error(class, kind, failure) ==
  [class |-> class, kind |-> kind, code |-> failure.code, hint |-> failure.hint]

\* is_transient of an error of the SDK: what the envelope says, then its kind
PlatformErrors ==
  {"PlatformLlmCallError", "PlatformLlmTransportError", "PlatformLlmTimeoutError",
   "PlatformLlmSchemaError", "PlatformLlmQuotaError"}
IsTransient(err) ==
  /\ err.class \in PlatformErrors /\ err.hint # "final"
  /\ err.hint = "retryable" \/ err.kind \in {"transport_error", "timeout", "platform_unavailable"}

\* _is_transient_llm_stream_error: or its code, or a phrase of its text
MayPass(err) ==
  \/ IsTransient(err)
  \/ err.class \in PlatformErrors /\ err.code \in {"internal_error", "stream_heartbeat_timeout", "transport_error"}
  \/ err.hint = "marker"

\* a stream knows the code alone and classifies it; chat and structured unwrap
ErrorOf(failure) ==
  CASE llm.backend = "none" -> Error("RuntimeError", "unconfigured", failure)
    [] llm.backend = "byok" -> Error("Exception", "provider_error", failure)
    [] llm.client \in {"author", "agent"} ->
         Error("PlatformLlmCallError", ClassifyEnvelopeError(failure.code), failure)
    [] OTHER -> Error(ErrorClass(failure), Kind(failure), failure)

-----------------------------------------------------------------------------
NothingSent == [texts |-> 0, pieces |-> <<>>, done |-> FALSE]
NoAnswer    == [text |-> <<>>, calls |-> <<>>, given |-> FALSE]
NoError     == [class |-> "none", kind |-> "none", code |-> "none", hint |-> NoHint]

LlmInit ==
  /\ llm \in LlmSetups
  /\ phase = "ready" /\ attempt = 1
  /\ sent = NothingSent
  /\ parts = <<>> /\ chunks = <<>> /\ acc = Empty /\ heard = Empty
  /\ answer = NoAnswer /\ raised = NoError /\ refused = <<>>

OverStream == llm.backend = "platform" /\ llm.client # "structured"

\* _stream_llm_text tries again what may pass, and the other clients raise at once
Fail(failure) ==
  LET err   == ErrorOf(failure)
      again == llm.client = "author" /\ attempt < MaxAttempts /\ MayPass(err) IN
  /\ refused' = Append(refused, failure)
  /\ phase' = IF again THEN "ready" ELSE "raised"
  /\ attempt' = IF again THEN attempt + 1 ELSE attempt
  /\ raised' = IF again THEN raised ELSE err
  /\ UNCHANGED <<llm, sent, parts, chunks, acc, heard, answer>>

Answer(text, calls) ==
  /\ phase' = "answered"
  /\ answer' = [text |-> text, calls |-> calls, given |-> TRUE]
  /\ UNCHANGED <<llm, attempt, acc, heard, raised, refused>>

\* [mutant] what a failed attempt had delivered stays
OpenResponse_KeepsChunks ==
  /\ phase = "ready" /\ OverStream
  /\ phase' = "reading"
  /\ sent' = NothingSent /\ parts' = <<>> /\ acc' = Empty /\ heard' = Empty
  /\ UNCHANGED <<llm, attempt, chunks, answer, raised, refused>>

\* the platform accepts the request: the attempt starts with nothing
OpenResponse ==
  /\ phase = "ready" /\ OverStream
  /\ phase' = "reading"
  /\ sent' = NothingSent /\ parts' = <<>> /\ chunks' = <<>> /\ acc' = Empty /\ heard' = Empty
  /\ UNCHANGED <<llm, attempt, answer, raised, refused>>

\* it refuses the request with a status of 400 or more, with or without a code, or cannot be
\* reached
RefuseStream ==
  /\ phase = "ready" /\ OverStream
  /\ \E failure \in StreamFailures :
       /\ failure.code \notin {"stream_closed_without_completion", "non_json_stream_event"}
       /\ Fail(failure)

Room == sent.texts + Len(sent.pieces) < MaxEvents

\* a chunk of text: chat skips the event, the other clients keep its delta
ReadText ==
  LET token == <<attempt, sent.texts + 1>> IN
  /\ phase = "reading" /\ Room
  /\ sent' = [sent EXCEPT !.texts = @ + 1]
  /\ parts' = Append(parts, token)
  /\ chunks' = IF llm.client = "chat" THEN chunks ELSE Append(chunks, token)
  /\ UNCHANGED <<llm, phase, attempt, acc, heard, answer, raised, refused>>

\* the piece the provider makes of the n-th part of the arguments of call c
Piece(calls, n) ==
  LET c     == calls[n]
      first == \A m \in 1 .. n - 1 : calls[m] # c IN
  [first |-> first, part |-> n,
   index |-> IF llm.style \in {"id", "first_id"} THEN Unset ELSE c,
   id    |-> IF llm.style = "id" \/ (llm.style \in {"index_and_id", "first_id"} /\ first)
             THEN <<"a", "b">>[c + 1] ELSE NoId]

\* a chunk with one or two pieces of tool calls
ReadPieces ==
  /\ phase = "reading" /\ Room /\ llm.client # "author"
  /\ \E batch \in UNION {[1 .. n -> Calls] : n \in 1 .. 2} :
       LET calls  == sent.pieces \o batch
           pieces == [n \in DOMAIN batch |-> Piece(calls, Len(sent.pieces) + n)] IN
       /\ sent' = [sent EXCEPT !.pieces = calls]
       /\ acc' = AddChunks(acc, pieces)
       /\ heard' = IF llm.client = "chat" THEN heard
                  ELSE AddChunks(heard, NormaliseStreamEvent(acc, pieces))
  /\ UNCHANGED <<llm, phase, attempt, parts, chunks, answer, raised, refused>>

\* [DONE]: the completed event, whose content counts where no delta came
ReadDone ==
  /\ phase = "reading"
  /\ sent' = [sent EXCEPT !.done = TRUE]
  /\ Answer(IF llm.client = "author" /\ chunks # <<>> THEN chunks ELSE parts, ToolCallsOf(acc))
  /\ UNCHANGED <<parts, chunks>>

\* an error payload, something that is no JSON, a close without [DONE], or silence
StreamBreaks ==
  /\ phase = "reading"
  /\ \E failure \in StreamFailures : Fail(failure)

\* structured: one POST to /invocations, and its output is the answer
CallStructured ==
  /\ phase = "ready" /\ llm.backend = "platform" /\ llm.client = "structured"
  /\ \/ /\ sent' = [NothingSent EXCEPT !.texts = 1, !.done = TRUE]
        /\ Answer(<<<<attempt, 1>>>>, <<>>)
        /\ UNCHANGED <<parts, chunks>>
     \/ \E failure \in PostFailures : Fail(failure)

\* no platform: stream_text sends the text of chat as one chunk and a completed event
CallProvider ==
  /\ phase = "ready" /\ llm.backend = "byok"
  /\ \/ /\ sent' = [NothingSent EXCEPT !.texts = 1, !.done = TRUE]
        /\ parts' = <<<<attempt, 1>>>> /\ chunks' = <<<<attempt, 1>>>>
        /\ Answer(parts', <<>>)
     \/ \E failure \in ProviderFailures : Fail(failure)

\* neither: every call raises
CallNothing == phase = "ready" /\ llm.backend = "none" /\ Fail(NoBackend)

LlmNext ==
  \/ OpenResponse \/ RefuseStream \/ ReadText \/ ReadPieces \/ ReadDone \/ StreamBreaks
  \/ CallStructured \/ CallProvider \/ CallNothing

LlmSpec == LlmInit /\ [][LlmNext]_llmVars

-----------------------------------------------------------------------------
LlmTypeOK ==
  /\ llm \in LlmSetup
  /\ phase \in {"ready", "reading", "answered", "raised"}
  /\ attempt \in 1 .. MaxAttempts
  /\ sent \in [texts : 0 .. MaxEvents, pieces : Seq(Calls), done : BOOLEAN]
  /\ Len(refused) <= MaxAttempts
  /\ answer.given <=> phase = "answered"
  /\ raised # NoError <=> phase = "raised"

(* The answer is everything one attempt was sent and nothing else: no text  *)
(* of an earlier attempt, none of a response that broke off, none twice.    *)
AnswerIsOneWholeResponse ==
  phase = "answered" =>
    /\ sent.done
    /\ answer.text = [n \in 1 .. sent.texts |-> <<attempt, n>>]

\* the calls the server has opened, in order, each with the pieces of its arguments
CallsSent ==
  LET p == sent.pieces
      places == [n \in DOMAIN p |-> n]
      opened == Chosen(places, {n \in DOMAIN p : \A m \in 1 .. n - 1 : p[m] # p[n]})
      piecesOf(c) == Chosen(places, {n \in DOMAIN p : p[n] = c}) IN
  [n \in DOMAIN opened |-> piecesOf(p[opened[n]])]

\* a piece without an index and an id tells nothing of its call, unless there is one call
Telling ==
  llm.style = "first_id" => \A m, n \in DOMAIN sent.pieces : sent.pieces[m] = sent.pieces[n]

(* Every tool call gets its own pieces in order, however the pieces of two  *)
(* calls come in, if the provider marks each with an index or an id, or     *)
(* there is one call only; and a client that stitches the normalised events *)
(* itself gets the same calls.  With two calls and the id in the first      *)
(* piece alone, a piece goes to the call whose index is its place in the    *)
(* chunk, whichever it belongs to.                                          *)
CallsAreStitched ==
  phase \in {"reading", "answered"} /\ OverStream /\ Telling =>
    /\ ToolCallsOf(acc) = CallsSent
    /\ llm.client = "agent" => ToolCallsOf(heard) = CallsSent
    /\ phase = "answered" => answer.calls = CallsSent

\* refused by the binding, and nothing beside that says that it may pass: a stream has to
\* name the code, and a POST its code or its status
IsDenial(failure) ==
  /\ failure.code = "denied_by_binding" \/ (failure.code = "status_403" /\ llm.client = "structured")
  /\ failure.hint \in {NoHint, "final"}

\* a call the binding forbids is not made again, and no client is told that it may pass
DenialIsFinal ==
  \A n \in DOMAIN refused : IsDenial(refused[n]) =>
    /\ phase = "raised" /\ n = Len(refused)
    /\ ~IsTransient(raised)

(* Under any mix of failures and retries, in every client: the answer is    *)
(* the whole of one response, each tool call has its own pieces where they  *)
(* tell their call, and a call that is refused as forbidden, in so many     *)
(* words and no others, is made once.                                       *)
LlmAnswersAreSound == AnswerIsOneWholeResponse /\ CallsAreStitched /\ DenialIsFinal
=============================================================================
