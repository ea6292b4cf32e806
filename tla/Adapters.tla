------------------------------ MODULE Adapters ------------------------------
(***************************************************************************)
(* What the provider adapters make of an upstream: how a refused call is   *)
(* classified, how a completion body is translated, and how each dialect's *)
(* stream of events becomes chunks (internal/provider).  Operators only:   *)
(* Request drives them.                                                    *)
(*                                                                         *)
(* A body is abstracted to what the adapters branch on.  Text is its       *)
(* length in bytes, and an absent pointer is the empty set.                *)
(***************************************************************************)
EXTENDS Integers, Sequences

Dialects == {"openai", "anthropic", "gemini", "ollama"}
ErrorKinds == {"rate_limited", "timeout", "auth_failed", "content_policy", "server_error",
               "network_error", "invalid_request"}
FinishReasons == {"stop", "length", "content_filter", "other"}

-----------------------------------------------------------------------------
(* Errors.  An error that is not a provider.Error has kind "untyped".      *)

DefaultRetryable(kind) == kind \in {"rate_limited", "timeout", "server_error", "network_error"}

Typed(kind) == [kind |-> kind, retryable |-> DefaultRetryable(kind)]
Untyped == [kind |-> "untyped", retryable |-> FALSE]

KindForStatus(status) ==
  CASE status = 408 -> "timeout"
    [] status = 429 -> "rate_limited"
    [] status \in {401, 403} -> "auth_failed"
    [] status >= 500 -> "server_error"
    [] OTHER -> "invalid_request"

NewHTTPError(status) == Typed(KindForStatus(status))

\* The cause of a failed round trip: a deadline, or anything else of the network's.
NewTransportError(cause) == Typed(IF cause = "deadline" THEN "timeout" ELSE "network_error")

\* A success whose body cannot be used.
malformedResponse == Typed("server_error")

\* A 200 that says the prompt was blocked.
promptBlocked == Typed("content_policy")

\* classify, one per dialect: label is what the error envelope says beyond the status.
classifyOpenAI(status, label) ==
  CASE label = "content_filter" -> Typed("content_policy")
    [] label = "insufficient_quota" -> [NewHTTPError(status) EXCEPT !.retryable = FALSE]
    [] OTHER -> NewHTTPError(status)

classifyAnthropic(status, label) ==
  IF label = "overloaded_error" THEN Typed("server_error") ELSE NewHTTPError(status)

classifyGemini(status, label) ==
  CASE label = "RESOURCE_EXHAUSTED" -> Typed("rate_limited")
    [] label \in {"UNAUTHENTICATED", "PERMISSION_DENIED"} -> Typed("auth_failed")
    [] label \in {"INVALID_ARGUMENT", "FAILED_PRECONDITION", "NOT_FOUND"} -> Typed("invalid_request")
    [] label \in {"UNAVAILABLE", "INTERNAL", "DEADLINE_EXCEEDED"} -> Typed("server_error")
    [] OTHER -> NewHTTPError(status)

classifyOllama(status, label) ==
  IF status = 404 /\ label = "not found" THEN Typed("invalid_request") ELSE NewHTTPError(status)

classify(dialect, status, label) ==
  CASE dialect = "openai" -> classifyOpenAI(status, label)
    [] dialect = "anthropic" -> classifyAnthropic(status, label)
    [] dialect = "gemini" -> classifyGemini(status, label)
    [] dialect = "ollama" -> classifyOllama(status, label)

-----------------------------------------------------------------------------
(* Finish reasons, as each dialect spells them.                            *)

oaiFinishReason(s) == IF s \in {"stop", "length", "content_filter"} THEN s ELSE "other"

anthropicFinishReason(s) ==
  CASE s \in {"end_turn", "stop_sequence"} -> "stop"
    [] s = "max_tokens" -> "length"
    [] s = "refusal" -> "content_filter"
    [] OTHER -> "other"

geminiFinishReason(s) ==
  CASE s = "STOP" -> "stop"
    [] s = "MAX_TOKENS" -> "length"
    [] s \in {"SAFETY", "RECITATION", "BLOCKLIST", "PROHIBITED_CONTENT", "SPII"} -> "content_filter"
    [] OTHER -> "other"

ollamaFinishReason(s) == IF s \in {"stop", "length"} THEN s ELSE "other"

finishReason(dialect, s) ==
  CASE dialect = "openai" -> oaiFinishReason(s)
    [] dialect = "anthropic" -> anthropicFinishReason(s)
    [] dialect = "gemini" -> geminiFinishReason(s)
    [] dialect = "ollama" -> ollamaFinishReason(s)

-----------------------------------------------------------------------------
(* Completions.  A body is                                                 *)
(* [valid, blocked, items, text, stop, in, out, model]: items counts its   *)
(* choices, blocks or candidates, and model is {} when the upstream leaves *)
(* its name out.                                                           *)

servedName(body, model) == IF body.model = {} THEN model ELSE CHOOSE m \in body.model : TRUE

Answer(dialect, body, model) ==
  [text |-> body.text, finish |-> finishReason(dialect, body.stop),
   in |-> body.in, out |-> body.out, model |-> servedName(body, model)]

\* The error a body amounts to, if it does: {} or one error.
unusableOpenAI(body) == IF ~ body.valid \/ body.items = 0 THEN {malformedResponse} ELSE {}
unusableAnthropic(body) == IF ~ body.valid \/ body.items = 0 THEN {malformedResponse} ELSE {}
unusableGemini(body) ==
  IF ~ body.valid THEN {malformedResponse}
  ELSE IF body.blocked THEN {promptBlocked}
  ELSE IF body.items = 0 THEN {malformedResponse} ELSE {}
unusableOllama(body) == IF ~ body.valid THEN {malformedResponse} ELSE {}

translateResponse(dialect, body) ==
  CASE dialect = "openai" -> unusableOpenAI(body)
    [] dialect = "anthropic" -> unusableAnthropic(body)
    [] dialect = "gemini" -> unusableGemini(body)
    [] dialect = "ollama" -> unusableOllama(body)

\* The ceiling every dialect sends upstream: the caller's, or the instance's own.
translateMaxTokens(asked, defaultMaxTokens) == IF asked = 0 THEN defaultMaxTokens ELSE asked

-----------------------------------------------------------------------------
(* Streams.  A wire event is [type, text, stop, in, out]; decoding one     *)
(* yields nothing for the caller ("skip"), the end ("done"), an error      *)
(* ("fail") or a chunk, whose finish reason and usage may be absent.       *)

Event(type, text, stop, in, out) == [type |-> type, text |-> text, stop |-> stop, in |-> in, out |-> out]

Skipped == [res |-> "skip"]
Finished == [res |-> "done"]
Failed(e) == [res |-> "fail", err |-> e]
Chunk(text, finish, usage) == [res |-> "chunk", text |-> text, finish |-> finish, usage |-> usage]

finishOf(dialect, ev) == IF ev.stop = "" THEN "" ELSE finishReason(dialect, ev.stop)
usageOf(in, out) == {[in |-> in, out |-> out]}

\* An error object in the stream has neither choices nor usage: an empty chunk.
decodeOpenAI(ev) ==
  CASE ev.type = "DONE" -> Finished
    [] ev.type = "malformed" -> Failed(Untyped)
    [] OTHER -> Chunk(ev.text, finishOf("openai", ev),
                      IF ev.type = "usage" THEN usageOf(ev.in, ev.out) ELSE {})

\* input is what message_start reported.
decodeAnthropic(ev, input) ==
  CASE ev.type = "malformed" -> Failed(Untyped)
    [] ev.type = "content_block_delta" -> Chunk(ev.text, "", {})
    [] ev.type = "message_delta" -> Chunk(0, finishOf("anthropic", ev), usageOf(input, ev.out))
    [] ev.type = "message_stop" -> Finished
    [] ev.type = "error" -> Failed(Typed("server_error"))
    [] OTHER -> Skipped

decodeGemini(ev) ==
  CASE ev.type = "malformed" -> Failed(Untyped)
    [] ev.type = "blocked" -> Failed(promptBlocked)
    [] OTHER -> Chunk(ev.text, finishOf("gemini", ev),
                      IF ev.in # 0 \/ ev.out # 0 THEN usageOf(ev.in, ev.out) ELSE {})

\* Nothing but the end of the body ends an Ollama stream; an error line is an empty chunk.
decodeOllama(ev) ==
  CASE ev.type = "malformed" -> Failed(Untyped)
    [] ev.type = "done" -> Chunk(ev.text, ollamaFinishReason(ev.stop), usageOf(ev.in, ev.out))
    [] OTHER -> Chunk(ev.text, "", {})

decode(dialect, ev, input) ==
  CASE dialect = "openai" -> decodeOpenAI(ev)
    [] dialect = "anthropic" -> decodeAnthropic(ev, input)
    [] dialect = "gemini" -> decodeGemini(ev)
    [] dialect = "ollama" -> decodeOllama(ev)

\* What the Anthropic decoder remembers of an event.
inputAfter(dialect, ev, input) ==
  IF dialect = "anthropic" /\ ev.type = "message_start" THEN ev.in ELSE input

-----------------------------------------------------------------------------
(* The upstreams: the events of a whole answer in two pieces, a short one  *)
(* of one byte and one of four, for which the provider counts one token in *)
(* and one out per piece.  Gemini counts with every event, and before the  *)
(* last one only the prompt.                                               *)

Pieces == 2
WholeText == 5

Script(dialect) ==
  CASE dialect = "openai" ->
         << Event("data", 0, "", 0, 0), Event("data", 1, "", 0, 0), Event("data", 4, "", 0, 0),
            Event("data", 0, "stop", 0, 0), Event("usage", 0, "", 1, Pieces),
            Event("DONE", 0, "", 0, 0) >>
    [] dialect = "anthropic" ->
         << Event("message_start", 0, "", 1, 0), Event("content_block_delta", 1, "", 0, 0),
            Event("ping", 0, "", 0, 0), Event("content_block_delta", 4, "", 0, 0),
            Event("message_delta", 0, "end_turn", 0, Pieces), Event("message_stop", 0, "", 0, 0) >>
    [] dialect = "gemini" ->
         << Event("data", 1, "", 1, 0), Event("data", 4, "STOP", 1, Pieces) >>
    [] dialect = "ollama" ->
         << Event("line", 1, "", 0, 0), Event("line", 4, "", 0, 0), Event("done", 0, "stop", 1, Pieces) >>
=============================================================================
