------------------------------ MODULE LlmCall ------------------------------
(* One call of a model through ai/llm.py: the settings are required, the    *)
(* provider is asked (the SDK repeats a temporary failure), its reply is    *)
(* collected whole or chunk by chunk, judged, and either used or turned     *)
(* into one of the AI errors of ai/errors.py.  astream_with_tools, whose    *)
(* text goes to the screen, is module ReplyStream.                          *)
EXTENDS Naturals, Sequences, FiniteSets, SequencesExt

CONSTANTS
  LLM_MAX_RETRIES,      \* DEFAULT_MAX_RETRIES of ai/llm.py
  EMBEDDING_DIMENSIONS, \* the length every vector must have
  MaxReplyChunks,       \* bound: chunks of one streamed reply
  MaxEmbedTexts         \* bound: texts of one embedding call

ASSUME LlmAssumption ==
  /\ LLM_MAX_RETRIES \in Nat /\ EMBEDDING_DIMENSIONS \in Nat
  /\ MaxReplyChunks \in Nat /\ MaxEmbedTexts \in Nat

VARIABLE llm

llmVars == <<llm>>

Vias == {"structured", "streamed", "tools", "embed"}

(* The environment variables a call may find blank.                         *)
AISettings == {"api_base_url", "api_key", "model",
               "embedding_base_url", "embedding_model", "embedding_api_key"}

(* The error types and what they extend.                                    *)
InvalidResponses == {"AIInvalidResponseError", "AIOutputLimitError"}
RetryableErrors == {"AIRetryableError", "AITimeoutError"} \cup InvalidResponses
AIErrors == {"AIConfigError"} \cup RetryableErrors

Results == {"none", "value", "raised"} \cup AIErrors

(* What the SDK raises; an error event in the middle of a stream has no     *)
(* HTTP status and is none of the types the wrappers catch.                 *)
Temporary == {"timeout", "connection", "rate_limited", "server"}
Refusals == {"authentication", "model_not_allowed", "bad_request"}
MidStream == {"error_event", "connection"}

(* A structured reply: the provider's final status, and what becomes of the *)
(* text: read, refused or empty (parsing_error), or rejected by the SDK's   *)
(* own parse of the schema.  A stream cut off has no status and is never    *)
(* parsed by the SDK.                                                       *)
Replies == {r \in [status : {"completed", "max_output_tokens", "incomplete", "none"},
                   text : {"read", "refused", "mistyped"}] :
              r.status = "none" => r.text # "mistyped"}

NoReply == [status |-> "none", text |-> "refused"]

(* A response with tools: readable or not, and whether it asks for a tool.  *)
ToolReplies == [readable : BOOLEAN, asks : BOOLEAN, allowed : BOOLEAN]

IdleCall == [at |-> "idle", via |-> "structured", blank |-> {}, streaming |-> FALSE,
             asked |-> 0, failure |-> "none", combined |-> <<>>, told |-> <<>>,
             reply |-> NoReply, tools |-> [readable |-> TRUE, asks |-> FALSE, allowed |-> TRUE],
             texts |-> 0, vectors |-> <<>>, result |-> "none"]

LlmInit == llm = IdleCall

(* AISettings.require_api.                                                  *)
require_api(blank) == blank \cap {"api_base_url", "api_key", "model"} = {}

(* AISettings.require_embedding: the key of the chat model will do.         *)
require_embedding(blank) ==
  /\ blank \cap {"embedding_base_url", "embedding_model"} = {}
  /\ ~{"embedding_api_key", "api_key"} \subseteq blank

required(via, blank) ==
  IF via = "embed" THEN require_embedding(blank) ELSE require_api(blank)

(* build_chat_model, build_embeddings: a model is built for the call, or    *)
(* taken from the cache, only with its settings.                            *)
begin_call ==
  /\ llm.at = "idle"
  /\ \E via \in Vias, blank \in SUBSET AISettings, texts \in 0..MaxEmbedTexts :
       \E streaming \in IF via = "streamed" THEN {TRUE} ELSE BOOLEAN :
         /\ via # "embed" => texts = 0
         /\ llm' = IF required(via, blank)
                   THEN [llm EXCEPT !.at = "calling", !.via = via, !.blank = blank,
                                    !.streaming = streaming, !.asked = 1, !.texts = texts]
                   ELSE [llm EXCEPT !.at = "done", !.via = via, !.blank = blank,
                                    !.result = "AIConfigError"]

(* The SDK sends the request again (external).                              *)
sdk_retries ==
  /\ llm.at = "calling" /\ llm.combined = <<>> /\ llm.asked <= LLM_MAX_RETRIES
  /\ llm' = [llm EXCEPT !.asked = @ + 1]

(* _convert_api_error: the types are looked at from the narrow to the wide. *)
_convert_api_error(failure) ==
  CASE failure = "timeout" -> "AITimeoutError"
    [] failure \in {"connection", "rate_limited", "server"} -> "AIRetryableError"
    [] failure \in {"authentication", "model_not_allowed"} -> "AIConfigError"
    [] OTHER -> "raised"

(* The request fails for good: at once, or after the retries.               *)
request_fails ==
  /\ llm.at = "calling" /\ llm.combined = <<>>
  /\ \E failure \in Temporary \cup Refusals :
       /\ failure \in Temporary => llm.asked = LLM_MAX_RETRIES + 1
       /\ llm' = [llm EXCEPT !.at = "done", !.failure = failure,
                             !.result = _convert_api_error(failure)]

(* astream_structured: a chunk is added to the message and its text, if it  *)
(* has any, is told (_chunk_text: a reasoning block has none).              *)
receive_piece ==
  /\ llm.at = "calling" /\ llm.via = "streamed" /\ Len(llm.combined) < MaxReplyChunks
  /\ \E kind \in {"text", "reasoning"} :
       LET piece == [kind |-> kind, n |-> Len(llm.combined) + 1] IN
       llm' = [llm EXCEPT !.combined = Append(@, piece),
                          !.told = IF kind = "text" THEN Append(@, piece.n) ELSE @]

(* The stream fails after it has begun: there is no second request.         *)
stream_fails ==
  /\ llm.at = "calling" /\ llm.combined # <<>>
  /\ \E failure \in MidStream :
       llm' = [llm EXCEPT !.at = "done", !.failure = failure,
                          !.result = _convert_api_error(failure)]

\* Fault: whatever the parser can read is taken, also when the stream was cut off.
FinishIfNotMarked(reply, streamed) ==
  IF reply.status = "max_output_tokens" THEN "AIOutputLimitError"
  ELSE IF reply.status = "incomplete" THEN "AIInvalidResponseError"
  ELSE "none"

(* _check_structured_finish: what the provider's own status says, before    *)
(* anything is read from the text.                                          *)
_check_structured_finish(reply, streamed) ==
  IF reply.status = "max_output_tokens" THEN "AIOutputLimitError"
  ELSE IF reply.status = "incomplete" THEN "AIInvalidResponseError"
  ELSE IF streamed /\ reply.status # "completed" THEN "AIInvalidResponseError"
  ELSE "none"

(* ainvoke_structured on a reply: the SDK's ValidationError comes out of    *)
(* the call, then the status is checked, then the parser's result.          *)
ainvoke_structured(reply, streaming) ==
  IF reply.text = "mistyped" THEN "AIInvalidResponseError"
  ELSE IF _check_structured_finish(reply, streaming) # "none"
       THEN _check_structured_finish(reply, streaming)
  ELSE IF reply.text = "read" THEN "value" ELSE "AIInvalidResponseError"

(* astream_structured on the collected message; no chunk at all is an       *)
(* invalid response.                                                        *)
astream_structured(combined, reply) ==
  IF combined = <<>> \/ reply.text = "mistyped" THEN "AIInvalidResponseError"
  ELSE IF _check_structured_finish(reply, TRUE) # "none"
       THEN _check_structured_finish(reply, TRUE)
  ELSE IF reply.text = "read" THEN "value" ELSE "AIInvalidResponseError"

(* ainvoke_with_tools on a response.                                        *)
ainvoke_with_tools(r) ==
  IF ~r.readable \/ (~r.allowed /\ r.asks) THEN "AIInvalidResponseError" ELSE "value"

(* aembed_texts on the vectors that came back.                              *)
aembed_texts(texts, vectors) ==
  IF Len(vectors) # texts \/ \E i \in DOMAIN vectors : vectors[i] # EMBEDDING_DIMENSIONS
  THEN "AIInvalidResponseError" ELSE "value"

structured_reply ==
  /\ llm.at = "calling" /\ llm.via \in {"structured", "streamed"}
  /\ \E reply \in Replies :
       llm' = [llm EXCEPT !.at = "done", !.reply = reply,
                 !.result = IF llm.via = "structured"
                            THEN ainvoke_structured(reply, llm.streaming)
                            ELSE astream_structured(llm.combined, reply)]

tools_reply ==
  /\ llm.at = "calling" /\ llm.via = "tools"
  /\ \E r \in ToolReplies :
       llm' = [llm EXCEPT !.at = "done", !.tools = r, !.result = ainvoke_with_tools(r)]

embedding_reply ==
  /\ llm.at = "calling" /\ llm.via = "embed"
  /\ \E n \in 0..MaxEmbedTexts + 1 : \E vectors \in [1..n -> EMBEDDING_DIMENSIONS - 1..EMBEDDING_DIMENSIONS] :
       llm' = [llm EXCEPT !.at = "done", !.vectors = vectors,
                          !.result = aembed_texts(llm.texts, vectors)]

LlmNext ==
  \/ begin_call \/ sdk_retries \/ request_fails
  \/ receive_piece \/ stream_fails
  \/ structured_reply \/ tools_reply \/ embedding_reply

LlmTypeOK ==
  /\ llm.at \in {"idle", "calling", "done"} /\ llm.via \in Vias
  /\ llm.blank \subseteq AISettings /\ llm.asked \in 0..LLM_MAX_RETRIES + 1
  /\ llm.reply \in Replies /\ llm.tools \in ToolReplies
  /\ llm.result \in Results

(* How a service names the failure to its screen (_error_code of            *)
(* action_draft_service).                                                   *)
_error_code(result) ==
  IF result \in InvalidResponses THEN "AI_INVALID_RESPONSE"
  ELSE IF result \in RetryableErrors THEN "AI_UNAVAILABLE"
  ELSE "INTERNAL_ERROR"

(* The text pieces of a message, each once and in the order they came.      *)
TellsTheText(told, combined) ==
  /\ ToSet(told) = {piece.n : piece \in {p \in ToSet(combined) : p.kind = "text"}}
  /\ \A i, j \in DOMAIN told : i < j => told[i] < told[j]

(* What a feature gets from a model call is a whole reply, and what it is   *)
(* told of a failed one is true (ai/llm.py, ai/docs/errors.md): a value was *)
(* read from a reply the provider did not leave unfinished, completed if it *)
(* was streamed, and the pieces told on the way are its text; tools were    *)
(* asked for only where they were allowed; there is one full vector for     *)
(* each text.  A configuration error means that a setting is blank or the   *)
(* provider refused the address, key or model; a member is offered another  *)
(* try only for a failure that a second call may not meet, and after the    *)
(* retries were spent on a temporary one.  Both structured calls say the    *)
(* same of the same reply of a streaming model.                             *)
RepliesAreWhole ==
  /\ LlmTypeOK
  /\ llm.result = "value" =>
       CASE llm.via = "tools" -> llm.tools.readable /\ (llm.tools.asks => llm.tools.allowed)
         [] llm.via = "embed" -> llm.vectors = [i \in 1..llm.texts |-> EMBEDDING_DIMENSIONS]
         [] OTHER -> /\ llm.reply.text = "read"
                     /\ llm.reply.status \notin {"max_output_tokens", "incomplete"}
                     /\ llm.streaming => llm.reply.status = "completed"
                     /\ TellsTheText(llm.told, llm.combined)
  /\ llm.result = "AIConfigError" <=>
       \/ llm.at = "done" /\ llm.asked = 0
       \/ llm.failure \in {"authentication", "model_not_allowed"}
  /\ llm.at = "done" /\ _error_code(llm.result) = "AI_UNAVAILABLE" =>
       /\ llm.failure \in Temporary
       /\ llm.combined = <<>> => llm.asked = LLM_MAX_RETRIES + 1
  /\ llm.at = "done" /\ llm.via = "structured" /\ llm.streaming
     /\ llm.asked > 0 /\ llm.failure = "none" =>
       llm.result = astream_structured(<<"chunk">>, llm.reply)
=============================================================================
