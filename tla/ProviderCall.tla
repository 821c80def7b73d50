---------------------------- MODULE ProviderCall ----------------------------
(***************************************************************************)
(* One logical model request, from the retry executor down to the bytes on *)
(* the wire: agent.Executor.Execute runs governed physical attempts, each  *)
(* attempt is one Complete call of a provider adapter (four HTTP adapters  *)
(* and the SIWC stream), the composition layer classifies what the adapter *)
(* saw, the governor decides whether the class may be retried, the journal *)
(* makes the outcome durable, the observer learns from it into the durable *)
(* operational profile, and the executor waits and tries again.            *)
(*                                                                         *)
(* The module keeps apart what really happened on the wire (wire, body,    *)
(* stream) and what the program believes (reply.state, completion.class):  *)
(* every property relates the two.  The governor's admission, budgets and  *)
(* circuit are modules of their own (Governor, AccountLane); here they are *)
(* the part a retry reads: the retry ledger, the rate events and whether   *)
(* the circuit is closed.                                                  *)
(***************************************************************************)
EXTENDS Naturals, Sequences, FiniteSets

CONSTANTS
    RetryBudget,    \* governor.Config.RetryBudget
    RateThreshold,  \* governor.Config.RateResponseThreshold
    Waits,          \* Retry-After values an upstream may send; 0 is none
    Baseline,       \* the shortest jittered backoff of the rate ladder
    Milli,          \* a millisecond, in the unit of these durations
    MaxText,        \* SIWC output limit, in pieces of text
    Bounds          \* request bounds an operator may configure; 0 is none

ASSUME RetryAssumption ==
    /\ RetryBudget \in Nat /\ RateThreshold \in Nat \ {0}
    /\ Waits \subseteq Nat /\ 0 \in Waits /\ Baseline \in Nat \ {0}
    /\ Milli \in Nat \ {0}
    /\ MaxText \in Nat /\ Bounds \subseteq Nat

Compat   == {"openai", "anthropic", "google"}
Families == Compat \cup {"siwc", "omniroute"}

VARIABLES
    family,      \* the adapter the run was composed with
    retryOn,     \* ExecutorOptions.EnableRetry
    pc,          \* where the executor is
    attempt,     \* Execute's local counter: physical attempts so far
    ctx,         \* the caller's context: "live", "cancelled" or "expired"
    wire,        \* how far the current attempt really got
    status,      \* status class of the response whose headers arrived
    stream,      \* parseSSE's state, and the texts that output_text.done and
                 \* response.completed claimed
    reply,       \* what Complete returned: kind, delivery state, Retry-After
    completion,  \* the governor's FinishResult and TX 2
    retries,     \* the task's retry ledger
    rateEvents,  \* rate responses in the window
    circuit,     \* "closed" or "review"
    profile,     \* provider_operational_profiles rows of this identity
    wait,        \* the backoff before the next attempt, and whether the profile
                 \* could be read when it was chosen
    last,        \* history: the attempt that finished last
    told         \* history: the longest Retry-After this request was told

vars == <<family, retryOn, pc, attempt, ctx, wire, status, stream, reply,
          completion, retries, rateEvents, circuit, profile, wait, last, told>>

call == <<wire, status, stream, reply>>
governed == <<retries, rateEvents, circuit>>
setup == <<family, retryOn>>

-----------------------------------------------------------------------------
(* The durable operational profile and its single rule engine.             *)

Unknown == [value |-> 0, prov |-> "unknown"]
Fields  == {"max_request_bytes", "cooldown_millis", "unsupported_options"}

\* Duration.Milliseconds: a Retry-After given as a date is no whole number of
\* milliseconds, and what is left over is dropped.
Millis(duration) == duration \div Milli

\* Only one unsupported option exists, so its mask is 0 or 1 and "adds a bit"
\* is "greater", as for the cooldown.
MoreConservative(field, current, candidate) ==
    IF field = "max_request_bytes" THEN candidate < current
                                   ELSE candidate > current

Observed(value)   == [value |-> value, prov |-> "observed"]
Configured(value) == [value |-> value, prov |-> "configured"]

\* ApplyFieldValue accepts: an unknown field takes anything, an observation
\* only tightens, and a configured bound may not loosen what was observed.
ApplyFieldValue(field, current, update) ==
    \/ current = Unknown
    \/ update.prov = "configured" /\ current.prov = "configured"
    \/ MoreConservative(field, current.value, update.value)

\* Defect: write what the stale load allowed, without reading the row again.
ApplyUpdateBlind(rows, field, update) == [rows EXCEPT ![field] = update]

\* The body of ApplyOperationalProfileUpdates for one field, inside the
\* transaction: the row read there decides, a refusal leaves it alone.
ApplyUpdate(rows, field, update) ==
    [rows EXCEPT ![field] = IF ApplyFieldValue(field, @, update) THEN update ELSE @]

SyncConfiguredBounds(rows, bound) ==
    IF bound = 0 THEN rows ELSE ApplyUpdate(rows, "max_request_bytes", Configured(bound))

-----------------------------------------------------------------------------
(* What an adapter makes of a response.                                    *)

Statuses == {"redirect", "s401", "s403", "s407", "s408", "s413", "s429",
             "s504", "s529", "s5xx", "s4xx", "s2xx"}

\* httpError of each adapter: the sanitized kind of a non-2xx status.
OpenAIHttpError(s) ==
    CASE s = "s401"                    -> "authentication_denied"
      [] s \in {"s403", "s407"}        -> "permission_denied"
      [] s = "s429"                    -> "rate_or_capacity"
      [] s \in {"s504", "s529", "s5xx"} -> "upstream_server_failure"
      [] OTHER                         -> "upstream_http_failure"

\* The Messages family knows three statuses more: an oversized request, a
\* gateway timeout and "overloaded".
AnthropicHttpError(s) ==
    CASE s = "s413" -> "request_too_large"
      [] s = "s504" -> "timeout"
      [] s = "s529" -> "rate_or_capacity"
      [] OTHER      -> OpenAIHttpError(s)

GoogleHttpError(s) == AnthropicHttpError(s)

\* OmniRoute's kinds come from signals in the body before the status; none of
\* them carries a context error, and the classifier its run is composed with
\* looks at nothing else.
OmniRouteHttpError(s) == "upstream_http_failure"

SIWCHttpError(s) ==
    CASE s = "s401" -> "authentication_denied"
      [] s = "s403" -> "permission_denied"
      [] s = "s429" -> "rate_or_capacity"
      [] s \in {"s504", "s529", "s5xx"} -> "upstream_server_failure"
      [] OTHER      -> "invalid_envelope"

HttpError(f, s) ==
    CASE f = "openai"    -> OpenAIHttpError(s)
      [] f = "anthropic" -> AnthropicHttpError(s)
      [] f = "google"    -> GoogleHttpError(s)
      [] f = "omniroute" -> OmniRouteHttpError(s)
      [] f = "siwc"      -> SIWCHttpError(s)

\* What the 2xx body of a non-streaming family may be: a natural end of turn
\* with text, a turn cut by a token limit, a refusal, a tool-shaped turn, an
\* envelope of another shape, bytes that are no JSON, nothing but blanks.
Bodies == {"whole", "truncated", "refused", "tools", "odd", "garbled", "blank"}

\* decodeChatCompletionResponse and responseText read the text of the first
\* choice and drop its finish reason.
DecodeChatCompletion(b) ==
    CASE b = "garbled"          -> "malformed_response"
      [] b = "blank"            -> "empty_response"
      [] b \in {"odd", "tools"} -> "invalid_envelope"
      [] OTHER                  -> "ok"

ResponseText(b) == DecodeChatCompletion(b)

\* Defect: the stop reason is dropped here too.
DecodeMessagesLoose(b) == DecodeChatCompletion(b)

\* decodeMessagesResponse and decodeGenerateResponse require the natural end
\* of the turn.
DecodeMessages(b) ==
    CASE b = "garbled"   -> "malformed_response"
      [] b = "blank"     -> "empty_response"
      [] b = "odd"       -> "invalid_envelope"
      [] b = "truncated" -> "incomplete_completion"
      [] b = "refused"   -> "refusal"
      [] b = "tools"     -> "unsupported_response_format"
      [] b = "whole"     -> "ok"

DecodeGenerate(b) == DecodeMessages(b)

Decode(f, b) ==
    CASE f = "openai"    -> DecodeChatCompletion(b)
      [] f = "anthropic" -> DecodeMessages(b)
      [] f = "google"    -> DecodeGenerate(b)
      [] f = "omniroute" -> ResponseText(b)

-----------------------------------------------------------------------------
(* What the program concludes from an attempt.                             *)

DeliveryStates == {"not_sent", "sent_unconfirmed", "sent_confirmed",
                   "response_started", "completed", "unset"}

\* deliveryObservation.stateAfterError: the strongest state the trace
\* callbacks support.  The compatible adapters take a written request for a
\* confirmed one; OmniRoute and SIWC wait for the first response byte.
CompatStateAfterError(w) ==
    CASE w \in {"response", "read"}    -> "response_started"
      [] w \in {"headers", "written"}  -> "sent_confirmed"
      [] OTHER                         -> "sent_unconfirmed"

OmniRouteStateAfterError(w) ==
    IF w \in {"response", "read"} THEN "response_started" ELSE "sent_unconfirmed"

SIWCStateAfterError(w) == OmniRouteStateAfterError(w)

StateAfterError(f, w) ==
    CASE f \in Compat     -> CompatStateAfterError(w)
      [] f = "omniroute"  -> OmniRouteStateAfterError(w)
      [] f = "siwc"       -> SIWCStateAfterError(w)

\* What is particular to each adapter's Complete: the delivery state it puts
\* on a refusal of its own configuration, and what it makes of a redirect,
\* whose body it reads whole or not, within the bound or not.
OpenAIComplete ==
    [unconfigured |-> "not_sent",
     redirect |-> [read \in BOOLEAN |-> [fits \in BOOLEAN |->
                     IF fits THEN "completed" ELSE "response_started"]]]

AnthropicComplete == OpenAIComplete

\* Google's does not ignore the error of reading the redirect's body.
GoogleComplete ==
    [unconfigured |-> "not_sent",
     redirect |-> [read \in BOOLEAN |-> [fits \in BOOLEAN |->
                     IF read /\ fits THEN "completed" ELSE "response_started"]]]

\* SIWC does not read it.
SIWCComplete ==
    [unconfigured |-> "not_sent",
     redirect |-> [read \in BOOLEAN |-> [fits \in BOOLEAN |-> "response_started"]]]

\* OmniRoute refuses its configuration without metadata, and has no case for
\* a redirect: it is read like any other status.
OmniRouteComplete ==
    [unconfigured |-> "unset",
     redirect |-> [read \in BOOLEAN |-> [fits \in BOOLEAN |-> "completed"]]]

Adapter == [openai |-> OpenAIComplete, anthropic |-> AnthropicComplete,
            google |-> GoogleComplete, siwc |-> SIWCComplete, omniroute |-> OmniRouteComplete]

Recoverable == {"rate_or_capacity", "connection_reset", "timeout",
                "empty_response", "malformed_upstream", "upstream_server_failure"}
Security    == {"authentication_denied", "http_403"}

\* compat.classifyError, the SIWC case of NewClassifier, and defaultOutcome
\* for OmniRoute, whose run is composed without a classifier.
ClassifyKind(f, kind) ==
    IF kind = "ok" THEN "success"
    ELSE IF f = "siwc" THEN "uncertain_reached"
    ELSE IF kind = "cancelled" THEN "cancelled_before_upstream"
    ELSE IF kind = "timeout" THEN "timeout"
    ELSE IF f = "omniroute" THEN "uncertain_reached"
    ELSE CASE kind = "rate_or_capacity"                     -> "rate_or_capacity"
           [] kind = "upstream_server_failure"              -> "upstream_server_failure"
           [] kind = "empty_response"                       -> "empty_response"
           [] kind \in {"malformed_response", "invalid_envelope"} -> "malformed_upstream"
           [] kind \in {"authentication_denied", "auth_unavailable"} -> "authentication_denied"
           [] kind = "permission_denied"                    -> "http_403"
           [] OTHER                                         -> "uncertain_reached"

\* A SIWC stream may complete without text: no error, so the classifier's
\* first branch reads the blank text.
Classify(f, r, text) ==
    IF f = "siwc" /\ r.kind = "ok" /\ text = 0 THEN "empty_response"
                                               ELSE ClassifyKind(f, r.kind)

\* applyDeliveryEvidence, then the cancelled case of recordOutcomeLocked.
ApplyDeliveryEvidence(class, state) ==
    IF \/ state \in {"sent_unconfirmed", "response_started"}
       \/ class = "cancelled_before_upstream" /\ state # "not_sent"
    THEN "uncertain_reached" ELSE class

-----------------------------------------------------------------------------
NoStream == [text |-> 0, claims |-> {}, done |-> FALSE, ended |-> "open"]
NoReply  == [kind |-> "none", state |-> "unset", after |-> 0]
NoWait   == [time |-> 0, learned |-> TRUE]
NoAttempt == [wire |-> "idle", class |-> "none", durable |-> TRUE]
NoFinish == [class |-> "none", eligible |-> FALSE, backoff |-> 0, durable |-> FALSE]

Init ==
    /\ family \in Families /\ retryOn \in BOOLEAN
    /\ pc = "setup" /\ attempt = 0 /\ ctx = "live"
    /\ wire = "idle" /\ status = "none" /\ stream = NoStream
    /\ reply = NoReply /\ completion = NoFinish
    /\ retries = 0 /\ rateEvents = 0 /\ circuit = "closed"
    /\ profile = [f \in Fields |-> Unknown]
    /\ wait = NoWait /\ last = NoAttempt /\ told = 0

\* Composition.  The provider is resolved, its configured bounds are
\* synchronised into the profile and its adapter built.  A bounded retry
\* policy is refused for SIWC by run and by resume; for OmniRoute only run
\* refuses it, a resumed task accepts it.
Compose ==
    /\ pc = "setup"
    /\ retryOn => family # "siwc"
    /\ \E bound \in Bounds :
          profile' = IF family = "omniroute" THEN profile
                     ELSE SyncConfiguredBounds(profile, bound)
    /\ pc' = "admit"
    /\ UNCHANGED <<setup, attempt, ctx, call, completion, governed, wait, last, told>>

\* The adapter refuses what it is built from, after the bounds were recorded.
AdapterRefused ==
    /\ pc = "setup" /\ family # "omniroute"
    /\ \E bound \in Bounds : profile' = SyncConfiguredBounds(profile, bound)
    /\ pc' = "returned"
    /\ UNCHANGED <<setup, attempt, ctx, call, completion, governed, wait, last, told>>

\* OmniRoute's gateway contract is not healthy.
ContractUnhealthy ==
    /\ pc = "setup" /\ family = "omniroute"
    /\ pc' = "returned"
    /\ UNCHANGED <<setup, attempt, ctx, call, completion, governed, profile, wait, last, told>>

\* Governor.Execute up to the provider call: admission, the permit's start,
\* which debits the retry ledger, and the durable intent (TX 1).
Admit ==
    /\ pc = "admit" /\ ctx = "live" /\ circuit = "closed"
    /\ attempt > 0 => retries < RetryBudget
    /\ attempt' = attempt + 1
    /\ retries' = IF attempt > 0 THEN retries + 1 ELSE retries
    /\ wire' = "idle" /\ status' = "none" /\ stream' = NoStream
    /\ reply' = NoReply /\ completion' = NoFinish
    /\ pc' = "complete"
    /\ UNCHANGED <<setup, ctx, rateEvents, circuit, profile, wait, last, told>>

\* Not admitted (circuit, cooldown, budgets, health, context), or TX 1 failed:
\* the executor returns, nothing was sent.
AdmissionRefused ==
    /\ pc = "admit"
    /\ pc' = "returned"
    /\ UNCHANGED <<setup, attempt, ctx, call, completion, governed, profile, wait, last, told>>

-----------------------------------------------------------------------------
(* Complete.                                                               *)

Returns(kind, state, after) ==
    /\ reply' = [kind |-> kind, state |-> state, after |-> after]
    /\ pc' = "finish"

\* The refusals before the request is dispatched: the caller's context, the
\* model, the endpoint, the credential, the encoded size.
RefuseBeforeDispatch ==
    /\ pc = "complete" /\ wire = "idle"
    /\ \/ ctx # "live" /\ Returns("cancelled", "not_sent", 0)
       \/ \E kind \in {"config_refused", "auth_unavailable", "request_too_large"} :
             Returns(kind, IF kind = "request_too_large" THEN "not_sent"
                           ELSE Adapter[family].unconfigured, 0)
       \/ /\ family = "siwc"      \* the wait for the credential store's lock
          /\ Returns("timeout", "not_sent", 0)
    /\ UNCHANGED <<setup, attempt, ctx, wire, status, stream, completion, governed,
                   profile, wait, last, told>>

\* client.Do and its trace callbacks: the request leaves in pieces.
Progress ==
    /\ pc = "complete"
    /\ \/ wire = "idle"    /\ ctx = "live" /\ wire' = "dialing"
       \/ wire = "dialing" /\ wire' = "headers"
       \/ wire = "headers" /\ wire' = "written"
    /\ UNCHANGED <<setup, pc, attempt, ctx, status, stream, reply, completion, governed,
                   profile, wait, last, told>>

\* The server's headers arrive and Do returns a response.
ResponseArrives ==
    /\ pc = "complete" /\ wire = "written"
    /\ wire' = "response"
    /\ status' \in Statuses
    /\ UNCHANGED <<setup, pc, attempt, ctx, stream, reply, completion, governed,
                   profile, wait, last, told>>

\* Defect: a request that was dispatched and failed is reported as not sent.
TransportFailsForgotten ==
    /\ pc = "complete" /\ wire \in {"dialing", "headers", "written"}
    /\ \E kind \in {"timeout", "transport"} : Returns(kind, "not_sent", 0)
    /\ UNCHANGED <<setup, attempt, ctx, wire, status, stream, completion, governed,
                   profile, wait, last, told>>

\* Do fails: the adapter's own timeout or a transport timeout, the caller's
\* cancellation, any other transport error.  It may fail after the first
\* response byte and before the headers are complete.
TransportFails ==
    /\ pc = "complete" /\ wire \in {"dialing", "headers", "written"}
    /\ \E kind \in {"timeout", "transport"} \cup (IF ctx = "cancelled" THEN {"cancelled"} ELSE {}),
          w \in {wire} \cup (IF wire = "written" THEN {"response"} ELSE {}) :
          /\ wire' = w
          /\ Returns(kind, StateAfterError(family, w), 0)
    /\ UNCHANGED <<setup, attempt, ctx, status, stream, completion, governed,
                   profile, wait, last, told>>

\* A redirect is refused, never followed.
RedirectRefused ==
    /\ pc = "complete" /\ wire = "response" /\ status = "redirect" /\ family # "omniroute"
    /\ \E read \in BOOLEAN, fits \in BOOLEAN :
          /\ wire' = IF read /\ fits THEN "read" ELSE wire
          /\ Returns("unsafe_redirect", Adapter[family].redirect[read][fits], 0)
    /\ UNCHANGED <<setup, attempt, ctx, status, stream, completion, governed,
                   profile, wait, last, told>>

\* The body breaks off or exceeds the response bound.
BodyFails ==
    /\ pc = "complete" /\ wire = "response"
    /\ family = "omniroute" \/ (family \in Compat /\ status # "redirect")
    /\ \E kind \in {"transport", "response_too_large"} : Returns(kind, "response_started", 0)
    /\ UNCHANGED <<setup, attempt, ctx, wire, status, stream, completion, governed,
                   profile, wait, last, told>>

\* Any other status than 2xx, its body read (SIWC: read or not).
HttpFails ==
    /\ pc = "complete" /\ wire = "response"
    /\ status \notin {"s2xx"} /\ (status = "redirect" => family = "omniroute")
    /\ wire' \in {"read"} \cup (IF family = "siwc" THEN {wire} ELSE {})
    /\ \E after \in Waits : Returns(HttpError(family, status), "completed", after)
    /\ UNCHANGED <<setup, attempt, ctx, status, stream, completion, governed,
                   profile, wait, last, told>>

\* A 2xx body read whole and decoded; status keeps which body it was.
BodyDecoded ==
    /\ pc = "complete" /\ wire = "response" /\ status = "s2xx" /\ family # "siwc"
    /\ wire' = "read"
    /\ \E b \in Bodies : status' = b /\ Returns(Decode(family, b), "completed", 0)
    /\ UNCHANGED <<setup, attempt, ctx, stream, completion, governed,
                   profile, wait, last, told>>

\* OmniRoute's receipt header is absent or does not validate.
ReceiptsRefused ==
    /\ pc = "complete" /\ wire = "response" /\ family = "omniroute"
    /\ \E kind \in {"attempt_receipts_missing", "attempt_receipts_invalid"},
          state \in {"response_started", "completed"} :
          /\ wire' = IF state = "completed" THEN "read" ELSE wire
          /\ Returns(kind, state, 0)
    /\ UNCHANGED <<setup, attempt, ctx, status, stream, completion, governed,
                   profile, wait, last, told>>

-----------------------------------------------------------------------------
(* parseSSE and consumeEvent: the SIWC stream, one event at a time.        *)

Streaming ==
    /\ pc = "complete" /\ wire = "response" /\ status = "s2xx" /\ family = "siwc"

\* Every event is checked for its shape first: bytes that are not one JSON
\* object with distinct keys are malformed, an object that is not what its
\* event promises (a refusal and an unknown event too) is invalid.  Four
\* events repeat the text; part_done is content_part.done and
\* output_item.done, of which only the shape is looked at.
Broken == {"malformed", "invalid"}
Compared == {"text_done", "completed"}
Events == {"delta", "part_done", "failed", "incomplete", "progress"} \cup Compared \cup Broken

\* The text an event repeats; NoClaim when it carries none, which only
\* text_done may not.
NoClaim == MaxText + 1
Claims(e) ==
    CASE e = "text_done"                -> 0..MaxText
      [] e \in {"completed", "part_done"} -> 0..NoClaim
      [] OTHER                          -> {NoClaim}

\* What consumeEvent makes of one event carrying the text claim c: the error
\* it returns, or "" when the stream goes on.
ConsumeEvent(s, e, c) ==
    IF s.ended # "open" THEN "invalid_envelope"
    ELSE CASE e = "malformed"  -> "malformed_response"
           [] e = "invalid"    -> "invalid_envelope"
           [] e = "delta"      -> IF s.done THEN "invalid_envelope"
                                  ELSE IF s.text = MaxText THEN "response_too_large" ELSE ""
           [] e = "text_done"  -> IF s.done \/ c # s.text THEN "invalid_envelope" ELSE ""
           [] e = "completed"  -> IF c \notin {NoClaim, s.text} THEN "invalid_envelope" ELSE ""
           [] e = "failed"     -> "response_failed"
           [] e = "incomplete" -> "response_incomplete"
           [] OTHER            -> ""

StreamEvent ==
    /\ Streaming
    /\ \E e \in Events : \E c \in Claims(e) :
          /\ stream' = [text   |-> IF e = "delta" /\ ConsumeEvent(stream, e, c) = ""
                                   THEN stream.text + 1 ELSE stream.text,
                        claims |-> IF e \in Compared THEN (stream.claims \cup {c}) \ {NoClaim}
                                   ELSE stream.claims,
                        done   |-> stream.done \/ e = "text_done",
                        ended  |-> IF stream.ended = "open"
                                   THEN IF e \in {"completed", "failed", "incomplete"} THEN e ELSE "open"
                                   ELSE "overrun"]
          /\ IF ConsumeEvent(stream, e, c) = ""
             THEN UNCHANGED <<pc, reply>>
             ELSE LET kind == ConsumeEvent(stream, e, c) IN
                  Returns(IF ctx = "live" THEN kind
                          ELSE IF ctx = "expired" THEN "timeout" ELSE "cancelled",
                          IF ctx = "live" /\ kind \in {"response_failed", "response_incomplete"}
                          THEN "completed" ELSE "response_started", 0)
    /\ UNCHANGED <<setup, attempt, ctx, wire, status, completion, governed,
                   profile, wait, last, told>>

\* The stream ends: the server closes it, or it breaks off or is cut at the
\* wire limit.  It is a success only after response.completed.
StreamEnds ==
    /\ Streaming
    /\ \E clean \in BOOLEAN :
          /\ wire' = IF clean THEN "read" ELSE wire
          /\ IF clean /\ stream.ended = "completed"
             THEN Returns("ok", "completed", 0)
             ELSE Returns(IF ctx = "live" THEN "stream_incomplete"
                          ELSE IF ctx = "expired" THEN "timeout" ELSE "cancelled",
                          "response_started", 0)
    /\ UNCHANGED <<setup, attempt, ctx, status, stream, completion, governed,
                   profile, wait, last, told>>

\* A 2xx that is no event stream.
StreamRefused ==
    /\ Streaming /\ stream = NoStream
    /\ Returns("invalid_envelope", "completed", 0)
    /\ UNCHANGED <<setup, attempt, ctx, wire, status, stream, completion, governed,
                   profile, wait, last, told>>

-----------------------------------------------------------------------------
(* Governor.Execute after the call: classify, finish, TX 2.                *)

Finish ==
    /\ pc = "finish"
    /\ LET class  == ApplyDeliveryEvidence(Classify(family, reply, stream.text), reply.state)
           rate   == class = "rate_or_capacity"
           events == IF rate THEN rateEvents + 1 ELSE rateEvents
           review == class \in Security \/ events >= RateThreshold IN
       /\ rateEvents' = events
       /\ circuit' = IF review THEN "review" ELSE circuit
       /\ \E durable \in BOOLEAN :
             completion' = [class    |-> class,
                            eligible |-> class \in Recoverable /\ retries < RetryBudget
                                           /\ circuit' = "closed",
                            backoff  |-> IF ~rate THEN 0
                                         ELSE IF reply.after > 0 THEN reply.after ELSE Baseline,
                            durable  |-> durable]
       /\ last' = [wire |-> wire, class |-> class, durable |-> completion'.durable]
       /\ told' = IF rate /\ family \in Compat /\ reply.after > told THEN reply.after ELSE told
    /\ wire' = "idle" /\ status' = "none" /\ stream' = NoStream
    /\ pc' = "observe"
    /\ UNCHANGED <<setup, attempt, ctx, reply, retries, profile, wait>>

\* Observation: what the attempt is evidence of.  A failed TX 2 replaced the
\* adapter's error, so it is evidence of nothing.
Observation ==
    IF family \notin Compat \/ ~completion.durable THEN "ambiguous"
    ELSE CASE reply.kind = "rate_or_capacity"            -> "rate_limited"
           [] reply.kind = "unsupported_response_format" -> "unsupported_option"
           [] OTHER                                      -> "ambiguous"

\* Defect: the observer drops what a rate response proves.
UpdatesForgetWait ==
    IF Observation = "unsupported_option" THEN {<<"unsupported_options", Observed(1)>>} ELSE {}

\* Updates: the profile update the evidence justifies, if any.  Sizes are
\* never learned, since no adapter proves a number.
Updates ==
    CASE Observation = "rate_limited" /\ Millis(reply.after) > 0 ->
            {<<"cooldown_millis", Observed(Millis(reply.after))>>}
      [] Observation = "unsupported_option" -> {<<"unsupported_options", Observed(1)>>}
      [] OTHER                              -> {}

\* ObserveAttempt up to its transaction: load the profile, keep what it would
\* accept.  An unreadable profile stops the executor.
Observe ==
    /\ pc = "observe"
    /\ \/ Updates = {} /\ pc' = "decide"
       \/ \E u \in Updates :
             pc' = IF ApplyFieldValue(u[1], profile[u[1]], u[2]) THEN "apply" ELSE "decide"
       \/ Updates # {} /\ pc' = "returned"
    /\ UNCHANGED <<setup, attempt, ctx, call, completion, governed, profile, wait, last, told>>

\* ApplyOperationalProfileUpdates: check-and-set against the current row.  A
\* refusal there means another run was stricter meanwhile, and is no error.
Apply ==
    /\ pc = "apply"
    /\ \/ /\ \E u \in Updates : profile' = ApplyUpdate(profile, u[1], u[2])
          /\ pc' = "decide"
       \/ pc' = "returned" /\ UNCHANGED profile
    /\ UNCHANGED <<setup, attempt, ctx, call, completion, governed, wait, last, told>>

\* Defect: the durability sentinel is not looked at.
RetryEligibleUnpersisted == retryOn /\ completion.eligible /\ ctx = "live"

\* retryEligible.
RetryEligible ==
    retryOn /\ completion.durable /\ completion.eligible /\ ctx = "live"

Decide ==
    /\ pc = "decide"
    /\ IF RetryEligible
       THEN /\ pc' = "backoff"
            \* retryBackoff: the largest of the selected backoff, the governor's
            \* window (which ends with it) and the learned cooldown; a profile
            \* that cannot be read counts as no cooldown.
            /\ \E read \in BOOLEAN :
                  LET learned == IF read THEN profile["cooldown_millis"].value * Milli ELSE 0 IN
                  wait' = [time |-> IF learned > completion.backoff THEN learned
                                                                    ELSE completion.backoff,
                           learned |-> read]
       ELSE pc' = "returned" /\ UNCHANGED wait
    /\ reply' = NoReply /\ completion' = NoFinish
    /\ UNCHANGED <<setup, attempt, ctx, wire, status, stream, governed, profile, last, told>>

\* The wait elapses, or the context ends it.
Backoff ==
    /\ pc = "backoff"
    /\ pc' = IF ctx = "live" THEN "admit" ELSE "returned"
    /\ UNCHANGED <<setup, attempt, ctx, call, completion, governed, profile, wait, last, told>>

-----------------------------------------------------------------------------
(* The environment.                                                        *)

ContextEnds ==
    /\ pc # "returned" /\ ctx = "live"
    /\ ctx' \in {"cancelled", "expired"}
    /\ UNCHANGED <<setup, pc, attempt, call, completion, governed, profile, wait, last, told>>

\* Another run of the same provider identity, between any two steps of this
\* one: it records its configured bound, or what it was told itself.
OtherRun ==
    /\ pc # "returned" /\ family \in Compat
    /\ \/ \E bound \in Bounds : profile' = SyncConfiguredBounds(profile, bound)
       \/ \E w \in Waits :
             /\ Millis(w) > 0
             /\ profile' = ApplyUpdate(profile, "cooldown_millis", Observed(Millis(w)))
    /\ profile' # profile
    /\ UNCHANGED <<setup, pc, attempt, ctx, call, completion, governed, wait, last, told>>

Returned == pc = "returned" /\ UNCHANGED vars

Next ==
    \/ Compose \/ AdapterRefused \/ ContractUnhealthy \/ Admit \/ AdmissionRefused
    \/ RefuseBeforeDispatch \/ Progress \/ ResponseArrives \/ TransportFails
    \/ RedirectRefused \/ BodyFails \/ HttpFails \/ BodyDecoded \/ ReceiptsRefused
    \/ StreamEvent \/ StreamEnds \/ StreamRefused
    \/ Finish \/ Observe \/ Apply \/ Decide \/ Backoff
    \/ ContextEnds \/ OtherRun \/ Returned

Spec == Init /\ [][Next]_vars

-----------------------------------------------------------------------------
\* The request, the answer and what was learned hold only values their fields admit.
TypeOK ==
    /\ family \in Families /\ retryOn \in BOOLEAN
    /\ pc \in {"setup", "admit", "complete", "finish", "observe", "apply", "decide",
               "backoff", "returned"}
    /\ attempt \in Nat /\ retries \in 0..RetryBudget /\ rateEvents \in Nat
    /\ ctx \in {"live", "cancelled", "expired"}
    /\ wire \in {"idle", "dialing", "headers", "written", "response", "read"}
    /\ status \in Statuses \cup Bodies \cup {"none"}
    /\ stream.text \in 0..MaxText /\ reply.state \in DeliveryStates
    /\ circuit \in {"closed", "review"}
    /\ \A f \in Fields : profile[f].prov \in {"unknown", "configured", "observed"}
    /\ wait.time \in Nat /\ told \in Waits

\* An attempt reported as not_sent left nothing on the wire: no adapter
\* forgets that it entered client.Do, whatever failed afterwards.
NotSentIsTrue == reply.state = "not_sent" => wire = "idle"

\* Execute never issues another physical attempt when it cannot tell what
\* became of the last one: its outcome is not in the journal, the request
\* may be only partly written, or the response began and broke off; nor
\* after a security signal.  The states sent_unconfirmed and
\* response_started always stop the loop.  (A timeout of a written request
\* is told, as sent_confirmed, and is retried.)
AmbiguousNotRetried ==
    pc = "complete" /\ attempt > 1 =>
        /\ last.durable
        /\ last.class \notin Security
        /\ last.wire \notin {"dialing", "response"}

\* A turn is handed to the agent as a success only when the response was read
\* to its end and its adapter's conditions held of it: the Messages and
\* generateContent adapters saw the turn end naturally; a SIWC stream ended
\* with response.completed, with nothing after it, and neither
\* output_text.done nor response.completed claimed another text; a Chat
\* Completions answer has the text of a first choice, which may be cut,
\* since its adapters do not read the finish reason.
SuccessIsWhole ==
    pc = "finish" /\ reply.kind = "ok" =>
        /\ wire = "read"
        /\ family \in {"anthropic", "google"} => status = "whole"
        /\ family \in {"openai", "omniroute"} => status \in {"whole", "truncated", "refused"}
        /\ family = "siwc" => stream.ended = "completed" /\ stream.claims \subseteq {stream.text}

\* Concurrent runs of one identity never lose a learned restriction: no step
\* of any of them makes an observed value less conservative.
LearnedStaysLearned ==
    [][\A f \in Fields : profile[f].prov = "observed" =>
          \/ profile'[f] = profile[f]
          \/ MoreConservative(f, profile[f].value, profile'[f].value)]_profile

\* A retry waits at least as long as every Retry-After this request was told
\* so far, not only the last one, because the observer made them durable
\* before the wait was chosen (unless the profile could not be read then).
\* It is so in whole milliseconds, the unit the profile keeps.
RetryWaitsLongest == pc = "backoff" /\ wait.learned => Millis(wait.time) >= Millis(told)

=============================================================================
