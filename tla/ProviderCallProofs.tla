------------------------- MODULE ProviderCallProofs -------------------------
(***************************************************************************)
(* Proofs about one logical model request: for every retry budget, rate    *)
(* threshold, set of Retry-After values, output limit and set of bounds,   *)
(* every adapter family, and any interleaving with the context's end and   *)
(* with other runs of the same provider identity.                          *)
(***************************************************************************)
EXTENDS ProviderCall, TLAPS

(* ------------------------- the inductive invariant ---------------------- *)

Wires == {"idle", "dialing", "headers", "written", "response", "read"}
PCs == {"setup", "admit", "complete", "finish", "observe", "apply", "decide",
        "backoff", "returned"}

\* What the wire, the response, the stream and the reply may be.
WireType ==
    /\ pc \in PCs /\ ctx \in {"live", "cancelled", "expired"}
    /\ wire \in Wires /\ status \in Statuses \cup Bodies \cup {"none"}
    /\ stream.text \in 0..MaxText /\ stream.done \in BOOLEAN
    /\ reply.state \in DeliveryStates /\ reply.after \in Waits

\* A stream that is still read: what it claimed is what it delivered, and a claim
\* ends the deltas.
StreamAgrees ==
    /\ stream.claims \subseteq {stream.text}
    /\ stream.claims # {} => stream.done \/ stream.ended # "open"

\* What the end of a call says about the wire: the response was read whole, or the
\* reply carries what keeps its class from being recoverable, or a compatible
\* adapter failed on a request it had written.
ReplyTells ==
    \/ wire = "read"
    \/ reply.state \in {"sent_unconfirmed", "response_started"}
    \/ reply.kind \in {"unsafe_redirect", "cancelled", "config_refused", "auth_unavailable",
                       "request_too_large"}
    \/ wire \in {"headers", "written"} /\ reply.kind \in {"timeout", "transport"}
    \/ family = "siwc" /\ reply.kind # "ok"

CallInv ==
    /\ WireType /\ family \in Families
    /\ pc = "complete" => reply = NoReply /\ StreamAgrees
    /\ pc = "finish" => ReplyTells
    /\ NotSentIsTrue
    /\ SuccessIsWhole

\* The last attempt may be repeated.
Repeatable ==
    /\ last.durable
    /\ last.class \notin Security
    /\ \/ last.wire = "read"
       \/ last.class = "timeout" /\ last.wire \in {"headers", "written"}

LoopInv ==
    /\ attempt \in Nat /\ retryOn \in BOOLEAN /\ retries \in 0..RetryBudget
    /\ rateEvents \in Nat /\ circuit \in {"closed", "review"}
    /\ pc = "setup" => attempt = 0
    /\ pc = "complete" /\ attempt > 1 => Repeatable
    /\ pc = "admit" /\ attempt > 0 => Repeatable
    /\ pc = "backoff" => Repeatable
    /\ pc \in {"observe", "apply", "decide"} /\ completion.durable /\ completion.eligible
         => Repeatable

\* The rows of the profile; only the request bound is ever configured.
RowsOK(rows) ==
    /\ rows \in [Fields -> [value : Nat, prov : {"unknown", "configured", "observed"}]]
    /\ rows["cooldown_millis"].prov # "configured"

\* The longest Retry-After is in the profile, in whole milliseconds.
Learned == Millis(told) <= profile["cooldown_millis"].value

\* The one exception, until the observer made the last reply durable.
ToBeLearned ==
    /\ family \in Compat /\ reply.kind = "rate_or_capacity"
    /\ told = reply.after /\ Millis(told) > 0

LearnInv ==
    /\ RowsOK(profile) /\ told \in Waits /\ wait.time \in Nat /\ completion.backoff \in Nat
    /\ pc \in {"setup", "admit", "complete", "finish", "backoff"} => Learned
    /\ pc \in {"observe", "apply"} => Learned \/ ToBeLearned
    /\ pc = "decide" => Learned \/ ~completion.durable
    /\ RetryWaitsLongest

IndInv == CallInv /\ LoopInv /\ LearnInv

(* ----------------------------- inside the call -------------------------- *)

\* The steps between the admission and the adapter's return.
InCall ==
    \/ RefuseBeforeDispatch \/ Progress \/ ResponseArrives \/ TransportFails
    \/ RedirectRefused \/ BodyFails \/ HttpFails \/ BodyDecoded \/ ReceiptsRefused
    \/ StreamEvent \/ StreamEnds \/ StreamRefused

\* They touch the wire, the response, the stream and the reply, and nothing else.
LEMMA CallFrame ==
    ASSUME InCall
    PROVE  /\ pc = "complete" /\ pc' \in {"complete", "finish"}
           /\ UNCHANGED <<family, retryOn, attempt, ctx, completion, retries, rateEvents,
                          circuit, profile, wait, last, told>>
<1>1. CASE RefuseBeforeDispatch
  BY <1>1 DEF RefuseBeforeDispatch, Returns, setup, governed
<1>2. CASE Progress
  BY <1>2 DEF Progress, setup, governed
<1>3. CASE ResponseArrives
  BY <1>3 DEF ResponseArrives, setup, governed
<1>4. CASE TransportFails
  BY <1>4 DEF TransportFails, Returns, setup, governed
<1>5. CASE RedirectRefused
  BY <1>5 DEF RedirectRefused, Returns, setup, governed
<1>6. CASE BodyFails
  BY <1>6 DEF BodyFails, Returns, setup, governed
<1>7. CASE HttpFails
  BY <1>7 DEF HttpFails, Returns, setup, governed
<1>8. CASE BodyDecoded
  BY <1>8 DEF BodyDecoded, Returns, setup, governed
<1>9. CASE ReceiptsRefused
  BY <1>9 DEF ReceiptsRefused, Returns, setup, governed
<1>10. CASE StreamEvent
  BY <1>10 DEF StreamEvent, Streaming, Returns, setup, governed
<1>11. CASE StreamEnds
  BY <1>11 DEF StreamEnds, Streaming, Returns, setup, governed
<1>12. CASE StreamRefused
  BY <1>12 DEF StreamRefused, Streaming, Returns, setup, governed
<1> QED BY <1>1, <1>2, <1>3, <1>4, <1>5, <1>6, <1>7, <1>8, <1>9, <1>10, <1>11, <1>12 DEF InCall

\* The state an adapter reports after a failed dispatch is never not_sent, and is
\* confirmed only by a request that was written.
LEMMA AfterError ==
    ASSUME NEW f \in Families, NEW w \in {"dialing", "headers", "written", "response"}
    PROVE  /\ StateAfterError(f, w) \in {"sent_unconfirmed", "sent_confirmed", "response_started"}
           /\ StateAfterError(f, w) = "sent_confirmed" => w \in {"headers", "written"}
<1>1. CASE f \in Compat
  <2>1. StateAfterError(f, w) = CompatStateAfterError(w)
    BY <1>1 DEF StateAfterError, Compat
  <2> QED BY <2>1 DEF CompatStateAfterError
<1>2. CASE f \in {"siwc", "omniroute"}
  <2>1. StateAfterError(f, w) = OmniRouteStateAfterError(w)
    BY <1>2 DEF StateAfterError, SIWCStateAfterError, Compat
  <2> QED BY <2>1 DEF OmniRouteStateAfterError
<1> QED BY <1>1, <1>2 DEF Families

\* An error status is an error kind.
LEMMA HttpErrorIsError ==
    ASSUME NEW f \in Families, NEW s
    PROVE  HttpError(f, s) # "ok"
<1>1. OpenAIHttpError(s) # "ok"
  BY DEF OpenAIHttpError
<1>2. AnthropicHttpError(s) # "ok" /\ GoogleHttpError(s) # "ok"
  BY <1>1 DEF AnthropicHttpError, GoogleHttpError
<1>3. SIWCHttpError(s) # "ok" /\ OmniRouteHttpError(s) # "ok"
  BY DEF SIWCHttpError, OmniRouteHttpError
<1> QED BY <1>1, <1>2, <1>3 DEF HttpError, Families, Compat

LEMMA DecodedWhole ==
    ASSUME NEW f \in {"anthropic", "google"}, NEW b \in Bodies, Decode(f, b) = "ok"
    PROVE  b = "whole"
<1>1. Decode(f, b) = DecodeMessages(b)
  BY DEF Decode, DecodeGenerate
<1> QED BY <1>1 DEF DecodeMessages, Bodies

LEMMA DecodedText ==
    ASSUME NEW f \in {"openai", "omniroute"}, NEW b \in Bodies, Decode(f, b) = "ok"
    PROVE  b \in {"whole", "truncated", "refused"}
<1>1. Decode(f, b) = DecodeChatCompletion(b)
  BY DEF Decode, ResponseText
<1> QED BY <1>1 DEF DecodeChatCompletion, Bodies

\* What an adapter says of its own refusal and of a redirect.
LEMMA AdapterSays ==
    ASSUME NEW f \in Families
    PROVE  /\ Adapter[f].unconfigured \in {"not_sent", "unset"}
           /\ \A read, fits \in BOOLEAN :
                Adapter[f].redirect[read][fits] \in {"completed", "response_started"}
    BY DEF Adapter, OpenAIComplete, AnthropicComplete, GoogleComplete, SIWCComplete,
       OmniRouteComplete, Families, Compat

\* A call that returns: what remains to be shown of its reply.
LEMMA CallReturns ==
    ASSUME CallInv, WireType', family' = family, pc' = "finish",
           reply.state' = "not_sent" => wire' = "idle",
           ReplyTells', reply.kind' = "ok" => SuccessIsWhole'
    PROVE  CallInv'
    BY DEF CallInv, NotSentIsTrue, SuccessIsWhole

LEMMA RefuseKeeps ==
    ASSUME CallInv, RefuseBeforeDispatch
    PROVE  CallInv'
<1>1. PICK kind \in {"cancelled", "config_refused", "auth_unavailable", "request_too_large", "timeout"},
           state \in {"not_sent", "unset"} :
        /\ reply' = [kind |-> kind, state |-> state, after |-> 0] /\ pc' = "finish"
        /\ kind = "timeout" => family = "siwc"
  <2>1. Adapter[family].unconfigured \in {"not_sent", "unset"}
    BY AdapterSays DEF CallInv
  <2> QED BY <2>1 DEF RefuseBeforeDispatch, Returns
<1>2. /\ wire = "idle" /\ UNCHANGED <<family, ctx, wire, status, stream>>
  BY DEF RefuseBeforeDispatch, setup
<1>3. WireType'
  BY <1>1, <1>2, RetryAssumption DEF CallInv, WireType, PCs, DeliveryStates
<1> QED BY <1>1, <1>2, <1>3, CallReturns DEF ReplyTells

LEMMA TravelKeeps ==
    ASSUME CallInv, Progress \/ ResponseArrives
    PROVE  CallInv'
<1>1. /\ pc = "complete" /\ UNCHANGED <<family, pc, ctx, stream, reply>>
      /\ wire' \in Wires /\ status' \in Statuses \cup Bodies \cup {"none"}
  BY DEF Progress, ResponseArrives, setup, CallInv, WireType, Wires
<1>2. WireType'
  BY <1>1 DEF CallInv, WireType
<1>3. reply' = NoReply /\ StreamAgrees'
  BY <1>1 DEF CallInv, StreamAgrees
<1>4. NotSentIsTrue' /\ SuccessIsWhole'
  BY <1>1, <1>3 DEF NoReply, NotSentIsTrue, SuccessIsWhole
<1> QED BY <1>1, <1>2, <1>3, <1>4 DEF CallInv

LEMMA TransportKeeps ==
    ASSUME CallInv, TransportFails
    PROVE  CallInv'
<1>1. PICK kind \in {"timeout", "transport", "cancelled"},
           w \in {"dialing", "headers", "written", "response"} :
        /\ wire' = w /\ pc' = "finish"
        /\ reply' = [kind |-> kind, state |-> StateAfterError(family, w), after |-> 0]
  BY DEF TransportFails, Returns
<1>2. UNCHANGED <<family, ctx, status, stream>>
  BY DEF TransportFails, setup
<1>3. /\ StateAfterError(family, w) \in {"sent_unconfirmed", "sent_confirmed", "response_started"}
      /\ StateAfterError(family, w) = "sent_confirmed" => w \in {"headers", "written"}
  BY AfterError DEF CallInv
<1>4. WireType'
  BY <1>1, <1>2, <1>3, RetryAssumption
  DEF CallInv, WireType, PCs, DeliveryStates, Wires
<1>5. ReplyTells'
  BY <1>1, <1>2, <1>3 DEF ReplyTells
<1> QED BY <1>1, <1>2, <1>3, <1>4, <1>5, CallReturns

LEMMA RedirectKeeps ==
    ASSUME CallInv, RedirectRefused
    PROVE  CallInv'
<1>1. PICK state \in {"completed", "response_started"} :
        /\ reply' = [kind |-> "unsafe_redirect", state |-> state, after |-> 0] /\ pc' = "finish"
  BY AdapterSays DEF CallInv, RedirectRefused, Returns
<1>2. wire' \in {"read", "response"} /\ UNCHANGED <<family, ctx, status, stream>>
  BY DEF RedirectRefused, setup
<1>3. WireType'
  BY <1>1, <1>2, RetryAssumption DEF CallInv, WireType, PCs, DeliveryStates, Wires
<1> QED BY <1>1, <1>2, <1>3, CallReturns DEF ReplyTells

LEMMA BodyFailsKeeps ==
    ASSUME CallInv, BodyFails
    PROVE  CallInv'
<1>1. PICK kind \in {"transport", "response_too_large"} :
        /\ reply' = [kind |-> kind, state |-> "response_started", after |-> 0] /\ pc' = "finish"
  BY DEF BodyFails, Returns
<1>2. UNCHANGED <<family, ctx, wire, status, stream>>
  BY DEF BodyFails, setup
<1>3. WireType'
  BY <1>1, <1>2, RetryAssumption DEF CallInv, WireType, PCs, DeliveryStates, Wires
<1> QED BY <1>1, <1>2, <1>3, CallReturns DEF ReplyTells

LEMMA HttpKeeps ==
    ASSUME CallInv, HttpFails
    PROVE  CallInv'
<1>1. PICK after \in Waits :
        /\ reply' = [kind |-> HttpError(family, status), state |-> "completed", after |-> after]
        /\ pc' = "finish"
  BY DEF HttpFails, Returns
<1>2. /\ wire' \in {"read", "response"} /\ (wire' # "read" => family = "siwc")
      /\ UNCHANGED <<family, ctx, status, stream>>
  BY DEF HttpFails, setup
<1>3. HttpError(family, status) # "ok"
  BY HttpErrorIsError DEF CallInv
<1>4. WireType'
  BY <1>1, <1>2 DEF CallInv, WireType, PCs, DeliveryStates, Wires
<1> QED BY <1>1, <1>2, <1>3, <1>4, CallReturns DEF ReplyTells

LEMMA BodyKeeps ==
    ASSUME CallInv, BodyDecoded
    PROVE  CallInv'
<1>1. PICK b \in Bodies :
        /\ reply' = [kind |-> Decode(family, b), state |-> "completed", after |-> 0]
        /\ pc' = "finish" /\ status' = b
  BY DEF BodyDecoded, Returns
<1>2. wire' = "read" /\ family # "siwc" /\ UNCHANGED <<family, ctx, stream>>
  BY DEF BodyDecoded, setup
<1>3. WireType'
  BY <1>1, <1>2, RetryAssumption DEF CallInv, WireType, PCs, DeliveryStates, Wires
<1>4. reply'.kind = "ok" =>
        /\ family \in {"anthropic", "google"} => status' = "whole"
        /\ family \in {"openai", "omniroute"} => status' \in {"whole", "truncated", "refused"}
  BY <1>1, DecodedWhole, DecodedText
<1>5. reply'.kind = "ok" => SuccessIsWhole'
  BY <1>2, <1>4 DEF SuccessIsWhole
<1> QED BY <1>1, <1>2, <1>3, <1>5, CallReturns DEF ReplyTells

LEMMA ReceiptsKeep ==
    ASSUME CallInv, ReceiptsRefused
    PROVE  CallInv'
<1>1. PICK kind \in {"attempt_receipts_missing", "attempt_receipts_invalid"},
           state \in {"response_started", "completed"} :
        /\ reply' = [kind |-> kind, state |-> state, after |-> 0] /\ pc' = "finish"
        /\ wire' = IF state = "completed" THEN "read" ELSE wire
  BY DEF ReceiptsRefused, Returns
<1>2. wire = "response" /\ UNCHANGED <<family, ctx, status, stream>>
  BY DEF ReceiptsRefused, setup
<1>3. WireType'
  BY <1>1, <1>2, RetryAssumption DEF CallInv, WireType, PCs, DeliveryStates, Wires
<1> QED BY <1>1, <1>2, <1>3, CallReturns DEF ReplyTells

(* ------------------------------ the stream ------------------------------ *)

\* What it takes for consumeEvent to go on.
LEMMA ConsumeGoesOn ==
    ASSUME NEW s, NEW e \in Events, NEW c, ConsumeEvent(s, e, c) = ""
    PROVE  /\ s.ended = "open"
           /\ \/ e = "delta" /\ ~s.done /\ s.text # MaxText
              \/ e = "text_done" /\ ~s.done /\ c = s.text
              \/ e = "completed" /\ c \in {NoClaim, s.text}
              \/ e \in {"progress", "part_done"}
    BY DEF ConsumeEvent, Events, Compared, Broken

LEMMA ConsumeRefuses ==
    ASSUME NEW s, NEW e \in Events, NEW c
    PROVE  ConsumeEvent(s, e, c) # "ok"
    BY DEF ConsumeEvent, Events, Compared, Broken

LEMMA StreamEventKeeps ==
    ASSUME CallInv, StreamEvent
    PROVE  CallInv'
<1>1. PICK e, c :
        /\ e \in Events /\ c \in Claims(e)
        /\ stream' = [text   |-> IF e = "delta" /\ ConsumeEvent(stream, e, c) = ""
                                 THEN stream.text + 1 ELSE stream.text,
                      claims |-> IF e \in Compared THEN (stream.claims \cup {c}) \ {NoClaim}
                                 ELSE stream.claims,
                      done   |-> stream.done \/ e = "text_done",
                      ended  |-> IF stream.ended = "open"
                                 THEN IF e \in {"completed", "failed", "incomplete"}
                                      THEN e ELSE "open"
                                 ELSE "overrun"]
        /\ IF ConsumeEvent(stream, e, c) = ""
           THEN UNCHANGED <<pc, reply>>
           ELSE LET kind == ConsumeEvent(stream, e, c) IN
                Returns(IF ctx = "live" THEN kind
                        ELSE IF ctx = "expired" THEN "timeout" ELSE "cancelled",
                        IF ctx = "live" /\ kind \in {"response_failed", "response_incomplete"}
                        THEN "completed" ELSE "response_started", 0)
  BY DEF StreamEvent
<1>2. /\ pc = "complete" /\ family = "siwc" /\ UNCHANGED <<family, ctx, wire, status>>
      /\ WireType /\ reply = NoReply /\ StreamAgrees
  BY DEF StreamEvent, Streaming, setup, CallInv
<1>3. CASE ConsumeEvent(stream, e, c) = ""
  <2>1. /\ stream.ended = "open"
        /\ \/ e = "delta" /\ ~stream.done /\ stream.text # MaxText
           \/ e = "text_done" /\ ~stream.done /\ c = stream.text
           \/ e = "completed" /\ c \in {NoClaim, stream.text}
           \/ e \in {"progress", "part_done"}
    BY <1>1, <1>3, ConsumeGoesOn
  <2>2. /\ stream.text \in 0..MaxText /\ stream.done \in BOOLEAN /\ stream.text # NoClaim
        /\ stream.claims \subseteq {stream.text} /\ (stream.claims # {} => stream.done)
    BY <1>2, <2>1, RetryAssumption DEF WireType, StreamAgrees, NoClaim
  <2>3. UNCHANGED <<pc, reply>>
    BY <1>1, <1>3
  <2>4. /\ stream'.text = IF e = "delta" THEN stream.text + 1 ELSE stream.text
        /\ stream'.claims = IF e \in Compared THEN (stream.claims \cup {c}) \ {NoClaim}
                            ELSE stream.claims
        /\ stream'.done = (stream.done \/ e = "text_done")
        /\ stream'.ended = IF e \in {"completed", "failed", "incomplete"} THEN e ELSE "open"
    BY <1>1, <1>3, <2>1
  <2>5. stream'.text \in 0..MaxText /\ stream'.done \in BOOLEAN
    BY <2>1, <2>2, <2>4, RetryAssumption
  <2>6. WireType'
    BY <1>2, <2>3, <2>5 DEF WireType
  <2>7. StreamAgrees'
    <3>1. CASE e = "delta"
      <4>1. stream'.claims = {}
        BY <2>1, <2>2, <2>4, <3>1 DEF Compared
      <4> QED BY <4>1 DEF StreamAgrees
    <3>2. CASE e = "text_done"
      BY <2>1, <2>2, <2>4, <3>2 DEF StreamAgrees, Compared
    <3>3. CASE e = "completed"
      BY <2>1, <2>2, <2>4, <3>3 DEF StreamAgrees, Compared
    <3>4. CASE e \in {"progress", "part_done"}
      <4>1. /\ stream'.claims = stream.claims /\ stream'.text = stream.text
            /\ stream'.done = stream.done
        BY <2>2, <2>4, <3>4 DEF Compared
      <4> QED BY <2>2, <4>1 DEF StreamAgrees
    <3> QED BY <2>1, <3>1, <3>2, <3>3, <3>4
  <2>8. NotSentIsTrue' /\ SuccessIsWhole'
    BY <1>2, <2>3 DEF NoReply, NotSentIsTrue, SuccessIsWhole
  <2> QED BY <1>2, <2>3, <2>6, <2>7, <2>8 DEF CallInv
<1>4. CASE ConsumeEvent(stream, e, c) # ""
  <2>0. ConsumeEvent(stream, e, c) # "ok"
    BY <1>1, ConsumeRefuses
  <2>1. PICK kind, state :
          /\ state \in {"completed", "response_started"}
          /\ reply' = [kind |-> kind, state |-> state, after |-> 0] /\ pc' = "finish"
          /\ kind # "ok"
    BY <1>1, <1>4, <2>0 DEF Returns
  <2>2. stream'.text = stream.text /\ stream'.done \in BOOLEAN
    BY <1>1, <1>4
  <2>3. WireType'
    BY <1>2, <2>1, <2>2, RetryAssumption DEF WireType, PCs, DeliveryStates
  <2> QED BY <1>2, <2>1, <2>3, CallReturns DEF ReplyTells
<1> QED BY <1>3, <1>4

LEMMA StreamEndsKeep ==
    ASSUME CallInv, StreamEnds
    PROVE  CallInv'
<1>1. PICK clean \in BOOLEAN :
        /\ wire' = IF clean THEN "read" ELSE wire
        /\ IF clean /\ stream.ended = "completed"
           THEN Returns("ok", "completed", 0)
           ELSE Returns(IF ctx = "live" THEN "stream_incomplete"
                        ELSE IF ctx = "expired" THEN "timeout" ELSE "cancelled",
                        "response_started", 0)
  BY DEF StreamEnds
<1>2. /\ wire = "response" /\ family = "siwc" /\ UNCHANGED <<family, ctx, status, stream>>
      /\ WireType /\ StreamAgrees
  BY DEF StreamEnds, Streaming, setup, CallInv
<1>3. CASE clean /\ stream.ended = "completed"
  <2>1. /\ reply' = [kind |-> "ok", state |-> "completed", after |-> 0] /\ pc' = "finish"
        /\ wire' = "read"
    BY <1>1, <1>3 DEF Returns
  <2>2. WireType'
    BY <1>2, <2>1, RetryAssumption DEF WireType, PCs, DeliveryStates, Wires
  <2>3. SuccessIsWhole'
    BY <1>2, <1>3, <2>1 DEF SuccessIsWhole, StreamAgrees
  <2> QED BY <1>2, <2>1, <2>2, <2>3, CallReturns DEF ReplyTells
<1>4. CASE ~(clean /\ stream.ended = "completed")
  <2>1. PICK kind \in {"stream_incomplete", "timeout", "cancelled"} :
          reply' = [kind |-> kind, state |-> "response_started", after |-> 0] /\ pc' = "finish"
    BY <1>1, <1>4 DEF Returns
  <2>2. wire' \in {"read", "response"}
    BY <1>1, <1>2
  <2>3. WireType'
    BY <1>2, <2>1, <2>2, RetryAssumption DEF WireType, PCs, DeliveryStates, Wires
  <2> QED BY <1>2, <2>1, <2>3, CallReturns DEF ReplyTells
<1> QED BY <1>3, <1>4

LEMMA StreamRefusedKeeps ==
    ASSUME CallInv, StreamRefused
    PROVE  CallInv'
<1>1. reply' = [kind |-> "invalid_envelope", state |-> "completed", after |-> 0] /\ pc' = "finish"
  BY DEF StreamRefused, Returns
<1>2. family = "siwc" /\ UNCHANGED <<family, ctx, wire, status, stream>>
  BY DEF StreamRefused, Streaming, setup
<1>3. WireType'
  BY <1>1, <1>2, RetryAssumption DEF CallInv, WireType, PCs, DeliveryStates
<1> QED BY <1>1, <1>2, <1>3, CallReturns DEF ReplyTells

LEMMA CallKeeps ==
    ASSUME CallInv, InCall
    PROVE  CallInv'
    BY RefuseKeeps, TravelKeeps, TransportKeeps, RedirectKeeps, BodyFailsKeeps,
       HttpKeeps,
       BodyKeeps, ReceiptsKeep, StreamEventKeeps, StreamEndsKeep, StreamRefusedKeeps DEF InCall

(* ---------------------------- around the call --------------------------- *)

\* The steps that leave the wire, the response, the stream and the reply alone, outside
\* the call or with its end.
Aside ==
    \/ Compose \/ AdapterRefused \/ ContractUnhealthy \/ AdmissionRefused
    \/ Observe \/ Apply \/ Backoff \/ ContextEnds \/ OtherRun \/ Returned

LEMMA AsideFrame ==
    ASSUME Aside, WireType
    PROVE  /\ UNCHANGED <<family, retryOn, attempt, wire, status, stream, reply, completion, last, told>>
           /\ UNCHANGED <<retries, rateEvents, circuit, wait>>
           /\ pc' \in PCs /\ ctx' \in {"live", "cancelled", "expired"}
           /\ \/ pc' = pc \/ pc' = "returned" \/ (pc \in {"setup", "backoff"} /\ pc' = "admit")
              \/ pc = "observe" /\ pc' \in {"apply", "decide"}
              \/ pc = "apply" /\ pc' = "decide"
<1>1. CASE Compose
  BY <1>1 DEF Compose, setup, call, governed, WireType, PCs
<1>2. CASE AdapterRefused
  BY <1>2 DEF AdapterRefused, setup, call, governed, WireType, PCs
<1>3. CASE ContractUnhealthy
  BY <1>3 DEF ContractUnhealthy, setup, call, governed, WireType, PCs
<1>4. CASE AdmissionRefused
  BY <1>4 DEF AdmissionRefused, setup, call, governed, WireType, PCs
<1>5. CASE Observe
  BY <1>5 DEF Observe, setup, call, governed, WireType, PCs
<1>6. CASE Apply
  BY <1>6 DEF Apply, setup, call, governed, WireType, PCs
<1>7. CASE Backoff
  BY <1>7 DEF Backoff, setup, call, governed, WireType, PCs
<1>8. CASE ContextEnds
  BY <1>8 DEF ContextEnds, setup, call, governed, WireType, PCs
<1>9. CASE OtherRun
  BY <1>9 DEF OtherRun, setup, call, governed, WireType, PCs
<1>10. CASE Returned
  BY <1>10 DEF Returned, vars, WireType, PCs
<1> QED BY <1>1, <1>2, <1>3, <1>4, <1>5, <1>6, <1>7, <1>8, <1>9, <1>10 DEF Aside

LEMMA AsideKeepsCall ==
    ASSUME CallInv, Aside
    PROVE  CallInv'
<1>1. /\ UNCHANGED <<family, wire, status, stream, reply>>
      /\ pc' \in PCs /\ ctx' \in {"live", "cancelled", "expired"}
      /\ pc' = pc \/ pc' \in {"admit", "apply", "decide", "returned"}
  BY AsideFrame DEF CallInv
<1>2. WireType'
  BY <1>1 DEF CallInv, WireType
<1> QED BY <1>1, <1>2 DEF CallInv, StreamAgrees, ReplyTells, NotSentIsTrue, SuccessIsWhole

LEMMA AdmitKeepsCall ==
    ASSUME CallInv, Admit
    PROVE  CallInv'
<1>1. /\ wire' = "idle" /\ status' = "none" /\ stream' = NoStream /\ reply' = NoReply
      /\ pc' = "complete" /\ UNCHANGED <<family, ctx>>
  BY DEF Admit, setup
<1>2. WireType' /\ StreamAgrees'
  BY <1>1, RetryAssumption
  DEF CallInv, WireType, PCs, Wires, NoStream, NoReply, DeliveryStates,
     StreamAgrees
<1> QED BY <1>1, <1>2 DEF CallInv, NotSentIsTrue, SuccessIsWhole, NoReply

LEMMA FinishKeepsCall ==
    ASSUME CallInv, Finish
    PROVE  CallInv'
<1>1. /\ wire' = "idle" /\ status' = "none" /\ stream' = NoStream /\ UNCHANGED <<family, ctx, reply>>
      /\ pc' = "observe"
  BY DEF Finish, setup
<1>2. WireType'
  BY <1>1, RetryAssumption DEF CallInv, WireType, PCs, Wires, NoStream
<1> QED BY <1>1, <1>2 DEF CallInv, NotSentIsTrue, SuccessIsWhole

LEMMA DecideKeepsCall ==
    ASSUME CallInv, Decide
    PROVE  CallInv'
<1>1. /\ reply' = NoReply /\ UNCHANGED <<family, ctx, wire, status, stream>>
      /\ pc' \in {"backoff", "returned"}
  BY DEF Decide, setup
<1>2. WireType'
  BY <1>1, RetryAssumption DEF CallInv, WireType, PCs, NoReply, DeliveryStates
<1> QED BY <1>1, <1>2 DEF CallInv, NotSentIsTrue, SuccessIsWhole, NoReply

(* ------------------------- what may be repeated ------------------------- *)

\* A class that may be retried comes from a response read whole, or is the timeout of a
\* compatible adapter whose request had been written.
LEMMA RecoverableTells ==
    ASSUME CallInv, pc = "finish", NEW class,
           class = ApplyDeliveryEvidence(Classify(family, reply, stream.text), reply.state),
           class \in Recoverable
    PROVE  /\ class \notin Security
           /\ wire = "read" \/ (class = "timeout" /\ wire \in {"headers", "written"})
<1>0. ReplyTells /\ class \notin Security /\ family \in Families
  BY DEF CallInv, Recoverable, Security
<1>1. class # "uncertain_reached" /\ class # "cancelled_before_upstream"
      /\ class # "authentication_denied" /\ class # "success"
  BY DEF Recoverable
<1>2. /\ class = Classify(family, reply, stream.text)
      /\ reply.state \notin {"sent_unconfirmed", "response_started"}
  BY <1>1 DEF ApplyDeliveryEvidence
<1>3. reply.kind # "ok" => class = ClassifyKind(family, reply.kind)
  BY <1>2 DEF Classify
<1>4. CASE reply.kind \in {"unsafe_redirect", "cancelled", "config_refused", "auth_unavailable",
                          "request_too_large"}
  BY <1>1, <1>3, <1>4 DEF ClassifyKind
<1>5. CASE wire \in {"headers", "written"} /\ reply.kind \in {"timeout", "transport"}
  BY <1>0, <1>1, <1>3, <1>5 DEF ClassifyKind
<1>6. CASE family = "siwc" /\ reply.kind # "ok"
  BY <1>1, <1>3, <1>6 DEF ClassifyKind
<1> QED BY <1>0, <1>2, <1>4, <1>5, <1>6 DEF ReplyTells

\* What Finish leaves behind.
LEMMA FinishFacts ==
    ASSUME CallInv, Finish
    PROVE  \E class :
        /\ class = ApplyDeliveryEvidence(Classify(family, reply, stream.text), reply.state)
        /\ completion'.eligible => class \in Recoverable
        /\ completion'.backoff \in {0, reply.after, Baseline}
        /\ last'.wire = wire /\ last'.class = class /\ last'.durable = completion'.durable
        /\ rateEvents' \in {rateEvents, rateEvents + 1} /\ circuit' \in {circuit, "review"}
        /\ told' = IF class = "rate_or_capacity" /\ family \in Compat /\ reply.after > told
                   THEN reply.after ELSE told
        /\ pc = "finish" /\ pc' = "observe"
        /\ UNCHANGED <<family, retryOn, attempt, ctx, reply, retries, profile, wait>>
<1> PICK class : class = ApplyDeliveryEvidence(Classify(family, reply, stream.text), reply.state)
  OBVIOUS
<1> PICK able \in BOOLEAN :
        able <=> class \in Recoverable /\ retries < RetryBudget /\ circuit' = "closed"
  OBVIOUS
<1> PICK wanted : wanted = IF class # "rate_or_capacity" THEN 0
                           ELSE IF reply.after > 0 THEN reply.after ELSE Baseline
  OBVIOUS
<1>1. \E durable \in BOOLEAN :
        completion' = [class |-> class, eligible |-> able, backoff |-> wanted, durable |-> durable]
  BY DEF Finish
<1>2. last' = [wire |-> wire, class |-> class, durable |-> completion'.durable]
  BY DEF Finish
<1>3. rateEvents' \in {rateEvents, rateEvents + 1} /\ circuit' \in {circuit, "review"}
  BY DEF Finish
<1>4. told' = IF class = "rate_or_capacity" /\ family \in Compat /\ reply.after > told
              THEN reply.after ELSE told
  BY DEF Finish
<1>5. /\ pc = "finish" /\ pc' = "observe"
      /\ UNCHANGED <<family, retryOn, attempt, ctx, reply, retries, profile, wait>>
  BY DEF Finish, setup
<1>6. /\ completion'.eligible => class \in Recoverable
      /\ completion'.backoff \in {0, reply.after, Baseline}
  <2>1. completion'.eligible = able /\ completion'.backoff = wanted
    BY <1>1
  <2> QED BY <2>1
<1> QED BY <1>2, <1>3, <1>4, <1>5, <1>6

LEMMA LoopKeeps ==
    ASSUME CallInv, LoopInv, Next
    PROVE  LoopInv'
<1>1. CASE InCall
  <2>1. /\ pc = "complete" /\ pc' \in {"complete", "finish"}
        /\ UNCHANGED <<retryOn, attempt, completion, retries, rateEvents, circuit, last>>
    BY <1>1, CallFrame
  <2> QED BY <2>1 DEF LoopInv, Repeatable
<1>2. CASE Aside
  <2>1. /\ UNCHANGED <<retryOn, attempt, completion, retries, rateEvents, circuit, last>>
        /\ \/ pc' = pc \/ pc' = "returned" \/ (pc \in {"setup", "backoff"} /\ pc' = "admit")
           \/ pc = "observe" /\ pc' \in {"apply", "decide"}
           \/ pc = "apply" /\ pc' = "decide"
    BY <1>2, AsideFrame DEF CallInv
  <2> QED BY <2>1 DEF LoopInv, Repeatable
<1>3. CASE Admit
  <2>1. /\ pc = "admit" /\ pc' = "complete" /\ attempt' = attempt + 1
        /\ UNCHANGED <<retryOn, rateEvents, circuit, last>>
        /\ attempt > 0 => retries < RetryBudget
        /\ retries' = IF attempt > 0 THEN retries + 1 ELSE retries
    BY <1>3 DEF Admit, setup
  <2>2. attempt' \in Nat /\ retries' \in 0..RetryBudget
    BY <2>1, RetryAssumption DEF LoopInv
  <2>3. attempt' > 1 => Repeatable'
    BY <2>1 DEF LoopInv, Repeatable
  <2> QED BY <2>1, <2>2, <2>3 DEF LoopInv
<1>4. CASE Finish
  <2>1. PICK class :
          /\ class = ApplyDeliveryEvidence(Classify(family, reply, stream.text), reply.state)
          /\ completion'.eligible => class \in Recoverable
          /\ last'.wire = wire /\ last'.class = class /\ last'.durable = completion'.durable
          /\ rateEvents' \in {rateEvents, rateEvents + 1} /\ circuit' \in {circuit, "review"}
          /\ pc = "finish" /\ pc' = "observe" /\ UNCHANGED <<retryOn, attempt, retries>>
    BY <1>4, FinishFacts
  <2>2. completion'.durable /\ completion'.eligible => Repeatable'
    BY <2>1, RecoverableTells DEF Repeatable
  <2>3. rateEvents' \in Nat /\ circuit' \in {"closed", "review"}
    BY <2>1 DEF LoopInv
  <2> QED BY <2>1, <2>2, <2>3 DEF LoopInv
<1>5. CASE Decide
  <2>1. /\ pc = "decide" /\ UNCHANGED <<retryOn, attempt, retries, rateEvents, circuit, last>>
        /\ pc' \in {"backoff", "returned"} /\ (pc' = "backoff" => RetryEligible)
    BY <1>5 DEF Decide, setup, governed
  <2>2. pc' = "backoff" => Repeatable
    BY <2>1 DEF LoopInv, RetryEligible
  <2> QED BY <2>1, <2>2 DEF LoopInv, Repeatable
<1> QED BY <1>1, <1>2, <1>3, <1>4, <1>5 DEF Next, InCall, Aside

(* --------------------------- what was learned --------------------------- *)

\* Truncating to milliseconds gives a number, keeps the order, and undoes the scaling.
LEMMA MillisWhole ==
    ASSUME NEW a \in Nat
    PROVE  Millis(a) \in Nat
    BY RetryAssumption DEF Millis

LEMMA MillisMonotone ==
    ASSUME NEW a \in Nat, NEW b \in Nat, a <= b
    PROVE  Millis(a) <= Millis(b)
    BY RetryAssumption DEF Millis

LEMMA MillisOfWhole ==
    ASSUME NEW a \in Nat
    PROVE  a * Milli \in Nat /\ Millis(a * Milli) = a
    BY RetryAssumption DEF Millis

\* No observed restriction is loosened, and the cooldown never shrinks.
Tightens(rows, new) ==
    /\ RowsOK(new)
    /\ new["cooldown_millis"].value >= rows["cooldown_millis"].value
    /\ \A f \in Fields : rows[f].prov = "observed" =>
          new[f] = rows[f] \/ MoreConservative(f, rows[f].value, new[f].value)

LEMMA SameTightens ==
    ASSUME NEW rows, RowsOK(rows)
    PROVE  Tightens(rows, rows)
<1>1. "cooldown_millis" \in Fields
  BY DEF Fields
<1>2. rows["cooldown_millis"].value \in Nat
  BY <1>1 DEF RowsOK
<1> QED BY <1>2 DEF Tightens

\* The compare-and-tighten transaction.
LEMMA ApplyTightens ==
    ASSUME NEW rows, RowsOK(rows), NEW field \in Fields,
           NEW update \in [value : Nat, prov : {"configured", "observed"}],
           field = "cooldown_millis" => update.prov = "observed"
    PROVE  /\ Tightens(rows, ApplyUpdate(rows, field, update))
           /\ field = "cooldown_millis" =>
                ApplyUpdate(rows, field, update)["cooldown_millis"].value >= update.value
<1> PICK new : new = ApplyUpdate(rows, field, update)
  OBVIOUS
<1>0. /\ "cooldown_millis" \in Fields /\ update.value \in Nat
      /\ \A f \in Fields : rows[f] \in [value : Nat, prov : {"unknown", "configured", "observed"}]
      /\ \A f \in Fields : rows[f].value \in Nat
  BY DEF Fields, RowsOK
<1>1. CASE ApplyFieldValue(field, rows[field], update)
  <2>1. new = [rows EXCEPT ![field] = update]
    BY <1>1 DEF ApplyUpdate, RowsOK
  <2>2. new \in [Fields -> [value : Nat, prov : {"unknown", "configured", "observed"}]]
    BY <2>1 DEF RowsOK
  <2>3. new[field] = update /\ \A f \in Fields \ {field} : new[f] = rows[f]
    BY <2>1 DEF RowsOK
  <2>4. rows[field].prov = "observed" => MoreConservative(field, rows[field].value, update.value)
    BY <1>1 DEF ApplyFieldValue, Unknown
  <2>5. field = "cooldown_millis" => update.value >= rows[field].value
    <3>1. CASE rows[field] = Unknown
      BY <1>0, <3>1 DEF Unknown
    <3>2. CASE rows[field] # Unknown /\ field = "cooldown_millis"
      BY <1>0, <1>1, <3>2 DEF ApplyFieldValue, MoreConservative, RowsOK
    <3> QED BY <3>1, <3>2
  <2>6. RowsOK(new)
    BY <1>0, <2>2, <2>3 DEF RowsOK
  <2>7. new["cooldown_millis"].value >= rows["cooldown_millis"].value
    BY <1>0, <2>3, <2>5
  <2>8. field = "cooldown_millis" => new["cooldown_millis"].value >= update.value
    BY <1>0, <2>3
  <2> QED BY <2>3, <2>4, <2>6, <2>7, <2>8 DEF Tightens
<1>2. CASE ~ApplyFieldValue(field, rows[field], update)
  <2>1. new = rows
    BY <1>2 DEF ApplyUpdate, RowsOK
  <2>2. field = "cooldown_millis" => rows[field].value >= update.value
    BY <1>0, <1>2 DEF ApplyFieldValue, MoreConservative
  <2> QED BY <2>1, <2>2, SameTightens
<1> QED BY <1>1, <1>2

LEMMA SyncTightens ==
    ASSUME NEW rows, RowsOK(rows), NEW bound \in Bounds
    PROVE  Tightens(rows, SyncConfiguredBounds(rows, bound))
<1>1. /\ Configured(bound) \in [value : Nat, prov : {"configured", "observed"}]
      /\ "max_request_bytes" \in Fields
  BY RetryAssumption DEF Configured, Fields
<1>2. Tightens(rows, ApplyUpdate(rows, "max_request_bytes", Configured(bound)))
  BY <1>1, ApplyTightens
<1> QED BY <1>2, SameTightens DEF SyncConfiguredBounds

\* What the observer learns, and from what.
LEMMA UpdatesAre ==
    ASSUME CallInv, NEW u \in Updates
    PROVE  /\ completion.durable /\ u[1] \in Fields
           /\ u[2] \in [value : Nat, prov : {"configured", "observed"}] /\ u[2].prov = "observed"
           /\ reply.kind = "rate_or_capacity" =>
                u[1] = "cooldown_millis" /\ u[2].value = Millis(reply.after)
<1>1. Millis(reply.after) \in Nat
  BY RetryAssumption, MillisWhole DEF CallInv, WireType
<1>2. CASE Observation = "rate_limited" /\ Millis(reply.after) > 0
  <2>1. u = <<"cooldown_millis", Observed(Millis(reply.after))>>
    BY <1>2 DEF Updates
  <2>2. completion.durable
    BY <1>2 DEF Observation
  <2> QED BY <1>1, <2>1, <2>2 DEF Observed, Fields
<1>3. CASE Observation = "unsupported_option"
  <2>1. u = <<"unsupported_options", Observed(1)>>
    BY <1>3 DEF Updates
  <2>2. completion.durable /\ reply.kind # "rate_or_capacity"
    BY <1>3 DEF Observation
  <2> QED BY <2>1, <2>2 DEF Observed, Fields
<1>4. CASE ~(Observation = "rate_limited" /\ Millis(reply.after) > 0) /\ Observation # "unsupported_option"
  BY <1>4 DEF Updates
<1> QED BY <1>2, <1>3, <1>4

LEMMA ToBeLearnedIsUpdate ==
    ASSUME CallInv, ToBeLearned, completion.durable
    PROVE  Updates # {}
<1>1. Observation = "rate_limited"
  BY DEF Observation, ToBeLearned
<1>2. Updates = {<<"cooldown_millis", Observed(Millis(reply.after))>>}
  BY <1>1 DEF Updates, ToBeLearned
<1> QED BY <1>2

\* Every step tightens what this run, or another run of the identity, learned.
LEMMA NextTightens ==
    ASSUME CallInv, LearnInv, Next
    PROVE  Tightens(profile, profile')
<1>0. RowsOK(profile)
  BY DEF LearnInv
<1>1. CASE UNCHANGED profile
  BY <1>0, <1>1, SameTightens
<1>2. ASSUME NEW bound \in Bounds, profile' = SyncConfiguredBounds(profile, bound)
      PROVE  Tightens(profile, profile')
  BY <1>0, <1>2, SyncTightens
<1>3. CASE Compose \/ AdapterRefused
  BY <1>1, <1>2, <1>3 DEF Compose, AdapterRefused
<1>4. CASE Apply
  <2>1. ASSUME NEW u \in Updates, profile' = ApplyUpdate(profile, u[1], u[2])
        PROVE  Tightens(profile, profile')
    BY <1>0, <2>1, UpdatesAre, ApplyTightens
  <2> QED BY <1>1, <1>4, <2>1 DEF Apply
<1>5. CASE OtherRun
  <2>1. ASSUME NEW w \in Waits,
               profile' = ApplyUpdate(profile, "cooldown_millis", Observed(Millis(w)))
        PROVE  Tightens(profile, profile')
    <3>0. Millis(w) \in Nat
      BY RetryAssumption, MillisWhole
    <3>1. /\ Observed(Millis(w)) \in [value : Nat, prov : {"configured", "observed"}]
          /\ Observed(Millis(w)).prov = "observed" /\ "cooldown_millis" \in Fields
      BY <3>0 DEF Observed, Fields
    <3> QED BY <1>0, <2>1, <3>1, ApplyTightens
  <2> QED BY <1>2, <1>5, <2>1 DEF OtherRun
<1>6. CASE ~(Compose \/ AdapterRefused \/ Apply \/ OtherRun)
  <2>1. CASE InCall
    BY <2>1, CallFrame, <1>1
  <2>2. CASE Admit \/ Finish \/ Decide
    BY <2>2, <1>1 DEF Admit, Finish, Decide
  <2>3. CASE ContractUnhealthy \/ AdmissionRefused \/ Observe \/ Backoff \/ ContextEnds \/ Returned
    BY <2>3, <1>1
    DEF ContractUnhealthy, AdmissionRefused, Observe, Backoff, ContextEnds,
        Returned,
       vars
  <2> QED BY <1>6, <2>1, <2>2, <2>3 DEF Next, InCall
<1> QED BY <1>3, <1>4, <1>5, <1>6

\* The types of what was learned and of the waits.
LearnType ==
    RowsOK(profile) /\ told \in Waits /\ wait.time \in Nat /\ completion.backoff \in Nat

LEMMA LearnedMore ==
    ASSUME LearnType, LearnType', Tightens(profile, profile'), told' = told, Learned
    PROVE  Learned'
<1>1. "cooldown_millis" \in Fields
  BY DEF Fields
<1>2. /\ profile["cooldown_millis"].value \in Nat /\ profile'["cooldown_millis"].value \in Nat
      /\ Millis(told) \in Nat /\ Millis(told') = Millis(told)
  BY <1>1, RetryAssumption, MillisWhole DEF LearnType, RowsOK
<1> QED BY <1>2 DEF Learned, Tightens

LEMMA LearnKeeps ==
    ASSUME CallInv, LearnInv, Next
    PROVE  LearnInv'
<1>0. /\ LearnType /\ Tightens(profile, profile') /\ RowsOK(profile')
      /\ Waits \subseteq Nat /\ 0 \in Waits /\ Baseline \in Nat /\ reply.after \in Waits
  BY NextTightens, RetryAssumption
  DEF LearnInv, LearnType, Tightens, CallInv, WireType
<1>1. CASE InCall
  <2>1. /\ pc = "complete" /\ pc' \in {"complete", "finish"}
        /\ UNCHANGED <<completion, profile, wait, told>>
    BY <1>1, CallFrame
  <2> QED BY <2>1 DEF LearnInv, Learned, RetryWaitsLongest
<1>2. CASE Aside
  <2>1. /\ UNCHANGED <<family, reply, completion, told, wait>>
        /\ \/ pc' = pc \/ pc' = "returned" \/ (pc \in {"setup", "backoff"} /\ pc' = "admit")
           \/ pc = "observe" /\ pc' \in {"apply", "decide"}
           \/ pc = "apply" /\ pc' = "decide"
    BY <1>2, AsideFrame DEF CallInv
  <2>2. LearnType'
    BY <1>0, <2>1 DEF LearnType
  <2>3. Learned => Learned'
    BY <1>0, <2>1, <2>2, LearnedMore
  <2>4. ToBeLearned => ToBeLearned'
    BY <2>1 DEF ToBeLearned
  <2>5. ASSUME pc = "observe", pc' = "decide", ToBeLearned, completion.durable
        PROVE  Learned'
    <3>1. Observe
      BY <1>2, <2>5
      DEF Aside, Compose, AdapterRefused, ContractUnhealthy, AdmissionRefused,
          Apply,
         Backoff, ContextEnds, OtherRun, Returned, vars
    <3>2. PICK u \in Updates : ~ApplyFieldValue(u[1], profile[u[1]], u[2])
      BY <2>5, <3>1, ToBeLearnedIsUpdate DEF Observe
    <3>3. u[1] = "cooldown_millis" /\ u[2].value = Millis(reply.after) /\ "cooldown_millis" \in Fields
      BY <2>5, UpdatesAre DEF ToBeLearned, Fields
    <3>4. ~(Millis(reply.after) > profile["cooldown_millis"].value)
      BY <3>2, <3>3 DEF ApplyFieldValue, MoreConservative
    <3>5. profile["cooldown_millis"].value \in Nat /\ Millis(reply.after) \in Nat
      BY <1>0, <3>3, MillisWhole DEF LearnType, RowsOK
    <3>6. Learned
      BY <2>5, <3>4, <3>5 DEF Learned, ToBeLearned
    <3> QED BY <2>3, <3>6
  <2>6. ASSUME pc = "apply", pc' = "decide", ToBeLearned, completion.durable
        PROVE  Learned'
    <3>1. Apply
      BY <1>2, <2>6
      DEF Aside, Compose, AdapterRefused, ContractUnhealthy, AdmissionRefused,
          Observe,
         Backoff, ContextEnds, OtherRun, Returned, vars
    <3>2. PICK u \in Updates : profile' = ApplyUpdate(profile, u[1], u[2])
      BY <2>6, <3>1 DEF Apply
    <3>3. /\ u[1] = "cooldown_millis" /\ u[2].value = Millis(reply.after)
          /\ "cooldown_millis" \in Fields
          /\ u[2] \in [value : Nat, prov : {"configured", "observed"}] /\ u[2].prov = "observed"
      BY <2>6, UpdatesAre DEF ToBeLearned, Fields
    <3>4. profile'["cooldown_millis"].value >= u[2].value
      BY <1>0, <3>2, <3>3, ApplyTightens DEF LearnType
    <3>5. profile'["cooldown_millis"].value \in Nat /\ Millis(reply.after) \in Nat
      BY <1>0, <3>3, MillisWhole DEF RowsOK
    <3> QED BY <2>1, <2>6, <3>3, <3>4, <3>5 DEF Learned, ToBeLearned
  <2>7. pc' \in {"setup", "admit", "complete", "finish", "backoff"} => Learned'
    BY <2>1, <2>3 DEF LearnInv
  <2>8. pc' \in {"observe", "apply"} => Learned' \/ ToBeLearned'
    BY <2>1, <2>3, <2>4 DEF LearnInv
  <2>9. pc' = "decide" => Learned' \/ ~completion'.durable
    BY <2>1, <2>3, <2>5, <2>6 DEF LearnInv
  <2>10. RetryWaitsLongest'
    BY <2>1 DEF LearnInv, RetryWaitsLongest
  <2> QED BY <2>2, <2>7, <2>8, <2>9, <2>10 DEF LearnInv, LearnType
<1>3. CASE Admit
  <2>1. /\ pc = "admit" /\ pc' = "complete" /\ completion' = NoFinish
        /\ UNCHANGED <<profile, wait, told>>
    BY <1>3 DEF Admit
  <2>2. completion'.backoff \in Nat
    BY <2>1 DEF NoFinish
  <2> QED BY <2>1, <2>2 DEF LearnInv, Learned, RetryWaitsLongest
<1>4. CASE Finish
  <2>1. PICK class :
          /\ class = ApplyDeliveryEvidence(Classify(family, reply, stream.text), reply.state)
          /\ completion'.backoff \in {0, reply.after, Baseline}
          /\ told' = IF class = "rate_or_capacity" /\ family \in Compat /\ reply.after > told
                     THEN reply.after ELSE told
          /\ pc = "finish" /\ pc' = "observe" /\ UNCHANGED <<family, reply, profile, wait>>
    BY <1>4, FinishFacts
  <2>2. Learned /\ told \in Nat /\ reply.after \in Nat
    BY <1>0, <2>1 DEF LearnInv
  <2>3. LearnType'
    BY <1>0, <2>1 DEF LearnType
  <2>4. class = "rate_or_capacity" /\ family \in Compat => reply.kind = "rate_or_capacity"
    <3> SUFFICES ASSUME class = "rate_or_capacity", family \in Compat
                 PROVE  reply.kind = "rate_or_capacity"
      OBVIOUS
    <3>1. Classify(family, reply, stream.text) = "rate_or_capacity"
      BY <2>1 DEF ApplyDeliveryEvidence
    <3>2. ClassifyKind(family, reply.kind) = "rate_or_capacity"
      BY <3>1 DEF Classify
    <3> QED BY <3>2 DEF ClassifyKind
  <2>5. CASE class = "rate_or_capacity" /\ family \in Compat /\ reply.after > told
    <3>1. told' = reply.after /\ reply' = reply /\ family' = family /\ profile' = profile
      BY <2>1, <2>5
    <3>2. Learned' \/ ToBeLearned'
      <4>1. CASE Millis(reply.after) > 0
        BY <2>4, <2>5, <3>1, <4>1 DEF ToBeLearned
      <4>2. CASE ~(Millis(reply.after) > 0)
        <5>1. "cooldown_millis" \in Fields
          BY DEF Fields
        <5>2. Millis(reply.after) = 0 /\ profile["cooldown_millis"].value \in Nat
          BY <1>0, <2>2, <4>2, <5>1, MillisWhole DEF LearnType, RowsOK
        <5> QED BY <3>1, <5>2 DEF Learned
      <4> QED BY <4>1, <4>2
    <3> QED BY <2>1, <2>3, <3>2 DEF LearnInv, LearnType, RetryWaitsLongest
  <2>6. CASE ~(class = "rate_or_capacity" /\ family \in Compat /\ reply.after > told)
    BY <2>1, <2>2, <2>3, <2>6 DEF LearnInv, LearnType, Learned, RetryWaitsLongest
  <2> QED BY <2>5, <2>6
<1>5. CASE Decide
  <2>1. /\ pc = "decide" /\ completion' = NoFinish /\ UNCHANGED <<profile, told>>
        /\ pc' \in {"backoff", "returned"}
    BY <1>5 DEF Decide
  <2>2. completion'.backoff \in Nat
    BY <2>1 DEF NoFinish
  <2>3. CASE RetryEligible
    <3>1. PICK read \in BOOLEAN :
            wait' = [time |-> IF (IF read THEN profile["cooldown_millis"].value * Milli ELSE 0)
                                   > completion.backoff
                              THEN (IF read THEN profile["cooldown_millis"].value * Milli ELSE 0)
                              ELSE completion.backoff,
                     learned |-> read]
      BY <1>5, <2>3 DEF Decide
    <3>2. Learned
      BY <2>1, <2>3 DEF LearnInv, RetryEligible
    <3>3. "cooldown_millis" \in Fields
      BY DEF Fields
    <3>4. /\ profile["cooldown_millis"].value \in Nat /\ completion.backoff \in Nat /\ told \in Nat
      BY <1>0, <3>3 DEF LearnType, RowsOK
    <3>5. wait'.time \in Nat /\ (wait'.learned => Millis(wait'.time) >= Millis(told))
      <4> PICK known : known = profile["cooldown_millis"].value
        OBVIOUS
      <4>0. /\ known \in Nat /\ known * Milli \in Nat /\ Millis(known * Milli) = known
            /\ Millis(told) \in Nat /\ Millis(told) <= known
        BY <3>2, <3>4, MillisOfWhole, MillisWhole DEF Learned
      <4>1. CASE read
        <5>1. wait'.time \in Nat /\ known * Milli <= wait'.time
          BY <3>1, <3>4, <4>0, <4>1
        <5>2. Millis(known * Milli) <= Millis(wait'.time) /\ Millis(wait'.time) \in Nat
          BY <4>0, <5>1, MillisMonotone, MillisWhole
        <5> QED BY <4>0, <5>1, <5>2
      <4>2. CASE ~read
        BY <3>1, <3>4, <4>2
      <4> QED BY <4>1, <4>2
    <3> QED BY <2>1, <2>2, <3>2, <3>5 DEF LearnInv, Learned, RetryWaitsLongest
  <2>4. CASE ~RetryEligible
    <3>1. pc' = "returned" /\ UNCHANGED wait
      BY <1>5, <2>4 DEF Decide
    <3> QED BY <2>1, <2>2, <3>1 DEF LearnInv, RetryWaitsLongest
  <2> QED BY <2>3, <2>4
<1> QED BY <1>1, <1>2, <1>3, <1>4, <1>5 DEF Next, InCall, Aside

(* ---------------------------- the specification ------------------------- *)

LEMMA CallInit ==
    ASSUME Init
    PROVE  IndInv
<1>1. WireType
  BY RetryAssumption
  DEF Init, WireType, PCs, Wires, NoStream, NoReply, DeliveryStates
<1>2. CallInv
  BY <1>1 DEF Init, CallInv, NotSentIsTrue, SuccessIsWhole
<1>3. LoopInv
  BY RetryAssumption DEF Init, LoopInv
<1>4. /\ RowsOK(profile) /\ profile["cooldown_millis"].value = 0
      /\ told = 0 /\ Millis(0) = 0
  BY RetryAssumption DEF Init, RowsOK, Unknown, Fields, Millis
<1>5. LearnInv
  BY <1>4, RetryAssumption
  DEF Init, LearnInv, Learned, RetryWaitsLongest, NoWait, NoFinish
<1> QED BY <1>2, <1>3, <1>5 DEF IndInv

LEMMA CallNext ==
    ASSUME IndInv, [Next]_vars
    PROVE  IndInv'
<1>1. CASE Next
  <2>1. CallInv'
    BY <1>1, CallKeeps, AsideKeepsCall, AdmitKeepsCall, FinishKeepsCall,
       DecideKeepsCall
       DEF Next, InCall, Aside, IndInv
  <2> QED BY <1>1, <2>1, LoopKeeps, LearnKeeps DEF IndInv
<1>2. CASE UNCHANGED vars
  BY <1>2
  DEF vars, IndInv, CallInv, LoopInv, LearnInv, WireType, StreamAgrees, ReplyTells,
     NotSentIsTrue, SuccessIsWhole, Repeatable, Learned, ToBeLearned, RetryWaitsLongest
<1> QED BY <1>1, <1>2

\* The inductive invariant holds throughout a request.
THEOREM CallInvariant == Spec => []IndInv
<1>1. Init => IndInv
  BY CallInit
<1>2. IndInv /\ [Next]_vars => IndInv'
  BY CallNext
<1> QED BY <1>1, <1>2, PTL DEF Spec

\* The executor, the adapter, the governor's ledger and the profile hold only values
\* their fields admit.
THEOREM CallTypes == Spec => []TypeOK
<1>1. IndInv => TypeOK
  BY DEF IndInv, CallInv, WireType, LoopInv, LearnInv, RowsOK, TypeOK, PCs, Wires
<1> QED BY <1>1, CallInvariant, PTL

\* An adapter that reports not_sent put nothing on the wire (stateAfterError of the five
\* adapters).
THEOREM NotSentIsTrueHolds == Spec => []NotSentIsTrue
<1>1. IndInv => NotSentIsTrue
  BY DEF IndInv, CallInv
<1> QED BY <1>1, CallInvariant, PTL

\* The executor never repeats an attempt whose outcome is not durable, that raised a
\* security signal, or whose request was half written or response half read
\* (agent/executor.go, governor's applyDeliveryEvidence).
THEOREM AmbiguousNotRetriedHolds == Spec => []AmbiguousNotRetried
<1>1. IndInv => AmbiguousNotRetried
  BY DEF IndInv, LoopInv, Repeatable, AmbiguousNotRetried
<1> QED BY <1>1, CallInvariant, PTL

\* A turn handed over as a success was read to its end and met what its adapter asks of it
\* (the adapters' Complete, parseSSE and consumeEvent).
THEOREM SuccessIsWholeHolds == Spec => []SuccessIsWhole
<1>1. IndInv => SuccessIsWhole
  BY DEF IndInv, CallInv
<1> QED BY <1>1, CallInvariant, PTL

\* A retry waits, in whole milliseconds, at least as long as every Retry-After the request
\* was told, whatever other runs of the identity write to the profile meanwhile
\* (retryBackoff, ObserveAttempt).
THEOREM RetryWaitsLongestHolds == Spec => []RetryWaitsLongest
<1>1. IndInv => RetryWaitsLongest
  BY DEF IndInv, LearnInv
<1> QED BY <1>1, CallInvariant, PTL

\* No step of this run or of another run of the identity loosens an observed restriction
\* (ApplyFieldValue and the transaction of state/profiles.go).
THEOREM LearnedStaysLearnedHolds == Spec => LearnedStaysLearned
<1> DEFINE Step == \A f \in Fields : profile[f].prov = "observed" =>
                      \/ profile'[f] = profile[f]
                      \/ MoreConservative(f, profile[f].value, profile'[f].value)
<1>1. IndInv /\ [Next]_vars => [Step]_profile
  BY NextTightens DEF IndInv, Tightens, vars
<1>2. Spec => [][Step]_profile
  BY <1>1, CallInvariant, PTL DEF Spec
<1> QED BY <1>2 DEF LearnedStaysLearned

=============================================================================
