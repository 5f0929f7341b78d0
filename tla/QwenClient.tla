----------------------------- MODULE QwenClient -----------------------------
(***************************************************************************)
(* One call of QwenModelClient.generate: post the request to the provider, *)
(* repeat the post after a transient failure, give up when the retries are *)
(* used (src/project_recovery_council/qwen_client.py).                     *)
(*                                                                         *)
(* The provider is the environment: it may answer each post in any of the  *)
(* ways the code tells apart.  Texts, headers, latency, redaction and the  *)
(* length of the backoff are left out.  LiveVariantRun makes the calls.    *)
(***************************************************************************)
EXTENDS Naturals, Sequences

CONSTANT MaximumRetries   \* maximum_retries of the provider configuration

ASSUME MaximumRetriesAssumption == MaximumRetries \in Nat

VARIABLES
  keyPresent,   \* the environment variable with the API key is set
  call          \* the call of generate in progress

(* What becomes of a post.  "escapes" is an exception post_json or         *)
(* _parse_success does not catch: the connection breaks while the body is  *)
(* read, or the body is JSON but no object.                                *)
Transient == {"timeout", "transport_error", "rate_limit", "provider_5xx"}
Recorded  == Transient \cup {"provider_4xx"}
Parsed    == {"not_json", "no_content", "content_not_json", "content_not_object",
              "schema_invalid", "valid"}
PostOutcomes == Recorded \cup Parsed \cup {"escapes"}

FinishStatus == {"completed", "failed", "timeout", "configuration_error", "validation_error"}

StatusOf(outcome) ==
  CASE outcome = "timeout"        -> "timeout"
    [] outcome = "schema_invalid" -> "validation_error"
    [] outcome = "valid"          -> "completed"
    [] OTHER                      -> "failed"

(* Only these results carry a parsed response and token counts.            *)
HasResponse(status) == status \in {"completed", "validation_error"}

Results ==
  [status : FinishStatus, network : BOOLEAN, retries : 0 .. MaximumRetries,
   history : Seq(Recorded)]

Calls ==
  [phase   : {"idle", "sending", "waiting", "returned", "raised"},
   attempt : 0 .. MaximumRetries, posts : 0 .. MaximumRetries + 1,
   history : Seq(Recorded), result : Results]

NoResult ==
  [status |-> "failed", network |-> FALSE, retries |-> 0, history |-> <<>>]

(* attempt counts from zero, posts are the requests the provider got.      *)
IdleCall ==
  [phase |-> "idle", attempt |-> 0, posts |-> 0, history |-> <<>>, result |-> NoResult]

(* Without a key generate returns before it touches the network.           *)
Begun ==
  IF keyPresent THEN [IdleCall EXCEPT !.phase = "sending"]
  ELSE [IdleCall EXCEPT !.phase = "returned",
                        !.result = [NoResult EXCEPT !.status = "configuration_error"]]

(* A Fault_ operator is a plausible slip in the definition after it; none  *)
(* is part of the model.  Here: the last retry is not made.                *)
Fault_EarlyGiveUp(outcome) == outcome \in Transient /\ call.attempt + 1 < MaximumRetries

Retried(outcome) == outcome \in Transient /\ call.attempt < MaximumRetries

(* Fault: the attempts are counted, not the retries.                       *)
Fault_ResultOf(outcome, history) ==
  [status |-> StatusOf(outcome), network |-> TRUE,
   retries |-> IF call.attempt < MaximumRetries THEN call.attempt + 1 ELSE call.attempt,
   history |-> history]

ResultOf(outcome, history) ==
  [status |-> StatusOf(outcome), network |-> TRUE, retries |-> call.attempt,
   history |-> history]

Answered(outcome) ==
  LET history == IF outcome \in Recorded THEN Append(call.history, outcome) ELSE call.history
      posted  == [call EXCEPT !.posts = @ + 1, !.history = history]
  IN  IF outcome = "escapes" THEN [posted EXCEPT !.phase = "raised"]
      ELSE IF Retried(outcome) THEN [posted EXCEPT !.phase = "waiting"]
      ELSE [posted EXCEPT !.phase = "returned", !.result = ResultOf(outcome, history)]

-----------------------------------------------------------------------------
ClientInit ==
  /\ keyPresent \in BOOLEAN
  /\ call = IdleCall

Generate ==
  /\ call.phase = "idle"
  /\ call' = Begun
  /\ UNCHANGED keyPresent

Post ==
  /\ call.phase = "sending"
  /\ \E outcome \in PostOutcomes : call' = Answered(outcome)
  /\ UNCHANGED keyPresent

Wake ==
  /\ call.phase = "waiting"
  /\ call' = [call EXCEPT !.phase = "sending", !.attempt = @ + 1]
  /\ UNCHANGED keyPresent

Serve == Post \/ Wake

-----------------------------------------------------------------------------
(* Properties *)

\* A call keeps its type; in particular generate never posts more often than
\* once and MaximumRetries times again.
CallTypeOK == keyPresent \in BOOLEAN /\ call \in Calls

\* What a result says of its own cost is true: the network was attempted when
\* the provider got a request, the retries are the posts after the first, and
\* the retry history has an entry for every post without a usable HTTP answer.
ResultTruthful ==
  call.phase = "returned" =>
    /\ call.result.network <=> call.posts > 0
    /\ call.result.network => call.posts = call.result.retries + 1
    /\ Len(call.result.history) \in {call.posts, call.posts - 1}
    /\ HasResponse(call.result.status) => Len(call.result.history) + 1 = call.posts

\* A request is repeated only after an answer that may be transient, and an
\* answer a retry cannot change ends the call: an HTTP client error, an
\* unusable body or a good response is never followed by another post.
OnlyTransientRetried ==
  /\ \A i \in DOMAIN call.history : i < call.posts => call.history[i] \in Transient
  /\ call.phase \in {"sending", "waiting"} =>
       Len(call.history) = call.posts /\ \A i \in DOMAIN call.history : call.history[i] \in Transient

\* Giving up means the retries were used: a transient failure is returned only
\* by the last attempt.
GivesUpLate ==
  (call.phase = "returned" /\ call.history # <<>>
     /\ Len(call.history) = call.posts /\ call.history[call.posts] \in Transient) =>
       call.posts = MaximumRetries + 1

\* What the retry loop repeats is right: nothing but transient failures, and
\* those as often as the retries allow.
RetriesRight == OnlyTransientRetried /\ GivesUpLate
=============================================================================
