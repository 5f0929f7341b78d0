----------------------- MODULE LiveVariantRun_proofs -----------------------
(***************************************************************************)
(* Proofs about a live run, for every variant, all controls, routings and  *)
(* charges: its calls count their posts right; no contact is made once it  *)
(* is halted; its limits are overshot by the last invocation at most; its  *)
(* summary is honest; and its planner is grounded.  The invariants are     *)
(* RunInv, what a run may have on record, and GroundInv, how it came to    *)
(* the planner.                                                            *)
(***************************************************************************)
EXTENDS LiveVariantRun, FiniteSetTheorems, SequenceTheorems, WellFoundedInduction, TLAPS

-----------------------------------------------------------------------------
(* One call of the client, for every number of retries *)

clientVars == <<keyPresent, call>>

AllTransient(history) == \A i \in 1 .. Len(history) : history[i] \in Transient

(* The failures on record are one per post but the last.                   *)
LastUnrecorded ==
  /\ call.posts = call.attempt + 1
  /\ Len(call.history) = call.attempt
  /\ AllTransient(call.history)

(* The last post failed as well, and all before it transiently.            *)
LastRecorded ==
  /\ call.posts = call.attempt + 1
  /\ Len(call.history) = call.posts
  /\ \A i \in 1 .. call.attempt : call.history[i] \in Transient

(* The posts on record, phase by phase.                                    *)
Ready ==
  call.phase \in {"idle", "sending"} =>
    call.posts = call.attempt /\ Len(call.history) = call.posts /\ AllTransient(call.history)

BackingOff ==
  call.phase = "waiting" =>
    LastRecorded /\ call.history[call.posts] \in Transient /\ call.attempt < MaximumRetries

Raised == call.phase = "raised" => LastUnrecorded

(* A result without a post, with a usable answer, or of a last failure.    *)
Unposted ==
  /\ call.posts = 0 /\ call.history = <<>>
  /\ call.result = [NoResult EXCEPT !.status = "configuration_error"]

Posted ==
  /\ call.result.network
  /\ call.result.retries = call.attempt
  /\ call.result.history = call.history

ReturnedAsCounted ==
  call.phase = "returned" =>
    \/ Unposted
    \/ Posted /\ LastUnrecorded
    \/ /\ Posted /\ LastRecorded
       /\ ~HasResponse(call.result.status)
       /\ call.history[call.posts] \in Transient => call.attempt = MaximumRetries

CallInv == CallTypeOK /\ Ready /\ BackingOff /\ Raised /\ ReturnedAsCounted

-----------------------------------------------------------------------------
\* Recording a failure extends the history by it and keeps what was recorded.
LEMMA RecordFailure ==
  ASSUME NEW history \in Seq(Recorded), NEW outcome \in Recorded
  PROVE  /\ Append(history, outcome) \in Seq(Recorded)
         /\ Len(Append(history, outcome)) = Len(history) + 1
         /\ Append(history, outcome)[Len(history) + 1] = outcome
         /\ \A i \in 1 .. Len(history) : Append(history, outcome)[i] = history[i]
  OBVIOUS

\* A call begins with the counts of its phase in order.
LEMMA InitInv == ClientInit => CallInv
<1> SUFFICES ASSUME ClientInit PROVE CallInv
  OBVIOUS
<1>1. NoResult \in Results
  BY MaximumRetriesAssumption DEF NoResult, Results, FinishStatus
<1>2. CallTypeOK
  BY <1>1, MaximumRetriesAssumption DEF ClientInit, IdleCall, CallTypeOK, Calls
<1> QED
  BY <1>2 DEF ClientInit, IdleCall, CallInv, Ready, BackingOff, Raised, ReturnedAsCounted, AllTransient

\* Whatever the environment has in store for a key, the call begins in order.
LEMMA GenerateInv == CallInv /\ Generate => CallInv'
<1> SUFFICES ASSUME CallInv, Generate PROVE CallInv'
  OBVIOUS
<1> DEFINE refused == [NoResult EXCEPT !.status = "configuration_error"]
<1>1. NoResult \in Results /\ refused \in Results
  <2>1. NoResult \in Results
    BY MaximumRetriesAssumption DEF NoResult, Results, FinishStatus
  <2>2. "configuration_error" \in FinishStatus
    BY DEF FinishStatus
  <2> QED BY <2>1, <2>2 DEF Results
<1>0. IdleCall \in Calls
  BY <1>1, MaximumRetriesAssumption DEF IdleCall, Calls
<1>2. call' = Begun /\ keyPresent' = keyPresent /\ keyPresent \in BOOLEAN
  BY DEF Generate, CallInv, CallTypeOK
<1>3. CASE keyPresent
  <2>1. call' = [IdleCall EXCEPT !.phase = "sending"]
    BY <1>2, <1>3 DEF Begun
  <2>2. call'.phase = "sending" /\ call'.posts = 0 /\ call'.attempt = 0 /\ call'.history = <<>>
    BY <2>1 DEF IdleCall
  <2>3. CallTypeOK'
    BY <2>1, <1>0, <1>2 DEF CallTypeOK, Calls
  <2> QED
    BY <2>2, <2>3 DEF CallInv, Ready, BackingOff, Raised, ReturnedAsCounted, AllTransient
<1>4. CASE ~keyPresent
  <2>1. call' = [IdleCall EXCEPT !.phase = "returned", !.result = refused]
    BY <1>2, <1>4 DEF Begun
  <2>2. /\ call'.phase = "returned" /\ call'.posts = 0 /\ call'.history = <<>>
        /\ call'.result = refused
    BY <2>1 DEF IdleCall
  <2>3. CallTypeOK'
    <3> HIDE DEF refused
    <3> QED BY <2>1, <1>0, <1>1, <1>2 DEF CallTypeOK, Calls
  <2> QED
    BY <2>2, <2>3 DEF CallInv, Ready, BackingOff, Raised, ReturnedAsCounted, Unposted
<1> QED BY <1>3, <1>4

\* Whatever the provider does with a post, the counts stay in order.
LEMMA PostInv == CallInv /\ Post => CallInv'
<1> SUFFICES ASSUME CallInv, Post PROVE CallInv'
  OBVIOUS
<1>1. PICK outcome \in PostOutcomes : call' = Answered(outcome)
  BY DEF Post
<1>2. /\ call \in Calls /\ keyPresent \in BOOLEAN /\ keyPresent' = keyPresent
      /\ call.phase = "sending"
      /\ call.posts = call.attempt /\ Len(call.history) = call.posts
      /\ AllTransient(call.history)
  BY DEF CallInv, CallTypeOK, Ready, Post
<1>3. call.attempt \in 0 .. MaximumRetries /\ call.history \in Seq(Recorded)
  BY <1>2 DEF Calls
<1> DEFINE history == IF outcome \in Recorded THEN Append(call.history, outcome)
                      ELSE call.history
           posted  == [call EXCEPT !.posts = @ + 1, !.history = history]
<1>4. history \in Seq(Recorded)
  BY <1>3, RecordFailure
<1>5. /\ posted \in Calls /\ posted.posts = call.attempt + 1
      /\ posted.attempt = call.attempt /\ posted.history = history
  <2> HIDE DEF history
  <2>1. call.posts + 1 \in 0 .. MaximumRetries + 1 /\ call.posts + 1 = call.attempt + 1
    BY <1>2, <1>3, MaximumRetriesAssumption
  <2>2. posted \in Calls
    BY <1>2, <1>4, <2>1 DEF Calls
  <2> QED BY <1>2, <2>1, <2>2 DEF Calls
<1>6. outcome \notin Recorded => Len(history) = call.attempt /\ AllTransient(history)
  BY <1>2
<1>7. outcome \in Recorded =>
        /\ Len(history) = call.attempt + 1 /\ history[call.attempt + 1] = outcome
        /\ \A i \in 1 .. call.attempt : history[i] \in Transient
  BY <1>2, <1>3, RecordFailure DEF AllTransient
<1> HIDE DEF history
<1>8. CASE outcome = "escapes"
  <2>1. call' = [posted EXCEPT !.phase = "raised"]
    BY <1>1, <1>8 DEF Answered, history
  <2>2. outcome \notin Recorded
    BY <1>8 DEF Recorded, Transient
  <2>3. /\ call' \in Calls /\ call'.phase = "raised" /\ call'.posts = call.attempt + 1
        /\ call'.attempt = call.attempt /\ call'.history = history
    BY <2>1, <1>5 DEF Calls
  <2> QED
    BY <1>2, <1>6, <2>2, <2>3
    DEF CallInv, CallTypeOK, Ready, BackingOff, Raised, ReturnedAsCounted, LastUnrecorded, AllTransient
<1>9. CASE outcome # "escapes" /\ Retried(outcome)
  <2>1. call' = [posted EXCEPT !.phase = "waiting"]
    BY <1>1, <1>9 DEF Answered, history
  <2>2. outcome \in Transient /\ outcome \in Recorded /\ call.attempt < MaximumRetries
    BY <1>9 DEF Retried, Recorded
  <2>3. /\ call' \in Calls /\ call'.phase = "waiting" /\ call'.posts = call.attempt + 1
        /\ call'.attempt = call.attempt /\ call'.history = history
    BY <2>1, <1>5 DEF Calls
  <2> QED
    BY <1>2, <1>7, <2>2, <2>3
    DEF CallInv, CallTypeOK, Ready, BackingOff, Raised, ReturnedAsCounted, LastRecorded
<1>10. CASE outcome # "escapes" /\ ~Retried(outcome)
  <2> DEFINE result == ResultOf(outcome, history)
  <2>1. call' = [posted EXCEPT !.phase = "returned", !.result = result]
    BY <1>1, <1>10 DEF Answered, history
  <2>2. /\ result \in Results /\ result.network /\ result.retries = call.attempt
        /\ result.history = history /\ result.status = StatusOf(outcome)
    BY <1>3, <1>4 DEF ResultOf, Results, StatusOf, FinishStatus
  <2> HIDE DEF result
  <2>3. /\ call' \in Calls /\ call'.phase = "returned" /\ call'.posts = call.attempt + 1
        /\ call'.attempt = call.attempt /\ call'.history = history /\ call'.result = result
    BY <2>1, <2>2, <1>5 DEF Calls
  <2>4. Posted'
    BY <2>2, <2>3 DEF Posted
  <2>5. ReturnedAsCounted'
    <3>1. CASE outcome \notin Recorded
      <4>1. LastUnrecorded'
        BY <1>6, <2>3, <3>1 DEF LastUnrecorded, AllTransient
      <4> QED BY <2>4, <4>1 DEF ReturnedAsCounted
    <3>2. CASE outcome \in Recorded
      <4>1. LastRecorded' /\ call'.history[call'.posts] = outcome
        BY <1>3, <1>7, <2>3, <3>2 DEF LastRecorded
      <4>2. ~HasResponse(call'.result.status)
        BY <2>2, <2>3, <3>2 DEF HasResponse, StatusOf, Recorded, Transient
      <4>3. outcome \in Transient => call'.attempt = MaximumRetries
        BY <1>3, <1>10, <2>3, MaximumRetriesAssumption DEF Retried
      <4> QED BY <2>4, <4>1, <4>2, <4>3 DEF ReturnedAsCounted
    <3> QED BY <3>1, <3>2
  <2> QED BY <1>2, <2>3, <2>5 DEF CallInv, CallTypeOK, Ready, BackingOff, Raised
<1> QED BY <1>8, <1>9, <1>10

\* After a backoff the next attempt is made with the counts in order.
LEMMA WakeInv == CallInv /\ Wake => CallInv'
<1> SUFFICES ASSUME CallInv, Wake PROVE CallInv'
  OBVIOUS
<1>1. /\ call \in Calls /\ keyPresent \in BOOLEAN /\ keyPresent' = keyPresent
      /\ call' = [call EXCEPT !.phase = "sending", !.attempt = @ + 1]
      /\ LastRecorded /\ call.history[call.posts] \in Transient /\ call.attempt < MaximumRetries
  BY DEF CallInv, CallTypeOK, BackingOff, Wake
<1>2. call.attempt \in 0 .. MaximumRetries
  BY <1>1 DEF Calls
<1>3. /\ call' \in Calls /\ call'.phase = "sending" /\ call'.attempt = call.attempt + 1
      /\ call'.posts = call.posts /\ call'.history = call.history
  <2>1. call.attempt + 1 \in 0 .. MaximumRetries
    BY <1>1, <1>2, MaximumRetriesAssumption
  <2> QED BY <1>1, <2>1 DEF Calls
<1>4. AllTransient(call.history)
  BY <1>1, <1>2 DEF LastRecorded, AllTransient
<1> QED
  BY <1>1, <1>3, <1>4
  DEF CallInv, CallTypeOK, Ready, BackingOff, Raised, ReturnedAsCounted, LastRecorded, AllTransient

\* Between the steps of the call nothing changes.
LEMMA StutterInv == CallInv /\ UNCHANGED clientVars => CallInv'
  BY DEF CallInv, clientVars, CallTypeOK, Ready, BackingOff, Raised, ReturnedAsCounted,
         LastRecorded, LastUnrecorded, Unposted, Posted

-----------------------------------------------------------------------------
\* The counts of a call imply that what a result says of the network, of its
\* retries and of their history is what the provider saw.
LEMMA InvTruthful == CallInv => ResultTruthful
<1> SUFFICES ASSUME CallInv, call.phase = "returned" PROVE ResultTruthful
  BY DEF ResultTruthful
<1>1. call.attempt \in Nat /\ call.posts \in Nat
  BY MaximumRetriesAssumption DEF CallInv, CallTypeOK, Calls
<1>2. CASE Unposted
  BY <1>2 DEF Unposted, ResultTruthful, NoResult, HasResponse
<1>3. CASE Posted /\ LastUnrecorded
  BY <1>1, <1>3 DEF Posted, LastUnrecorded, ResultTruthful
<1>4. CASE Posted /\ LastRecorded /\ ~HasResponse(call.result.status)
  BY <1>1, <1>4 DEF Posted, LastRecorded, ResultTruthful
<1> QED BY <1>2, <1>3, <1>4 DEF CallInv, ReturnedAsCounted

\* They imply that only what may be transient was repeated.
LEMMA InvTransient == CallInv => OnlyTransientRetried
<1> SUFFICES ASSUME CallInv PROVE OnlyTransientRetried
  OBVIOUS
<1>1. /\ call.attempt \in Nat /\ call.posts \in Nat /\ call.history \in Seq(Recorded)
      /\ call.phase \in {"idle", "sending", "waiting", "returned", "raised"}
      /\ DOMAIN call.history = 1 .. Len(call.history)
  BY MaximumRetriesAssumption DEF CallInv, CallTypeOK, Calls
<1>2. CASE call.phase \in {"idle", "sending"}
  BY <1>1, <1>2 DEF CallInv, Ready, OnlyTransientRetried, AllTransient
<1>3. CASE call.phase = "waiting"
  BY <1>1, <1>3 DEF CallInv, BackingOff, LastRecorded, OnlyTransientRetried
<1>4. CASE call.phase = "raised"
  BY <1>1, <1>4 DEF CallInv, Raised, LastUnrecorded, OnlyTransientRetried, AllTransient
<1>5. CASE call.phase = "returned"
  BY <1>1, <1>5
  DEF CallInv, ReturnedAsCounted, Unposted, LastRecorded, LastUnrecorded, OnlyTransientRetried,
      AllTransient
<1> QED BY <1>1, <1>2, <1>3, <1>4, <1>5

\* They imply that a transient failure was returned by the last attempt.
LEMMA InvGivesUpLate == CallInv => GivesUpLate
<1> SUFFICES ASSUME CallInv, call.phase = "returned", call.history # <<>>,
                    Len(call.history) = call.posts, call.history[call.posts] \in Transient
             PROVE  call.posts = MaximumRetries + 1
  BY DEF GivesUpLate
<1>1. call.attempt \in Nat /\ call.posts \in Nat
  BY MaximumRetriesAssumption DEF CallInv, CallTypeOK, Calls
<1> QED
  BY <1>1 DEF CallInv, ReturnedAsCounted, Unposted, LastUnrecorded, LastRecorded

-----------------------------------------------------------------------------
\* The steps of a run that are not steps of the client leave the call alone,
\* begin one from the idle state, or drop the one that ended.
LEMMA RunStepCall ==
  ASSUME Next, ~Serve
  PROVE  /\ keyPresent' = keyPresent
         /\ \/ call' = call
            \/ call.phase = "idle" /\ call' = Begun
            \/ call' = IdleCall
<1>1. CASE StartInvocation
  BY <1>1 DEF StartInvocation
<1>2. CASE RefuseInvocation \/ Arbitrate \/ Synthesize \/ Publish \/ TimePasses
  BY <1>2 DEF RefuseInvocation, Arbitrate, Synthesize, Publish, TimePasses
<1>3. CASE ReceiveFinal \/ ReceiveRouting \/ ReceiveFinding \/ ReceiveArbitration \/ Crash
  BY <1>3 DEF ReceiveFinal, ReceiveRouting, ReceiveFinding, ReceiveArbitration, Crash, Returned
<1> QED BY <1>1, <1>2, <1>3 DEF Next, Proceed

\* A call dropped for an idle one leaves the counts in order.
LEMMA DropInv == keyPresent \in BOOLEAN /\ keyPresent' = keyPresent /\ call' = IdleCall => CallInv'
<1> SUFFICES ASSUME keyPresent' \in BOOLEAN, call' = IdleCall PROVE CallInv'
  OBVIOUS
<1>1. NoResult \in Results
  BY MaximumRetriesAssumption DEF NoResult, Results, FinishStatus
<1>2. IdleCall \in Calls
  BY <1>1, MaximumRetriesAssumption DEF IdleCall, Calls
<1> QED
  BY <1>2 DEF CallInv, CallTypeOK, IdleCall, Ready, BackingOff, Raised, ReturnedAsCounted, AllTransient

\* All calls of a run count their posts right.
LEMMA RunCallInvariant == Spec => []CallInv
<1>1. Init => CallInv
  <2> SUFFICES ASSUME Init PROVE ClientInit
    BY InitInv
  <2> QED BY DEF Init, ClientInit
<1>2. CallInv /\ [Next]_vars => CallInv'
  <2> SUFFICES ASSUME CallInv, [Next]_vars PROVE CallInv'
    OBVIOUS
  <2>1. CASE Serve
    BY <2>1, PostInv, WakeInv DEF Serve
  <2>2. CASE Next /\ ~Serve
    <3>1. keyPresent \in BOOLEAN
      BY DEF CallInv, CallTypeOK
    <3>2. CASE call' = call
      BY <2>2, <3>2, RunStepCall, StutterInv DEF clientVars
    <3>3. CASE call.phase = "idle" /\ call' = Begun
      BY <2>2, <3>3, RunStepCall, GenerateInv DEF Generate
    <3>4. CASE call' = IdleCall
      BY <2>2, <3>1, <3>4, RunStepCall, DropInv
    <3> QED BY <2>2, <3>2, <3>3, <3>4, RunStepCall
  <2>3. CASE UNCHANGED vars
    BY <2>3, StutterInv DEF vars, clientVars
  <2> QED BY <2>1, <2>2, <2>3
<1> QED BY <1>1, <1>2, PTL DEF Spec

-----------------------------------------------------------------------------
\* Every result a run receives says truly how often the provider was contacted.
THEOREM RunResultsTruthful == Spec => []ResultTruthful
BY RunCallInvariant, InvTruthful, PTL

\* No call of a run repeats a post after an answer that cannot change, and none
\* gives up on a transient failure before its retries are used.
THEOREM RunRetriesAreRight == Spec => []RetriesRight
<1>1. CallInv => RetriesRight
  BY InvTransient, InvGivesUpLate DEF RetriesRight
<1> QED BY <1>1, RunCallInvariant, PTL

-----------------------------------------------------------------------------
(* The books of a run: what its limits and results allow it to have on     *)
(* record.  The operators name the controls and the time that has passed,  *)
(* so that they can be read in the next state as well.                     *)

Stops == {"none", "stop_after_invocation", "max_total_input_tokens",
          "max_total_output_tokens", "max_elapsed_seconds",
          "max_retries_per_invocation", "max_invocation_count"}

Invocations == [role : AgentRoles, status : FinishStatus]

Runs ==
  [invocations : Seq(Invocations),
   checks      : Seq([role : Specialists, sound : BOOLEAN]),
   overruled   : SUBSET Selectable,
   handoffs    : Seq([target : AgentRoles, findings : SUBSET Specialists]),
   arbitration : Seq(BOOLEAN),
   tokens      : [input : Nat, output : Nat],
   evaluated   : BOOLEAN,
   stopped     : Stops,
   failed      : BOOLEAN]

AllCompleted(r) == \A i \in DOMAIN r.invocations : r.invocations[i].status = "completed"

Within(limits, r) ==
  /\ \A n \in limits.stopAfter : Len(r.invocations) < n
  /\ \A n \in limits.input : r.tokens.input <= n
  /\ \A n \in limits.output : r.tokens.output <= n

Founded(limits, passed, r) ==
  /\ r.stopped = "stop_after_invocation" => \E n \in limits.stopAfter : Len(r.invocations) >= n
  /\ r.stopped = "max_total_input_tokens" => \E n \in limits.input : r.tokens.input > n
  /\ r.stopped = "max_total_output_tokens" => \E n \in limits.output : r.tokens.output > n
  /\ r.stopped = "max_elapsed_seconds" => passed
  /\ r.stopped = "max_invocation_count" => Len(r.invocations) >= limits.count

Books(limits, passed, r) ==
  /\ Len(r.invocations) <= limits.count
  /\ r.stopped = "none" => Within(limits, r)
  /\ ~r.failed => AllCompleted(r)
  /\ Founded(limits, passed, r)

\* The limits of a run are numbers.
LEMMA LimitNumbers ==
  ASSUME NEW limits \in Controls
  PROVE  /\ limits.count \in Nat \ {0}
         /\ limits.stopAfter \subseteq Nat \ {0}
         /\ limits.input \subseteq Nat
         /\ limits.output \subseteq Nat
         /\ limits.timed \in BOOLEAN
<1>1. /\ limits.count \in Nat \ {0}
      /\ limits.timed \in BOOLEAN
      /\ 0 \notin limits.stopAfter
      /\ \A optional \in {limits.stopAfter, limits.input, limits.output} :
            \E n \in optional \cup {0} : optional \subseteq {n} /\ n \in Nat
  BY ControlsAssumption
<1>2. \A optional \in {limits.stopAfter, limits.input, limits.output} : optional \subseteq Nat
  BY <1>1
<1> QED BY <1>1, <1>2

\* A new run has broken nothing.
LEMMA NewRunBooks ==
  ASSUME NEW limits \in Controls, NEW passed
  PROVE  NewRun \in Runs /\ Books(limits, passed, NewRun)
<1>1. NewRun \in Runs
  BY DEF NewRun, Runs, Stops
<1>2. Books(limits, passed, NewRun)
  BY LimitNumbers DEF NewRun, Books, Within, Founded, AllCompleted
<1> QED BY <1>1, <1>2

\* The books depend on invocations, tokens and stop alone, and a run that
\* failed since has less to show.
LEMMA BooksKept ==
  ASSUME NEW limits, NEW passed, NEW later, NEW r, NEW s, Books(limits, passed, r),
         s.invocations = r.invocations, s.tokens = r.tokens, s.stopped = r.stopped,
         r.failed => s.failed, passed => later
  PROVE  Books(limits, later, s)
BY DEF Books, Within, Founded, AllCompleted

\* The limit a result is stopped by was exceeded, and none was if it is not.
LEMMA StoppedByFounded ==
  ASSUME NEW r \in Runs, NEW retries, r.stopped = "none", controls \in Controls
  PROVE  LET stop == StoppedBy(r, retries)
         IN  /\ stop \in Stops
             /\ stop = "none" => Within(controls, r)
             /\ stop # "none" => Exceeded(stop, r, retries) /\ stop # "max_invocation_count"
<1> DEFINE over == {i \in DOMAIN LimitOrder : Exceeded(LimitOrder[i], r, retries)}
<1>1. /\ DOMAIN LimitOrder = 1 .. 5
      /\ LimitOrder[1] = "stop_after_invocation"
      /\ LimitOrder[2] = "max_total_input_tokens"
      /\ LimitOrder[3] = "max_total_output_tokens"
      /\ LimitOrder[4] = "max_elapsed_seconds"
      /\ LimitOrder[5] = "max_retries_per_invocation"
  BY DEF LimitOrder
<1>2. CASE over = {}
  <2>1. StoppedBy(r, retries) = "none"
    BY <1>2 DEF StoppedBy
  <2>2. /\ ~Exceeded("stop_after_invocation", r, retries)
        /\ ~Exceeded("max_total_input_tokens", r, retries)
        /\ ~Exceeded("max_total_output_tokens", r, retries)
    BY <1>1, <1>2
  <2>3. Len(r.invocations) \in Nat /\ r.tokens.input \in Nat /\ r.tokens.output \in Nat
    BY DEF Runs
  <2>4. /\ controls.stopAfter \subseteq Nat \ {0}
        /\ controls.input \subseteq Nat
        /\ controls.output \subseteq Nat
    BY LimitNumbers
  <2>5. Within(controls, r)
    BY <2>2, <2>3, <2>4 DEF Within, Exceeded, Exceeds
  <2> QED BY <2>1, <2>5 DEF Stops
<1>3. CASE over # {}
  <2>1. Max(over) \in over
    <3>1. over \in SUBSET (1 .. 5)
      BY <1>1
    <3> HIDE DEF over
    <3>2. \E m \in over : \A k \in over : m >= k
      <4>1. CASE 5 \in over
        BY <3>1, <4>1
      <4>2. CASE 5 \notin over /\ 4 \in over
        BY <3>1, <4>2
      <4>3. CASE over \cap {4, 5} = {} /\ 3 \in over
        BY <3>1, <4>3
      <4>4. CASE over \cap {3, 4, 5} = {} /\ 2 \in over
        BY <3>1, <4>4
      <4>5. CASE over \cap {2, 3, 4, 5} = {}
        <5>1. \A k \in over : k = 1
          BY <3>1, <4>5
        <5> QED BY <1>3, <5>1
      <4> QED BY <4>1, <4>2, <4>3, <4>4, <4>5
    <3> QED BY <3>2 DEF Max
  <2>2. StoppedBy(r, retries) = LimitOrder[Max(over)]
    BY <1>3 DEF StoppedBy
  <2>3. Max(over) \in 1 .. 5 /\ Exceeded(LimitOrder[Max(over)], r, retries)
    BY <1>1, <2>1
  <2> HIDE DEF over
  <2>4. Max(over) = 1 \/ Max(over) = 2 \/ Max(over) = 3 \/ Max(over) = 4 \/ Max(over) = 5
    BY <2>3
  <2> QED BY <1>1, <2>2, <2>3, <2>4 DEF Stops
<1> QED BY <1>2, <1>3

-----------------------------------------------------------------------------
(* What _invoke makes of a result. *)

Charges == [input : Nat, output : Nat]

\* A result has its charge, whether or not it carries a response.
LEMMA UsageTyped == ASSUME NEW result PROVE UsagesOf(result) \subseteq Charges
BY UsagesAssumption DEF UsagesOf, Charges

\* The run before the limits are looked at.
Recording(role, usage) ==
  [run EXCEPT
     !.invocations = Append(@, [role |-> role, status |-> call.result.status]),
     !.tokens      = [input |-> @.input + usage.input, output |-> @.output + usage.output],
     !.failed      = @ \/ call.result.status # "completed"]

\* A result is recorded after the others, charged, and fails the run unless it
\* completed.
LEMMA RecordingFacts ==
  ASSUME run \in Runs, call \in Calls, NEW role \in AgentRoles, NEW usage \in Charges
  PROVE  LET r == Recording(role, usage)
         IN  /\ r \in Runs
             /\ r.invocations = Append(run.invocations, [role |-> role, status |-> call.result.status])
             /\ r.checks = run.checks /\ r.overruled = run.overruled
             /\ r.handoffs = run.handoffs /\ r.arbitration = run.arbitration
             /\ r.evaluated = run.evaluated
             /\ r.stopped = run.stopped
             /\ r.failed <=> (run.failed \/ call.result.status # "completed")
<1> DEFINE entry == [role |-> role, status |-> call.result.status]
           sum   == [input |-> run.tokens.input + usage.input, output |-> run.tokens.output + usage.output]
           bad   == run.failed \/ call.result.status # "completed"
<1>1. entry \in Invocations
  BY DEF Calls, Results, Invocations
<1>2. sum \in [input : Nat, output : Nat]
  BY DEF Runs, Charges
<1>3. bad \in BOOLEAN
  OBVIOUS
<1>4. Append(run.invocations, entry) \in Seq(Invocations)
  BY <1>1 DEF Runs
<1>5. Recording(role, usage) =
        [run EXCEPT !.invocations = Append(run.invocations, entry), !.tokens = sum, !.failed = bad]
  BY DEF Recording, Runs
<1> HIDE DEF entry, sum, bad
<1>6. /\ Recording(role, usage) \in Runs
      /\ Recording(role, usage).invocations = Append(run.invocations, entry)
      /\ Recording(role, usage).checks = run.checks
      /\ Recording(role, usage).overruled = run.overruled
      /\ Recording(role, usage).handoffs = run.handoffs
      /\ Recording(role, usage).arbitration = run.arbitration
      /\ Recording(role, usage).evaluated = run.evaluated
      /\ Recording(role, usage).stopped = run.stopped
      /\ Recording(role, usage).failed = bad
  BY <1>2, <1>3, <1>4, <1>5 DEF Runs
<1> QED BY <1>6 DEF entry, bad

\* The same of the run once the limits were looked at.
LEMMA ResultFacts ==
  ASSUME run \in Runs, call \in Calls, NEW role \in AgentRoles, NEW usage \in Charges,
         controls \in Controls, run.stopped = "none"
  PROVE  LET r == WithResult(role, usage)
         IN  /\ r \in Runs
             /\ r.invocations = Append(run.invocations, [role |-> role, status |-> call.result.status])
             /\ r.checks = run.checks /\ r.overruled = run.overruled
             /\ r.handoffs = run.handoffs /\ r.arbitration = run.arbitration
             /\ r.evaluated = run.evaluated
             /\ r.failed <=> (run.failed \/ call.result.status # "completed")
             /\ r.stopped = StoppedBy(Recording(role, usage), call.result.retries)
             /\ r.tokens = Recording(role, usage).tokens
<1> DEFINE c == Recording(role, usage)
           stop == StoppedBy(c, call.result.retries)
<1>1. WithResult(role, usage) = [c EXCEPT !.stopped = stop]
  BY DEF WithResult, Recording
<1>2. /\ c \in Runs
      /\ c.invocations = Append(run.invocations, [role |-> role, status |-> call.result.status])
      /\ c.checks = run.checks /\ c.overruled = run.overruled
      /\ c.handoffs = run.handoffs /\ c.arbitration = run.arbitration
      /\ c.evaluated = run.evaluated
      /\ c.stopped = "none"
      /\ c.failed <=> (run.failed \/ call.result.status # "completed")
  BY RecordingFacts
<1> HIDE DEF c
<1>3. stop \in Stops
  BY <1>2, StoppedByFounded
<1> HIDE DEF stop
<1>4. /\ WithResult(role, usage) \in Runs
      /\ WithResult(role, usage).invocations = c.invocations
      /\ WithResult(role, usage).checks = c.checks
      /\ WithResult(role, usage).overruled = c.overruled
      /\ WithResult(role, usage).handoffs = c.handoffs
      /\ WithResult(role, usage).arbitration = c.arbitration
      /\ WithResult(role, usage).evaluated = c.evaluated
      /\ WithResult(role, usage).tokens = c.tokens
      /\ WithResult(role, usage).failed = c.failed
      /\ WithResult(role, usage).stopped = stop
  BY <1>1, <1>2, <1>3 DEF Runs
<1> QED BY <1>2, <1>4 DEF c, stop

\* A result recorded while the count allows it keeps the books: the limit on
\* record, if any, was exceeded, and without one the run is within its limits.
LEMMA ResultBooks ==
  ASSUME run \in Runs, call \in Calls, NEW role \in AgentRoles, NEW usage \in Charges,
         controls \in Controls, run.stopped = "none",
         Books(controls, late, run), Len(run.invocations) < controls.count
  PROVE  Books(controls, late, WithResult(role, usage))
<1> DEFINE c == Recording(role, usage)
           r == WithResult(role, usage)
           entry == [role |-> role, status |-> call.result.status]
<1>1. /\ r.invocations = Append(run.invocations, entry)
      /\ r.failed <=> (run.failed \/ call.result.status # "completed")
      /\ r.stopped = StoppedBy(c, call.result.retries)
      /\ r.tokens = c.tokens
  BY ResultFacts
<1>2. c \in Runs /\ c.invocations = Append(run.invocations, entry) /\ c.stopped = "none"
  BY RecordingFacts
<1> HIDE DEF c, r
<1>3. /\ r.stopped = "none" => Within(controls, c)
      /\ r.stopped # "none" => Exceeded(r.stopped, c, call.result.retries) /\ r.stopped # "max_invocation_count"
  BY <1>1, <1>2, StoppedByFounded
<1>4. run.invocations \in Seq(Invocations) /\ Len(r.invocations) = Len(run.invocations) + 1
  BY <1>1 DEF Runs
<1>5. Len(r.invocations) <= controls.count
  BY <1>4, LimitNumbers
<1>6. r.stopped = "none" => Within(controls, r)
  BY <1>1, <1>2, <1>3 DEF Within
<1>7. ~r.failed => AllCompleted(r)
  <2> SUFFICES ASSUME ~r.failed, NEW i \in DOMAIN r.invocations
               PROVE  r.invocations[i].status = "completed"
    BY DEF AllCompleted
  <2>1. AllCompleted(run) /\ call.result.status = "completed"
    BY <1>1 DEF Books
  <2>2. CASE i \in DOMAIN run.invocations
    BY <1>1, <1>4, <2>1, <2>2 DEF AllCompleted
  <2>3. CASE i = Len(run.invocations) + 1
    BY <1>1, <1>4, <2>1, <2>3
  <2>4. i \in DOMAIN run.invocations \/ i = Len(run.invocations) + 1
    BY <1>1, <1>4
  <2> QED BY <2>2, <2>3, <2>4
<1>8. Founded(controls, late, r)
  BY <1>1, <1>2, <1>3 DEF Founded, Exceeded, Exceeds
<1> QED BY <1>5, <1>6, <1>7, <1>8 DEF Books, r

-----------------------------------------------------------------------------
(* The inductive invariant of a run.  A call is made only while the run    *)
(* asks, has not been halted and has invocations left, so a result never   *)
(* finds a limit already on record; the evaluation ends the run.           *)

Ended == {"over", "published", "crashed"}

RunType ==
  /\ variant \in Variants /\ controls \in Controls /\ late \in BOOLEAN
  /\ Asking \/ step \in {"synthesis"} \cup Ended
  /\ todo \in Seq(Specialists)
  /\ step = "specialists" => todo # <<>>
  /\ run \in Runs

Called ==
  call.phase # "idle" => Asking /\ ~Halted(run) /\ Len(run.invocations) < controls.count

Answers(r) == r.invocations # <<>> /\ Last(r.invocations).role \in FinalRoles

EvaluatedLast == run.evaluated => step \in {"over", "published"} /\ Answers(run)

SummaryOf(r, passed) ==
  [status |-> Status(r), completed |-> Completed(r), stopped |-> r.stopped,
   executed |-> Executed(r), usable |-> Completed(r) /\ passed]

Told ==
  /\ step # "published" => published = Unpublished
  /\ step = "published" => \E passed \in BOOLEAN : published = SummaryOf(run, passed)

RunInv ==
  /\ RunType
  /\ Called
  /\ Books(controls, late, run)
  /\ EvaluatedLast
  /\ Told

\* The first agent is asked of a run with nothing on record.
LEMMA InitRunInv == Init => RunInv
<1> SUFFICES ASSUME Init PROVE RunInv
  OBVIOUS
<1>1. variant \in Variants /\ controls \in Controls /\ late \in BOOLEAN /\ run = NewRun
  BY DEF Init
<1>2. run \in Runs /\ Books(controls, late, run)
  BY <1>1, NewRunBooks
<1>3. variant \in {"single_generalist", "fixed_expert_chain", "dynamic_expert_council"}
  BY <1>1, VariantsAssumption
<1>4. step \in {"generalist", "specialists", "director"}
  BY <1>3 DEF Init, FirstStep
<1>5. FixedChain \in Seq(Specialists) /\ FixedChain # <<>>
  BY DEF FixedChain, Specialists
<1>6. todo \in Seq(Specialists) /\ (step = "specialists" => todo # <<>>)
  BY <1>3, <1>5 DEF Init, FirstStep
<1>7. RunType
  BY <1>1, <1>2, <1>4, <1>6 DEF RunType, Asking
<1>8. Called
  BY DEF Init, Called, IdleCall
<1>9. EvaluatedLast /\ Told
  BY <1>1, <1>4 DEF Init, EvaluatedLast, Told, NewRun
<1> QED BY <1>2, <1>7, <1>8, <1>9 DEF RunInv

\* A step that gives no result and no new stop, or only lets time pass, keeps
\* what the run has on record.
LEMMA StartRunInv == RunInv /\ StartInvocation => RunInv'
<1> SUFFICES ASSUME RunInv, StartInvocation PROVE RunInv'
  OBVIOUS
<1>1. Asking /\ MayStart /\ UNCHANGED runVars
  BY DEF StartInvocation
<1>2. Len(run.invocations) < controls.count
  <2>1. ~Exceeded("max_invocation_count", run, 0)
    BY <1>1 DEF MayStart
  <2>2. run \in Runs /\ controls \in Controls
    BY DEF RunInv, RunType
  <2>3. Len(run.invocations) \in Nat /\ controls.count \in Nat
    BY <2>2, LimitNumbers DEF Runs
  <2> QED BY <2>1, <2>3 DEF Exceeded
<1>3. Called'
  BY <1>1, <1>2 DEF Called, MayStart, Halted, Asking, runVars
<1> QED
  BY <1>1, <1>3 DEF RunInv, RunType, EvaluatedLast, Told, Asking, runVars

\* The provider's answers are no business of the run before they are returned.
LEMMA ServeRunInv == RunInv /\ Serve /\ UNCHANGED runVars => RunInv'
<1> SUFFICES ASSUME RunInv, Serve, UNCHANGED runVars PROVE RunInv'
  OBVIOUS
<1>1. call.phase # "idle"
  BY DEF Serve, Post, Wake
<1>2. Called'
  BY <1>1 DEF RunInv, Called, Halted, Asking, runVars
<1> QED
  BY <1>2 DEF RunInv, RunType, EvaluatedLast, Told, Asking, runVars

\* A refusal records a limit that was really exceeded, or leaves the one that
\* halted the run.
LEMMA RefuseRunInv == RunInv /\ RefuseInvocation => RunInv'
<1> SUFFICES ASSUME RunInv, RefuseInvocation PROVE RunInv'
  OBVIOUS
<1>1. /\ Asking /\ call.phase = "idle" /\ ~MayStart
      /\ run' = [run EXCEPT !.stopped = RefusedBy]
      /\ step' = "over"
      /\ UNCHANGED <<variant, controls, todo, late, published, call>>
  BY DEF RefuseInvocation
<1>2. run \in Runs /\ controls \in Controls /\ Books(controls, late, run)
  BY DEF RunInv, RunType
<1>3. /\ RefusedBy \in Stops
      /\ RefusedBy = run.stopped \/ RefusedBy \in {"max_invocation_count", "max_elapsed_seconds"}
      /\ RefusedBy \notin {"none", run.stopped} => Exceeded(RefusedBy, run, 0)
      /\ RefusedBy = "none" => run.stopped = "none"
  <2>1. run.stopped \in Stops
    BY <1>2 DEF Runs
  <2>2. CASE Halted(run)
    BY <2>1, <2>2 DEF RefusedBy
  <2>3. CASE ~Halted(run) /\ Exceeded("max_invocation_count", run, 0)
    BY <2>3 DEF RefusedBy, Stops
  <2>4. CASE ~Halted(run) /\ ~Exceeded("max_invocation_count", run, 0)
    <3>1. Exceeded("max_elapsed_seconds", run, 0)
      BY <1>1, <2>4 DEF MayStart
    <3> QED BY <2>4, <3>1 DEF RefusedBy, Stops
  <2> QED BY <2>2, <2>3, <2>4
<1>4. /\ run' \in Runs
      /\ run'.stopped = RefusedBy /\ run'.invocations = run.invocations
      /\ run'.tokens = run.tokens /\ run'.failed = run.failed /\ run'.evaluated = run.evaluated
  BY <1>1, <1>2, <1>3 DEF Runs
<1>5. Books(controls, late, run')
  <2>1. CASE RefusedBy = run.stopped
    BY <1>2, <1>4, <2>1, BooksKept
  <2>2. CASE RefusedBy # run.stopped
    <3>1. RefusedBy \in {"max_invocation_count", "max_elapsed_seconds"} /\ Exceeded(RefusedBy, run, 0)
      BY <1>3, <2>2
    <3> QED BY <1>2, <1>4, <3>1 DEF Books, Founded, AllCompleted, Exceeded
  <2> QED BY <2>1, <2>2
<1>6. RunType'
  BY <1>1, <1>4 DEF RunInv, RunType, Asking, Ended
<1>7. Called'
  BY <1>1 DEF Called
<1>8. EvaluatedLast' /\ Told'
  BY <1>1, <1>4 DEF RunInv, EvaluatedLast, Told, Asking
<1> QED BY <1>1, <1>5, <1>6, <1>7, <1>8 DEF RunInv

\* An exception drops the call and the run with it.
LEMMA CrashRunInv == RunInv /\ Crash => RunInv'
<1> SUFFICES ASSUME RunInv, Crash PROVE RunInv'
  OBVIOUS
<1>1. /\ call.phase = "raised" /\ call' = IdleCall /\ step' = "crashed"
      /\ UNCHANGED <<variant, controls, todo, run, late, published>>
  BY DEF Crash
<1>2. Asking
  BY <1>1 DEF RunInv, Called
<1>3. RunType' /\ Called' /\ EvaluatedLast' /\ Told'
  BY <1>1, <1>2 DEF RunInv, RunType, Called, EvaluatedLast, Told, Asking, Ended, IdleCall
<1> QED BY <1>1, <1>3 DEF RunInv

\* The summary is computed from the run as it ended.
LEMMA PublishRunInv == RunInv /\ Publish => RunInv'
<1> SUFFICES ASSUME RunInv, Publish PROVE RunInv'
  OBVIOUS
<1>1. /\ step = "over" /\ step' = "published"
      /\ UNCHANGED <<variant, controls, todo, run, late, call>>
  BY DEF Publish
<1>2. \E passed \in BOOLEAN : published' = SummaryOf(run, passed)
  BY DEF Publish, SummaryOf
<1>3. Told'
  BY <1>1, <1>2 DEF Told
<1>4. RunType' /\ Called' /\ EvaluatedLast'
  BY <1>1 DEF RunInv, RunType, Called, EvaluatedLast, Asking, Ended
<1> QED BY <1>1, <1>3, <1>4 DEF RunInv

\* Time that passes is time on record.
LEMMA TimeRunInv == RunInv /\ TimePasses => RunInv'
<1> SUFFICES ASSUME RunInv, TimePasses PROVE RunInv'
  OBVIOUS
<1>1. late' = TRUE /\ UNCHANGED <<variant, controls, step, todo, run, published, call>>
  BY DEF TimePasses
<1>2. Books(controls, late', run)
  BY <1>1 DEF RunInv, Books, Founded
<1>3. RunType' /\ Called' /\ EvaluatedLast' /\ Told'
  BY <1>1 DEF RunInv, RunType, Called, EvaluatedLast, Told, Asking
<1> QED BY <1>1, <1>2, <1>3 DEF RunInv

\* A handoff adds to the handoffs and changes nothing else.
LEMMA HandedToFacts ==
  ASSUME NEW r \in Runs, NEW target \in AgentRoles
  PROVE  LET s == HandedTo(r, target)
         IN  /\ s \in Runs
             /\ s.invocations = r.invocations /\ s.checks = r.checks /\ s.overruled = r.overruled
             /\ s.handoffs = Append(r.handoffs, [target |-> target, findings |-> Eligible(r)])
             /\ s.arbitration = r.arbitration /\ s.tokens = r.tokens
             /\ s.evaluated = r.evaluated /\ s.stopped = r.stopped /\ s.failed = r.failed
<1> DEFINE handoff == [target |-> target, findings |-> Eligible(r)]
           all == Append(r.handoffs, handoff)
<1>1. handoff \in [target : AgentRoles, findings : SUBSET Specialists]
  BY DEF Eligible, Sound
<1>2. all \in Seq([target : AgentRoles, findings : SUBSET Specialists])
  BY <1>1 DEF Runs
<1>3. HandedTo(r, target) = [r EXCEPT !.handoffs = all]
  BY DEF HandedTo, Runs
<1> HIDE DEF handoff, all
<1>4. /\ HandedTo(r, target) \in Runs
      /\ HandedTo(r, target).invocations = r.invocations /\ HandedTo(r, target).checks = r.checks
      /\ HandedTo(r, target).overruled = r.overruled
      /\ HandedTo(r, target).handoffs = all
      /\ HandedTo(r, target).arbitration = r.arbitration /\ HandedTo(r, target).tokens = r.tokens
      /\ HandedTo(r, target).evaluated = r.evaluated /\ HandedTo(r, target).stopped = r.stopped
      /\ HandedTo(r, target).failed = r.failed
  BY <1>2, <1>3 DEF Runs
<1> QED BY <1>4 DEF all, handoff

(* What the arbiter's handoff and the judgement make of a run.             *)
Judged(disagree) ==
  [HandedTo(run, "ArbiterAgent") EXCEPT !.arbitration = Append(@, disagree)]

\* The judgement is added to the earlier ones.
LEMMA JudgedFacts ==
  ASSUME run \in Runs, NEW disagree \in BOOLEAN
  PROVE  LET s == Judged(disagree)
         IN  /\ s \in Runs
             /\ s.invocations = run.invocations /\ s.checks = run.checks /\ s.overruled = run.overruled
             /\ s.arbitration = Append(run.arbitration, disagree) /\ s.tokens = run.tokens
             /\ s.evaluated = run.evaluated /\ s.stopped = run.stopped /\ s.failed = run.failed
<1> DEFINE h == HandedTo(run, "ArbiterAgent")
           all == Append(run.arbitration, disagree)
<1>1. /\ h \in Runs
      /\ h.invocations = run.invocations /\ h.checks = run.checks /\ h.overruled = run.overruled
      /\ h.arbitration = run.arbitration /\ h.tokens = run.tokens
      /\ h.evaluated = run.evaluated /\ h.stopped = run.stopped /\ h.failed = run.failed
  BY HandedToFacts DEF AgentRoles
<1>2. all \in Seq(BOOLEAN)
  BY DEF Runs
<1>3. Judged(disagree) = [h EXCEPT !.arbitration = Append(@, disagree)]
  BY DEF Judged
<1> HIDE DEF h
<1>4. Judged(disagree) = [h EXCEPT !.arbitration = all]
  BY <1>1, <1>3 DEF Runs
<1> HIDE DEF all
<1>5. /\ Judged(disagree) \in Runs
      /\ Judged(disagree).invocations = h.invocations /\ Judged(disagree).checks = h.checks
      /\ Judged(disagree).overruled = h.overruled /\ Judged(disagree).arbitration = all
      /\ Judged(disagree).tokens = h.tokens /\ Judged(disagree).evaluated = h.evaluated
      /\ Judged(disagree).stopped = h.stopped /\ Judged(disagree).failed = h.failed
  BY <1>1, <1>2, <1>4 DEF Runs
<1> QED BY <1>1, <1>5 DEF all

\* A step of the synthesis only adds to handoffs and judgements.
LEMMA SynthesisRunInv == RunInv /\ (Arbitrate \/ Synthesize) => RunInv'
<1> SUFFICES ASSUME RunInv, Arbitrate \/ Synthesize PROVE RunInv'
  OBVIOUS
<1>1. /\ step = "synthesis" /\ step' \in {"arbitration", "planning"}
      /\ UNCHANGED <<variant, controls, todo, late, published, call>>
  BY DEF Arbitrate, Synthesize
<1>2. run \in Runs /\ Books(controls, late, run)
  BY DEF RunInv, RunType
<1>3. "RecoveryPlanner" \in AgentRoles
  BY DEF AgentRoles, FinalRoles
<1>4. /\ run' \in Runs
      /\ run'.invocations = run.invocations /\ run'.tokens = run.tokens
      /\ run'.stopped = run.stopped /\ run'.failed = run.failed /\ run'.evaluated = run.evaluated
  <2>1. CASE Synthesize
    BY <1>2, <1>3, <2>1, HandedToFacts DEF Synthesize
  <2>2. CASE Arbitrate
    <3>1. PICK disagree \in BOOLEAN :
            run' = IF disagree THEN Judged(disagree) ELSE HandedTo(Judged(disagree), "RecoveryPlanner")
      BY <2>2 DEF Arbitrate, Judged
    <3>2. /\ Judged(disagree) \in Runs
          /\ Judged(disagree).invocations = run.invocations /\ Judged(disagree).tokens = run.tokens
          /\ Judged(disagree).evaluated = run.evaluated /\ Judged(disagree).stopped = run.stopped
          /\ Judged(disagree).failed = run.failed
      BY <1>2, JudgedFacts
    <3>3. CASE disagree
      BY <3>1, <3>2, <3>3
    <3>4. CASE ~disagree
      <4>1. run' = HandedTo(Judged(disagree), "RecoveryPlanner")
        BY <3>1, <3>4
      <4> QED BY <1>3, <3>2, <4>1, HandedToFacts
    <3> QED BY <3>3, <3>4
  <2> QED BY <2>1, <2>2
<1>5. Books(controls, late, run')
  BY <1>2, <1>4, BooksKept
<1>6. RunType'
  BY <1>1, <1>4 DEF RunInv, RunType, Asking
<1>7. Called' /\ EvaluatedLast' /\ Told'
  <2>1. call.phase = "idle"
    BY <1>1 DEF RunInv, Called, Asking
  <2>2. ~run.evaluated
    BY <1>1 DEF RunInv, EvaluatedLast
  <2> QED BY <1>1, <1>4, <2>1, <2>2 DEF RunInv, Called, EvaluatedLast, Told
<1> QED BY <1>1, <1>5, <1>6, <1>7 DEF RunInv

\* The agent asked has a role.
LEMMA NextRoleTyped == RunType /\ Asking => NextRole \in AgentRoles
<1> SUFFICES ASSUME RunType, Asking PROVE NextRole \in AgentRoles
  OBVIOUS
<1>1. CASE step = "specialists"
  <2>1. todo \in Seq(Specialists) /\ todo # <<>>
    BY <1>1 DEF RunType
  <2>2. Head(todo) \in Specialists
    BY <2>1
  <2> QED BY <1>1, <2>2 DEF NextRole, AgentRoles
<1>2. CASE step # "specialists"
  BY <1>2 DEF NextRole, Asking, AgentRoles, FinalRoles
<1> QED BY <1>1, <1>2

\* A returned call has invocations left and finds no limit on record.
LEMMA ReturnedFacts ==
  ASSUME RunInv, Returned
  PROVE  /\ Asking /\ run.stopped = "none" /\ ~run.failed /\ ~run.evaluated
         /\ run \in Runs /\ controls \in Controls
         /\ Books(controls, late, run) /\ Len(run.invocations) < controls.count
<1>1. call.phase # "idle"
  BY DEF Returned
<1>2. Asking /\ ~Halted(run) /\ Len(run.invocations) < controls.count
  BY <1>1 DEF RunInv, Called
<1> QED BY <1>2 DEF RunInv, RunType, Halted, EvaluatedLast, Asking

\* After a result the rest of the invariant follows from what became of the run.
LEMMA ReceivedRunInv ==
  ASSUME RunInv, Returned, UNCHANGED <<variant, controls, late, published>>,
         run' \in Runs, Books(controls, late, run'), todo' \in Seq(Specialists),
         step' \in {"over", "specialists", "synthesis", "planning"},
         step' = "specialists" => todo' # <<>>,
         run'.evaluated => step' = "over" /\ Answers(run')
  PROVE  RunInv'
<1>1. RunType'
  BY DEF RunInv, RunType, Asking, Ended
<1>2. Called'
  BY DEF Returned, Called, IdleCall
<1>3. published = Unpublished
  BY ReturnedFacts DEF RunInv, Told, Asking
<1>4. EvaluatedLast' /\ Told'
  BY <1>3 DEF EvaluatedLast, Told, Answers
<1> QED BY <1>1, <1>2, <1>4 DEF RunInv

-----------------------------------------------------------------------------
(* The roles a routing selects.  SelectedRoles keeps them entry by entry;  *)
(* Keeps says what a function that keeps them satisfies.                   *)

Distinct(S) == {s \in Seq(S) : \A i, j \in 1 .. Len(s) : s[i] = s[j] => i = j}

\* What is new may follow entries that are distinct.
LEMMA AppendDistinct ==
  ASSUME NEW S, NEW s \in Distinct(S), NEW e \in S, \A i \in 1 .. Len(s) : s[i] # e
  PROVE  Append(s, e) \in Distinct(S)
<1> DEFINE a == Append(s, e)
<1>1. s \in Seq(S) /\ \A i, j \in 1 .. Len(s) : s[i] = s[j] => i = j
  BY DEF Distinct
<1>2. /\ a \in Seq(S) /\ Len(a) = Len(s) + 1 /\ Len(s) \in Nat
      /\ \A i \in 1 .. Len(s) : a[i] = s[i]
      /\ a[Len(s) + 1] = e
  BY <1>1
<1> HIDE DEF a
<1>3. ASSUME NEW i \in 1 .. Len(a), NEW j \in 1 .. Len(a), a[i] = a[j] PROVE i = j
  <2>1. (i \in 1 .. Len(s) \/ i = Len(s) + 1) /\ (j \in 1 .. Len(s) \/ j = Len(s) + 1)
    BY <1>2
  <2>2. CASE i \in 1 .. Len(s) /\ j \in 1 .. Len(s)
    BY <1>1, <1>2, <1>3, <2>2
  <2>3. CASE i \in 1 .. Len(s) /\ j = Len(s) + 1
    BY <1>2, <1>3, <2>3
  <2>4. CASE i = Len(s) + 1 /\ j \in 1 .. Len(s)
    BY <1>2, <1>3, <2>4
  <2> QED BY <2>1, <2>2, <2>3, <2>4
<1>4. a \in Distinct(S)
  BY <1>2, <1>3 DEF Distinct
<1> QED BY <1>4 DEF a

\* A set of natural numbers that is not empty has a least element.
LEMMA LeastNatural ==
  ASSUME NEW T \in SUBSET Nat, T # {}
  PROVE  \E m \in T : \A k \in T : m <= k
<1>1. IsWellFoundedOn(OpToRel(<, Nat), Nat)
  BY NatLessThanWellFounded
<1>2. PICK m \in T : \A y \in T : ~(<<y, m>> \in OpToRel(<, Nat))
  BY <1>1, WFMin
<1>3. \A y \in T : ~(y < m)
  BY <1>2 DEF OpToRel
<1> QED BY <1>3

KeepStep(t, routing, n) ==
  IF n = 0 THEN <<>>
  ELSE IF routing[n] \in Selectable \ ToSet(t[n - 1]) THEN Append(t[n - 1], routing[n])
  ELSE t[n - 1]

Keeps(t, routing, m) ==
  t \in [0 .. m -> Distinct(Selectable)] /\ \A n \in 0 .. m : t[n] = KeepStep(t, routing, n)

\* An entry kept is a specialist not kept before.
LEMMA KeepStepDistinct ==
  ASSUME NEW t, NEW routing, NEW n, n # 0 => t[n - 1] \in Distinct(Selectable)
  PROVE  KeepStep(t, routing, n) \in Distinct(Selectable)
<1>1. CASE n = 0
  BY <1>1 DEF KeepStep, Distinct
<1>2. CASE n # 0
  <2>1. t[n - 1] \in Distinct(Selectable)
    BY <1>2
  <2>2. t[n - 1] \in Seq(Selectable)
    BY <2>1 DEF Distinct
  <2>3. CASE routing[n] \in Selectable \ ToSet(t[n - 1])
    <3>1. \A i \in 1 .. Len(t[n - 1]) : t[n - 1][i] # routing[n]
      BY <2>2, <2>3 DEF ToSet
    <3>2. Append(t[n - 1], routing[n]) \in Distinct(Selectable)
      BY <2>1, <2>3, <3>1, AppendDistinct
    <3> QED BY <1>2, <2>3, <3>2 DEF KeepStep
  <2>4. CASE routing[n] \notin Selectable \ ToSet(t[n - 1])
    BY <1>2, <2>1, <2>4 DEF KeepStep
  <2> QED BY <2>3, <2>4
<1> QED BY <1>1, <1>2

\* The roles can be kept up to any entry.
LEMMA KeepExists ==
  ASSUME NEW routing, Len(routing) \in Nat
  PROVE  \A m \in 0 .. Len(routing) : \E t : Keeps(t, routing, m)
<1> DEFINE T == {m \in 0 .. Len(routing) : ~ \E t : Keeps(t, routing, m)}
<1>1. SUFFICES ASSUME T # {} PROVE FALSE
  OBVIOUS
<1>2. PICK m \in T : \A k \in T : m <= k
  <2>1. T \in SUBSET Nat
    OBVIOUS
  <2> HIDE DEF T
  <2> QED BY <1>1, <2>1, LeastNatural
<1>3. m \in 0 .. Len(routing) /\ ~ \E t : Keeps(t, routing, m)
  BY <1>2
<1>4. CASE m = 0
  <2> DEFINE t == [n \in 0 .. 0 |-> <<>>]
  <2>1. <<>> \in Distinct(Selectable)
    BY DEF Distinct
  <2>2. t \in [0 .. 0 -> Distinct(Selectable)] /\ \A n \in 0 .. 0 : n = 0 /\ t[n] = <<>>
    BY <2>1
  <2> HIDE DEF t
  <2>3. Keeps(t, routing, 0)
    BY <2>2 DEF Keeps, KeepStep
  <2> QED BY <1>3, <1>4, <2>3
<1>5. CASE m # 0
  <2>1. m - 1 \in 0 .. Len(routing) /\ m \in Nat /\ m - 1 \in Nat
    BY <1>3, <1>5
  <2>2. m - 1 \notin T
    BY <1>2, <2>1
  <2>3. PICK t : Keeps(t, routing, m - 1)
    BY <2>1, <2>2
  <2> DEFINE next == KeepStep(t, routing, m)
             u    == [n \in 0 .. m |-> IF n = m THEN next ELSE t[n]]
  <2>4. next \in Distinct(Selectable)
    <3>1. t[m - 1] \in Distinct(Selectable)
      BY <2>1, <2>3 DEF Keeps
    <3> QED BY <3>1, KeepStepDistinct
  <2>5. \A n \in 0 .. m : n # m => n \in 0 .. m - 1
    BY <2>1
  <2> HIDE DEF next
  <2>6. u \in [0 .. m -> Distinct(Selectable)]
    BY <2>3, <2>4, <2>5 DEF Keeps
  <2>7. /\ u[m] = next
        /\ \A n \in 0 .. m : n # m => u[n] = t[n]
    BY <2>1
  <2> HIDE DEF u
  <2>8. ASSUME NEW n \in 0 .. m PROVE u[n] = KeepStep(u, routing, n)
    <3>1. n # 0 => n - 1 \in 0 .. m /\ n - 1 # m
      BY <2>1
    <3>2. KeepStep(u, routing, n) = KeepStep(t, routing, n)
      BY <2>7, <3>1 DEF KeepStep
    <3>3. n # m => t[n] = KeepStep(t, routing, n)
      BY <2>3, <2>5 DEF Keeps
    <3> QED BY <2>7, <3>2, <3>3 DEF next
  <2>9. Keeps(u, routing, m)
    BY <2>6, <2>8 DEF Keeps
  <2> QED BY <1>3, <2>9
<1> QED BY <1>4, <1>5

\* The roles selected are distinct specialists, the auditor not among them.
LEMMA SelectedDistinct ==
  ASSUME NEW routing, Len(routing) \in Nat
  PROVE  SelectedRoles(routing) \in Distinct(Selectable)
<1> DEFINE L == Len(routing)
           Body(t) == [n \in 0 .. L |->
                         IF n = 0 THEN <<>>
                         ELSE IF routing[n] \in Selectable \ ToSet(t[n - 1]) THEN Append(t[n - 1], routing[n])
                         ELSE t[n - 1]]
           g == CHOOSE t : t = Body(t)
<1>1. SelectedRoles(routing) = g[L]
  BY DEF SelectedRoles
<1>2. PICK t : Keeps(t, routing, L)
  BY KeepExists
<1>3. t = Body(t)
  BY <1>2 DEF Keeps, KeepStep
<1>4. g = Body(g)
  BY <1>3
<1> HIDE DEF g
<1>5. \A n \in 0 .. L : g[n] = KeepStep(g, routing, n)
  BY <1>4 DEF KeepStep
<1> DEFINE D == {n \in 0 .. L : g[n] \notin Distinct(Selectable)}
<1>6. D = {}
  <2>1. SUFFICES ASSUME D # {} PROVE FALSE
    OBVIOUS
  <2>2. PICK m \in D : \A k \in D : m <= k
    <3>1. D \in SUBSET Nat
      OBVIOUS
    <3> HIDE DEF D
    <3> QED BY <2>1, <3>1, LeastNatural
  <2>3. m \in 0 .. L /\ g[m] \notin Distinct(Selectable)
    BY <2>2
  <2>4. m # 0 => m - 1 \in 0 .. L /\ m - 1 \notin D
    BY <2>2, <2>3
  <2>5. m # 0 => g[m - 1] \in Distinct(Selectable)
    BY <2>4
  <2>6. KeepStep(g, routing, m) \in Distinct(Selectable)
    BY <2>5, KeepStepDistinct
  <2> QED BY <1>5, <2>3, <2>6
<1>7. g[L] \in Distinct(Selectable)
  BY <1>6
<1> QED BY <1>1, <1>7

-----------------------------------------------------------------------------
\* The roles a run asks: the chain and the selection are sequences of
\* specialists, and neither is empty.
LEMMA SelectionTyped ==
  ASSUME NEW routing \in Routings, RoutingAccepted(routing)
  PROVE  /\ SelectedRoles(routing) \in Distinct(Selectable)
         /\ Len(SelectedRoles(routing)) \in Nat \ {0}
         /\ Append(SelectedRoles(routing), "EvidenceAuditor") \in Seq(Specialists)
         /\ Append(SelectedRoles(routing), "EvidenceAuditor") # <<>>
<1> DEFINE s == SelectedRoles(routing)
<1>1. Len(routing) \in Nat
  BY RoutingsAssumption
<1>2. s \in Distinct(Selectable) /\ s # <<>>
  BY <1>1, SelectedDistinct DEF RoutingAccepted
<1> HIDE DEF s
<1>3. s \in Seq(Selectable)
  BY <1>2 DEF Distinct
<1>4. Len(s) \in Nat \ {0}
  BY <1>2, <1>3
<1>5. s \in Seq(Specialists)
  BY <1>3 DEF Selectable
<1>6. "EvidenceAuditor" \in Specialists
  BY DEF Specialists
<1>7. Append(s, "EvidenceAuditor") \in Seq(Specialists) /\ Append(s, "EvidenceAuditor") # <<>>
  BY <1>5, <1>6
<1> QED BY <1>2, <1>4, <1>7 DEF s


\* The final answer ends the run, evaluated or failed.
LEMMA FinalRunInv == RunInv /\ CallInv /\ ReceiveFinal => RunInv'
<1> SUFFICES ASSUME RunInv, CallInv, ReceiveFinal PROVE RunInv'
  OBVIOUS
<1>1. call \in Calls
  BY DEF CallInv, CallTypeOK
<1>2. /\ step \in {"generalist", "planning"} /\ Returned /\ step' = "over"
      /\ UNCHANGED <<variant, controls, todo, late, published>>
  BY DEF ReceiveFinal
<1>3. PICK usage \in UsagesOf(call.result), evaluable \in BOOLEAN :
        run' = [WithResult(NextRole, usage) EXCEPT !.evaluated = evaluable,
                                                   !.failed = @ \/ ~evaluable]
  BY DEF ReceiveFinal
<1> DEFINE r == WithResult(NextRole, usage)
           bad == r.failed \/ ~evaluable
<1>4. NextRole \in FinalRoles /\ NextRole \in AgentRoles
  BY <1>2 DEF NextRole, FinalRoles, AgentRoles
<1>5. usage \in Charges
  BY <1>3, UsageTyped
<1>6. /\ run.stopped = "none" /\ ~run.evaluated /\ run \in Runs /\ controls \in Controls
      /\ Books(controls, late, run) /\ Len(run.invocations) < controls.count
  BY <1>2, ReturnedFacts
<1>7. /\ r \in Runs
      /\ r.invocations = Append(run.invocations, [role |-> NextRole, status |-> call.result.status])
  BY <1>1, <1>4, <1>5, <1>6, ResultFacts
<1>8. Books(controls, late, r)
  BY <1>1, <1>4, <1>5, <1>6, ResultBooks
<1> HIDE DEF r
<1>9. run' = [r EXCEPT !.evaluated = evaluable, !.failed = bad]
  BY <1>3, <1>7 DEF Runs, r
<1>10. bad \in BOOLEAN /\ (r.failed => bad)
  OBVIOUS
<1> HIDE DEF bad
<1>11. /\ run' \in Runs
       /\ run'.invocations = r.invocations /\ run'.tokens = r.tokens
       /\ run'.stopped = r.stopped /\ run'.failed = bad
  BY <1>7, <1>9, <1>10 DEF Runs
<1>12. Books(controls, late, run')
  BY <1>8, <1>10, <1>11, BooksKept
<1>13. Answers(run')
  <2>1. run.invocations \in Seq(Invocations)
    BY <1>6 DEF Runs
  <2>2. run'.invocations # <<>> /\ Last(run'.invocations) = [role |-> NextRole, status |-> call.result.status]
    BY <1>7, <1>11, <2>1 DEF Last
  <2> QED BY <1>4, <2>2 DEF Answers
<1>14. todo' \in Seq(Specialists)
  BY <1>2 DEF RunInv, RunType
<1> QED BY <1>2, <1>11, <1>12, <1>13, <1>14, ReceivedRunInv

\* A routing is followed by the specialists it selects and the auditor, or ends
\* the run.
LEMMA RoutingRunInv == RunInv /\ CallInv /\ ReceiveRouting => RunInv'
<1> SUFFICES ASSUME RunInv, CallInv, ReceiveRouting PROVE RunInv'
  OBVIOUS
<1>1. call \in Calls
  BY DEF CallInv, CallTypeOK
<1>2. step = "director" /\ Returned /\ UNCHANGED <<variant, controls, late, published>>
  BY DEF ReceiveRouting
<1>3. PICK usage \in UsagesOf(call.result) :
        \/ run' = WithResult("DirectorAgent", usage) /\ step' = "over" /\ UNCHANGED todo
        \/ \E routing \in Routings :
             /\ RoutingAccepted(routing)
             /\ run' = WithResult("DirectorAgent", usage)
             /\ todo' = Append(SelectedRoles(routing), "EvidenceAuditor")
             /\ step' = "specialists"
        \/ /\ run' = [WithResult("DirectorAgent", usage) EXCEPT !.failed = TRUE]
           /\ step' = "over" /\ UNCHANGED todo
  BY DEF ReceiveRouting
<1> DEFINE r == WithResult("DirectorAgent", usage)
<1>4. "DirectorAgent" \in AgentRoles
  BY DEF AgentRoles
<1>5. usage \in Charges
  BY <1>3, UsageTyped
<1>6. /\ run.stopped = "none" /\ ~run.evaluated /\ run \in Runs /\ controls \in Controls
      /\ Books(controls, late, run) /\ Len(run.invocations) < controls.count
  BY <1>2, ReturnedFacts
<1>7. r \in Runs /\ ~r.evaluated
  BY <1>1, <1>4, <1>5, <1>6, ResultFacts
<1>8. Books(controls, late, r)
  BY <1>1, <1>4, <1>5, <1>6, ResultBooks
<1>9. todo \in Seq(Specialists)
  BY DEF RunInv, RunType
<1> HIDE DEF r
<1>10. CASE run' = r /\ step' = "over" /\ UNCHANGED todo
  BY <1>2, <1>7, <1>8, <1>9, <1>10, ReceivedRunInv
<1>11. ASSUME NEW routing \in Routings, RoutingAccepted(routing), run' = r,
              todo' = Append(SelectedRoles(routing), "EvidenceAuditor"), step' = "specialists"
       PROVE  RunInv'
  <2>1. todo' \in Seq(Specialists) /\ todo' # <<>>
    BY <1>11, SelectionTyped
  <2> QED BY <1>2, <1>7, <1>8, <1>11, <2>1, ReceivedRunInv
<1>12. CASE run' = [r EXCEPT !.failed = TRUE] /\ step' = "over" /\ UNCHANGED todo
  <2>1. /\ run' \in Runs
        /\ run'.invocations = r.invocations /\ run'.tokens = r.tokens
        /\ run'.stopped = r.stopped /\ run'.failed = TRUE /\ run'.evaluated = r.evaluated
    BY <1>7, <1>12 DEF Runs
  <2>2. Books(controls, late, run')
    BY <1>8, <2>1, BooksKept
  <2> QED BY <1>2, <1>7, <1>9, <1>12, <2>1, <2>2, ReceivedRunInv
<1> QED BY <1>3, <1>10, <1>11, <1>12 DEF r

(* What the validation of a finding records.                               *)
Checking(r, sound, overruled) ==
  [r EXCEPT !.checks = Append(@, [role |-> NextRole, sound |-> sound]),
            !.overruled = @ \cup overruled]

\* The verdict is added to the earlier ones.
LEMMA CheckingFacts ==
  ASSUME NEW r \in Runs, NEW sound \in BOOLEAN, NEW overruled \in SUBSET Selectable,
         NextRole \in Specialists
  PROVE  LET s == Checking(r, sound, overruled)
         IN  /\ s \in Runs
             /\ s.invocations = r.invocations /\ s.tokens = r.tokens
             /\ s.checks = Append(r.checks, [role |-> NextRole, sound |-> sound])
             /\ s.handoffs = r.handoffs /\ s.arbitration = r.arbitration
             /\ s.evaluated = r.evaluated /\ s.stopped = r.stopped /\ s.failed = r.failed
<1> DEFINE check == [role |-> NextRole, sound |-> sound]
           all == Append(r.checks, check)
           both == r.overruled \cup overruled
<1>1. all \in Seq([role : Specialists, sound : BOOLEAN]) /\ both \in SUBSET Selectable
  BY DEF Runs
<1>2. Checking(r, sound, overruled) = [r EXCEPT !.checks = all, !.overruled = both]
  BY DEF Checking, Runs
<1> HIDE DEF all, both
<1>3. /\ Checking(r, sound, overruled) \in Runs
      /\ Checking(r, sound, overruled).invocations = r.invocations
      /\ Checking(r, sound, overruled).tokens = r.tokens
      /\ Checking(r, sound, overruled).checks = all
      /\ Checking(r, sound, overruled).handoffs = r.handoffs
      /\ Checking(r, sound, overruled).arbitration = r.arbitration
      /\ Checking(r, sound, overruled).evaluated = r.evaluated
      /\ Checking(r, sound, overruled).stopped = r.stopped
      /\ Checking(r, sound, overruled).failed = r.failed
  BY <1>1, <1>2 DEF Runs
<1> QED BY <1>3 DEF all

\* A finding is validated and the next specialist asked, or the run is over.
LEMMA FindingRunInv == RunInv /\ CallInv /\ ReceiveFinding => RunInv'
<1> SUFFICES ASSUME RunInv, CallInv, ReceiveFinding PROVE RunInv'
  OBVIOUS
<1>1. call \in Calls
  BY DEF CallInv, CallTypeOK
<1>2. /\ step = "specialists" /\ Returned /\ UNCHANGED <<variant, controls, late, published>>
      /\ todo' = Tail(todo)
      /\ step' = IF Halted(run') THEN "over" ELSE IF todo' = <<>> THEN "synthesis" ELSE step
  BY DEF ReceiveFinding
<1>3. PICK usage \in UsagesOf(call.result), sound \in BOOLEAN, overruled \in SUBSET Selectable :
        run' = Checking(WithResult(NextRole, usage), sound, overruled)
  BY DEF ReceiveFinding, Checking
<1> DEFINE r == WithResult(NextRole, usage)
<1>4. todo \in Seq(Specialists) /\ todo # <<>>
  BY <1>2 DEF RunInv, RunType
<1>5. NextRole = Head(todo)
  BY <1>2 DEF NextRole
<1>6. NextRole \in Specialists /\ NextRole \in AgentRoles /\ Tail(todo) \in Seq(Specialists)
  BY <1>4, <1>5 DEF AgentRoles
<1>7. usage \in Charges
  BY <1>3, UsageTyped
<1>8. /\ run.stopped = "none" /\ ~run.evaluated /\ run \in Runs /\ controls \in Controls
      /\ Books(controls, late, run) /\ Len(run.invocations) < controls.count
  BY <1>2, ReturnedFacts
<1>9. r \in Runs /\ ~r.evaluated
  BY <1>1, <1>6, <1>7, <1>8, ResultFacts
<1>10. Books(controls, late, r)
  BY <1>1, <1>6, <1>7, <1>8, ResultBooks
<1> HIDE DEF r
<1>11. /\ run' \in Runs
       /\ run'.invocations = r.invocations /\ run'.tokens = r.tokens
       /\ run'.stopped = r.stopped /\ run'.failed = r.failed /\ run'.evaluated = r.evaluated
  BY <1>3, <1>6, <1>9, CheckingFacts DEF r
<1>12. Books(controls, late, run')
  BY <1>10, <1>11, BooksKept
<1>13. step' \in {"over", "specialists", "synthesis", "planning"} /\ (step' = "specialists" => todo' # <<>>)
  BY <1>2
<1> QED BY <1>2, <1>6, <1>9, <1>11, <1>12, <1>13, ReceivedRunInv

\* An arbitration is followed by the planner's handoff, or ends the run.
LEMMA ArbitrationRunInv == RunInv /\ CallInv /\ ReceiveArbitration => RunInv'
<1> SUFFICES ASSUME RunInv, CallInv, ReceiveArbitration PROVE RunInv'
  OBVIOUS
<1>1. call \in Calls
  BY DEF CallInv, CallTypeOK
<1>2. /\ step = "arbitration" /\ Returned
      /\ UNCHANGED <<variant, controls, todo, late, published>>
  BY DEF ReceiveArbitration
<1>3. PICK usage \in UsagesOf(call.result) :
        LET next == WithResult("ArbiterAgent", usage)
        IN  \/ run' = next /\ step' = "over"
            \/ run' = HandedTo(next, "RecoveryPlanner") /\ step' = "planning"
  BY DEF ReceiveArbitration
<1> DEFINE r == WithResult("ArbiterAgent", usage)
<1>4. "ArbiterAgent" \in AgentRoles /\ "RecoveryPlanner" \in AgentRoles
  BY DEF AgentRoles, FinalRoles
<1>5. usage \in Charges
  BY <1>3, UsageTyped
<1>6. /\ run.stopped = "none" /\ ~run.evaluated /\ run \in Runs /\ controls \in Controls
      /\ Books(controls, late, run) /\ Len(run.invocations) < controls.count
  BY <1>2, ReturnedFacts
<1>7. r \in Runs /\ ~r.evaluated
  BY <1>1, <1>4, <1>5, <1>6, ResultFacts
<1>8. Books(controls, late, r)
  BY <1>1, <1>4, <1>5, <1>6, ResultBooks
<1>9. todo' \in Seq(Specialists)
  BY <1>2 DEF RunInv, RunType
<1>10. (run' = r /\ step' = "over") \/ (run' = HandedTo(r, "RecoveryPlanner") /\ step' = "planning")
  BY <1>3
<1> HIDE DEF r
<1>11. CASE run' = r /\ step' = "over"
  BY <1>2, <1>7, <1>8, <1>9, <1>11, ReceivedRunInv
<1>12. CASE run' = HandedTo(r, "RecoveryPlanner") /\ step' = "planning"
  <2>1. /\ run' \in Runs
        /\ run'.invocations = r.invocations /\ run'.tokens = r.tokens
        /\ run'.stopped = r.stopped /\ run'.failed = r.failed /\ run'.evaluated = r.evaluated
    BY <1>4, <1>7, <1>12, HandedToFacts
  <2>2. Books(controls, late, run')
    BY <1>8, <2>1, BooksKept
  <2> QED BY <1>2, <1>7, <1>9, <1>12, <2>1, <2>2, ReceivedRunInv
<1> QED BY <1>10, <1>11, <1>12

\* Every step of a run keeps its books.
LEMMA RunInvariant == Spec => [](RunInv /\ CallInv)
<1>1. RunInv /\ CallInv /\ [Next]_vars => RunInv'
  <2> SUFFICES ASSUME RunInv, CallInv, [Next]_vars PROVE RunInv'
    OBVIOUS
  <2>1. CASE UNCHANGED vars
    BY <2>1 DEF vars, runVars, RunInv, RunType, Called, EvaluatedLast, Told, Asking, Halted
  <2>2. CASE Next
    BY <2>2, StartRunInv, ServeRunInv, RefuseRunInv, CrashRunInv, PublishRunInv, TimeRunInv,
       SynthesisRunInv, FinalRunInv, RoutingRunInv, FindingRunInv, ArbitrationRunInv
       DEF Next, Proceed
  <2> QED BY <2>1, <2>2
<1> QED BY <1>1, InitRunInv, RunCallInvariant, PTL DEF Spec

-----------------------------------------------------------------------------
\* Whatever limits are hit and whatever fails, a halted run makes no contact.
THEOREM NoContactWhenHalted == Spec => []NoContactAfterStop
<1>1. RunInv => NoContactAfterStop
  BY DEF RunInv, Called, NoContactAfterStop
<1> QED BY <1>1, RunInvariant, PTL

\* The limits and the two other ways to stop.
LEMMA StopsNamed == ToSet(LimitOrder) \cup {"none", "max_invocation_count"} = Stops
<1>1. /\ DOMAIN LimitOrder = 1 .. 5
      /\ LimitOrder[1] = "stop_after_invocation"
      /\ LimitOrder[2] = "max_total_input_tokens"
      /\ LimitOrder[3] = "max_total_output_tokens"
      /\ LimitOrder[4] = "max_elapsed_seconds"
      /\ LimitOrder[5] = "max_retries_per_invocation"
  BY DEF LimitOrder
<1>2. ToSet(LimitOrder) = {LimitOrder[1], LimitOrder[2], LimitOrder[3], LimitOrder[4], LimitOrder[5]}
  <2>1. 1 .. 5 = {1, 2, 3, 4, 5}
    OBVIOUS
  <2> QED BY <1>1, <2>1 DEF ToSet
<1> QED BY <1>1, <1>2 DEF Stops

\* The summary of a run is a summary.
LEMMA SummaryTyped ==
  ASSUME NEW r \in Runs, NEW passed \in BOOLEAN
  PROVE  SummaryOf(r, passed) \in Summaries
<1>1. Status(r) \in {"completed", "incomplete", "failed"}
  BY DEF Status
<1>2. Completed(r) \in BOOLEAN /\ Executed(r) \in BOOLEAN /\ (Completed(r) /\ passed) \in BOOLEAN
  BY DEF Completed, Executed
<1>3. r.stopped \in ToSet(LimitOrder) \cup {"none", "max_invocation_count"}
  BY StopsNamed DEF Runs
<1> QED BY <1>1, <1>2, <1>3 DEF SummaryOf, Summaries

\* A live run keeps its types, and makes no more invocations than its count
\* allows, whatever the variant, the limits, the charges and the answers are.
THEOREM RunTypeOK == Spec => []TypeOK
<1>1. RunInv /\ CallInv => TypeOK
  <2> SUFFICES ASSUME RunInv, CallInv PROVE TypeOK
    OBVIOUS
  <2>1. RunType /\ Told /\ run \in Runs /\ Len(run.invocations) <= controls.count
    BY DEF RunInv, RunType, Books
  <2>2. CallTypeOK
    BY DEF CallInv
  <2>3. run.stopped \in ToSet(LimitOrder) \cup {"none", "max_invocation_count"}
    BY <2>1, StopsNamed DEF Runs
  <2>4. published = Unpublished \/ published \in Summaries
    BY <2>1, SummaryTyped DEF Told
  <2>5. /\ run.invocations \in Seq([role : AgentRoles, status : FinishStatus])
        /\ run.checks \in Seq([role : Specialists, sound : BOOLEAN])
        /\ run.overruled \subseteq Selectable
        /\ run.handoffs \in Seq([target : AgentRoles, findings : SUBSET Specialists])
        /\ run.arbitration \in Seq(BOOLEAN)
        /\ run.tokens.input \in Nat /\ run.tokens.output \in Nat
    BY <2>1 DEF Runs, Invocations
  <2> QED BY <2>1, <2>2, <2>3, <2>4, <2>5 DEF TypeOK, RunType, Ended
<1> QED BY <1>1, RunInvariant, PTL

\* When an invocation begins, every result before it completed and no limit is
\* exceeded: only the last invocation of a run can break one.
THEOREM OnlyLastOvershoots == Spec => []OvershootByOneAtMost
<1>1. RunInv => OvershootByOneAtMost
  <2> SUFFICES ASSUME RunInv, call.phase # "idle"
               PROVE  /\ AllCompleted(run)
                      /\ \A limit \in {"stop_after_invocation", "max_total_input_tokens",
                                       "max_total_output_tokens", "max_invocation_count"} :
                           ~Exceeded(limit, run, 0)
    BY DEF OvershootByOneAtMost, AllCompleted
  <2>1. run.stopped = "none" /\ ~run.failed /\ Len(run.invocations) < controls.count
    BY DEF RunInv, Called, Halted
  <2>2. AllCompleted(run) /\ Within(controls, run) /\ run \in Runs /\ controls \in Controls
    BY <2>1 DEF RunInv, RunType, Books
  <2>3. /\ Len(run.invocations) \in Nat /\ run.tokens.input \in Nat /\ run.tokens.output \in Nat
        /\ controls.stopAfter \subseteq Nat \ {0} /\ controls.count \in Nat
        /\ controls.input \subseteq Nat /\ controls.output \subseteq Nat
    BY <2>2, LimitNumbers DEF Runs
  <2>4. /\ ~Exceeded("stop_after_invocation", run, 0)
        /\ ~Exceeded("max_total_input_tokens", run, 0)
        /\ ~Exceeded("max_total_output_tokens", run, 0)
        /\ ~Exceeded("max_invocation_count", run, 0)
    BY <2>1, <2>2, <2>3 DEF Within, Exceeded, Exceeds
  <2> QED BY <2>2, <2>4
<1> QED BY <1>1, RunInvariant, PTL

\* A run is called completed only when it ended with a final answer, all of its
\* results completed and none of its limits was exceeded.
LEMMA CompletedIsHonest ==
  ASSUME RunInv, NEW passed \in BOOLEAN, published = SummaryOf(run, passed)
  PROVE  CompletionHonest
<1> SUFFICES ASSUME published.completed \/ published.usable
             PROVE  /\ published.completed /\ published.executed /\ published.status = "completed"
                    /\ Last(run.invocations).role \in FinalRoles
                    /\ AllCompleted(run)
                    /\ ~AnyExceeded
  BY DEF CompletionHonest, AllCompleted
<1>1. Completed(run)
  BY DEF SummaryOf
<1>2. run.evaluated /\ run.stopped = "none" /\ ~run.failed
  BY <1>1 DEF Completed
<1>3. Answers(run) /\ AllCompleted(run) /\ Within(controls, run) /\ run \in Runs /\ controls \in Controls
  BY <1>2 DEF RunInv, RunType, EvaluatedLast, Books
<1>4. Executed(run)
  BY <1>2, <1>3 DEF Executed, Answers, AllCompleted
<1>5. Status(run) = "completed"
  BY <1>1, <1>2 DEF Status
<1>6. ~AnyExceeded
  <2>1. /\ Len(run.invocations) \in Nat /\ run.tokens.input \in Nat /\ run.tokens.output \in Nat
        /\ controls.stopAfter \subseteq Nat \ {0}
        /\ controls.input \subseteq Nat /\ controls.output \subseteq Nat
    BY <1>3, LimitNumbers DEF Runs
  <2> QED BY <1>3, <2>1 DEF AnyExceeded, Within, Exceeded, Exceeds
<1> QED BY <1>1, <1>3, <1>4, <1>5, <1>6 DEF SummaryOf, Answers

\* The limit on record was exceeded, and a run within none is on record as such.
LEMMA LimitIsHonest ==
  ASSUME RunInv, NEW passed \in BOOLEAN, published = SummaryOf(run, passed)
  PROVE  LimitHonest
<1>1. published.stopped = run.stopped /\ published.status = Status(run)
  BY DEF SummaryOf
<1>2. /\ run \in Runs /\ controls \in Controls /\ Founded(controls, late, run)
      /\ run.stopped = "none" => Within(controls, run)
  BY DEF RunInv, RunType, Books
<1>3. /\ Len(run.invocations) \in Nat /\ run.tokens.input \in Nat /\ run.tokens.output \in Nat
      /\ controls.stopAfter \subseteq Nat \ {0}
      /\ controls.input \subseteq Nat /\ controls.output \subseteq Nat
  BY <1>2, LimitNumbers DEF Runs
<1>4. run.stopped \notin {"none", "max_retries_per_invocation"} => Exceeded(run.stopped, run, 0)
  <2>1. run.stopped \in Stops
    BY <1>2 DEF Runs
  <2> QED BY <1>2, <2>1 DEF Stops, Founded, Exceeded, Exceeds
<1>5. run.stopped # "none" => Status(run) = "incomplete"
  BY DEF Status, Completed
<1>6. AnyExceeded => run.stopped # "none"
  <2> SUFFICES ASSUME run.stopped = "none" PROVE ~AnyExceeded
    OBVIOUS
  <2>1. Within(controls, run)
    BY <1>2
  <2> QED BY <1>3, <2>1 DEF AnyExceeded, Within, Exceeded, Exceeds
<1> QED BY <1>1, <1>4, <1>5, <1>6 DEF LimitHonest

\* The summary published with the artifacts is honest about completion and
\* about the limits.
THEOREM SummaryIsHonest == Spec => []SummaryHonest
<1>1. RunInv => SummaryHonest
  <2> SUFFICES ASSUME RunInv, published # Unpublished PROVE CompletionHonest /\ LimitHonest
    BY DEF SummaryHonest
  <2>1. PICK passed \in BOOLEAN : published = SummaryOf(run, passed)
    BY DEF RunInv, Told
  <2> QED BY <2>1, CompletedIsHonest, LimitIsHonest
<1> QED BY <1>1, RunInvariant, PTL

-----------------------------------------------------------------------------
(* PlannerGrounded is about the last agent of a run, so what it says has   *)
(* to be carried from the first: which invocation each verdict is of,      *)
(* whom the run still has to ask, and how it came to the planner.          *)

Offset(v) == IF v = "dynamic_expert_council" THEN 1 ELSE 0

(* After the Director's, one invocation for each verdict, in their order.  *)
Aligned(o, r) ==
  /\ Len(r.invocations) >= o + Len(r.checks)
  /\ \A i \in 1 .. o : r.invocations[i].role = "DirectorAgent"
  /\ \A i \in 1 .. Len(r.checks) : r.invocations[o + i].role = r.checks[i].role

(* Nobody is asked twice.                                                  *)
OnceEach(t, r) ==
  /\ \A i, j \in 1 .. Len(r.checks) : r.checks[i].role = r.checks[j].role => i = j
  /\ t \in Distinct(Specialists)
  /\ \A i \in 1 .. Len(r.checks) : \A j \in 1 .. Len(t) : r.checks[i].role # t[j]

RolesChecked(r) == {r.checks[i].role : i \in 1 .. Len(r.checks)}

(* The auditor and somebody to audit have been asked or still will be.     *)
Staffed(t, r) ==
  /\ "EvidenceAuditor" \in ToSet(t) \cup RolesChecked(r)
  /\ \E role \in Selectable : role \in ToSet(t) \cup RolesChecked(r)

Gathered(o, t, r) == Aligned(o, r) /\ OnceEach(t, r) /\ Staffed(t, r)

Arbitrated(o, r) ==
  \/ Len(r.invocations) = o + Len(r.checks) /\ r.arbitration \in {<<>>, <<FALSE>>}
  \/ /\ Len(r.invocations) = o + Len(r.checks) + 1
     /\ r.invocations[o + Len(r.checks) + 1].role = "ArbiterAgent"
     /\ r.arbitration = <<TRUE>>

Handed(r) ==
  /\ r.handoffs # <<>>
  /\ Last(r.handoffs) = [target |-> "RecoveryPlanner", findings |-> Eligible(r)]

Ground(v, s, t, r) ==
  /\ s = "director" => v = "dynamic_expert_council" /\ r = NewRun
  /\ s \in {"specialists", "synthesis", "arbitration"} =>
       Gathered(Offset(v), t, r) /\ Len(r.invocations) = Offset(v) + Len(r.checks)
  /\ s \in {"specialists", "synthesis"} => r.arbitration = <<>>
  /\ s \in {"synthesis", "arbitration", "planning"} => t = <<>>
  /\ s = "arbitration" => r.arbitration = <<TRUE>>
  /\ s = "planning" => Gathered(Offset(v), t, r) /\ Arbitrated(Offset(v), r) /\ Handed(r)

GroundInv == Ground(variant, step, todo, run)

\* What a run has gathered depends on its invocations and verdicts alone, and a
\* further invocation takes nothing away.
LEMMA GatheredKept ==
  ASSUME NEW o \in {0, 1}, NEW t, NEW r \in Runs, NEW s \in Runs, Gathered(o, t, r),
         s.checks = r.checks,
         s.invocations = r.invocations \/ \E e \in Invocations : s.invocations = Append(r.invocations, e)
  PROVE  Gathered(o, t, s)
<1>1. r.invocations \in Seq(Invocations) /\ Len(r.invocations) \in Nat /\ Len(r.checks) \in Nat
  BY DEF Runs
<1>2. /\ Len(s.invocations) >= Len(r.invocations) /\ Len(s.invocations) \in Nat
      /\ \A i \in 1 .. Len(r.invocations) : s.invocations[i] = r.invocations[i]
  BY <1>1
<1>3. \A i \in 1 .. o : i \in 1 .. Len(r.invocations)
  BY <1>1 DEF Gathered, Aligned
<1>4. \A i \in 1 .. Len(r.checks) : o + i \in 1 .. Len(r.invocations)
  BY <1>1 DEF Gathered, Aligned
<1>5. Aligned(o, s)
  <2>1. /\ Len(r.invocations) >= o + Len(r.checks)
        /\ \A i \in 1 .. o : r.invocations[i].role = "DirectorAgent"
        /\ \A i \in 1 .. Len(r.checks) : r.invocations[o + i].role = r.checks[i].role
    BY DEF Gathered, Aligned
  <2>2. Len(s.invocations) >= o + Len(s.checks)
    BY <1>1, <1>2, <2>1
  <2>3. \A i \in 1 .. o : s.invocations[i].role = "DirectorAgent"
    BY <1>2, <1>3, <2>1
  <2>4. \A i \in 1 .. Len(s.checks) : s.invocations[o + i].role = s.checks[i].role
    BY <1>2, <1>4, <2>1
  <2> QED BY <2>2, <2>3, <2>4 DEF Aligned
<1> QED BY <1>5 DEF Gathered, OnceEach, Staffed, RolesChecked

\* Findings are eligible by their verdicts and the auditor's.
LEMMA EligibleKept ==
  ASSUME NEW r, NEW s, s.checks = r.checks, s.overruled = r.overruled
  PROVE  Eligible(s) = Eligible(r)
BY DEF Eligible, Sound

\* The planner gets what is eligible when it is asked.
LEMMA HandedOver ==
  ASSUME NEW r \in Runs
  PROVE  Handed(HandedTo(r, "RecoveryPlanner"))
<1> DEFINE s == HandedTo(r, "RecoveryPlanner")
           handoff == [target |-> "RecoveryPlanner", findings |-> Eligible(r)]
<1>1. "RecoveryPlanner" \in AgentRoles
  BY DEF AgentRoles, FinalRoles
<1>2. s.handoffs = Append(r.handoffs, handoff) /\ s.checks = r.checks /\ s.overruled = r.overruled
  BY <1>1, HandedToFacts
<1> HIDE DEF s
<1>3. Eligible(s) = Eligible(r)
  BY <1>2, EligibleKept
<1>4. r.handoffs \in Seq([target : AgentRoles, findings : SUBSET Specialists])
  BY DEF Runs
<1> HIDE DEF handoff
<1>5. s.handoffs # <<>> /\ Last(s.handoffs) = handoff
  BY <1>2, <1>4 DEF Last
<1> QED BY <1>3, <1>5 DEF Handed, s, handoff

\* A finding moves a specialist from those to ask to those checked.
LEMMA GatheredMoved ==
  ASSUME NEW o \in {0, 1}, NEW t, t # <<>>, NEW r \in Runs, NEW s \in Runs, Gathered(o, t, r),
         Len(r.invocations) = o + Len(r.checks),
         NEW e \in Invocations, e.role = Head(t), s.invocations = Append(r.invocations, e),
         NEW c \in [role : Specialists, sound : BOOLEAN], c.role = Head(t),
         s.checks = Append(r.checks, c)
  PROVE  Gathered(o, Tail(t), s) /\ Len(s.invocations) = o + Len(s.checks)
<1> DEFINE k == Len(r.checks)
           u == Tail(t)
<1>1. /\ r.invocations \in Seq(Invocations)
      /\ r.checks \in Seq([role : Specialists, sound : BOOLEAN]) /\ k \in Nat
  BY DEF Runs
<1>2. t \in Seq(Specialists) /\ \A i, j \in 1 .. Len(t) : t[i] = t[j] => i = j
  BY DEF Gathered, OnceEach, Distinct
<1>3. /\ Len(t) \in Nat \ {0} /\ Head(t) = t[1]
      /\ u \in Seq(Specialists) /\ Len(u) = Len(t) - 1
      /\ \A i \in 1 .. Len(u) : u[i] = t[i + 1]
  BY <1>2
<1>4. /\ Len(s.checks) = k + 1 /\ s.checks[k + 1] = c
      /\ \A i \in 1 .. k : s.checks[i] = r.checks[i]
  BY <1>1
<1>5. /\ Len(s.invocations) = o + k + 1 /\ s.invocations[o + k + 1] = e
      /\ \A i \in 1 .. o + k : s.invocations[i] = r.invocations[i]
  BY <1>1
<1> HIDE DEF u
<1>6. Aligned(o, s)
  <2>1. \A i \in 1 .. o : i \in 1 .. o + k /\ r.invocations[i].role = "DirectorAgent"
    BY <1>1 DEF Gathered, Aligned
  <2>2. \A i \in 1 .. k : o + i \in 1 .. o + k /\ r.invocations[o + i].role = r.checks[i].role
    BY <1>1 DEF Gathered, Aligned
  <2>3. \A i \in 1 .. k + 1 : i \in 1 .. k \/ i = k + 1
    BY <1>1
  <2> HIDE DEF k
  <2>4. o + (k + 1) = o + k + 1
    BY <1>1
  <2>5. \A i \in 1 .. k + 1 : s.invocations[o + i].role = s.checks[i].role
    BY <1>4, <1>5, <2>2, <2>3, <2>4
  <2>6. Len(s.invocations) >= o + Len(s.checks)
    BY <1>1, <1>4, <1>5
  <2> QED BY <1>4, <1>5, <2>1, <2>5, <2>6 DEF Aligned
<1>7. OnceEach(u, s)
  <2>1. \A i \in 1 .. k : \A j \in 1 .. Len(t) : r.checks[i].role # t[j]
    BY DEF Gathered, OnceEach
  <2>2. \A i, j \in 1 .. k : r.checks[i].role = r.checks[j].role => i = j
    BY DEF Gathered, OnceEach
  <2> HIDE DEF k
  <2>3. \A j \in 1 .. Len(u) : j + 1 \in 1 .. Len(t) /\ j + 1 # 1 /\ j \in Nat
    BY <1>3
  <2>4. 1 \in 1 .. Len(t)
    BY <1>3
  <2>5. \A i \in 1 .. k + 1 : i \in 1 .. k \/ i = k + 1
    BY <1>1
  <2>6. u \in Distinct(Specialists)
    <3>1. ASSUME NEW i \in 1 .. Len(u), NEW j \in 1 .. Len(u), u[i] = u[j] PROVE i = j
      <4>1. t[i + 1] = t[j + 1] /\ i + 1 \in 1 .. Len(t) /\ j + 1 \in 1 .. Len(t)
        BY <1>3, <2>3, <3>1
      <4>2. i + 1 = j + 1
        BY <1>2, <4>1
      <4> QED BY <2>3, <4>2
    <3> QED BY <1>3, <3>1 DEF Distinct
  <2>7. \A i \in 1 .. k + 1 : \A j \in 1 .. Len(u) : s.checks[i].role # u[j]
    <3> SUFFICES ASSUME NEW i \in 1 .. k + 1, NEW j \in 1 .. Len(u) PROVE s.checks[i].role # u[j]
      OBVIOUS
    <3>1. u[j] = t[j + 1] /\ j + 1 \in 1 .. Len(t) /\ j + 1 # 1
      BY <1>3, <2>3
    <3>2. CASE i \in 1 .. k
      BY <1>4, <2>1, <3>1, <3>2
    <3>3. CASE i = k + 1
      BY <1>2, <1>3, <1>4, <2>4, <3>1, <3>3
    <3> QED BY <2>5, <3>2, <3>3
  <2>8. ASSUME NEW i \in 1 .. k + 1, NEW j \in 1 .. k + 1, s.checks[i].role = s.checks[j].role PROVE i = j
    <3>1. CASE i \in 1 .. k /\ j \in 1 .. k
      BY <1>4, <2>2, <2>8, <3>1
    <3>2. CASE i \in 1 .. k /\ j = k + 1
      BY <1>3, <1>4, <2>1, <2>4, <2>8, <3>2
    <3>3. CASE i = k + 1 /\ j \in 1 .. k
      BY <1>3, <1>4, <2>1, <2>4, <2>8, <3>3
    <3> QED BY <2>5, <3>1, <3>2, <3>3
  <2> QED BY <1>4, <2>6, <2>7, <2>8 DEF OnceEach
<1>8. ASSUME NEW role \in ToSet(t) \cup RolesChecked(r)
      PROVE  role \in ToSet(u) \cup RolesChecked(s)
  <2> HIDE DEF k
  <2>1. k + 1 \in 1 .. k + 1 /\ \A i \in 1 .. k : i \in 1 .. k + 1
    BY <1>1
  <2>2. CASE role \in RolesChecked(r)
    <3>1. PICK i \in 1 .. k : role = r.checks[i].role
      BY <2>2 DEF RolesChecked, k
    <3> QED BY <1>4, <2>1, <3>1 DEF RolesChecked
  <2>3. CASE role \in ToSet(t)
    <3>1. PICK i \in 1 .. Len(t) : role = t[i]
      BY <1>2, <2>3 DEF ToSet
    <3>2. CASE i = 1
      BY <1>3, <1>4, <2>1, <3>1, <3>2 DEF RolesChecked
    <3>3. CASE i # 1
      <4>1. i - 1 \in 1 .. Len(u) /\ (i - 1) + 1 = i
        BY <1>3, <3>3
      <4>2. role = u[i - 1]
        BY <1>3, <3>1, <4>1
      <4> QED BY <1>3, <4>1, <4>2 DEF ToSet
    <3> QED BY <3>2, <3>3
  <2> QED BY <2>2, <2>3
<1>9. Staffed(u, s)
  BY <1>8 DEF Gathered, Staffed
<1>10. Len(s.invocations) = o + Len(s.checks)
  BY <1>1, <1>4, <1>5
<1> QED BY <1>6, <1>7, <1>9, <1>10 DEF Gathered, u

\* A run that ended has nothing left to ground.
LEMMA EndedGround ==
  ASSUME NEW v, NEW t, NEW r, NEW s \in Ended
  PROVE  Ground(v, s, t, r)
BY DEF Ground, Ended

\* A run begins with the chain, or with the Director and nothing on record.
LEMMA InitGround == Init => GroundInv
<1> SUFFICES ASSUME Init PROVE GroundInv
  OBVIOUS
<1>1. /\ variant \in {"single_generalist", "fixed_expert_chain", "dynamic_expert_council"}
      /\ step = FirstStep(variant) /\ run = NewRun
      /\ todo = IF variant = "fixed_expert_chain" THEN FixedChain ELSE <<>>
  BY VariantsAssumption DEF Init
<1>2. CASE variant = "single_generalist"
  BY <1>1, <1>2 DEF GroundInv, Ground, FirstStep
<1>3. CASE variant = "dynamic_expert_council"
  BY <1>1, <1>3 DEF GroundInv, Ground, FirstStep
<1>4. CASE variant = "fixed_expert_chain"
  <2>1. step = "specialists" /\ todo = FixedChain /\ Offset(variant) = 0
    BY <1>1, <1>4 DEF FirstStep, Offset
  <2>2. run.invocations = <<>> /\ run.checks = <<>> /\ run.arbitration = <<>>
    BY <1>1 DEF NewRun
  <2>3. Aligned(0, run) /\ Len(run.invocations) = 0 + Len(run.checks)
    BY <2>2 DEF Aligned
  <2>4. FixedChain \in Distinct(Specialists)
    BY DEF FixedChain, Distinct, Specialists
  <2>5. OnceEach(FixedChain, run)
    BY <2>2, <2>4 DEF OnceEach
  <2>6. FixedChain[1] = "ScheduleExpert" /\ FixedChain[3] = "EvidenceAuditor" /\ 1 \in DOMAIN FixedChain /\ 3 \in DOMAIN FixedChain
    BY DEF FixedChain
  <2>7. "ScheduleExpert" \in ToSet(FixedChain) /\ "EvidenceAuditor" \in ToSet(FixedChain)
    BY <2>6 DEF ToSet
  <2>8. Staffed(FixedChain, run)
    BY <2>7 DEF Staffed, Selectable, Specialists
  <2> QED BY <2>1, <2>2, <2>3, <2>5, <2>8 DEF GroundInv, Ground, Gathered
<1> QED BY <1>1, <1>2, <1>3, <1>4

\* The Director's answer is the first invocation of a council, and those it
\* selects are followed by the auditor.
LEMMA RoutingGround == RunInv /\ CallInv /\ GroundInv /\ ReceiveRouting => GroundInv'
<1> SUFFICES ASSUME RunInv, CallInv, GroundInv, ReceiveRouting PROVE GroundInv'
  OBVIOUS
<1>1. call \in Calls
  BY DEF CallInv, CallTypeOK
<1>2. step = "director" /\ Returned /\ variant' = variant
  BY DEF ReceiveRouting
<1>3. PICK usage \in UsagesOf(call.result) :
        \/ step' = "over"
        \/ \E routing \in Routings :
             /\ RoutingAccepted(routing)
             /\ run' = WithResult("DirectorAgent", usage)
             /\ todo' = Append(SelectedRoles(routing), "EvidenceAuditor")
             /\ step' = "specialists"
  BY DEF ReceiveRouting
<1>4. CASE step' = "over"
  BY <1>4, EndedGround DEF GroundInv, Ended
<1>5. ASSUME NEW routing \in Routings, RoutingAccepted(routing),
             run' = WithResult("DirectorAgent", usage),
             todo' = Append(SelectedRoles(routing), "EvidenceAuditor"), step' = "specialists"
      PROVE  GroundInv'
  <2> DEFINE t == SelectedRoles(routing)
             a == Append(t, "EvidenceAuditor")
             entry == [role |-> "DirectorAgent", status |-> call.result.status]
  <2>1. variant = "dynamic_expert_council" /\ run = NewRun
    BY <1>2 DEF GroundInv, Ground
  <2>2. /\ run.stopped = "none" /\ run \in Runs /\ controls \in Controls
    BY <1>2, ReturnedFacts
  <2>3. /\ run'.invocations = Append(run.invocations, entry)
        /\ run'.checks = run.checks /\ run'.arbitration = run.arbitration
    BY <1>1, <1>3, <1>5, <2>2, UsageTyped, ResultFacts DEF AgentRoles
  <2>4. run'.invocations = <<entry>> /\ run'.checks = <<>> /\ run'.arbitration = <<>>
    BY <2>1, <2>3 DEF NewRun
  <2>5. Aligned(1, run') /\ Len(run'.invocations) = 1 + Len(run'.checks)
    BY <2>4 DEF Aligned
  <2>6. t \in Distinct(Selectable) /\ Len(t) \in Nat \ {0}
    BY <1>5, SelectionTyped
  <2> HIDE DEF t
  <2>7. t \in Seq(Selectable) /\ \A i, j \in 1 .. Len(t) : t[i] = t[j] => i = j
    BY <2>6 DEF Distinct
  <2>8. \A i \in 1 .. Len(t) : t[i] \in Selectable
    BY <2>7
  <2>9. t \in Distinct(Specialists)
    <3>1. t \in Seq(Specialists)
      BY <2>7 DEF Selectable
    <3> QED BY <2>7, <3>1 DEF Distinct
  <2>10. a \in Distinct(Specialists)
    BY <2>8, <2>9, AppendDistinct DEF Selectable, Specialists
  <2>11. OnceEach(a, run')
    BY <2>4, <2>10 DEF OnceEach
  <2>12. /\ Len(a) = Len(t) + 1 /\ a[Len(t) + 1] = "EvidenceAuditor" /\ a[1] = t[1]
         /\ DOMAIN a = 1 .. Len(t) + 1
    BY <2>6, <2>7
  <2> HIDE DEF a
  <2>13. 1 \in DOMAIN a /\ Len(t) + 1 \in DOMAIN a /\ t[1] \in Selectable
    BY <2>6, <2>8, <2>12
  <2>14. "EvidenceAuditor" \in ToSet(a) /\ t[1] \in ToSet(a)
    BY <2>12, <2>13 DEF ToSet
  <2>15. Staffed(a, run')
    BY <2>13, <2>14 DEF Staffed
  <2>16. todo' = a /\ Offset(variant) = 1
    BY <1>5, <2>1 DEF a, t, Offset
  <2>17. Gathered(1, a, run')
    BY <2>5, <2>11, <2>15 DEF Gathered
  <2> QED BY <1>2, <1>5, <2>4, <2>5, <2>16, <2>17 DEF GroundInv, Ground
<1> QED BY <1>3, <1>4, <1>5

\* A finding is recorded under the invocation it is of.
LEMMA FindingGround == RunInv /\ CallInv /\ GroundInv /\ ReceiveFinding => GroundInv'
<1> SUFFICES ASSUME RunInv, CallInv, GroundInv, ReceiveFinding PROVE GroundInv'
  OBVIOUS
<1>1. call \in Calls
  BY DEF CallInv, CallTypeOK
<1>2. /\ step = "specialists" /\ Returned /\ variant' = variant
      /\ todo' = Tail(todo)
      /\ step' \in {"over", "synthesis", "specialists"}
      /\ step' = "synthesis" => todo' = <<>>
  BY DEF ReceiveFinding
<1>3. PICK usage \in UsagesOf(call.result), sound \in BOOLEAN, overruled \in SUBSET Selectable :
        run' = Checking(WithResult(NextRole, usage), sound, overruled)
  BY DEF ReceiveFinding, Checking
<1> DEFINE r == WithResult(NextRole, usage)
           entry == [role |-> NextRole, status |-> call.result.status]
           check == [role |-> NextRole, sound |-> sound]
<1>4. todo \in Seq(Specialists) /\ todo # <<>>
  BY <1>2 DEF RunInv, RunType
<1>5. NextRole = Head(todo)
  BY <1>2 DEF NextRole
<1>6. NextRole \in Specialists /\ NextRole \in AgentRoles
  BY <1>4, <1>5 DEF AgentRoles
<1>7. run.stopped = "none" /\ run \in Runs /\ controls \in Controls
  BY <1>2, ReturnedFacts
<1>8. /\ r \in Runs /\ r.invocations = Append(run.invocations, entry)
      /\ r.checks = run.checks /\ r.arbitration = run.arbitration
  BY <1>1, <1>3, <1>6, <1>7, UsageTyped, ResultFacts
<1> HIDE DEF r
<1>9. /\ run' \in Runs /\ run'.invocations = r.invocations
      /\ run'.checks = Append(r.checks, check) /\ run'.arbitration = r.arbitration
  BY <1>3, <1>6, <1>8, CheckingFacts DEF r
<1>10. /\ entry \in Invocations /\ entry.role = Head(todo)
       /\ check \in [role : Specialists, sound : BOOLEAN] /\ check.role = Head(todo)
  BY <1>1, <1>5, <1>6 DEF Calls, Results, Invocations
<1> HIDE DEF entry, check
<1>11. /\ Gathered(Offset(variant), todo, run) /\ Len(run.invocations) = Offset(variant) + Len(run.checks)
       /\ run.arbitration = <<>>
  BY <1>2 DEF GroundInv, Ground
<1>12. Offset(variant) \in {0, 1}
  BY DEF Offset
<1>13. run'.invocations = Append(run.invocations, entry) /\ run'.checks = Append(run.checks, check)
  BY <1>8, <1>9
<1>14. /\ Gathered(Offset(variant), Tail(todo), run')
       /\ Len(run'.invocations) = Offset(variant) + Len(run'.checks)
  <2> DEFINE o == Offset(variant)
             s == run'
  <2>1. o \in {0, 1} /\ s \in Runs /\ run \in Runs /\ Gathered(o, todo, run)
    BY <1>7, <1>9, <1>11, <1>12
  <2>2. Len(run.invocations) = o + Len(run.checks)
    BY <1>11
  <2>3. s.invocations = Append(run.invocations, entry) /\ s.checks = Append(run.checks, check)
    BY <1>13
  <2> HIDE DEF o, s
  <2> QED BY <1>4, <1>10, <2>1, <2>2, <2>3, GatheredMoved DEF o, s
<1>15. CASE step' = "over"
  BY <1>15, EndedGround DEF GroundInv, Ended
<1>16. CASE step' # "over"
  BY <1>2, <1>8, <1>9, <1>11, <1>14, <1>16 DEF GroundInv, Ground
<1> QED BY <1>15, <1>16

\* The chain goes straight to the planner, with a handoff of its own.
LEMMA SynthesizeGround == RunInv /\ GroundInv /\ Synthesize => GroundInv'
<1> SUFFICES ASSUME RunInv, GroundInv, Synthesize PROVE GroundInv'
  OBVIOUS
<1>1. /\ step = "synthesis" /\ run' = HandedTo(run, "RecoveryPlanner") /\ step' = "planning"
      /\ UNCHANGED <<variant, todo>>
  BY DEF Synthesize
<1>2. run \in Runs /\ "RecoveryPlanner" \in AgentRoles
  BY DEF RunInv, RunType, AgentRoles, FinalRoles
<1>3. /\ run' \in Runs /\ run'.invocations = run.invocations /\ run'.checks = run.checks
      /\ run'.arbitration = run.arbitration
  BY <1>1, <1>2, HandedToFacts
<1>4. /\ Gathered(Offset(variant), todo, run) /\ Len(run.invocations) = Offset(variant) + Len(run.checks)
      /\ run.arbitration = <<>> /\ todo = <<>>
  BY <1>1 DEF GroundInv, Ground
<1>5. Offset(variant) \in {0, 1}
  BY DEF Offset
<1>6. Gathered(Offset(variant), todo, run')
  BY <1>2, <1>3, <1>4, <1>5, GatheredKept
<1>7. Arbitrated(Offset(variant), run')
  BY <1>3, <1>4 DEF Arbitrated
<1>8. Handed(run')
  BY <1>1, <1>2, HandedOver
<1> QED BY <1>1, <1>4, <1>6, <1>7, <1>8 DEF GroundInv, Ground

\* The council asks the arbiter when findings disagree, else the planner.
LEMMA ArbitrateGround == RunInv /\ GroundInv /\ Arbitrate => GroundInv'
<1> SUFFICES ASSUME RunInv, GroundInv, Arbitrate PROVE GroundInv'
  OBVIOUS
<1>1. step = "synthesis" /\ UNCHANGED <<variant, todo>>
  BY DEF Arbitrate
<1>2. PICK disagree \in BOOLEAN :
        /\ run' = IF disagree THEN Judged(disagree) ELSE HandedTo(Judged(disagree), "RecoveryPlanner")
        /\ step' = IF disagree THEN "arbitration" ELSE "planning"
  BY DEF Arbitrate, Judged
<1>3. run \in Runs /\ "RecoveryPlanner" \in AgentRoles
  BY DEF RunInv, RunType, AgentRoles, FinalRoles
<1> DEFINE j == Judged(disagree)
<1>4. /\ j \in Runs /\ j.invocations = run.invocations /\ j.checks = run.checks
      /\ j.arbitration = Append(run.arbitration, disagree)
  BY <1>3, JudgedFacts
<1> HIDE DEF j
<1>5. /\ Gathered(Offset(variant), todo, run) /\ Len(run.invocations) = Offset(variant) + Len(run.checks)
      /\ run.arbitration = <<>> /\ todo = <<>>
  BY <1>1 DEF GroundInv, Ground
<1>6. Offset(variant) \in {0, 1}
  BY DEF Offset
<1>7. j.arbitration = <<disagree>>
  BY <1>4, <1>5
<1>8. CASE disagree
  <2>1. run' = j /\ step' = "arbitration" /\ j.arbitration = <<TRUE>>
    BY <1>2, <1>7, <1>8 DEF j
  <2>2. Gathered(Offset(variant), todo, run')
    BY <1>3, <1>4, <1>5, <1>6, <2>1, GatheredKept
  <2> QED BY <1>1, <1>4, <1>5, <2>1, <2>2 DEF GroundInv, Ground
<1>9. CASE ~disagree
  <2>1. run' = HandedTo(j, "RecoveryPlanner") /\ step' = "planning" /\ j.arbitration = <<FALSE>>
    BY <1>2, <1>7, <1>9 DEF j
  <2>2. /\ run' \in Runs /\ run'.invocations = j.invocations /\ run'.checks = j.checks
        /\ run'.arbitration = j.arbitration
    BY <1>3, <1>4, <2>1, HandedToFacts
  <2>3. Gathered(Offset(variant), todo, run')
    BY <1>3, <1>4, <1>5, <1>6, <2>2, GatheredKept
  <2>4. Arbitrated(Offset(variant), run')
    BY <1>4, <1>5, <2>1, <2>2 DEF Arbitrated
  <2>5. Handed(run')
    BY <1>4, <2>1, HandedOver
  <2> QED BY <1>1, <1>5, <2>1, <2>3, <2>4, <2>5 DEF GroundInv, Ground
<1> QED BY <1>8, <1>9

\* After the arbiter the planner is asked with what is eligible then.
LEMMA ArbitrationGround == RunInv /\ CallInv /\ GroundInv /\ ReceiveArbitration => GroundInv'
<1> SUFFICES ASSUME RunInv, CallInv, GroundInv, ReceiveArbitration PROVE GroundInv'
  OBVIOUS
<1>1. call \in Calls
  BY DEF CallInv, CallTypeOK
<1>2. step = "arbitration" /\ Returned /\ UNCHANGED <<variant, todo>>
  BY DEF ReceiveArbitration
<1>3. PICK usage \in UsagesOf(call.result) :
        \/ step' = "over"
        \/ run' = HandedTo(WithResult("ArbiterAgent", usage), "RecoveryPlanner") /\ step' = "planning"
  BY DEF ReceiveArbitration
<1> DEFINE r == WithResult("ArbiterAgent", usage)
           entry == [role |-> "ArbiterAgent", status |-> call.result.status]
<1>4. "ArbiterAgent" \in AgentRoles /\ "RecoveryPlanner" \in AgentRoles
  BY DEF AgentRoles, FinalRoles
<1>5. run.stopped = "none" /\ run \in Runs /\ controls \in Controls
  BY <1>2, ReturnedFacts
<1>6. /\ r \in Runs /\ r.invocations = Append(run.invocations, entry)
      /\ r.checks = run.checks /\ r.arbitration = run.arbitration
  BY <1>1, <1>3, <1>4, <1>5, UsageTyped, ResultFacts
<1> HIDE DEF r
<1>7. entry \in Invocations /\ entry.role = "ArbiterAgent"
  BY <1>1, <1>4 DEF Calls, Results, Invocations
<1> HIDE DEF entry
<1>8. /\ Gathered(Offset(variant), todo, run) /\ Len(run.invocations) = Offset(variant) + Len(run.checks)
      /\ run.arbitration = <<TRUE>> /\ todo = <<>>
  BY <1>2 DEF GroundInv, Ground
<1>9. Offset(variant) \in {0, 1}
  BY DEF Offset
<1>10. CASE step' = "over"
  BY <1>10, EndedGround DEF GroundInv, Ended
<1>11. CASE run' = HandedTo(r, "RecoveryPlanner") /\ step' = "planning"
  <2>1. /\ run' \in Runs /\ run'.invocations = Append(run.invocations, entry)
        /\ run'.checks = run.checks /\ run'.arbitration = <<TRUE>>
    BY <1>4, <1>6, <1>8, <1>11, HandedToFacts
  <2>2. Gathered(Offset(variant), todo, run')
    BY <1>5, <1>7, <1>8, <1>9, <2>1, GatheredKept
  <2>3. run.invocations \in Seq(Invocations) /\ Len(run.checks) \in Nat
    BY <1>5 DEF Runs
  <2>4. /\ Len(run'.invocations) = Len(run.invocations) + 1
        /\ run'.invocations[Len(run.invocations) + 1] = entry
    BY <2>1, <2>3
  <2>5. Arbitrated(Offset(variant), run')
    BY <1>7, <1>8, <2>1, <2>4 DEF Arbitrated
  <2>6. Handed(run')
    BY <1>6, <1>11, HandedOver
  <2> QED BY <1>2, <1>8, <1>11, <2>2, <2>5, <2>6 DEF GroundInv, Ground
<1> QED BY <1>3, <1>10, <1>11 DEF r

\* Whatever the run does, it stays grounded.
LEMMA GroundInvariant == Spec => []GroundInv
<1>1. RunInv /\ CallInv /\ GroundInv /\ [Next]_vars => GroundInv'
  <2> SUFFICES ASSUME RunInv, CallInv, GroundInv, [Next]_vars PROVE GroundInv'
    OBVIOUS
  <2>1. CASE UNCHANGED <<variant, step, todo, run>>
    BY <2>1 DEF GroundInv
  <2>2. CASE step' \in Ended
    BY <2>2, EndedGround DEF GroundInv
  <2>3. CASE StartInvocation \/ (Serve /\ UNCHANGED runVars) \/ TimePasses \/ UNCHANGED vars
    BY <2>1, <2>3 DEF StartInvocation, TimePasses, vars, runVars
  <2>4. CASE RefuseInvocation \/ ReceiveFinal \/ Crash \/ Publish
    BY <2>2, <2>4 DEF RefuseInvocation, ReceiveFinal, Crash, Publish, Ended
  <2>5. CASE Next
    BY <2>3, <2>4, <2>5, RoutingGround, FindingGround, SynthesizeGround, ArbitrateGround,
       ArbitrationGround DEF Next, Proceed
  <2> QED BY <2>3, <2>5
<1> QED BY <1>1, InitGround, RunInvariant, PTL DEF Spec

\* An interval has as many elements as it is long.
LEMMA IntervalCounted ==
  ASSUME NEW o \in Nat, NEW n \in Nat
  PROVE  Cardinality(o + 1 .. o + n) = n
<1>1. o + 1 \in Int /\ o + n \in Int
  OBVIOUS
<1>2. Cardinality(o + 1 .. o + n) = IF o + 1 > o + n THEN 0 ELSE (o + n) - (o + 1) + 1
  BY <1>1, FS_Interval
<1> QED BY <1>2

\* A sequence of one has one element.
LEMMA OneInSet == ASSUME NEW e PROVE ToSet(<<e>>) = {e}
<1>1. DOMAIN <<e>> = {1} /\ <<e>>[1] = e
  OBVIOUS
<1> QED BY <1>1 DEF ToSet

\* The planner is asked with the findings that are sound and not overruled, of
\* distinct specialists with the auditor among them, each on record under its
\* own invocation; the arbiter was asked exactly when findings disagreed.
THEOREM PlannerIsGrounded == Spec => []PlannerGrounded
<1>1. RunInv /\ GroundInv => PlannerGrounded
  <2> DEFINE inv == run.invocations
             k == Len(run.checks)
             o == Offset(variant)
             asked == {i \in DOMAIN inv : inv[i].role \in Specialists}
             nth(i) == Cardinality({j \in asked : j <= i})
  <2> SUFFICES ASSUME RunInv, GroundInv, step = "planning"
               PROVE  /\ Last(run.handoffs) = [target |-> "RecoveryPlanner", findings |-> Eligible(run)]
                      /\ Cardinality(asked) = k
                      /\ \A i \in asked : inv[i].role = run.checks[nth(i)].role
                      /\ IsInjective(run.checks)
                      /\ "EvidenceAuditor" \in RolesAsked /\ RolesAsked \cap Selectable # {}
                      /\ ("ArbiterAgent" \in RolesAsked) <=> (TRUE \in ToSet(run.arbitration))
    BY DEF PlannerGrounded
  <2>1. run \in Runs
    BY DEF RunInv, RunType
  <2>2. /\ inv \in Seq(Invocations) /\ Len(inv) \in Nat /\ DOMAIN inv = 1 .. Len(inv)
        /\ run.checks \in Seq([role : Specialists, sound : BOOLEAN]) /\ k \in Nat
        /\ DOMAIN run.checks = 1 .. k
    BY <2>1 DEF Runs
  <2>3. o \in {0, 1}
    BY DEF Offset
  <2>4. Gathered(o, <<>>, run) /\ Arbitrated(o, run) /\ Handed(run)
    BY DEF GroundInv, Ground
  <2>5. /\ Len(inv) >= o + k
        /\ \A i \in 1 .. o : inv[i].role = "DirectorAgent"
        /\ \A i \in 1 .. k : inv[o + i].role = run.checks[i].role
    BY <2>4 DEF Gathered, Aligned
  <2>6. \/ Len(inv) = o + k /\ run.arbitration \in {<<>>, <<FALSE>>}
        \/ Len(inv) = o + k + 1 /\ inv[o + k + 1].role = "ArbiterAgent" /\ run.arbitration = <<TRUE>>
    BY <2>4 DEF Arbitrated
  <2>7. \A i \in 1 .. k : run.checks[i].role \in Specialists
    <3>1. \A i \in 1 .. k : run.checks[i] \in [role : Specialists, sound : BOOLEAN]
      BY <2>2, ElementOfSeq
    <3> QED BY <3>1
  <2> HIDE DEF inv, k, o
  <2>8. "DirectorAgent" \notin Specialists /\ "ArbiterAgent" \notin Specialists
    BY DEF Specialists
  <2>9. asked = o + 1 .. o + k
    <3>1. ASSUME NEW i \in asked PROVE i \in o + 1 .. o + k
      <4>1. i \in 1 .. Len(inv) /\ inv[i].role \in Specialists
        BY <2>2
      <4>2. i \notin 1 .. o
        BY <2>5, <2>8, <4>1
      <4>3. i \in 1 .. o + k \/ (i = o + k + 1 /\ inv[o + k + 1].role = "ArbiterAgent")
        <5>1. CASE Len(inv) = o + k
          BY <4>1, <5>1
        <5>2. CASE Len(inv) = o + k + 1 /\ inv[o + k + 1].role = "ArbiterAgent"
          BY <2>2, <2>3, <4>1, <5>2
        <5> QED BY <2>6, <5>1, <5>2
      <4>4. i \in 1 .. o + k
        BY <2>8, <4>1, <4>3
      <4> QED BY <2>2, <2>3, <4>2, <4>4
    <3>2. ASSUME NEW i \in o + 1 .. o + k PROVE i \in asked
      <4>1. i - o \in 1 .. k /\ o + (i - o) = i /\ i \in 1 .. Len(inv)
        BY <2>2, <2>3, <2>5
      <4>2. inv[i].role = run.checks[i - o].role
        BY <2>5, <4>1
      <4> QED BY <2>2, <2>7, <4>1, <4>2
    <3> QED BY <3>1, <3>2
  <2> HIDE DEF asked
  <2>10. Cardinality(asked) = k
    BY <2>2, <2>3, <2>9, IntervalCounted
  <2>11. ASSUME NEW i \in asked PROVE inv[i].role = run.checks[nth(i)].role
    <3>1. i - o \in 1 .. k /\ i - o \in Nat /\ o + (i - o) = i
      BY <2>2, <2>3, <2>9, <2>11
    <3>2. {j \in asked : j <= i} = o + 1 .. o + (i - o)
      BY <2>2, <2>3, <2>9, <3>1
    <3>3. nth(i) = i - o
      <4>1. Cardinality(o + 1 .. o + (i - o)) = i - o
        BY <2>3, <3>1, IntervalCounted
      <4> QED BY <3>2, <4>1
    <3> HIDE DEF nth
    <3> QED BY <2>5, <3>1, <3>3
  <2> HIDE DEF nth
  <2>12. IsInjective(run.checks)
    <3>1. \A i, j \in 1 .. k : run.checks[i].role = run.checks[j].role => i = j
      BY <2>4 DEF Gathered, OnceEach, k
    <3> QED BY <2>2, <3>1 DEF IsInjective
  <2>13. ASSUME NEW role \in RolesChecked(run) PROVE role \in RolesAsked
    <3>1. PICK i \in 1 .. k : role = run.checks[i].role
      BY <2>13 DEF RolesChecked, k
    <3>2. o + i \in DOMAIN inv /\ role = inv[o + i].role
      BY <2>2, <2>3, <2>5, <3>1
    <3> QED BY <3>2 DEF RolesAsked, inv
  <2>14. ToSet(<<>>) = {}
    BY DEF ToSet
  <2>15. "EvidenceAuditor" \in RolesAsked /\ RolesAsked \cap Selectable # {}
    BY <2>4, <2>13, <2>14 DEF Gathered, Staffed
  <2>16. ("ArbiterAgent" \in RolesAsked) <=> (TRUE \in ToSet(run.arbitration))
    <3>1. CASE Len(inv) = o + k /\ run.arbitration \in {<<>>, <<FALSE>>}
      <4>1. TRUE \notin ToSet(run.arbitration)
        <5>1. CASE run.arbitration = <<>>
          BY <2>14, <5>1
        <5>2. CASE run.arbitration = <<FALSE>>
          <6>1. ToSet(run.arbitration) = {FALSE}
            BY <5>2, OneInSet
          <6> QED BY <6>1
        <5> QED BY <3>1, <5>1, <5>2
      <4>2. ASSUME NEW i \in DOMAIN inv PROVE inv[i].role # "ArbiterAgent"
        <5>1. i \in 1 .. o \/ i \in o + 1 .. o + k
          BY <2>2, <2>3, <3>1, <4>2
        <5>2. CASE i \in 1 .. o
          BY <2>5, <5>2
        <5>3. CASE i \in o + 1 .. o + k
          <6>1. i \in asked
            BY <2>9, <5>3
          <6> QED BY <2>8, <6>1 DEF asked
        <5> QED BY <5>1, <5>2, <5>3
      <4> QED BY <4>1, <4>2 DEF RolesAsked, inv
    <3>2. CASE Len(inv) = o + k + 1 /\ inv[o + k + 1].role = "ArbiterAgent" /\ run.arbitration = <<TRUE>>
      <4>1. TRUE \in ToSet(run.arbitration)
        <5>1. 1 \in DOMAIN run.arbitration /\ run.arbitration[1] = TRUE
          BY <3>2
        <5> QED BY <5>1 DEF ToSet
      <4>2. o + k + 1 \in DOMAIN inv
        BY <2>2, <2>3, <3>2
      <4> QED BY <3>2, <4>1, <4>2 DEF RolesAsked, inv
    <3> QED BY <2>6, <3>1, <3>2
  <2> QED BY <2>4, <2>10, <2>11, <2>12, <2>15, <2>16 DEF Handed
<1> QED BY <1>1, RunInvariant, GroundInvariant, PTL
=============================================================================
