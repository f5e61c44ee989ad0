-------------------------- MODULE TransportProofs --------------------------
(***************************************************************************)
(* The safety properties of GoogleTransport, for any number of calls, any  *)
(* answers and retry caps, and any windows that satisfy BreakerAssumption. *)
(***************************************************************************)
EXTENDS GoogleTransport, TLAPS

\* The hash is all zeros unless it is open, and a window is within its bounds.
BreakerShape ==
    /\ openLeft <= openMs /\ openMs <= MaxOpen
    /\ tripped => openMs >= BaseOpen /\ ttl > 0
    /\ ~tripped => openMs = 0 /\ probeLeft = 0

\* A call that is still under way has had nothing done.
CallInv ==
    \A c \in Call :
        /\ pc[c] # "idle" => effects[c] = 0 /\ result[c] = "none"
        /\ effects[c] <= 1
        /\ result[c] = "ok" /\ kind[c] = "once" => effects[c] = 1
        /\ result[c] = "CircuitOpen" => effects[c] = 0

IInv == TypeOK /\ BreakerShape /\ KeyOutlivesWindow /\ CallInv

BreakerIInv == BreakerTypeOK /\ BreakerShape /\ KeyOutlivesWindow

USE BreakerAssumption, TransportAssumption

----------------------------------------------------------------------------
(* The breaker.                                                            *)

\* A window lies between its first value and its cap.
LEMMA WindowBounds ==
    ASSUME BreakerTypeOK, BreakerShape
    PROVE  NextWindow \in Nat /\ BaseOpen <= NextWindow /\ NextWindow <= MaxOpen
BY DEF BreakerTypeOK, BreakerShape, NextWindow

\* A counted failure opens or counts; any other leaves the breaker alone.
LEMMA FailureKeepsBreaker ==
    ASSUME BreakerIInv, NEW e \in ErrorClass, RecordFailure(e)
    PROVE  BreakerIInv'
<1>1. CASE e \notin BreakerClasses
  BY <1>1 DEF RecordFailure, BreakerIInv, BreakerTypeOK, BreakerShape,
              KeyOutlivesWindow, breakerVars
<1>2. CASE e \in BreakerClasses
  <2>1. NextWindow \in Nat /\ BaseOpen <= NextWindow /\ NextWindow <= MaxOpen
    BY WindowBounds DEF BreakerIInv
  <2>2. CASE tripped \/ failures + 1 >= Threshold
    <3>1. /\ failures' = 0 /\ openMs' = NextWindow /\ openLeft' = NextWindow
          /\ probeLeft' = 0 /\ ttl' = MaxOpen + Grace
      BY <1>2, <2>2 DEF RecordFailure
    <3>2. tripped' \in BOOLEAN /\ tripped'
      BY <1>2, <2>2, Zenon DEF RecordFailure
    <3> QED BY <2>1, <3>1, <3>2 DEF BreakerIInv, BreakerTypeOK, BreakerShape,
                                    KeyOutlivesWindow
  <2>3. CASE ~(tripped \/ failures + 1 >= Threshold)
    <3>1. /\ failures' = failures + 1 /\ openMs' = openMs /\ openLeft' = 0
          /\ probeLeft' = 0 /\ ttl' = MaxOpen + Grace
      BY <1>2, <2>3 DEF RecordFailure
    <3>2. tripped' \in BOOLEAN /\ ~tripped' /\ ~tripped
      BY <1>2, <2>3, Zenon DEF RecordFailure
    <3> QED BY <2>3, <3>1, <3>2 DEF BreakerIInv, BreakerTypeOK, BreakerShape,
                                    KeyOutlivesWindow
  <2> QED BY <2>2, <2>3
<1> QED BY <1>1, <1>2

\* The slot of a probe is shorter than what is left of the key.
LEMMA ProbeKeepsBreaker ==
    ASSUME BreakerIInv, AllowProbe
    PROVE  BreakerIInv'
BY DEF AllowProbe, BreakerIInv, BreakerTypeOK, BreakerShape, KeyOutlivesWindow

\* A success, or a key that ran out, leaves all zeros.
LEMMA SuccessKeepsBreaker ==
    ASSUME RecordSuccess
    PROVE  BreakerIInv'
<1>1. tripped' \in BOOLEAN /\ ~tripped'
  BY Zenon DEF RecordSuccess
<1> QED BY <1>1 DEF RecordSuccess, BreakerIInv, BreakerTypeOK, BreakerShape,
                    KeyOutlivesWindow

\* Time shortens the window, the slot and the key alike.
LEMMA TickKeepsBreaker ==
    ASSUME BreakerIInv, Tick
    PROVE  BreakerIInv'
<1>1. CASE ttl = 1
  BY <1>1, SuccessKeepsBreaker DEF Tick
<1>2. CASE ttl # 1
  BY <1>2 DEF Tick, Less, BreakerIInv, BreakerTypeOK, BreakerShape, KeyOutlivesWindow
<1> QED BY <1>1, <1>2

\* What leaves the hash alone leaves it in order.
LEMMA BreakerUnchanged ==
    ASSUME BreakerIInv, UNCHANGED breakerVars
    PROVE  BreakerIInv'
BY DEF breakerVars, BreakerIInv, BreakerTypeOK, BreakerShape, KeyOutlivesWindow

\* Every step of a call, of time or of Google leaves the breaker in order.
LEMMA StepKeepsBreaker ==
    ASSUME BreakerIInv, Next
    PROVE  BreakerIInv'
<1>1. CASE \E c \in Call : Start(c) \/ Refused(c) \/ Send(c) \/ CutShort(c)
  BY <1>1, BreakerUnchanged DEF Start, Refused, Send, CutShort
<1>2. CASE \E c \in Call : Admitted(c)
  BY <1>2, BreakerUnchanged, ProbeKeepsBreaker DEF Admitted, Redis, AllowClosed
<1>3. CASE \E c \in Call : AnswerOk(c)
  BY <1>3, BreakerUnchanged, SuccessKeepsBreaker DEF AnswerOk, Redis, breakerVars
<1>4. CASE \E c \in Call, e \in Answers : AnswerError(c, e)
  BY <1>4, BreakerUnchanged, FailureKeepsBreaker DEF AnswerError, Redis
<1>5. CASE Tick
  BY <1>5, TickKeepsBreaker
<1>6. CASE GoogleTurns
  BY <1>6, BreakerUnchanged DEF GoogleTurns, breakerVars
<1> QED BY <1>1, <1>2, <1>3, <1>4, <1>5, <1>6 DEF Next, Progress

----------------------------------------------------------------------------
(* The calls.                                                              *)

CallIInv == CallTypeOK /\ CallInv

\* A call that ends reports what Google did.
LEMMA EndKeepsCalls ==
    ASSUME CallIInv, NEW c \in Call, NEW how \in {"ok", "error", "CircuitOpen"},
           End(c, how), pc[c] # "idle",
           up' \in BOOLEAN, faults' \in Nat,
           \/ UNCHANGED effects /\ (how = "ok" => kind[c] = "repeatable")
           \/ Done(c) /\ how # "CircuitOpen"
    PROVE  CallIInv'
<1>1. CallTypeOK'
  BY DEF CallIInv, CallTypeOK, End, Done
<1>2. ASSUME NEW d \in Call
      PROVE  /\ pc'[d] # "idle" => effects'[d] = 0 /\ result'[d] = "none"
             /\ effects'[d] <= 1
             /\ result'[d] = "ok" /\ kind'[d] = "once" => effects'[d] = 1
             /\ result'[d] = "CircuitOpen" => effects'[d] = 0
  BY <1>2 DEF CallIInv, CallTypeOK, CallInv, End, Done
<1> QED BY <1>1, <1>2 DEF CallIInv, CallInv

\* A call goes round its loop again only when Google has not done the thing.
LEMMA StepKeepsCalls ==
    ASSUME CallIInv, Next
    PROVE  CallIInv'
<1>1. ASSUME NEW c \in Call, Start(c) PROVE CallIInv'
  BY <1>1 DEF CallIInv, CallTypeOK, CallInv, Start
<1>2. ASSUME NEW c \in Call, Admitted(c) PROVE CallIInv'
  <2>1. faults' \in Nat
    BY <1>2 DEF CallIInv, CallTypeOK, Admitted, Redis, Fault
  <2>2. probing' \in [Call -> BOOLEAN]
    BY <1>2 DEF CallIInv, CallTypeOK, Admitted
  <2> QED BY <1>2, <2>1, <2>2 DEF CallIInv, CallTypeOK, CallInv, Admitted
<1>3. ASSUME NEW c \in Call, Refused(c) PROVE CallIInv'
  BY <1>3, EndKeepsCalls DEF Refused, CallIInv, CallTypeOK
<1>4. ASSUME NEW c \in Call, Send(c) PROVE CallIInv'
  BY <1>4 DEF CallIInv, CallTypeOK, CallInv, Send
<1>5. ASSUME NEW c \in Call, AnswerOk(c) PROVE CallIInv'
  <2>1. up' \in BOOLEAN /\ faults' \in Nat
    BY <1>5 DEF CallIInv, CallTypeOK, AnswerOk, Redis, Fault
  <2> QED BY <1>5, <2>1, EndKeepsCalls DEF AnswerOk
<1>6. ASSUME NEW c \in Call, NEW e \in Answers, AnswerError(c, e) PROVE CallIInv'
  <2>1. up' \in BOOLEAN /\ faults' \in Nat /\ pc[c] = "sent" /\ e \in ErrorClass
    BY <1>6 DEF CallIInv, CallTypeOK, AnswerError, Redis, Fault
  <2>2. CASE End(c, "error")
    BY <1>6, <2>1, <2>2, EndKeepsCalls DEF AnswerError
  <2>3. CASE /\ MayRetry(c, e)
             /\ pc' = [pc EXCEPT ![c] = "ask"]
             /\ used' = [used EXCEPT ![c][e] = @ + 1]
             /\ failedOnce' = [failedOnce EXCEPT ![c] = TRUE]
             /\ UNCHANGED <<kind, probing, result>>
    <3>1. UNCHANGED effects
      BY <1>6, <2>3 DEF AnswerError, MayRetry, SafeToRepeat, Ambiguous, Done
    <3>2. used' \in [Call -> [Retryable -> Nat]]
      BY <2>3 DEF CallIInv, CallTypeOK, MayRetry
    <3> QED BY <2>1, <2>3, <3>1, <3>2 DEF CallIInv, CallTypeOK, CallInv
  <2> QED BY <1>6, <2>2, <2>3 DEF AnswerError
<1>7. ASSUME NEW c \in Call, CutShort(c) PROVE CallIInv'
  <2>1. up' \in BOOLEAN /\ faults' \in Nat
    BY <1>7 DEF CallIInv, CallTypeOK, CutShort, Fault
  <2> QED BY <1>7, <2>1, EndKeepsCalls DEF CutShort
<1>8. CASE Tick /\ UNCHANGED <<callVars, up, faults>>
  BY <1>8 DEF CallIInv, CallTypeOK, CallInv, callVars
<1>9. CASE GoogleTurns
  BY <1>9 DEF CallIInv, CallTypeOK, CallInv, GoogleTurns, callVars
<1> QED
  BY <1>1, <1>2, <1>3, <1>4, <1>5, <1>6, <1>7, <1>8, <1>9 DEF Next, Progress

----------------------------------------------------------------------------
(* The theorems.                                                           *)

\* The invariant holds at the start ...
LEMMA InitIInv == Init => IInv
<1> SUFFICES ASSUME Init PROVE IInv
  OBVIOUS
<1>1. tripped \in BOOLEAN /\ ~tripped /\ up \in BOOLEAN
  BY Zenon DEF Init, BreakerInit
<1>2. BreakerTypeOK /\ BreakerShape /\ KeyOutlivesWindow
  BY <1>1 DEF Init, BreakerInit, BreakerTypeOK, BreakerShape, KeyOutlivesWindow
<1>3. CallTypeOK /\ CallInv
  BY <1>1 DEF Init, CallTypeOK, CallInv
<1> QED BY <1>2, <1>3 DEF IInv, TypeOK

\* ... and every step preserves it.
LEMMA StepIInv == IInv /\ [Next]_vars => IInv'
<1> SUFFICES ASSUME IInv, [Next]_vars PROVE IInv'
  OBVIOUS
<1>1. BreakerIInv /\ CallIInv
  BY DEF IInv, TypeOK, BreakerIInv, CallIInv
<1>2. CASE Next
  BY <1>1, <1>2, StepKeepsBreaker, StepKeepsCalls DEF IInv, TypeOK, BreakerIInv, CallIInv
<1>3. CASE UNCHANGED vars
  BY <1>3 DEF IInv, TypeOK, BreakerTypeOK, CallTypeOK, BreakerShape,
              KeyOutlivesWindow, CallInv, vars, callVars, breakerVars
<1> QED BY <1>2, <1>3

\* The inductive invariant of breaker and calls holds throughout.
THEOREM TransportInvariant == Spec => []IInv
BY InitIInv, StepIInv, PTL DEF Spec

\* In all the attempts of one call, cut short or not, a write that must not be
\* repeated blind is done at most once (retry_on=SAFE_TO_REPEAT).
THEOREM DoneOnce == Spec => []OnceMeansOnce
<1>1. IInv => OnceMeansOnce
  BY DEF IInv, TypeOK, CallTypeOK, CallInv, OnceMeansOnce
<1> QED BY <1>1, TransportInvariant, PTL

\* Redis keeps the breaker longer than any window and any probe's slot.
THEOREM KeyOutlives == Spec => []KeyOutlivesWindow
<1>1. IInv => KeyOutlivesWindow
  BY DEF IInv
<1> QED BY <1>1, TransportInvariant, PTL

\* Every variable has its type.
THEOREM TransportTypes == Spec => []TypeOK
<1>1. IInv => TypeOK
  BY DEF IInv
<1> QED BY <1>1, TransportInvariant, PTL
============================================================================
