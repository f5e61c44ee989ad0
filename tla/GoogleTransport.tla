-------------------------- MODULE GoogleTransport --------------------------
(***************************************************************************)
(* Transport.request: one call to Google with its retries, made by several *)
(* callers for one person and one service, who share a circuit breaker.    *)
(* Source: google/client.py, google/retry.py.                              *)
(*                                                                         *)
(* A call is "repeatable" (a read, a draft) or to be made "once" (a send,  *)
(* an insert, a share: retry_on=SAFE_TO_REPEAT, retry_on_network=False).   *)
(* A timeout or a dropped connection is classified like a 5xx answer, and  *)
(* says as little about whether Google did the thing.                      *)
(***************************************************************************)
EXTENDS CircuitBreaker

CONSTANTS
    Call,       \* calls under way at one time
    Answers,    \* the error classes Google gives
    RetryCap,   \* retries one call makes for each class
    MaxFaults   \* how often a call is cut short or Redis is away (bound)

Retryable == {"TRANSIENT", "RATE_LIMITED", "AUTH_EXPIRED", "PRECONDITION"}

ASSUME TransportAssumption ==
    /\ Answers \subseteq ErrorClass
    /\ RetryCap \in [Retryable -> Nat]
    /\ MaxFaults \in Nat

VARIABLES
    pc,         \* where each call is in its loop
    kind,       \* "repeatable" or "once"
    used,       \* retries made so far, by class
    failedOnce, \* failed_once
    probing,    \* probing
    result,     \* how the call ended: "ok", "error" or "CircuitOpen"
    effects,    \* how often Google did what a "once" call asks for
    up,         \* Google answers every request well
    faults

callVars == <<pc, kind, used, failedOnce, probing, result, effects>>
vars == <<breakerVars, callVars, up, faults>>

CallTypeOK ==
    /\ pc \in [Call -> {"idle", "ask", "ready", "sent"}]
    /\ kind \in [Call -> {"repeatable", "once"}]
    /\ used \in [Call -> [Retryable -> Nat]]
    /\ failedOnce \in [Call -> BOOLEAN]
    /\ probing \in [Call -> BOOLEAN]
    /\ result \in [Call -> {"none", "ok", "error", "CircuitOpen"}]
    /\ effects \in [Call -> Nat]
    /\ up \in BOOLEAN /\ faults \in Nat

Init ==
    /\ BreakerInit
    /\ pc = [c \in Call |-> "idle"]
    /\ kind = [c \in Call |-> "repeatable"]
    /\ used = [c \in Call |-> [e \in Retryable |-> 0]]
    /\ failedOnce = [c \in Call |-> FALSE]
    /\ probing = [c \in Call |-> FALSE]
    /\ result = [c \in Call |-> "none"]
    /\ effects = [c \in Call |-> 0]
    /\ up = FALSE /\ faults = 0

Fault == faults < MaxFaults /\ faults' = faults + 1

\* The Redis call f, or no answer from Redis, which counts as leave to go on.
Redis(f) ==
    \/ f /\ UNCHANGED faults
    \/ Fault /\ UNCHANGED breakerVars

\* The call returns or raises; its locals are gone.
End(c, how) ==
    /\ pc' = [pc EXCEPT ![c] = "idle"]
    /\ used' = [used EXCEPT ![c] = [e \in Retryable |-> 0]]
    /\ failedOnce' = [failedOnce EXCEPT ![c] = FALSE]
    /\ probing' = [probing EXCEPT ![c] = FALSE]
    /\ result' = [result EXCEPT ![c] = how]
    /\ UNCHANGED kind

----------------------------------------------------------------------------

Start(c) ==
    /\ pc[c] = "idle"
    /\ pc' = [pc EXCEPT ![c] = "ask"]
    /\ \E k \in {"repeatable", "once"} : kind' = [kind EXCEPT ![c] = k]
    /\ result' = [result EXCEPT ![c] = "none"]
    /\ effects' = [effects EXCEPT ![c] = 0]
    /\ UNCHANGED <<breakerVars, used, failedOnce, probing, up, faults>>

\* breaker_allow, before every attempt.
Admitted(c) ==
    /\ pc[c] = "ask"
    /\ \/ Redis(AllowClosed) /\ UNCHANGED probing
       \/ AllowProbe /\ probing' = [probing EXCEPT ![c] = TRUE] /\ UNCHANGED faults
    /\ pc' = [pc EXCEPT ![c] = "ready"]
    /\ UNCHANGED <<kind, used, failedOnce, result, effects, up>>

Refused(c) ==
    /\ pc[c] = "ask"
    /\ Refuses
    /\ End(c, "CircuitOpen")
    /\ UNCHANGED <<breakerVars, effects, up, faults>>

\* A token, room in the quota, and the request is on its way.
Send(c) ==
    /\ pc[c] = "ready"
    /\ pc' = [pc EXCEPT ![c] = "sent"]
    /\ UNCHANGED <<breakerVars, kind, used, failedOnce, probing, result,
                   effects, up, faults>>

Done(c) ==
    effects' = IF kind[c] = "once" THEN [effects EXCEPT ![c] = @ + 1] ELSE effects

\* Mutant: only a call that failed before closes the breaker.
AnswerOk_NotTheProbe(c) ==
    /\ pc[c] = "sent"
    /\ Done(c)
    /\ IF failedOnce[c] THEN Redis(RecordSuccess) ELSE UNCHANGED <<breakerVars, faults>>
    /\ End(c, "ok")
    /\ UNCHANGED up

\* A good answer: it closes the breaker if this call has failed before or is
\* the probe.
AnswerOk(c) ==
    /\ pc[c] = "sent"
    /\ Done(c)
    /\ IF failedOnce[c] \/ probing[c]
         THEN Redis(RecordSuccess)
         ELSE UNCHANGED <<breakerVars, faults>>
    /\ End(c, "ok")
    /\ UNCHANGED up

\* Mutant: a 5xx counts as turned away.
SafeToRepeat_Transient == {"AUTH_EXPIRED", "RATE_LIMITED", "PRECONDITION", "TRANSIENT"}

SafeToRepeat == {"AUTH_EXPIRED", "RATE_LIMITED", "PRECONDITION"}
\* Google may have done the thing and still answered with these.
Ambiguous == {"TRANSIENT", "UNKNOWN"}

MayRetry(c, e) ==
    /\ e \in Retryable
    /\ used[c][e] < RetryCap[e]
    /\ kind[c] = "once" => e \in SafeToRepeat

\* A bad answer, or none.  The call tries again if its class lets it, unless
\* it is out of time, has nothing to read the resource with, or the refresh
\* of its token fails.
AnswerError(c, e) ==
    /\ pc[c] = "sent" /\ ~up
    /\ (e \in Ambiguous /\ Done(c)) \/ UNCHANGED effects
    /\ Redis(RecordFailure(e))
    /\ \/ /\ MayRetry(c, e)
          /\ pc' = [pc EXCEPT ![c] = "ask"]
          /\ used' = [used EXCEPT ![c][e] = @ + 1]
          /\ failedOnce' = [failedOnce EXCEPT ![c] = TRUE]
          /\ UNCHANGED <<kind, probing, result>>
       \/ End(c, "error")
    /\ UNCHANGED up

\* The token or the quota cannot be had, the step times out and is cancelled,
\* or the process dies: whatever was asked of the breaker is left as it is.
CutShort(c) ==
    /\ pc[c] # "idle"
    /\ Fault
    /\ (pc[c] = "sent" /\ Done(c)) \/ UNCHANGED effects
    /\ End(c, "error")
    /\ UNCHANGED <<breakerVars, up>>

GoogleTurns == up' = ~up /\ UNCHANGED <<breakerVars, callVars, faults>>

Progress(c) ==
    \/ Start(c) \/ Admitted(c) \/ Refused(c) \/ Send(c) \/ AnswerOk(c)
    \/ \E e \in Answers : AnswerError(c, e)

Next ==
    \/ \E c \in Call : Progress(c) \/ CutShort(c)
    \/ Tick /\ UNCHANGED <<callVars, up, faults>>
    \/ GoogleTurns

Spec == Init /\ [][Next]_vars

----------------------------------------------------------------------------
(* Safety.                                                                 *)

TypeOK == BreakerTypeOK /\ CallTypeOK

\* A write that must not be repeated blind is done at most once in all the
\* attempts of one call; if the call returns it was done, and if the breaker
\* ends the call, on whichever attempt, it was not (retry_on=SAFE_TO_REPEAT).
OnceMeansOnce ==
    \A c \in Call : kind[c] = "once" =>
        /\ effects[c] <= 1
        /\ result[c] = "ok" => effects[c] = 1
        /\ result[c] = "CircuitOpen" => effects[c] = 0

\* Redis never forgets a breaker before its window is over and a probe has had
\* time to report, however often it reopened and wherever a probe was lost
\* (the two PEXPIREs): forgetting would close it on a service that is down.
KeyOutlivesWindow ==
    /\ openLeft > 0 => ttl >= openLeft + Grace
    /\ probeLeft > 0 => ttl > probeLeft

----------------------------------------------------------------------------
(* Liveness.                                                               *)

\* Time passes, calls that have begun take their next step, and there is
\* always another call (the sync tasks are sent every fifteen minutes).
Fairness ==
    /\ WF_vars(Tick /\ UNCHANGED <<callVars, up, faults>>)
    /\ \A c \in Call : WF_vars(Progress(c))

FairSpec == Spec /\ Fairness

\* When Google is well again for good the breaker closes for good, though
\* probes were lost and late answers opened it again on the way.
RecoversWithGoogle == <>[]up => <>[]~tripped

----------------------------------------------------------------------------
(* What the documents say and the model refutes.                           *)

\* "Five consecutive failures against one service for one person opens it": a
\* good answer in between starts the count again.
GoodAnswerResets ==
    [][\A c \in Call : pc[c] = "sent" /\ result'[c] = "ok" => failures' = 0]_vars

\* "A 401 wants a fresh access token and exactly one more try": the breaker does
\* not refuse a call that has been answered nothing but 401.
ExpiredTokenIsRetried ==
    [][\A c \in Call :
          {e \in Retryable : used[c][e] > 0} = {"AUTH_EXPIRED"} => result'[c] # "CircuitOpen"]_vars
============================================================================
