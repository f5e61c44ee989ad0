--------------------------- MODULE CircuitBreaker --------------------------
(***************************************************************************)
(* The circuit breaker of one person and one Google service.               *)
(* Source: google/retry.py.                                                *)
(*                                                                         *)
(* Its state is one Redis hash that three calls touch, each in one round   *)
(* trip: a Lua script that asks, a Lua script that counts a failure, and   *)
(* a DEL that closes it.  The hash holds instants and Redis expires it;    *)
(* here each instant is the time left until it, and Tick lets one unit of  *)
(* time pass, so that the states are finitely many.                        *)
(***************************************************************************)
EXTENDS Naturals

CONSTANTS
    Threshold,  \* BREAKER_THRESHOLD (5)
    BaseOpen,   \* BREAKER_OPEN_S (300)
    MaxOpen,    \* BREAKER_MAX_OPEN_S (1800)
    ProbeHold,  \* BREAKER_PROBE_S (30)
    Grace       \* what PEXPIRE adds to a window (60)

ASSUME BreakerAssumption ==
    /\ Threshold \in Nat \ {0} /\ BaseOpen \in Nat \ {0} /\ MaxOpen \in Nat \ {0}
    /\ ProbeHold \in Nat \ {0} /\ Grace \in Nat \ {0}
    /\ ProbeHold <= BaseOpen /\ BaseOpen <= MaxOpen

VARIABLES
    failures,   \* counted since the breaker was last opened or closed
    openMs,     \* the last window; 0 before the first
    tripped,    \* open_until > 0: open, or half-open once openLeft is 0
    openLeft,   \* open_until - now, not below 0
    probeLeft,  \* probe_until - now, not below 0
    ttl         \* what Redis gives the key to live; 0: no key

breakerVars == <<failures, openMs, tripped, openLeft, probeLeft, ttl>>

BreakerTypeOK ==
    /\ failures \in Nat /\ openMs \in Nat /\ tripped \in BOOLEAN
    /\ openLeft \in Nat /\ probeLeft \in Nat /\ ttl \in Nat

BreakerInit ==
    /\ failures = 0 /\ openMs = 0 /\ tripped = FALSE
    /\ openLeft = 0 /\ probeLeft = 0 /\ ttl = 0

ErrorClass ==
    {"TRANSIENT", "RATE_LIMITED", "QUOTA_EXHAUSTED", "AUTH_EXPIRED", "AUTH_REVOKED",
     "PRECONDITION", "NOT_FOUND", "INVALID", "UNKNOWN"}
BreakerClasses == {"TRANSIENT", "RATE_LIMITED", "QUOTA_EXHAUSTED", "UNKNOWN"}

----------------------------------------------------------------------------
(* _ALLOW_LUA.                                                             *)

AllowClosed == ~tripped /\ UNCHANGED breakerVars

Refuses == tripped /\ (openLeft > 0 \/ probeLeft > 0)

\* The window has passed and nobody holds the slot: this caller is the probe.
AllowProbe ==
    /\ tripped /\ openLeft = 0 /\ probeLeft = 0
    /\ probeLeft' = ProbeHold
    /\ ttl' = openMs + Grace
    /\ UNCHANGED <<failures, openMs, tripped, openLeft>>

----------------------------------------------------------------------------
(* _FAIL_LUA, and the DEL of a success.                                    *)

NextWindow ==
    LET doubled == IF openMs = 0 THEN BaseOpen ELSE 2 * openMs
    IN  IF doubled < MaxOpen THEN doubled ELSE MaxOpen

\* Mutant: the time to live is not renewed when the breaker opens again.
RecordFailure_KeepsTtl(class) ==
    IF class \notin BreakerClasses THEN UNCHANGED breakerVars
    ELSE LET opens == tripped \/ failures + 1 >= Threshold IN
        /\ failures' = IF opens THEN 0 ELSE failures + 1
        /\ tripped' = opens
        /\ openMs' = IF opens THEN NextWindow ELSE openMs
        /\ openLeft' = IF opens THEN NextWindow ELSE 0
        /\ probeLeft' = 0
        /\ ttl' = IF ttl = 0 THEN MaxOpen + Grace ELSE ttl

RecordFailure(class) ==
    IF class \notin BreakerClasses THEN UNCHANGED breakerVars
    ELSE LET opens == tripped \/ failures + 1 >= Threshold IN
        /\ failures' = IF opens THEN 0 ELSE failures + 1
        /\ tripped' = opens
        /\ openMs' = IF opens THEN NextWindow ELSE openMs
        /\ openLeft' = IF opens THEN NextWindow ELSE 0
        /\ probeLeft' = 0
        /\ ttl' = MaxOpen + Grace

RecordSuccess ==
    /\ failures' = 0 /\ openMs' = 0 /\ tripped' = FALSE
    /\ openLeft' = 0 /\ probeLeft' = 0 /\ ttl' = 0

----------------------------------------------------------------------------
(* Time.                                                                   *)

Less(n) == IF n = 0 THEN 0 ELSE n - 1

\* One unit of time passes; a key that has lived its time is gone.
Tick ==
    /\ ttl > 0
    /\ IF ttl = 1 THEN RecordSuccess
       ELSE /\ openLeft' = Less(openLeft)
            /\ probeLeft' = Less(probeLeft)
            /\ ttl' = ttl - 1
            /\ UNCHANGED <<failures, openMs, tripped>>
============================================================================
