------------------------------ MODULE PlanRound ----------------------------
(***************************************************************************)
(* What one round over a plan promises, with no tasks, events, locks or    *)
(* deadlines in it.  A step begins only when everything it depends on has  *)
(* succeeded; it ends once; one that never begins is left out once; none   *)
(* is forgotten; and when the round is over nothing moves.                 *)
(*                                                                         *)
(* A step of the round moves any number of nodes at once, each by the same *)
(* rules: a deadline ends many.                                            *)
(***************************************************************************)
CONSTANTS Node

VARIABLES
    deps,   \* what each node depends on
    stat,   \* "pending", "running", or how it ended
    over    \* the round has been closed

Init ==
    /\ stat \in [Node -> {"pending", "succeeded"}]
    /\ over = FALSE

Begin(n) ==
    /\ stat[n] = "pending" /\ stat'[n] = "running"
    /\ \A d \in deps[n] : stat[d] = "succeeded"

End(n) ==
    /\ stat[n] = "running" /\ stat'[n] \in {"succeeded", "failed", "timeout"}

LeaveOut(n) ==
    /\ stat[n] = "pending" /\ stat'[n] \in {"skipped", "failed", "timeout"}

Stay(n) == stat'[n] = stat[n]

Work ==
    /\ ~over /\ UNCHANGED <<deps, over>>
    /\ \A n \in Node : Begin(n) \/ End(n) \/ LeaveOut(n) \/ Stay(n)

Close ==
    /\ ~over /\ over' = TRUE /\ UNCHANGED <<deps, stat>>
    /\ \A n \in Node : stat[n] # "pending"

Next == Work \/ Close

Spec == Init /\ [][Next]_<<deps, stat, over>>
============================================================================
