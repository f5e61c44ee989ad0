----------------------------- MODULE MCDispatch ----------------------------
(***************************************************************************)
(* Plans of three steps, chosen so that each way steps meet is in one:     *)
(* parked directly and through another step, two questions at once, a      *)
(* write after a write, a write after a read, with another read beside it.  *)
(***************************************************************************)
EXTENDS Dispatch

CONSTANTS n1, n2, n3

Plan(d2, d3, k1, k2, k3) ==
    [deps |-> [n \in Node |-> IF n = n2 THEN d2 ELSE IF n = n3 THEN d3 ELSE {}],
     kind |-> [n \in Node |-> IF n = n1 THEN k1 ELSE IF n = n2 THEN k2 ELSE k3]]

SmallPlans ==
    {Plan({n1}, {n2}, "ask", "read", "write"),
     Plan({}, {n1, n2}, "ask", "write", "write"),
     Plan({}, {n1}, "ask", "ask", "read"),
     Plan({n1}, {n1}, "write", "write", "note"),
     Plan({}, {n1}, "read", "read", "write")}

OneLane == [n \in Node |-> "gmail"]
OneSlot == [l \in Lane |-> 1]
============================================================================
