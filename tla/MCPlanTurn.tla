----------------------------- MODULE MCPlanTurn -----------------------------
(***************************************************************************)
(* Plans of up to three steps: every edge and reference between two steps  *)
(* of any kind, and a few of three for what two cannot show.               *)
(***************************************************************************)
EXTENDS PlanTurn, PlanSearch

Step(i, op, deps, refs) == [id |-> i, op |-> op, deps |-> deps, refs |-> refs, gate |-> FALSE]
Gated(s) == [s EXCEPT !.gate = TRUE]

Reading(steps) == [steps |-> steps, write |-> FALSE, sure |-> TRUE]
Writing(steps) == [steps |-> steps, write |-> TRUE, sure |-> TRUE]
Unsure(steps) == [steps |-> steps, write |-> TRUE, sure |-> FALSE]

Read1 == Step(1, "read", {}, {})
Ask1 == Step(1, "ask", {}, {})
Ask2 == Step(2, "ask", {}, {})

Firsts == {Read1, Ask1, Step(1, "google", {}, {}), Step(1, "read", {2}, {})}
Seconds ==
    {Step(2, op, deps, refs) : op \in {"read", "ask", "write"}, deps \in SUBSET {1}, refs \in SUBSET {1}}

Pairs == {<<s, t>> : s \in Firsts, t \in Seconds}

\* 3 reads 1 through 2; two questions before a write, one of which it waits for; a
\* loop of two behind a step; a step named twice; one behind a gate; an unknown op.
Through == Reading(<<Read1, Step(2, "google", {1}, {1}), Step(3, "google", {2}, {1})>>)
TwoQuestions == Unsure(<<Ask1, Ask2, Step(3, "write", {2}, {2})>>)
Loop == Reading(<<Read1, Step(2, "google", {3}, {}), Step(3, "google", {1, 2}, {})>>)
Twice == Reading(<<Read1, Step(1, "read", {}, {2}), Step(2, "read", {}, {})>>)
GatedRead == Reading(<<Read1, Gated(Step(2, "read", {1}, {}))>>)
Unknown == Reading(<<Read1, Step(2, "unfit", {1}, {1})>>)

\* Every graph of three steps.
AnyGraph ==
    {Reading([k \in 1 .. 3 |-> Step(k, "google", g[k], {})]) : g \in [1 .. 3 -> SUBSET (1 .. 3)]}

MCDrafts ==
    AnyGraph \cup {Unsure(p) : p \in Pairs} \cup {Writing(<<s, Step(2, "write", {1}, {1})>>) : s \in Firsts}
    \cup {Through, TwoQuestions, Loop, Twice, GatedRead, Unknown}

MCFixes ==
    {Through, Reading(<<Read1, Step(2, "read", {1}, {1})>>),
     Unsure(<<Ask1, Step(2, "write", {1}, {1})>>), Reading(<<Read1, Step(2, "google", {}, {1})>>)}

\* A question and a write that does not wait for it: refused; and the one that does.
AskedAside == Unsure(<<Ask1, Step(2, "write", {}, {})>>)
AskedFirst == Unsure(<<Ask1, Step(2, "write", {1}, {})>>)
RefusedDrafts == {AskedAside}
RefusedFixes == {AskedFirst, AskedAside}

\* The searches of the validator find what they are meant to, on the graph of every plan
\* that comes to it: a cycle when there is one, and all that is upstream of a step.
GraphSearchRight ==
    at = "check" /\ DistinctIds(plan) /\ EdgesInside(plan) =>
        LET g == EdgesOf(plan)
        IN /\ FindCycle(g) <=> ~Acyclic(plan)
           /\ \A i \in DOMAIN g : Ancestors(i, g) = Upstream(i, g) \ {i}
============================================================================
