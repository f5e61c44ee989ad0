------------------------------ MODULE PlanRules -----------------------------
(***************************************************************************)
(* What a planning call may return, and what the validator lets through.   *)
(* Source: orchestrator/validate.py, with the defaults of route.normalise. *)
(*                                                                         *)
(* A step is its id, its op, the edges it declares, the steps its          *)
(* arguments refer to and whether a gate stands before it.  An op is one   *)
(* of a few kinds; "unfit" is a step the rules about one step alone refuse *)
(* (an unknown op, arguments that do not fit, a service the intent did not *)
(* name).  Speculation, templates and the budget per service are left out. *)
(***************************************************************************)
EXTENDS Naturals, Sequences, FiniteSets

CONSTANTS Id    \* step ids, numbered in the order their rows are claimed

Ops == {"read", "google", "ask", "write", "unfit"}

Steps == [id: Id, op: Ops, deps: SUBSET Id, refs: SUBSET Id, gate: BOOLEAN]

\* write, sure: intent.has_write, and a confidence at or above the floor.
Plans == [steps: Seq(Steps), write: BOOLEAN, sure: BOOLEAN]

StepsOf(p) == {p.steps[k] : k \in DOMAIN p.steps}
IdsOf(p) == {s.id : s \in StepsOf(p)}

\* `edges`: what each id depends on.
EdgesOf(p) == [i \in IdsOf(p) |-> UNION {s.deps : s \in {t \in StepsOf(p) : t.id = i}}]

\* Upstream of i, however many edges away.
Closed(S, edges) == \A n \in S : edges[n] \subseteq S

Upstream(i, edges) ==
    {m \in DOMAIN edges :
        \A S \in SUBSET DOMAIN edges : edges[i] \subseteq S /\ Closed(S, edges) => m \in S}

----------------------------------------------------------------------------
(* The rules.                                                              *)

DistinctIds(p) == \A j, k \in DOMAIN p.steps : p.steps[j].id = p.steps[k].id => j = k

EdgesInside(p) == \A s \in StepsOf(p) : s.deps \subseteq IdsOf(p)

\* Mutant: only a step that waits for itself is a cycle.
Acyclic_SelfOnly(p) == \A s \in StepsOf(p) : s.id \notin s.deps

Acyclic(p) == \A i \in IdsOf(p) : i \notin Upstream(i, EdgesOf(p))

\* Mutant: a reference to any step of the plan will do.
RefsUpstream_Present(p) == \A s \in StepsOf(p) : s.refs \subseteq IdsOf(p) \ {s.id}

RefsUpstream(p) == \A s \in StepsOf(p) : s.refs \subseteq Upstream(s.id, EdgesOf(p)) \ {s.id}

Writes(p) == {s \in StepsOf(p) : s.op = "write"}
Questions(p) == {s \in StepsOf(p) : s.op = "ask"}

\* Mutant: a question anywhere in the plan will do.
FloorHeld_Anywhere(p) == ~p.sure => \A w \in Writes(p) : Questions(p) # {}

\* Below the floor a write has a question in front of it.
FloorHeld(p) ==
    ~p.sure => \A w \in Writes(p) : \E q \in Questions(p) : q.id \in Upstream(w.id, EdgesOf(p))

\* validate_plan.
Accepts(p) ==
    /\ p.steps # <<>> /\ DistinctIds(p)
    /\ \A s \in StepsOf(p) : s.op # "unfit"
    /\ EdgesInside(p) /\ Acyclic(p) /\ RefsUpstream(p)
    /\ Writes(p) # {} => p.write
    /\ FloorHeld(p)
============================================================================
