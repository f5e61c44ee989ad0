----------------------------- MODULE PlanSearch -----------------------------
(***************************************************************************)
(* The graph searches of the validator as they are written: a depth-first  *)
(* search with three colours for a cycle, a stack for what is upstream.    *)
(* PlanRules says what they are meant to find.                             *)
(* Source: orchestrator/validate.py.                                       *)
(***************************************************************************)
EXTENDS PlanRules, SequencesExt

Ordered(S) == SetToSortSeq(S, <)

\* _ancestors: pop, skip what was seen and the step itself, push its edges.
RECURSIVE Climb(_, _, _, _)
Climb(i, edges, seen, stack) ==
    IF stack = <<>> THEN seen
    ELSE LET n == Last(stack)
             rest == Front(stack)
         IN IF n \in seen \cup {i} THEN Climb(i, edges, seen, rest)
            ELSE Climb(i, edges, seen \cup {n}, rest \o Ordered(edges[n]))

Ancestors(i, edges) == Climb(i, edges, {}, Ordered(edges[i]))

\* visit: [found, grey, black] after the parents `todo` of the node on top of the
\* path were looked at.  Black nodes are not entered again; a grey one closes a loop.
RECURSIVE Look(_, _, _)
Look(edges, state, todo) ==
    IF todo = <<>> \/ state.found THEN state
    ELSE LET n == Head(todo)
             below == Look(edges, [state EXCEPT !.grey = @ \cup {n}], Ordered(edges[n]))
             left == IF below.found THEN below
                     ELSE [below EXCEPT !.grey = @ \ {n}, !.black = @ \cup {n}]
         IN IF n \in state.grey THEN [state EXCEPT !.found = TRUE]
            ELSE IF n \in state.black THEN Look(edges, state, Tail(todo))
            ELSE Look(edges, left, Tail(todo))

Search(edges, roots) ==
    Look(edges, [found |-> FALSE, grey |-> {}, black |-> {}], roots).found

\* Mutant: what the first step does not reach is not searched.
FindCycle_FirstRoot(edges) == Search(edges, <<Head(Ordered(DOMAIN edges))>>)

FindCycle(edges) == Search(edges, Ordered(DOMAIN edges))
============================================================================
