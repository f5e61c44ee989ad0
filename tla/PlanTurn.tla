------------------------------ MODULE PlanTurn ------------------------------
(***************************************************************************)
(* What a turn does with a plan: it streams in while early steps run and   *)
(* rows are written beside it, it is checked, repaired, run, repaired      *)
(* again, and picked up from its rows when a question is answered.         *)
(* Source: orchestrator/runner.py (_route to _finish, and _resume) and     *)
(* orchestrator/route.py.                                                  *)
(*                                                                         *)
(* RunLifecycle.tla has the run around it and takes the plan as given;     *)
(* Dispatch.tla has the inside of a round.  Here the plan is what moves,   *)
(* and results, cards and rows are kept, as in the code, by step id: `has` *)
(* and `row` remember which step of which plan they are of.                *)
(***************************************************************************)
EXTENDS PlanRules

CONSTANTS
    NoStep,
    Drafts,      \* what the planning call may write
    Fixes,       \* what a repair call may return, whatever has a result already
    MaxRounds,   \* MAX_REPLAN_ROUNDS
    MaxCalls,    \* MAX_LLM_CALLS
    MaxFaults    \* times the database refuses rows

ASSUME PlanTurnAssumption ==
    /\ Id \subseteq Nat \ {0} /\ NoStep \notin Steps
    /\ Drafts \subseteq Plans /\ Fixes \subseteq Plans
    /\ MaxRounds \in Nat /\ MaxCalls \in Nat \ {0} /\ MaxFaults \in Nat

VARIABLES
    at,        \* where the turn stands
    plan,      \* the plan in hand
    came,      \* how many of its steps the stream has closed
    early,     \* what became of an early run of a step
    by,        \* the step that was started early
    claimed,   \* _written: ids with a place in the trace
    writing,   \* steps whose row is being written
    row,       \* node_executions of the latest round
    lost,      \* ids whose row missed its last write, refused (history)
    has,       \* results: the step that gave the result kept for an id
    told,      \* _raised_for_node: the steps that have their card
    card,      \* the last card raised for a step that asks
    asked,     \* how many were raised for it
    out,       \* the round
    again,     \* a step of the round asked for another plan
    round,
    calls,     \* planning calls made
    ran,       \* how often a result was got for an id
    accepted,  \* the plan that was let through last
    resumed,   \* an answered card picked the run up
    faults

trace == <<claimed, writing, row, lost>>
questions == <<told, card, asked>>
vars == <<at, plan, came, early, by, claimed, writing, row, lost, has, told, card, asked,
          out, again, round, calls, ran, accepted, resumed, faults>>

Places == {"stream", "abandon", "collect", "check", "repair", "sync", "dispatch", "degrade", "over"}
EarlyState == {"none", "running", "ok", "bad", "again", "asks", "kept", "gone"}
RowStatus == {"none", "pending", "running", "succeeded", "failed", "skipped", "cancelled"}
Outcome == {"none", "on", "ok", "bad", "skip", "parked", "ask"}
CardState == {"none", "shown", "pending", "answered"}

TypeOK ==
    /\ at \in Places /\ plan \in Plans /\ came \in Nat
    /\ early \in [Id -> EarlyState] /\ by \in [Id -> Steps \cup {NoStep}]
    /\ claimed \subseteq Id /\ writing \subseteq Steps
    /\ row \in [Id -> [step: Steps \cup {NoStep}, status: RowStatus]]
    /\ lost \subseteq Id /\ has \in [Id -> Steps \cup {NoStep}]
    /\ told \subseteq Id /\ card \in [Id -> CardState] /\ asked \in [Id -> Nat]
    /\ out \in [Id -> Outcome] /\ again \in BOOLEAN
    /\ round \in Nat /\ calls \in Nat /\ ran \in [Id -> Nat]
    /\ accepted \subseteq Steps /\ resumed \in BOOLEAN /\ faults \in Nat

None(x) == [i \in Id |-> x]
NoRow == [step |-> NoStep, status |-> "none"]

Init ==
    /\ at = "stream" /\ plan \in Drafts /\ came = 0
    /\ early = None("none") /\ by = None(NoStep)
    /\ claimed = {} /\ writing = {} /\ row = None(NoRow)
    /\ lost = {} /\ has = None(NoStep) /\ told = {} /\ card = None("none") /\ asked = None(0)
    /\ out = None("none") /\ again = FALSE /\ round = 0 /\ calls = 1
    /\ ran = None(0) /\ accepted = {} /\ resumed = FALSE /\ faults = 0

Go(place) == at' = place
Fault == faults < MaxFaults /\ faults' = faults + 1

Said(i, s) == [row EXCEPT ![i].status = s]

\* _persist_step: the row says s; one that was never written is not looked for; or the
\* database refuses the update, which is logged, rolled back and forgotten.
Says(i, s) ==
    \/ row[i] = NoRow /\ UNCHANGED <<row, lost, faults>>
    \/ row[i] # NoRow /\ row' = Said(i, s) /\ lost' = lost \ {i} /\ UNCHANGED faults
    \/ row[i] # NoRow /\ Fault /\ UNCHANGED row /\ lost' = lost \cup {i}

\* Several rows are written, each for itself; all but those of `missed` are.
Misses(missed) == IF missed = {} THEN UNCHANGED faults ELSE Fault

----------------------------------------------------------------------------
(* The stream.                                                             *)

\* _start_early: local, no write, no gate, no edge, no reference.
StartsEarly(s) == s.op \in {"read", "ask"} /\ ~s.gate /\ s.deps = {} /\ s.refs = {}

\* A step closes: it may be started, and its row gets its place; an id that comes
\* again gets none.
Arrive ==
    /\ at = "stream" /\ came < Len(plan.steps)
    /\ LET s == plan.steps[came + 1]
       IN /\ IF StartsEarly(s)
             THEN early' = [early EXCEPT ![s.id] = "running"] /\ by' = [by EXCEPT ![s.id] = s]
             ELSE UNCHANGED <<early, by>>
          /\ writing' = IF s.id \in claimed THEN writing ELSE writing \cup {s}
          /\ claimed' = claimed \cup {s.id}
    /\ came' = came + 1
    /\ UNCHANGED <<at, plan, row, lost, has, questions, out, again, round, calls, ran,
                   accepted, resumed, faults>>

\* _write_step_row: one commit per row, beside the stream.
WriteRow(s) ==
    /\ s \in writing
    /\ row' = [row EXCEPT ![s.id] = [step |-> s, status |-> "pending"]]
    /\ writing' = writing \ {s}
    /\ UNCHANGED <<at, plan, came, early, by, claimed, lost, has, questions, out, again,
                   round, calls, ran, accepted, resumed, faults>>

\* The database refuses it: that is logged, and the turn goes on.
RowRefused(s) ==
    /\ s \in writing /\ Fault
    /\ writing' = writing \ {s}
    /\ UNCHANGED <<at, plan, came, early, by, claimed, row, lost, has, questions, out,
                   again, round, calls, ran, accepted, resumed>>

EarlyEnds(i) ==
    /\ early[i] = "running"
    /\ \E end \in IF by[i].op = "ask" THEN {"asks", "bad"} ELSE {"ok", "bad", "again"} :
        early' = [early EXCEPT ![i] = end]
    /\ UNCHANGED <<at, plan, came, by, trace, has, questions, out, again, round, calls,
                   ran, accepted, resumed, faults>>

PlannerDies ==
    /\ at = "stream" /\ Go("abandon")
    /\ UNCHANGED <<plan, came, early, by, trace, has, questions, out, again, round, calls,
                   ran, accepted, resumed, faults>>

\* Mutant: nobody waits for the rows.
RowsGathered_Never == TRUE

\* The rows are waited for.
RowsGathered == writing = {}

OpenRow(i) == row[i].status \in {"pending", "running"}

Cancelled(r) == IF r.status \in {"pending", "running"} THEN [r EXCEPT !.status = "cancelled"] ELSE r

\* _abandon_steps: the early runs are stopped, the open rows closed, by one update, or,
\* when it is refused, left open.
Abandon ==
    /\ at = "abandon" /\ RowsGathered /\ Go("degrade")
    /\ early' = [i \in Id |-> IF early[i] = "none" THEN "none" ELSE "gone"]
    /\ \/ row' = [i \in Id |-> Cancelled(row[i])] /\ UNCHANGED <<lost, faults>>
       \/ Fault /\ UNCHANGED row /\ lost' = lost \cup {i \in Id : OpenRow(i)}
    /\ UNCHANGED <<plan, came, by, claimed, writing, has, questions, out, again, round,
                   calls, ran, accepted, resumed>>

\* The call is over; a plan that was cut off is taken for what came of it.
StreamEnds ==
    /\ at = "stream" /\ came > 0 /\ Go("collect")
    /\ plan' = [plan EXCEPT !.steps = SubSeq(plan.steps, 1, came)]
    /\ UNCHANGED <<came, early, by, trace, has, questions, out, again, round, calls, ran,
                   accepted, resumed, faults>>

----------------------------------------------------------------------------
(* Early results.                                                          *)

\* The last step of an id is what the finished plan asks under it.
Final(i) ==
    LET last == CHOOSE k \in DOMAIN plan.steps :
                    plan.steps[k].id = i /\ \A j \in k + 1 .. Len(plan.steps) : plan.steps[j].id # i
    IN plan.steps[last]

StillAsked(i) == Final(i).op = by[i].op /\ Final(i).refs = by[i].refs

\* _raise_input: one card per step id.
Raise(i) ==
    /\ told' = told \cup {i}
    /\ IF i \in told THEN UNCHANGED <<card, asked>>
       ELSE asked' = [asked EXCEPT ![i] = @ + 1] /\ card' = [card EXCEPT ![i] = "shown"]

\* _collect_early: a result is kept if the plan still asks for it, a question goes on
\* screen, and all else is left to the round.
Collect(i) ==
    /\ at = "collect" /\ RowsGathered
    /\ early[i] \in {"ok", "bad", "again", "asks"}
    /\ LET keep == StillAsked(i) /\ early[i] = "ok"
       IN /\ early' = [early EXCEPT ![i] = IF keep THEN "kept" ELSE "gone"]
          /\ IF keep
             THEN has' = [has EXCEPT ![i] = by[i]] /\ ran' = [ran EXCEPT ![i] = @ + 1]
             ELSE UNCHANGED <<has, ran>>
          /\ IF StillAsked(i) /\ early[i] = "asks" THEN Raise(i) ELSE UNCHANGED questions
    /\ UNCHANGED <<at, plan, came, by, trace, out, again, round, calls, accepted, resumed, faults>>

\* _record_early: the rows of what was kept say so, but for a write that is refused.
Record ==
    /\ at = "collect" /\ RowsGathered /\ Go("check")
    /\ \A i \in Id : early[i] \in {"none", "kept", "gone"}
    /\ LET kept == {i \in Id : early[i] = "kept" /\ row[i] # NoRow}
       IN \E missed \in SUBSET kept :
            /\ row' = [i \in Id |->
                 IF i \in kept \ missed THEN [row[i] EXCEPT !.status = "succeeded"] ELSE row[i]]
            /\ lost' = lost \cup missed /\ Misses(missed)
    /\ UNCHANGED <<plan, came, early, by, claimed, writing, has, questions, out, again,
                   round, calls, ran, accepted, resumed>>

----------------------------------------------------------------------------
(* The check, and one repair.                                              *)

Accept ==
    /\ at = "check" /\ Accepts(plan) /\ Go("sync")
    /\ accepted' = StepsOf(plan)
    /\ UNCHANGED <<plan, came, early, by, trace, has, questions, out, again, round,
                   calls, ran, resumed, faults>>

Refuse ==
    /\ at = "check" /\ ~Accepts(plan)
    /\ IF calls = 1 /\ calls < MaxCalls THEN Go("repair") ELSE Go("degrade")
    /\ UNCHANGED <<plan, came, early, by, trace, has, questions, out, again, round,
                   calls, ran, accepted, resumed, faults>>

\* The prompt asks the planner to keep the ids of the steps that have a result; what
\* comes back is only checked by the rules of a plan.
Repair ==
    /\ at = "repair" /\ calls' = calls + 1 /\ Go("check")
    /\ plan' \in Fixes
    /\ UNCHANGED <<came, early, by, trace, has, questions, out, again, round, ran,
                   accepted, resumed, faults>>

\* The call fails, or says in words what it cannot plan.
RepairFails ==
    /\ at = "repair" /\ calls' = calls + 1 /\ Go("degrade")
    /\ UNCHANGED <<plan, came, early, by, trace, has, questions, out, again, round, ran,
                   accepted, resumed, faults>>

\* The rest of a turn without a plan: the message, and with it every card shown.
Degrade ==
    /\ at = "degrade" /\ Go("over")
    /\ card' = [i \in Id |-> IF card[i] = "shown" THEN "pending" ELSE card[i]]
    /\ UNCHANGED <<plan, came, early, by, trace, has, told, asked, out, again, round, calls, ran,
                   accepted, resumed, faults>>

\* Mutant: nothing is carried over.
Carried_Nothing(held) == None("none")

\* What a round starts with: a result that is there is not asked for again.
Carried(held) == [i \in Id |-> IF held[i] # NoStep THEN "ok" ELSE "none"]

\* _sync_step_rows: steps without a row get one; the others get their arguments.  A
\* write that is refused costs its row, or leaves the old arguments in it.
SyncRows ==
    /\ at = "sync" /\ Go("dispatch")
    /\ \E missed \in SUBSET {i \in IdsOf(plan) : i \notin claimed \/ row[i] # NoRow} :
        /\ row' = [i \in Id |->
            IF i \notin IdsOf(plan) \ missed THEN row[i]
            ELSE IF i \notin claimed THEN [step |-> Final(i), status |-> "pending"]
            ELSE IF row[i] = NoRow THEN NoRow
            ELSE [row[i] EXCEPT !.step.refs = Final(i).refs]]
        /\ Misses(missed)
    /\ claimed' = claimed \cup IdsOf(plan)
    /\ out' = Carried(has)
    /\ UNCHANGED <<plan, came, early, by, writing, lost, has, questions, again, round,
                   calls, ran, accepted, resumed>>

----------------------------------------------------------------------------
(* A round.                                                                *)

Paused == \E i \in Id : out[i] = "ask"

\* An edge to a step the plan does not have is not waited for.
Waits(s) == s.deps \cap IdsOf(plan)

Ready(s) ==
    /\ at = "dispatch" /\ s \in StepsOf(plan) /\ out[s.id] = "none"
    /\ \A d \in Waits(s) : out[d] \notin {"none", "on"}

Clear(s) == Ready(s) /\ ~Paused /\ \A d \in Waits(s) : out[d] = "ok"

Running(s) == at = "dispatch" /\ s \in StepsOf(plan) /\ out[s.id] = "on"

Stepping ==
    UNCHANGED <<at, plan, came, early, by, claimed, writing, round, calls, accepted, resumed>>

\* bind: what the arguments refer to is there.
Bound(s) == \A r \in s.refs : has[r] # NoStep

Start(s) ==
    /\ Clear(s) /\ Bound(s)
    /\ out' = [out EXCEPT ![s.id] = "on"] /\ Says(s.id, "running")
    /\ Stepping /\ UNCHANGED <<has, questions, again, ran>>

Succeed(s) ==
    /\ Running(s) /\ s.op # "ask"
    /\ out' = [out EXCEPT ![s.id] = "ok"] /\ Says(s.id, "succeeded")
    /\ has' = [has EXCEPT ![s.id] = s] /\ ran' = [ran EXCEPT ![s.id] = @ + 1]
    /\ again' \in IF s.op = "write" THEN {again} ELSE {again, TRUE}
    /\ Stepping /\ UNCHANGED questions

Break(s) ==
    /\ Running(s)
    /\ out' = [out EXCEPT ![s.id] = "bad"] /\ Says(s.id, "failed")
    /\ again' \in {again, TRUE}
    /\ Stepping /\ UNCHANGED <<has, questions, ran>>

\* A reference that does not bind: its target has nothing, or not that field.
Unbound(s) ==
    /\ Clear(s) /\ s.refs # {}
    /\ out' = [out EXCEPT ![s.id] = "bad"] /\ Says(s.id, "failed")
    /\ again' = TRUE
    /\ Stepping /\ UNCHANGED <<has, questions, ran>>

Ask(s) ==
    /\ Running(s) /\ s.op = "ask"
    /\ Raise(s.id)
    /\ out' = [out EXCEPT ![s.id] = "ask"] /\ Says(s.id, "running")
    /\ Stepping /\ UNCHANGED <<has, again, ran>>

\* Left out: behind a step that gave nothing, or because of the gate.
Skip(s) ==
    /\ \/ Ready(s) /\ \E d \in Waits(s) : out[d] \in {"bad", "skip"}
       \/ Clear(s) /\ s.gate
    /\ out' = [out EXCEPT ![s.id] = "skip"] /\ Says(s.id, "skipped")
    /\ Stepping /\ UNCHANGED <<has, questions, again, ran>>

\* Left for the resume: behind a question.
Park(s) ==
    /\ Ready(s)
    /\ \/ \E d \in Waits(s) : out[d] \in {"ask", "parked"}
       \/ Paused /\ \A d \in Waits(s) : out[d] = "ok"
    /\ out' = [out EXCEPT ![s.id] = "parked"] /\ UNCHANGED <<row, lost, faults>>
    /\ Stepping /\ UNCHANGED <<has, questions, again, ran>>

RoundOver == at = "dispatch" /\ \A i \in IdsOf(plan) : out[i] \notin {"none", "on"}

\* Another plan around what is there, with rows of its own; where one is refused, what
\* is said of its step goes to the row of the round before.
Replan ==
    /\ RoundOver /\ again /\ ~Paused /\ ~resumed
    /\ round < MaxRounds /\ calls < MaxCalls
    /\ round' = round + 1 /\ calls' = calls + 1 /\ again' = FALSE
    /\ \E fix \in Fixes :
        /\ Accepts(fix)
        /\ plan' = fix /\ accepted' = StepsOf(fix)
        /\ \E missed \in SUBSET IdsOf(fix) :
            /\ row' = [i \in Id |->
                IF i \in IdsOf(fix) \ missed
                THEN [step |-> CHOOSE s \in StepsOf(fix) : s.id = i, status |-> "pending"] ELSE row[i]]
            /\ lost' = (lost \ IdsOf(fix)) \cup missed /\ Misses(missed)
    /\ out' = Carried(has)
    /\ UNCHANGED <<at, came, early, by, claimed, writing, has, questions, ran, resumed>>

\* _finish; also when no other plan was had.
Finish ==
    /\ RoundOver /\ Go("over")
    /\ card' = [i \in Id |-> IF card[i] = "shown" THEN "pending" ELSE card[i]]
    /\ UNCHANGED <<plan, came, early, by, trace, has, told, asked, out, again, round, calls, ran,
                   accepted, resumed, faults>>

----------------------------------------------------------------------------
(* The answer.                                                             *)

\* The step an answer is taken for: the card's own, or an earlier question.
Placed(i) ==
    LET fits == {n \in Id : \/ n = i /\ row[n] # NoRow
                            \/ row[n].step # NoStep /\ row[n].step.op = "ask" /\ row[n].status # "succeeded"}
    IN {n \in fits : \A m \in fits : n <= m}

\* _resume: the plan is put together from the rows, whatever plan they are of, with no
\* gate; what has succeeded and the answer are carried.  The run's status is not read,
\* and the row of the step that asked may refuse the answer.
Resume(i) ==
    /\ at = "over" /\ card[i] = "pending" /\ Go("dispatch")
    /\ \E n \in Id : row[n] # NoRow
    /\ LET put == Placed(i)
           there == {n \in Id : row[n] # NoRow}
           held == [n \in Id |-> IF row[n].status = "succeeded" \/ n \in put THEN row[n].step ELSE NoStep]
       IN /\ \E order \in [1 .. Cardinality(there) -> there] :
                /\ \A j, k \in DOMAIN order : j < k => order[j] < order[k]
                /\ plan' = [plan EXCEPT !.steps =
                        [k \in DOMAIN order |-> [row[order[k]].step EXCEPT !.gate = FALSE]]]
          /\ has' = held /\ out' = Carried(held)
          /\ \E missed \in SUBSET put :
                /\ row' = [n \in Id |->
                     IF n \in put \ missed THEN [row[n] EXCEPT !.status = "succeeded"] ELSE row[n]]
                /\ lost' = (lost \ put) \cup missed /\ Misses(missed)
          /\ told' = put
    /\ card' = [card EXCEPT ![i] = "answered"]
    /\ resumed' = TRUE /\ again' = FALSE
    /\ UNCHANGED <<came, early, by, claimed, writing, asked, round, calls, ran, accepted>>

----------------------------------------------------------------------------
RoundStep(s) ==
    Start(s) \/ Succeed(s) \/ Break(s) \/ Unbound(s) \/ Ask(s) \/ Skip(s) \/ Park(s)

Proceed ==
    \/ Arrive \/ StreamEnds \/ Abandon \/ Record \/ Accept \/ Refuse \/ Repair \/ RepairFails
    \/ Degrade \/ SyncRows \/ Replan \/ Finish
    \/ \E i \in Id : EarlyEnds(i) \/ Collect(i)
    \/ \E s \in writing : WriteRow(s)
    \/ \E s \in StepsOf(plan) : RoundStep(s)

Next ==
    \/ Proceed \/ PlannerDies
    \/ \E s \in writing : RowRefused(s)
    \/ \E i \in Id : Resume(i)

Spec == Init /\ [][Next]_vars

\* The turn goes on while its process lives; faults and answers need not come.
FairSpec == Spec /\ WF_vars(Proceed)

----------------------------------------------------------------------------
(* Properties.  What is said of a turn is said until a question is         *)
(* answered.                                                               *)

\* A result is kept for a step further up under an id that the plan in force gives to
\* another step.
Reassigned(s) ==
    \E t \in StepsOf(plan) : t.id \in Upstream(s.id, EdgesOf(plan)) /\ has[t.id] \notin {NoStep, t}

\* A step that may start finds a result for everything it refers to, early results in
\* place and rows lost or not; in a repaired plan too, unless the planner gave an id
\* that has a result to another step.
NothingMissing ==
    ~resumed => \A s \in StepsOf(plan) : Clear(s) => Bound(s) \/ (calls > 1 /\ Reassigned(s))

\* What _collect_early is there for, without the exception: refuted, a repair comes
\* after its comparison.
ReferencesBind ==
    ~resumed => \A s \in StepsOf(plan) : Clear(s) => Bound(s)

\* Early, in the round, after a repair: no result is got twice and nothing is asked twice.
DoneOnce ==
    ~resumed => \A i \in Id : ran[i] <= 1 /\ asked[i] <= 1

\* The planning call broke off.
PlannerDied == calls = 1 /\ accepted = {} /\ at \in {"degrade", "over"}

\* The trace tells what happened, whichever of the row and the early run was ready
\* first: in the plan of the first round a row says that its step succeeded if a result
\* is there, and only then; and when the planner died it leaves no step open, nor writes
\* one later.  The exceptions are rows whose last write was refused.
TraceTells ==
    /\ at = "over" /\ round = 0 /\ ~resumed =>
        \A i \in Id :
            /\ has[i] # NoStep /\ row[i] # NoRow => row[i].status = "succeeded" \/ i \in lost
            /\ row[i].status = "succeeded" => has[i] # NoStep
    /\ PlannerDied => writing = {} /\ \A i \in Id : OpenRow(i) => i \in lost

\* In a plan accepted as it came, a write below the floor is staged only when a
\* question in front of it was answered, through the pause and the resume.
UnsureWriteIsAnswered ==
    accepted # {} /\ calls = 1 /\ faults = 0 /\ ~plan.sure =>
        \A w \in Writes(plan) : has[w.id] # NoStep =>
            \E q \in Questions(plan) : q.id \in Upstream(w.id, EdgesOf(plan)) /\ has[q.id] # NoStep

\* The turn ends, whatever plan comes, without the deadline's help: no step of a plan
\* that was let through waits for ever, and repairs are few.
TurnEnds == <>(at = "over")

\* What a resume runs is what the validator let through.
ResumesWhatWasAccepted ==
    resumed => StepsOf(plan) \subseteq accepted
============================================================================
