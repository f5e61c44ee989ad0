------------------------------- MODULE Dispatch ----------------------------
(***************************************************************************)
(* One call of the dispatcher: a validated plan, one asyncio task per      *)
(* step, each waiting for its own edges only.                              *)
(* Source: orchestrator/dispatch.py, and the hooks of orchestrator/        *)
(* runner.py it calls back.                                                *)
(*                                                                         *)
(* The tasks share one thread, so what lies between two awaits is one      *)
(* action.  The awaits are: the events of the dependencies, the lock the   *)
(* hooks are serialised by, the slot of a service, the call itself, the    *)
(* pause before a second try, and the hooks that raise a card, stage a     *)
(* write and write a row.                                                  *)
(***************************************************************************)
EXTENDS Naturals, Sequences, FiniteSets

CONSTANTS
    Node,        \* the steps of a plan
    NoNode,
    Lane,        \* the semaphores: gmail, gcal, gdrive, local, openai
    LaneOf,      \* _semaphore_key
    Slots,       \* SEMAPHORE_LIMITS
    MaxTries,    \* MAX_ATTEMPTS (2)
    Spare,       \* the steps marked optional or defer
    Plans,       \* what validate_plan accepts: [deps, kind] records
    Hitches,     \* which of "gate", "bind", "unknown" a step may meet,
                 \* and whether staging may fail ("stage")
    MaxRefused   \* row writes that may stand refused at once (bound)

Kinds == {"read", "ask", "note", "write"}

ASSUME DispatchAssumption ==
    /\ IsFiniteSet(Node) /\ Node # {} /\ NoNode \notin Node
    /\ LaneOf \in [Node -> Lane] /\ Slots \in [Lane -> Nat \ {0}]
    /\ MaxTries \in Nat \ {0} /\ MaxRefused \in Nat
    /\ \A p \in Plans : p.deps \in [Node -> SUBSET Node] /\ p.kind \in [Node -> Kinds]

VARIABLES
    deps, kind,  \* the plan; fixed
    pc,          \* where run_one of a step stands
    stat,        \* outcome.status
    why,         \* outcome.outcome["reason"]
    blame,       \* outcome.outcome["depends_on"]
    done,        \* the events that are set
    tries,       \* calls made
    stop,        \* a question was raised: nothing new starts
    late,        \* the budget: "no", "soft" or "hard"
    asked,       \* `paused`, its blocking entries
    replan,      \* the plan has to be repaired
    lock,        \* write_lock: its holder and who waits, in order
    parked,      \* Run._parked_nodes
    cards,       \* Run.pending_inputs, by the step that asked
    prepared,    \* Run.actions, by the step that staged the write
    staged,      \* staged_by_node
    after,       \* what a write was told to wait for
    row,         \* node_executions.status
    lost,        \* the steps whose last row write was refused (history)
    verdict      \* the status of the DispatchResult

planVars == <<deps, kind>>
outcomeVars == <<stat, why, blame, done>>
writeVars == <<prepared, staged, after>>
rowVars == <<row, lost>>
cardVars == <<stop, asked, cards>>
vars == <<deps, kind, pc, stat, why, blame, done, tries, stop, late, asked, replan,
          lock, parked, cards, prepared, staged, after, row, lost, verdict>>

Ended == {"succeeded", "failed", "skipped", "timeout"}
Status == Ended \cup {"pending", "running"}
Reasons ==
    {"none", "dependency_failed", "run_paused", "unknown_op", "hard_deadline",
     "soft_deadline", "unresolved_reference", "gate_not_met", "invalid", "service"}
Places ==
    {"wait", "begin", "slot", "call", "sleep", "asking", "telling", "staging",
     "emitting", "report", "end", "crashed", "cut"}

TypeOK ==
    /\ deps \in [Node -> SUBSET Node] /\ kind \in [Node -> Kinds]
    /\ pc \in [Node -> Places] /\ stat \in [Node -> Status]
    /\ why \in [Node -> Reasons] /\ blame \in [Node -> Node \cup {NoNode}]
    /\ done \subseteq Node /\ tries \in [Node -> 0 .. MaxTries]
    /\ stop \in BOOLEAN /\ late \in {"no", "soft", "hard"}
    /\ asked \subseteq Node /\ replan \in BOOLEAN /\ lock \in Seq(Node)
    /\ parked \subseteq Node /\ cards \subseteq Node
    /\ prepared \subseteq Node /\ staged \subseteq Node
    /\ after \in [Node -> SUBSET Node] /\ row \in [Node -> Status]
    /\ lost \subseteq Node
    /\ verdict \in {"none", "complete", "paused", "replan", "failed"}

----------------------------------------------------------------------------
(* The call is entered with the results of earlier rounds in `completed`:  *)
(* those steps are short-circuited before any other can move.              *)

Open(carried) ==
    /\ pc = [n \in Node |-> IF n \in carried THEN "end" ELSE "wait"]
    /\ stat = [n \in Node |-> IF n \in carried THEN "succeeded" ELSE "pending"]
    /\ row = stat /\ done = carried
    /\ why = [n \in Node |-> "none"] /\ blame = [n \in Node |-> NoNode]
    /\ tries = [n \in Node |-> 0] /\ after = [n \in Node |-> {}]
    /\ stop = FALSE /\ late = "no" /\ asked = {} /\ replan = FALSE /\ lock = <<>>
    /\ parked = {} /\ cards = {} /\ prepared = {} /\ staged = {} /\ lost = {}
    /\ verdict = "none"

Init ==
    \E p \in Plans :
        /\ deps = p.deps /\ kind = p.kind
        /\ \E carried \in SUBSET Node :
            /\ \A n \in carried : deps[n] \subseteq carried
            /\ Open(carried)

----------------------------------------------------------------------------
(* finish: the outcome and the event at once, the hook behind the lock.    *)

\* Mutant: the event is left to the hook, so nobody who waits hears of it.
Finish_Unset(n, status, reason, cause) ==
    /\ stat' = [stat EXCEPT ![n] = status]
    /\ why' = [why EXCEPT ![n] = reason]
    /\ blame' = [blame EXCEPT ![n] = cause]
    /\ done' = done
    /\ pc' = [pc EXCEPT ![n] = "report"]
    /\ lock' = Append(lock, n)

Finish(n, status, reason, cause) ==
    /\ stat' = [stat EXCEPT ![n] = status]
    /\ why' = [why EXCEPT ![n] = reason]
    /\ blame' = [blame EXCEPT ![n] = cause]
    /\ done' = done \cup {n}
    /\ pc' = [pc EXCEPT ![n] = "report"]
    /\ lock' = Append(lock, n)

Ready(n) == pc[n] = "wait" /\ deps[n] \subseteq done

\* Mutant: only a step that failed breaks what waits for it.
Broken_FailedOnly(n) == {d \in deps[n] : stat[d] = "failed"}

Broken(n) == {d \in deps[n] : stat[d] # "succeeded"}

\* Nothing in the way: the checks of run_one that come before the call.
Clear(n) == Ready(n) /\ Broken(n) = {} /\ ~stop

KeepOnSettling ==
    UNCHANGED <<deps, kind, tries, stop, late, asked, replan, parked, cards,
                prepared, staged, after, rowVars, verdict>>

\* The first broken dependency is named; their order in the plan is free.
SkipBroken(n) ==
    /\ Ready(n)
    /\ \E d \in Broken(n) : Finish(n, "skipped", "dependency_failed", d)
    /\ KeepOnSettling

SkipPaused(n) ==
    /\ Ready(n) /\ Broken(n) = {} /\ stop
    /\ Finish(n, "skipped", "run_paused", NoNode)
    /\ KeepOnSettling

UnknownOp(n) ==
    /\ Clear(n) /\ "unknown" \in Hitches
    /\ Finish(n, "failed", "unknown_op", NoNode)
    /\ KeepOnSettling

TooLate(n) ==
    /\ Clear(n) /\ late = "hard"
    /\ Finish(n, "timeout", "hard_deadline", NoNode)
    /\ KeepOnSettling

SkipSpare(n) ==
    /\ Clear(n) /\ late = "soft" /\ n \in Spare
    /\ Finish(n, "skipped", "soft_deadline", NoNode)
    /\ KeepOnSettling

InTime(n) == Clear(n) /\ late # "hard" /\ (late = "soft" => n \notin Spare)

BindFails(n) ==
    /\ InTime(n) /\ "bind" \in Hitches
    /\ Finish(n, "failed", "unresolved_reference", NoNode)
    /\ KeepOnSettling

GateNotMet(n) ==
    /\ InTime(n) /\ "gate" \in Hitches
    /\ Finish(n, "skipped", "gate_not_met", NoNode)
    /\ KeepOnSettling

Start(n) ==
    /\ InTime(n)
    /\ stat' = [stat EXCEPT ![n] = "running"]
    /\ pc' = [pc EXCEPT ![n] = "begin"]
    /\ lock' = Append(lock, n)
    /\ UNCHANGED <<planVars, why, blame, done, tries, stop, late, asked, replan,
                   parked, cards, writeVars, rowVars, verdict>>

----------------------------------------------------------------------------
(* The hooks behind write_lock.  Its head holds it.                        *)

Holds(n) == lock # <<>> /\ Head(lock) = n

\* _persist_step: the row is written, or the failure is logged, rolled back and
\* swallowed, and the row says what it said.
Persist(n, status) ==
    \/ row' = [row EXCEPT ![n] = status] /\ lost' = lost \ {n}
    \/ row' = row /\ lost' = lost \cup {n} /\ Cardinality(lost') <= MaxRefused

\* on_step_started: the row says running; then the step wants a slot.
BeginHook(n) ==
    /\ Holds(n) /\ pc[n] = "begin"
    /\ Persist(n, "running")
    /\ pc' = [pc EXCEPT ![n] = "slot"]
    /\ lock' = Tail(lock)
    /\ UNCHANGED <<planVars, outcomeVars, tries, late, replan, parked, cardVars,
                   writeVars, verdict>>

\* Mutants: only what stopped itself is parked; whatever was left out is.
IsParked_Direct(n) == stat[n] = "skipped" /\ why[n] = "run_paused"

IsParked_Any(n) == stat[n] = "skipped" /\ why[n] \in {"run_paused", "dependency_failed"}

IsParked(n) ==
    /\ stat[n] = "skipped"
    /\ why[n] = "run_paused" \/ (why[n] = "dependency_failed" /\ blame[n] \in parked)

\* on_step_finished: a parked step keeps its row as it is, for the resume.
\* The reference or the arguments the plan got wrong are reported after it.
Report(n) ==
    /\ Holds(n) /\ pc[n] = "report"
    /\ IF IsParked(n)
       THEN parked' = parked \cup {n} /\ UNCHANGED rowVars
       ELSE parked' = parked /\ Persist(n, stat[n])
    /\ replan' = (replan \/ why[n] \in {"unresolved_reference", "invalid"})
    /\ pc' = [pc EXCEPT ![n] = "end"]
    /\ lock' = Tail(lock)
    /\ UNCHANGED <<planVars, outcomeVars, tries, late, cardVars, writeVars, verdict>>

----------------------------------------------------------------------------
(* The attempts.                                                           *)

InLane(l) == {m \in Node : pc[m] = "call" /\ LaneOf[m] = l}

TakeSlot(n) ==
    /\ pc[n] = "slot" /\ Cardinality(InLane(LaneOf[n])) < Slots[LaneOf[n]]
    /\ pc' = [pc EXCEPT ![n] = "call"]
    /\ tries' = [tries EXCEPT ![n] = @ + 1]
    /\ UNCHANGED <<planVars, outcomeVars, stop, late, asked, replan, lock, parked,
                   cards, writeVars, rowVars, verdict>>

CalledOnly ==
    UNCHANGED <<deps, kind, tries, stop, late, asked, parked, cards, prepared, staged,
                rowVars, verdict>>

\* A retryable failure with an attempt, and time, left: the slot is given back.
FailAndWait(n) ==
    /\ pc[n] = "call" /\ tries[n] < MaxTries /\ late # "hard"
    /\ pc' = [pc EXCEPT ![n] = "sleep"]
    /\ CalledOnly /\ UNCHANGED <<outcomeVars, replan, lock, after>>

TryAgain(n) ==
    /\ pc[n] = "sleep"
    /\ pc' = [pc EXCEPT ![n] = "slot"]
    /\ CalledOnly /\ UNCHANGED <<outcomeVars, replan, lock, after>>

\* The last failure: the class, the attempts or the latency cap ends it.
FailForGood(n) ==
    /\ pc[n] = "call"
    /\ \/ Finish(n, "failed", "invalid", NoNode)
       \/ Finish(n, "failed", "service", NoNode)
       \/ Finish(n, "timeout", "service", NoNode)
    /\ CalledOnly /\ UNCHANGED <<replan, after>>

\* A read is done; it may say that the plan does not fit what it found.
Answer(n) ==
    /\ pc[n] = "call" /\ kind[n] = "read"
    /\ Finish(n, "succeeded", "none", NoNode)
    /\ replan' \in {replan, TRUE}
    /\ CalledOnly /\ UNCHANGED after

\* _raise_input up to its first await: the card is buffered, and a blocking one
\* parks whatever waits for this step.
Raise(n) ==
    /\ pc[n] = "call" /\ kind[n] \in {"ask", "note"}
    /\ cards' = cards \cup {n}
    /\ parked' = IF kind[n] = "ask" THEN parked \cup {n} ELSE parked
    /\ pc' = [pc EXCEPT ![n] = "asking"]
    /\ UNCHANGED <<planVars, outcomeVars, tries, stop, late, asked, replan, lock,
                   writeVars, rowVars, verdict>>

\* A blocking question stops the round; its own outcome stays `running`.
Asked(n) ==
    /\ pc[n] = "asking" /\ kind[n] = "ask"
    /\ stop' = TRUE /\ asked' = asked \cup {n} /\ done' = done \cup {n}
    /\ pc' = [pc EXCEPT ![n] = "telling"]
    /\ UNCHANGED <<planVars, stat, why, blame, tries, late, replan, lock, parked,
                   cards, writeVars, rowVars, verdict>>

\* Its row is written without the lock, and says running again.
Tell(n) ==
    /\ pc[n] = "telling"
    /\ Persist(n, stat[n])
    /\ pc' = [pc EXCEPT ![n] = "end"]
    /\ UNCHANGED <<planVars, outcomeVars, tries, late, replan, lock, parked, cardVars,
                   writeVars, verdict>>

\* A question nobody has to answer first is a result like another.
Noted(n) ==
    /\ pc[n] = "asking" /\ kind[n] = "note"
    /\ Finish(n, "succeeded", "none", NoNode)
    /\ CalledOnly /\ UNCHANGED <<replan, after>>

\* A confirmable write: who it comes after is read here.
BeginStage(n) ==
    /\ pc[n] = "call" /\ kind[n] = "write"
    /\ after' = [after EXCEPT ![n] = deps[n] \cap staged]
    /\ pc' = [pc EXCEPT ![n] = "staging"]
    /\ CalledOnly /\ UNCHANGED <<outcomeVars, replan, lock>>

\* _stage_write has looked for the same write in flight and buffers this one.
Prepare(n) ==
    /\ pc[n] = "staging"
    /\ prepared' = prepared \cup {n}
    /\ pc' = [pc EXCEPT ![n] = "emitting"]
    /\ UNCHANGED <<planVars, outcomeVars, tries, late, replan, lock, parked, cardVars,
                   staged, after, rowVars, verdict>>

\* The look-up fails: the exception ends the task, and its event is never set.
StageFails(n) ==
    /\ pc[n] = "staging" /\ "stage" \in Hitches
    /\ pc' = [pc EXCEPT ![n] = "crashed"]
    /\ CalledOnly /\ UNCHANGED <<outcomeVars, replan, lock, after>>

\* Mutant: the step does not keep the id of what it staged.
Staged_Forgets(n) ==
    /\ pc[n] = "emitting"
    /\ UNCHANGED staged
    /\ Finish(n, "succeeded", "none", NoNode)
    /\ UNCHANGED <<planVars, tries, stop, late, asked, replan, parked, cards,
                   prepared, after, rowVars, verdict>>

Staged(n) ==
    /\ pc[n] = "emitting"
    /\ staged' = staged \cup {n}
    /\ Finish(n, "succeeded", "none", NoNode)
    /\ UNCHANGED <<planVars, tries, stop, late, asked, replan, parked, cards,
                   prepared, after, rowVars, verdict>>

----------------------------------------------------------------------------
(* The budget, and the end of the call.                                    *)

SoftDeadline ==
    /\ verdict = "none" /\ late = "no" /\ late' = "soft"
    /\ UNCHANGED <<planVars, pc, outcomeVars, tries, replan, lock, parked, cardVars,
                   writeVars, rowVars, verdict>>

HardDeadline ==
    /\ verdict = "none" /\ late # "hard" /\ late' = "hard"
    /\ UNCHANGED <<planVars, pc, outcomeVars, tries, replan, lock, parked, cardVars,
                   writeVars, rowVars, verdict>>

Over(n) == pc[n] \in {"end", "crashed", "cut"}

\* Mutant: the deadline overwrites what ended badly.
Unsettled_Bad(n) == stat[n] # "succeeded"

Unsettled(n) == stat[n] \in {"pending", "running"}

\* asyncio.wait runs into its timeout: what is left is cancelled, wherever it
\* stands, and every outcome still open says so, in its row too if it can.
Cancel ==
    /\ verdict = "none" /\ late = "hard" /\ \E n \in Node : ~Over(n)
    /\ pc' = [n \in Node |-> IF Over(n) THEN pc[n] ELSE "cut"]
    /\ stat' = [n \in Node |-> IF Unsettled(n) THEN "timeout" ELSE stat[n]]
    /\ why' = [n \in Node |-> IF Unsettled(n) THEN "hard_deadline" ELSE why[n]]
    /\ \E refused \in SUBSET {n \in Node : Unsettled(n)} :
          /\ lost' = {n \in lost : ~Unsettled(n)} \cup refused
          /\ refused = {} \/ Cardinality(lost') <= MaxRefused
          /\ row' = [n \in Node |->
                 IF Unsettled(n) /\ n \notin refused THEN "timeout" ELSE row[n]]
    /\ lock' = <<>>
    /\ UNCHANGED <<planVars, blame, done, tries, late, replan, parked, cardVars,
                   writeVars, verdict>>

Conclude ==
    /\ verdict = "none" /\ \A n \in Node : Over(n)
    /\ verdict' = IF asked # {} THEN "paused"
                  ELSE IF replan THEN "replan"
                  ELSE IF \A n \in Node : stat[n] \in {"failed", "timeout"} THEN "failed"
                  ELSE "complete"
    /\ UNCHANGED <<planVars, pc, outcomeVars, tries, late, replan, lock, parked,
                   cardVars, writeVars, rowVars>>

\* DispatchResult.awaiting: what stands behind the question, transitively.
Behind(S) ==
    \A n \in Node :
        /\ stat[n] = "skipped"
        /\ why[n] = "run_paused" \/ blame[n] \in S
        => n \in S

Awaiting ==
    {n \in Node : \A S \in SUBSET Node : asked \subseteq S /\ Behind(S) => n \in S}

----------------------------------------------------------------------------
Step(n) ==
    \/ SkipBroken(n) \/ SkipPaused(n) \/ UnknownOp(n) \/ TooLate(n) \/ SkipSpare(n)
    \/ BindFails(n) \/ GateNotMet(n) \/ Start(n)
    \/ BeginHook(n) \/ Report(n) \/ TakeSlot(n) \/ FailAndWait(n) \/ TryAgain(n)
    \/ FailForGood(n) \/ Answer(n) \/ Raise(n) \/ Asked(n) \/ Tell(n) \/ Noted(n)
    \/ BeginStage(n) \/ Prepare(n) \/ StageFails(n) \/ Staged(n)

\* Everything but time itself.
Proceed == (\E n \in Node : Step(n)) \/ Cancel \/ Conclude

Next == Proceed \/ SoftDeadline \/ HardDeadline

Spec == Init /\ [][Next]_vars

\* Something that can go on does: calls end by their own timeout, hooks catch what
\* they meet.  That is all that is assumed; time may stand still.
FairSpec == Spec /\ WF_vars(Proceed)

----------------------------------------------------------------------------
(* Properties.                                                             *)

\* A step is called only on results: everything it depends on has succeeded, and
\* still says so, whatever failed, parked, crashed or was cancelled beside it.
CalledOnResults ==
    \A n \in Node : tries[n] > 0 => \A d \in deps[n] : stat[d] = "succeeded"

\* Two places decide which steps wait for an answer: the dispatcher, from the
\* outcomes, at the end; the runner, as each hook runs, from the cards it raised.
\* They must agree, or a resume finds a step that waits closed as given up.  Only
\* a deadline that cuts a hook short, or a row the database refused, may leave more
\* rows pending.
AwaitingIsParked ==
    verdict = "paused" =>
        /\ \A n \in Awaiting : stat[n] = "skipped" => row[n] = "pending"
        /\ late # "hard" =>
            \A n \in Node :
                stat[n] = "skipped" /\ row[n] = "pending" => n \in Awaiting \cup lost

\* When the call is over no step has vanished: each has one outcome, but for the
\* question that is still open and the step whose staging fell over.  A row that names
\* an outcome names the step's.  If the deadline did not cut the call short every row
\* does, but for the steps that wait and those whose last write was refused.
RowsTell ==
    verdict # "none" =>
        /\ \A n \in Node : stat[n] # "pending"
        /\ \A n \in Node : stat[n] = "running" => n \in asked \/ pc[n] = "crashed"
        /\ \A n \in Node : row[n] \in Ended => row[n] = stat[n]
        /\ late # "hard" =>
            \A n \in Node :
                \/ row[n] = stat[n] \/ n \in lost
                \/ row[n] = "pending" /\ n \in parked /\ verdict = "paused"

\* What the person is shown agrees with the outcomes.  A blocking card that reached the
\* screen stops the run: the call ends paused, and on it; without the deadline there is
\* no card a finished run still shows.  A write that the call cancelled half way is the
\* only one the run holds without its step knowing.
ShownAgrees ==
    verdict # "none" =>
        /\ verdict = "paused" => asked # {} /\ asked \subseteq cards
        /\ late # "hard" => {n \in cards : kind[n] = "ask"} = asked
        /\ staged \subseteq prepared
        /\ \A n \in prepared \ staged : stat[n] = "timeout" /\ late = "hard"

\* The call ends: by itself when no task fell over, and in any case once the hard
\* deadline has passed, however the steps wait on each other and on slots.
CallEnds ==
    [](\A n \in Node : pc[n] # "crashed") \/ <>(late = "hard") => <>(verdict # "none")

\* The tasks, locks and deadlines implement the plain round.
Round == INSTANCE PlanRound WITH over <- (verdict # "none")
ImplementsPlanRound == Round!Spec
============================================================================
