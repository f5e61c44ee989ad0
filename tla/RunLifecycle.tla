---------------------------- MODULE RunLifecycle ---------------------------
(***************************************************************************)
(* A run from its message to its end, across the processes that work on    *)
(* it: the turn that starts it, the requests that answer or dismiss its    *)
(* questions, the crash sweeper and the expiry of cards.                   *)
(* Source: orchestrator/runner.py, tasks/maintenance.py and the            *)
(* repositories runs.py, steps.py and prompts.py.                          *)
(*                                                                         *)
(* The tables (runs, node_executions, pending_inputs, actions) are shared  *)
(* and survive; what a process holds in memory is in `proc` and dies with  *)
(* it.  A commit is one action.  Dispatch.tla has the inside of a call of  *)
(* the dispatcher; here a step and the row it writes are one action.       *)
(* Blocking cards only: ConfirmCards.tla has the others.                   *)
(***************************************************************************)
EXTENDS Naturals, FiniteSets

CONSTANTS
    Node,        \* node ids, numbered in the order of their rows
    Run,         \* runs of one conversation, each begun by a turn
    Card,        \* ids of blocking cards, numbered in the order they are raised
    Request,     \* calls of the API that answer or dismiss a card
    NoNode, NoCard, NoRun,
    Plans,       \* the plans of the runs: run -> [steps, deps, kind, form, trouble],
                 \* where trouble is what may go wrong with a step
    MaxRounds,   \* MAX_REPLAN_ROUNDS
    MaxFaults    \* failures of a process or of a commit

Kinds == {"read", "ask", "write"}

ASSUME RunAssumption ==
    /\ Node \subseteq Nat \ {0} /\ IsFiniteSet(Node) /\ NoNode \notin Node
    /\ Card \subseteq Nat /\ IsFiniteSet(Card) /\ NoCard \notin Card
    /\ Run \cap Request = {} /\ NoRun \notin Run
    /\ MaxRounds \in Nat /\ MaxFaults \in Nat
    /\ \A plan \in Plans : \A r \in Run :
        /\ plan[r].steps \subseteq Node
        /\ \A n \in plan[r].steps :
            /\ plan[r].deps[n] \subseteq plan[r].steps /\ plan[r].kind[n] \in Kinds
            /\ plan[r].trouble[n] \subseteq {"bad", "auth", "again", "late", "lost"}

VARIABLES
    plan,     \* the validated plan of each run; fixed
    status,   \* runs.status
    old,      \* the runs whose started_at the sweeper takes for long ago
    row,      \* node_executions.status, of the latest round
    value,    \* the card whose answer a row holds as its result
    round,    \* node_executions.round, the latest
    card,     \* pending_inputs, and the cards only shown so far
    issued,   \* pending_inputs.created_at: the cards that were there when one came
    act,      \* the write a step staged, in actions
    after,    \* SEQUENCE_KEY: the steps whose writes it must follow
    ran,      \* how often a step was carried out
    lost,     \* the steps whose success the database did not take
    proc,     \* what each process holds in memory
    sweep,    \* what sweep_stuck read of each run
    faults    \* failures so far

tables == <<plan, status, row, value, round, card, issued, act, after>>
vars ==
    <<plan, status, old, row, value, round, card, issued, act, after, ran, lost, proc, sweep, faults>>

Proc == Run \cup Request
Live == {"running", "awaiting_input"}
Terminal == {"complete", "failed", "timeout", "cancelled"}
RunStatus == Live \cup Terminal
OpenRow == {"pending", "running"}
NodeStatus == OpenRow \cup {"succeeded", "failed", "skipped", "timeout", "cancelled"}
CardStatus == {"unused", "shown", "lost", "pending", "answered", "cancelled", "expired", "superseded"}
Places ==
    {"idle", "plan", "dispatch", "write", "settle", "failing", "mark_failed",
     "answer", "cancel", "rebuild", "mark", "close", "done"}

None(x) == [n \in Node |-> x]

Idle ==
    [at |-> "idle", run |-> NoRun, held |-> NoCard, put |-> NoNode, out |-> None("none"),
     paused |-> FALSE, again |-> FALSE, reauth |-> FALSE,
     staged |-> {}, cards |-> {}, acts |-> {}, verdict |-> "none"]

\* What a process has in memory.
Memory ==
    [at: Places, run: Run \cup {NoRun}, held: Card \cup {NoCard}, put: Node \cup {NoNode},
     out: [Node -> {"none", "ok", "bad", "skip", "parked", "ask", "late"}],
     paused: BOOLEAN, again: BOOLEAN, reauth: BOOLEAN, staged: SUBSET Node,
     cards: SUBSET Card, acts: SUBSET Node,
     verdict: {"none", "awaiting_input", "complete", "timeout"}]

\* A question as its card names it.
CardRow == [state: CardStatus, run: Run \cup {NoRun}, node: Node \cup {NoNode}]

TypeOK ==
    /\ plan \in Plans /\ status \in [Run -> RunStatus \cup {"none"}] /\ old \subseteq Run
    /\ row \in [Run -> [Node -> NodeStatus \cup {"absent"}]]
    /\ value \in [Run -> [Node -> Card \cup {NoCard}]]
    /\ round \in [Run -> 0 .. MaxRounds]
    /\ card \in [Card -> CardRow]
    /\ issued \in [Card -> SUBSET Card]
    /\ act \in [Run -> [Node -> {"none", "draft", "cancelled"}]]
    /\ after \in [Run -> [Node -> SUBSET Node]]
    /\ ran \in [Run -> [Node -> Nat]] /\ lost \in [Run -> SUBSET Node]
    /\ proc \in [Proc -> Memory]
    /\ sweep \in [Run -> {"none", "running", "awaiting_input", "close"}]
    /\ faults \in 0 .. MaxFaults

Init ==
    /\ plan \in Plans
    /\ status = [r \in Run |-> "none"] /\ old = {}
    /\ row = [r \in Run |-> None("absent")] /\ value = [r \in Run |-> None(NoCard)]
    /\ round = [r \in Run |-> 0]
    /\ card = [c \in Card |-> [state |-> "unused", run |-> NoRun, node |-> NoNode]]
    /\ issued = [c \in Card |-> {}]
    /\ act = [r \in Run |-> None("none")] /\ after = [r \in Run |-> None({})]
    /\ ran = [r \in Run |-> None(0)] /\ lost = [r \in Run |-> {}]
    /\ proc = [p \in Proc |-> Idle]
    /\ sweep = [r \in Run |-> "none"] /\ faults = 0

----------------------------------------------------------------------------
(* The run's status.                                                       *)

At(p, place) == proc[p].at = place
Go(p, place) == proc' = [proc EXCEPT ![p].at = place]

\* A process that has ended, however, holds nothing.
End(p) == proc' = [proc EXCEPT ![p] = [Idle EXCEPT !.at = "done"]]

\* Of a round only its verdict and what it wants written outlive it.
CloseRound(p, verdict, cards) ==
    proc' = [proc EXCEPT ![p] =
        [Idle EXCEPT !.at = "write", !.run = proc[p].run, !.held = proc[p].held,
                     !.acts = proc[p].acts, !.cards = cards, !.verdict = verdict]]

\* set_status: a run that has finished is not moved again.
SetStatus(r, s) ==
    status' = IF status[r] \in Terminal THEN status ELSE [status EXCEPT ![r] = s]

\* cancel_pending: what is open of a run is closed.
CancelPending(r) ==
    row' = [row EXCEPT ![r] = [n \in Node |-> IF @[n] \in OpenRow THEN "cancelled" ELSE @[n]]]

----------------------------------------------------------------------------
(* A turn.                                                                 *)

\* open: the user's message and the run, committed.
StartTurn(r) ==
    /\ status[r] = "none" /\ At(r, "idle")
    /\ status' = [status EXCEPT ![r] = "running"]
    /\ proc' = [proc EXCEPT ![r].at = "plan", ![r].run = r]
    /\ UNCHANGED <<plan, old, row, value, round, card, issued, act, after, ran, lost, sweep, faults>>

\* _say: an answer with no plan behind it.
Say(r) ==
    /\ At(r, "plan")
    /\ proc' = [proc EXCEPT ![r].at = "settle", ![r].verdict = "complete"]
    /\ UNCHANGED <<tables, old, ran, lost, sweep, faults>>

\* The message answers a card on screen: this run is settled, the other goes on.
AnswerOpenCard(r, c) ==
    /\ At(r, "plan") /\ card[c].state = "pending"
    /\ SetStatus(r, "complete")
    /\ proc' = [proc EXCEPT ![r].at = "answer", ![r].run = card[c].run, ![r].held = c]
    /\ UNCHANGED <<plan, old, row, value, round, card, issued, act, after, ran, lost, sweep, faults>>

\* The plan is valid, its rows are written, each in a commit of its own.
WriteSteps(r) ==
    /\ At(r, "plan") /\ plan[r].steps # {}
    /\ row' = [row EXCEPT ![r] = [n \in Node |-> IF n \in plan[r].steps THEN "pending" ELSE @[n]]]
    /\ Go(r, "dispatch")
    /\ UNCHANGED <<plan, status, old, value, round, card, issued, act, after, ran, lost, sweep, faults>>

----------------------------------------------------------------------------
(* A round of the dispatcher, by whichever process.                        *)

Deps(p, n) == plan[proc[p].run].deps[n]
Kind(p, n) == plan[proc[p].run].kind[n]
May(p, n, x) == x \in plan[proc[p].run].trouble[n]
Out(p, n) == proc[p].out[n]

Ready(p, n) ==
    /\ At(p, "dispatch") /\ n \in plan[proc[p].run].steps /\ Out(p, n) = "none"
    /\ \A d \in Deps(p, n) : Out(p, d) # "none"

Clear(p, n) ==
    Ready(p, n) /\ ~proc[p].paused /\ \A d \in Deps(p, n) : Out(p, d) = "ok"

Ran(p, n) == ran' = [ran EXCEPT ![proc[p].run][n] = @ + 1]

Fault == faults < MaxFaults /\ faults' = faults + 1

\* _persist_step swallows the failure of its own write: the step goes on, its row
\* stays as it was.
Refuse(p, n, s) ==
    /\ May(p, n, "lost") /\ Fault /\ UNCHANGED row
    /\ lost' = IF s = "succeeded" THEN [lost EXCEPT ![proc[p].run] = @ \cup {n}] ELSE lost

Store(p, n, s) == row' = [row EXCEPT ![proc[p].run][n] = s] /\ UNCHANGED <<lost, faults>>

RowSays(p, n, s) == Store(p, n, s) \/ Refuse(p, n, s)

Stepping == UNCHANGED <<plan, status, old, value, round, card, issued, act, sweep>>
NoRow == UNCHANGED <<row, lost, faults>>

Succeed(p, n) ==
    /\ Clear(p, n) /\ Kind(p, n) = "read"
    /\ \E more \in {FALSE} \cup {x \in BOOLEAN : May(p, n, "again")} :
        proc' = [proc EXCEPT ![p].out[n] = "ok", ![p].again = @ \/ more]
    /\ RowSays(p, n, "succeeded") /\ Ran(p, n)
    /\ Stepping /\ UNCHANGED after

\* A failure: of the service, of the arguments the plan wrote, or of the grant.
Break(p, n) ==
    /\ Clear(p, n)
    /\ \/ /\ May(p, n, "bad")
          /\ proc' = [proc EXCEPT ![p].out[n] = "bad"]
       \/ /\ May(p, n, "again")
          /\ proc' = [proc EXCEPT ![p].out[n] = "bad", ![p].again = TRUE]
       \/ /\ May(p, n, "auth")
          /\ proc' = [proc EXCEPT ![p].out[n] = "bad", ![p].reauth = TRUE]
    /\ RowSays(p, n, "failed")
    /\ Stepping /\ UNCHANGED <<after, ran>>

\* A write is staged: it follows the writes staged by what it depends on, as far
\* as this call of the dispatcher has staged them.
Stage(p, n) ==
    /\ Clear(p, n) /\ Kind(p, n) = "write"
    /\ proc' = [proc EXCEPT ![p].out[n] = "ok", ![p].acts = @ \cup {n}, ![p].staged = @ \cup {n}]
    /\ after' = [after EXCEPT ![proc[p].run][n] = Deps(p, n) \cap proc[p].staged]
    /\ RowSays(p, n, "succeeded") /\ Ran(p, n)
    /\ Stepping

Unused == {c \in Card : card[c].state = "unused"}
NextCard == CHOOSE c \in Unused : \A d \in Unused : c <= d

Show(r, n) == card' = [card EXCEPT ![NextCard] = [state |-> "shown", run |-> r, node |-> n]]

\* A question: it is on screen at once, and in the tables with the message.
Ask(p, n) ==
    /\ Clear(p, n) /\ Kind(p, n) = "ask" /\ Unused # {}
    /\ Show(proc[p].run, n)
    /\ proc' = [proc EXCEPT ![p].out[n] = "ask", ![p].paused = TRUE, ![p].cards = @ \cup {NextCard}]
    /\ RowSays(p, n, "running")
    /\ UNCHANGED <<plan, status, old, value, round, issued, act, after, ran, sweep>>

\* Two questions that wait for nothing are both under way before one can stop the
\* other.
AskToo(p, n) ==
    /\ Ready(p, n) /\ proc[p].paused /\ Kind(p, n) = "ask" /\ Unused # {}
    /\ Deps(p, n) = {} /\ \A m \in plan[proc[p].run].steps : Out(p, m) \in {"none", "ok", "ask"}
    /\ Show(proc[p].run, n)
    /\ proc' = [proc EXCEPT ![p].out[n] = "ask", ![p].cards = @ \cup {NextCard}]
    /\ RowSays(p, n, "running")
    /\ UNCHANGED <<plan, status, old, value, round, issued, act, after, ran, sweep>>

\* Left out: a step behind a failure says so, one behind a question keeps its row.
Skip(p, n) ==
    /\ Ready(p, n)
    /\ \E d \in Deps(p, n) :
        \/ /\ Out(p, d) \in {"bad", "skip", "late"}
           /\ proc' = [proc EXCEPT ![p].out[n] = "skip"] /\ RowSays(p, n, "skipped")
        \/ /\ Out(p, d) \in {"ask", "parked"}
           /\ proc' = [proc EXCEPT ![p].out[n] = "parked"] /\ NoRow
    /\ Stepping /\ UNCHANGED <<after, ran>>

SkipPaused(p, n) ==
    /\ Ready(p, n) /\ proc[p].paused /\ \A d \in Deps(p, n) : Out(p, d) = "ok"
    /\ proc' = [proc EXCEPT ![p].out[n] = "parked"]
    /\ NoRow /\ Stepping /\ UNCHANGED <<after, ran>>

\* The hard deadline ends what is still open, questions included.
Deadline(p) ==
    /\ At(p, "dispatch")
    /\ LET steps == plan[proc[p].run].steps
           left == {n \in steps : Out(p, n) \in {"none", "ask"}}
       IN /\ \E n \in steps : Out(p, n) = "none" /\ May(p, n, "late")
          /\ proc' = [proc EXCEPT ![p].out = [n \in Node |-> IF n \in left THEN "late" ELSE @[n]]]
          /\ \E missed \in SUBSET left :
              /\ row' = [row EXCEPT ![proc[p].run] =
                          [n \in Node |-> IF n \in left \ missed THEN "timeout" ELSE @[n]]]
              /\ \A n \in missed : May(p, n, "lost")
              /\ IF missed = {} THEN UNCHANGED faults ELSE Fault
    /\ Stepping /\ UNCHANGED <<after, ran, lost>>

----------------------------------------------------------------------------
(* After the round.                                                        *)

RoundOver(p) ==
    At(p, "dispatch") /\ \A n \in plan[proc[p].run].steps : Out(p, n) # "none"

\* A turn may have its plan repaired, here into the same steps.  The round gets
\* rows of its own; what has succeeded is handed over in memory.
Replan(r) ==
    /\ RoundOver(r) /\ proc[r].held = NoCard
    /\ proc[r].again /\ ~proc[r].paused /\ round[r] < MaxRounds
    /\ round' = [round EXCEPT ![r] = @ + 1]
    /\ row' = [row EXCEPT ![r] = [n \in Node |-> IF n \in plan[r].steps THEN "pending" ELSE @[n]]]
    /\ value' = [value EXCEPT ![r] = None(NoCard)]
    /\ proc' = [proc EXCEPT ![r].out = [n \in Node |-> IF @[n] = "ok" THEN "ok" ELSE "none"],
                            ![r].staged = {}, ![r].again = FALSE, ![r].reauth = FALSE]
    /\ UNCHANGED <<plan, status, old, card, issued, act, after, ran, lost, sweep, faults>>

Verdict(p) ==
    IF proc[p].paused THEN "awaiting_input"
    ELSE IF /\ \E n \in plan[proc[p].run].steps : Out(p, n) = "late"
            /\ \A n \in plan[proc[p].run].steps : Out(p, n) # "ok"
         THEN "timeout" ELSE "complete"

\* _finish renders what there is; nothing is wrong with the grant.
Conclude(p) ==
    /\ RoundOver(p) /\ (proc[p].reauth => proc[p].paused)
    /\ CloseRound(p, Verdict(p), proc[p].cards)
    /\ UNCHANGED <<tables, old, ran, lost, sweep, faults>>

\* _park_on_reconnect: the grant is gone, so the run waits for it.
ParkOnReconnect(p) ==
    /\ RoundOver(p) /\ proc[p].reauth /\ ~proc[p].paused /\ Unused # {}
    /\ Show(proc[p].run, NoNode)
    /\ CloseRound(p, "awaiting_input", {NextCard})
    /\ UNCHANGED <<plan, status, old, row, value, round, issued, act, after, ran, lost, sweep, faults>>

\* A card and an older one of the same kind, from the same op, in the conversation.
Replaces(c, d) ==
    /\ card[c].node # NoNode /\ card[d].node # NoNode
    /\ plan[card[c].run].form[card[c].node] = plan[card[d].run].form[card[d].node]

\* The cards in the table.
Filed == {c \in Card : card[c].state \notin {"unused", "shown", "lost"}}

\* _write_message: the message, its cards and its writes in one transaction.
Insert(p) ==
    /\ card' = [d \in Card |->
        IF d \in proc[p].cards
        THEN [card[d] EXCEPT !.state =
                IF \E c \in proc[p].cards : c > d /\ Replaces(c, d) THEN "superseded" ELSE "pending"]
        ELSE IF card[d].state = "pending" /\ \E c \in proc[p].cards : Replaces(c, d)
             THEN [card[d] EXCEPT !.state = "superseded"]
             ELSE card[d]]
    /\ issued' = [c \in Card |-> IF c \in proc[p].cards THEN Filed ELSE issued[c]]
    /\ act' = [act EXCEPT ![proc[p].run] =
                [n \in Node |-> IF n \in proc[p].acts THEN "draft" ELSE @[n]]]

WriteMessage(p) ==
    /\ At(p, "write")
    /\ Insert(p)
    /\ proc' = [proc EXCEPT ![p].at = "settle", ![p].cards = {}, ![p].acts = {}]
    /\ UNCHANGED <<plan, status, old, row, value, round, after, ran, lost, sweep, faults>>

\* _settle, in a transaction of its own; the process has nothing more to write.
Settle(p) ==
    /\ At(p, "settle")
    /\ SetStatus(proc[p].run, proc[p].verdict)
    /\ End(p)
    /\ UNCHANGED <<plan, old, row, value, round, card, issued, act, after, ran, lost, sweep, faults>>

----------------------------------------------------------------------------
(* What goes wrong with a process.                                         *)

\* An exception in the plan, the round or the answer: _fail takes over.
Crashed(p) ==
    /\ Fault
    /\ \/ At(p, "plan") \/ At(p, "dispatch") \/ At(p, "write")
    /\ Go(p, "failing")
    /\ UNCHANGED <<tables, old, ran, lost, sweep>>

\* _fail writes a message too, and with it whatever was buffered.
FailMessage(p) ==
    /\ At(p, "failing")
    /\ Insert(p)
    /\ proc' = [proc EXCEPT ![p].at = "mark_failed", ![p].cards = {}, ![p].acts = {}]
    /\ UNCHANGED <<plan, status, old, row, value, round, after, ran, lost, sweep, faults>>

MarkFailed(p) ==
    /\ At(p, "mark_failed")
    /\ SetStatus(proc[p].run, "failed")
    /\ End(p)
    /\ UNCHANGED <<plan, old, row, value, round, card, issued, act, after, ran, lost, sweep, faults>>

\* _settle swallows its own failure.
SettleLost(p) ==
    /\ At(p, "settle") /\ Fault
    /\ End(p)
    /\ UNCHANGED <<tables, old, ran, lost, sweep>>

Working(p) == proc[p].at \notin {"idle", "done"}

\* The process dies, or its request ends in an error nobody handles: what it only
\* had on screen is lost.
Die(p) ==
    /\ Working(p) /\ Fault
    /\ card' = [c \in Card |->
        IF c \in proc[p].cards THEN [card[c] EXCEPT !.state = "lost"] ELSE card[c]]
    /\ End(p)
    /\ UNCHANGED <<plan, status, old, row, value, round, issued, act, after, ran, lost, sweep>>

----------------------------------------------------------------------------
(* A person and a card.                                                    *)

\* The request has read the card and found it pending.
Open(q, c, place) ==
    /\ At(q, "idle") /\ card[c].state = "pending"
    /\ proc' = [proc EXCEPT ![q].at = place, ![q].held = c, ![q].run = card[c].run]
    /\ UNCHANGED <<tables, old, ran, lost, sweep, faults>>

\* Mutant: the guard stays in the handler that read the card.
Answer_AnyStatus(p) ==
    /\ At(p, "answer")
    /\ card' = [card EXCEPT ![proc[p].held].state = "answered"]
    /\ Go(p, "rebuild")
    /\ UNCHANGED <<plan, status, old, row, value, round, issued, act, after, ran, lost, sweep, faults>>

\* answer_prompt: the guard is in the WHERE clause.
Answer(p) ==
    /\ At(p, "answer") /\ card[proc[p].held].state = "pending"
    /\ card' = [card EXCEPT ![proc[p].held].state = "answered"]
    /\ Go(p, "rebuild")
    /\ UNCHANGED <<plan, status, old, row, value, round, issued, act, after, ran, lost, sweep, faults>>

\* PROMPT_NOT_PENDING, for an answer and for a dismissal.
Refused(p) ==
    /\ At(p, "answer") \/ At(p, "cancel")
    /\ card[proc[p].held].state # "pending"
    /\ End(p)
    /\ UNCHANGED <<tables, old, ran, lost, sweep, faults>>

\* The step the answer is taken for: the card's own, or any earlier question that
\* has no result yet.
Placed(r, c) ==
    LET fits == {n \in plan[r].steps :
                    \/ n = card[c].node
                    \/ plan[r].kind[n] = "ask" /\ row[r][n] # "succeeded"}
    IN IF fits = {} THEN NoNode ELSE CHOOSE n \in fits : \A m \in fits : n <= m

\* Mutant: the plan is run from the start, with the one answer in it.
Rebuild_Fresh(p) ==
    /\ At(p, "rebuild")
    /\ LET n0 == Placed(proc[p].run, proc[p].held)
       IN proc' = [proc EXCEPT ![p].at = "mark", ![p].put = n0,
            ![p].out = [n \in Node |-> IF n = n0 THEN "ok" ELSE "none"]]
    /\ UNCHANGED <<tables, old, ran, lost, sweep, faults>>

\* _resume rebuilds the plan from the rows; those that succeeded are carried.
Rebuild(p) ==
    /\ At(p, "rebuild")
    /\ LET r == proc[p].run
           n0 == Placed(r, proc[p].held)
       IN proc' = [proc EXCEPT
            ![p].at = "mark", ![p].put = n0,
            ![p].out = [n \in Node |-> IF row[r][n] = "succeeded" \/ n = n0 THEN "ok" ELSE "none"]]
    /\ UNCHANGED <<tables, old, ran, lost, sweep, faults>>

MarkResumed(p) ==
    /\ At(p, "mark")
    /\ status' = IF status[proc[p].run] = "awaiting_input"
                 THEN [status EXCEPT ![proc[p].run] = "running"] ELSE status
    /\ Go(p, "close")
    /\ UNCHANGED <<plan, old, row, value, round, card, issued, act, after, ran, lost, sweep, faults>>

\* The row of the question gets the answer, and the dispatcher is entered again.
CloseQuestion(p) ==
    /\ At(p, "close")
    /\ Go(p, "dispatch")
    /\ \/ proc[p].put = NoNode /\ NoRow /\ UNCHANGED value
       \/ /\ proc[p].put # NoNode /\ Store(p, proc[p].put, "succeeded")
          /\ value' = [value EXCEPT ![proc[p].run][proc[p].put] = proc[p].held]
       \/ /\ proc[p].put # NoNode /\ Refuse(p, proc[p].put, "succeeded")
          /\ UNCHANGED value
    /\ UNCHANGED <<plan, status, old, round, card, issued, act, after, ran, sweep>>

\* Mutant: the run is closed without its steps.
CancelCard_RunOnly(q) ==
    /\ At(q, "cancel") /\ card[proc[q].held].state = "pending"
    /\ card' = [card EXCEPT ![proc[q].held].state = "cancelled"]
    /\ SetStatus(proc[q].run, "cancelled")
    /\ End(q)
    /\ UNCHANGED <<plan, old, row, value, round, issued, act, after, ran, lost, sweep, faults>>

\* cancel_prompt: the card, the steps and the run in one transaction.
CancelCard(q) ==
    /\ At(q, "cancel") /\ card[proc[q].held].state = "pending"
    /\ card' = [card EXCEPT ![proc[q].held].state = "cancelled"]
    /\ CancelPending(proc[q].run)
    /\ SetStatus(proc[q].run, "cancelled")
    /\ End(q)
    /\ UNCHANGED <<plan, old, value, round, issued, act, after, ran, lost, sweep, faults>>

\* expire_prompts: the card only; the run is left to the sweeper.
Expire(c) ==
    /\ card[c].state = "pending"
    /\ card' = [card EXCEPT ![c].state = "expired"]
    /\ UNCHANGED <<plan, status, old, row, value, round, issued, act, after, ran, lost, proc, sweep, faults>>

----------------------------------------------------------------------------
(* sweep_stuck.                                                            *)

\* STUCK_AFTER_S have passed since started_at, which a resume does not renew.  A
\* turn itself is over by then.
Age(r) ==
    /\ status[r] # "none" /\ r \notin old
    /\ ~(Working(r) /\ proc[r].run = r)
    /\ old' = old \cup {r}
    /\ UNCHANGED <<tables, ran, lost, proc, sweep, faults>>

SweepRead ==
    /\ \A r \in Run : sweep[r] = "none"
    /\ sweep' = [r \in Run |-> IF r \in old /\ status[r] \in Live THEN status[r] ELSE "none"]
    /\ UNCHANGED <<tables, old, ran, lost, proc, faults>>

\* Mutant: the steps and writes are closed, the run is not.
CloseDeadRun_StepsOnly(r) ==
    /\ sweep[r] = "running"
    /\ CancelPending(r)
    /\ act' = [act EXCEPT ![r] = [n \in Node |-> IF @[n] = "draft" THEN "cancelled" ELSE @[n]]]
    /\ sweep' = [sweep EXCEPT ![r] = "none"]
    /\ UNCHANGED <<plan, status, old, value, round, card, issued, after, ran, lost, proc, faults>>

\* _close_dead_run: the run, its steps, its writes, one transaction.
CloseDeadRun(r) ==
    /\ sweep[r] = "running"
    /\ SetStatus(r, "timeout") /\ CancelPending(r)
    /\ act' = [act EXCEPT ![r] = [n \in Node |-> IF @[n] = "draft" THEN "cancelled" ELSE @[n]]]
    /\ sweep' = [sweep EXCEPT ![r] = "none"]
    /\ UNCHANGED <<plan, old, value, round, card, issued, after, ran, lost, proc, faults>>

CardsOf(r) == {c \in Filed : card[c].run = r}

\* Cards of one message come in the order they were raised.
Newer(c, d) == d \in issued[c] \/ (issued[d] = issued[c] /\ d <= c)
Newest(r) == CHOOSE c \in CardsOf(r) : \A d \in CardsOf(r) : Newer(c, d)

\* The newest card decides.  An answered one is handed to a task by a name that no
\* worker knows: nothing comes of it.
SweepLook(r) ==
    /\ sweep[r] = "awaiting_input"
    /\ sweep' = [sweep EXCEPT ![r] =
        IF CardsOf(r) # {} /\ card[Newest(r)].state \notin {"pending", "answered"}
        THEN "close" ELSE "none"]
    /\ UNCHANGED <<tables, old, ran, lost, proc, faults>>

SweepClose(r) ==
    /\ sweep[r] = "close"
    /\ SetStatus(r, "cancelled") /\ CancelPending(r)
    /\ sweep' = [sweep EXCEPT ![r] = "none"]
    /\ UNCHANGED <<plan, old, value, round, card, issued, act, after, ran, lost, proc, faults>>

----------------------------------------------------------------------------
TurnStep(r) ==
    \/ Say(r) \/ WriteSteps(r) \/ Replan(r) \/ \E c \in Card : AnswerOpenCard(r, c)

WorkStep(p) ==
    \/ \E n \in Node :
        \/ Succeed(p, n) \/ Break(p, n) \/ Stage(p, n) \/ Ask(p, n) \/ AskToo(p, n)
        \/ Skip(p, n) \/ SkipPaused(p, n)
    \/ Deadline(p) \/ Conclude(p) \/ ParkOnReconnect(p) \/ WriteMessage(p) \/ Settle(p)
    \/ FailMessage(p) \/ MarkFailed(p)
    \/ Answer(p) \/ Refused(p) \/ Rebuild(p) \/ MarkResumed(p) \/ CloseQuestion(p)

FaultStep(p) == Crashed(p) \/ SettleLost(p) \/ Die(p)

SweepStep(r) == CloseDeadRun(r) \/ SweepLook(r) \/ SweepClose(r)

Next ==
    \/ \E r \in Run : StartTurn(r) \/ TurnStep(r) \/ Age(r) \/ SweepStep(r)
    \/ \E p \in Proc : WorkStep(p) \/ FaultStep(p)
    \/ \E q \in Request : CancelCard(q) \/ \E c \in Card : Open(q, c, "answer") \/ Open(q, c, "cancel")
    \/ \E c \in Card : Expire(c)
    \/ SweepRead

Spec == Init /\ [][Next]_vars

\* A process that lives goes on; the two beats of the scheduler come round; a
\* person need not do anything.
FairSpec ==
    /\ Spec
    /\ \A r \in Run : WF_vars(TurnStep(r) \/ WorkStep(r))
    /\ \A q \in Request : WF_vars(CancelCard(q) \/ WorkStep(q))
    /\ WF_vars(\E r \in Run : Age(r)) /\ WF_vars(\E c \in Card : Expire(c))
    /\ WF_vars(SweepRead) /\ WF_vars(\E r \in Run : SweepStep(r))

----------------------------------------------------------------------------
(* Properties.                                                             *)

Quiet(r) == \A p \in Proc : proc[p].run = r => ~Working(p)

Resuming(p) == proc[p].held # NoCard /\ ~(At(p, "answer") \/ At(p, "cancel"))

\* One answer, one resume: two requests, or a request and a message, never carry the
\* same card's answer into the plan.
ResumedOnce ==
    \A p, q \in Proc :
        Resuming(p) /\ Resuming(q) /\ p # q => proc[p].held # proc[q].held

\* One message of a run asked two questions of different forms: neither card replaces
\* the other, both may be answered, and two processes resume the run at once.
Crossed(r) ==
    \E c, d \in CardsOf(r) : c # d /\ issued[c] = issued[d] /\ ~Replaces(c, d)

\* A run awaits only what the sweeper can see end: it has a card, and if that card was
\* answered the process that took the answer is at work or was lost.
AwaitingHasReason(r) ==
    status[r] = "awaiting_input" =>
        /\ CardsOf(r) # {}
        /\ card[Newest(r)].state = "answered" =>
            faults > 0 \/ \E p \in Proc : Working(p) /\ proc[p].run = r

\* When a run was cancelled or given up and nobody works on it any more, no step of
\* it is shown as waiting or running.
ClosedLeavesNothingOpen(r) ==
    status[r] = "cancelled" /\ Quiet(r) => \A n \in Node : row[r][n] \notin OpenRow

\* What a run says of itself agrees with its cards, and with its steps unless two of its
\* questions were open at once.
StatusAgrees ==
    \A r \in Run : AwaitingHasReason(r) /\ (Crossed(r) \/ ClosedLeavesNothingOpen(r))

\* What succeeded is not done again when a question is answered, unless the plan was
\* repaired in between, the database did not take the row that says it succeeded, or
\* two of the run's questions were open at once.
ReusedNotRerun ==
    \A r \in Run : \A n \in Node :
        ran[r][n] > 1 => round[r] > 0 \/ n \in lost[r] \/ Crossed(r)

\* The answer of a card becomes the result of the step that asked.
AnswerInPlace ==
    \A r \in Run : \A n \in Node : value[r][n] # NoCard => card[value[r][n]].node = n

\* A staged write names every staged write its step depends on.
SequencedAfterStaged ==
    \A r \in Run : \A n \in Node :
        act[r][n] = "draft" => \A d \in plan[r].deps[n] : act[r][d] = "draft" => d \in after[r][n]

\* The sweeper does not close a run some process is working on.
LiveRunNotClosed ==
    [][\A r \in Run : sweep[r] = "running" /\ sweep'[r] = "none" => Quiet(r)]_vars

\* The answer came and its process died before the run was marked as resumed.
AnswerLost(r) ==
    status[r] = "awaiting_input" /\ card[Newest(r)].state = "answered" /\ Quiet(r)

\* In the end every run that began is over, whoever died and whether or not anyone
\* answered, except one whose answer was taken by a process that died before it marked
\* the run as resumed: nothing comes back to that run (EveryRunEnds, below, is not true
\* of the code).
RunsEnd == <>[](\A r \in Run : status[r] \in Live => AnswerLost(r))

----------------------------------------------------------------------------
(* What the code says of itself and does not do; README, section 3.         *)

\* What sweep_stuck promises: a run stuck awaiting an answered card is finished.
EveryRunEnds == <>[](\A r \in Run : status[r] \notin Live)

\* What has a result is not run a second time.
NeverRerun == \A r \in Run : \A n \in Node : ran[r][n] > 1 => round[r] > 0

\* A run is shown as closed or waiting only when it is.
AlwaysAgrees == \A r \in Run : AwaitingHasReason(r) /\ ClosedLeavesNothingOpen(r)
============================================================================
