------------------------------ MODULE WritePath ----------------------------
(***************************************************************************)
(* The write path as a whole: turns stage writes behind confirm cards, a   *)
(* person answers the cards, and workers carry out what was approved.      *)
(* The two sides share the rows of ActionStore and meet at the queue.      *)
(***************************************************************************)
EXTENDS ConfirmCards, ActionsWorker

vars == <<storeVars, faults, cardVars, workerVars>>

Init == StoreInit /\ CardInit /\ WorkerInit

\* _enqueue_action, once _confirm has committed.
Enqueue(a) ==
    /\ a \in outbox
    /\ outbox' = outbox \ {a}
    /\ queue' = queue \cup {[action |-> a, retries |-> 0]}
    /\ UNCHANGED <<storeVars, faults, cardRows, due, turnVars, cancelling,
                   deadLetter, pc, job, body, googleVars>>

\* .delay() raises and the exception is swallowed, or the process is gone.
EnqueueLost(a) ==
    /\ a \in outbox
    /\ Fault("enqueue")
    /\ outbox' = outbox \ {a}
    /\ UNCHANGED <<storeVars, cardRows, due, turnVars, cancelling, workerVars>>

TurnStep(r) ==
    \/ StartTurn(r)
    \/ \E w \in Write, deps \in SUBSET StagedIds(r) :
          StageExisting(r, w, deps) \/ \E a \in Action : StageNew(r, w, deps, a)
    \/ RaiseCard(r) \/ CommitMessage(r) \/ SettleRun(r)
    \/ RunnerCrash(r)

PersonStep ==
    \/ \E c \in Card : ConfirmYes(c) \/ ConfirmNo(c) \/ CancelPrompt(c)
    \/ \E c, next \in Card, a \in Action, w \in Write : Edit(c, a, w, next)
    \/ \E a \in Action, w \in Write : Revise(a, w) \/ ReviseLate(a, w)
    \/ ListOpenCards \/ CancelOpenCards

SweepStep ==
    \/ ExpirePrompts
    \/ \E r \in Run : CloseDeadRun(r)

WorkerStep(w) ==
    \/ \E m \in queue : Skip(w, m) \/ Load(w, m)
    \/ SequenceClear(w) \/ SequenceWaiting(w) \/ SequenceBlocked(w)
    \/ RevalidateFresh(w) \/ RevalidateStale(w) \/ RevalidateRaises(w)
    \/ SettleHeld(w) \/ Claim(w) \/ ClaimLost(w)
    \/ ExecuteSucceeds(w) \/ ExecuteFails(w) \/ SettleDone(w) \/ SettleFailed(w)

CardSide ==
    /\ \/ \E r \in Run : TurnStep(r)
       \/ PersonStep
       \/ \E c \in Card : CardDue(c)
       \/ SweepStep
    /\ UNCHANGED workerVars

WorkerSide ==
    /\ \/ \E w \in Worker : WorkerStep(w) \/ WorkerCrash(w)
       \/ \E a \in Action : Replay(a)
    /\ UNCHANGED cardVars

Next ==
    \/ CardSide
    \/ WorkerSide
    \/ \E a \in Action : Enqueue(a) \/ EnqueueLost(a)

Spec == Init /\ [][Next]_vars

----------------------------------------------------------------------------
(* Safety.                                                                 *)

\* A row is complete or absent, and the card it must have exists
\* (requires_input_id and message_id are NOT NULL).
RowOK(a) ==
    IF status[a] = "absent"
      THEN payload[a] = NoPayload /\ gate[a] = NoCard /\ home[a] = NoRun
      ELSE /\ payload[a] \in Payload /\ gmailDraft[a] \in Payload /\ home[a] \in Run
           /\ gate[a] \in Card /\ cardStatus[gate[a]] # "absent"

\* Every variable has its type, and no write exists without a card to gate it.
TypeOK ==
    /\ StoreTypeOK /\ CardTypeOK /\ WorkerTypeOK
    /\ \A a \in Action : RowOK(a)

\* What Google applied is, word for word, what some card showed a person who
\* then said yes, or what the chat had said the draft behind that card now
\* says (_revise): no edit, retry, redelivery or sweep gets between the card
\* and the payload a worker loaded earlier.  The one exception is a row that a
\* step action.revise rewrote after the yes (ReviseLate).
ConsentedWrites ==
    \A e \in applied :
        \/ \E c \in Card : answer[c] = "yes" /\ e \in shown[c]
        \/ answer[gate[e[1]]] = "yes" /\ told[e[1]] = e[2]
        \/ e[1] \in rewritten

\* A write happens at most once, however often its message is delivered,
\* retried or replayed, and whichever workers die (claim_action).
AppliedAtMostOnce == \A a \in Action : effects[a] <= 1

\* An action that is still waiting, or was closed without running, has never
\* touched Google, whatever raced with the sweep or the "no" that closed it.
ClosedNeverApplied ==
    \A a \in Action :
        status[a] \in {"draft", "approved", "cancelled", "expired"} => effects[a] = 0

\* "done" is said only of a write Google did apply (_settle, complete_action).
DoneWasApplied == \A a \in Action : status[a] = "done" => effects[a] = 1

\* A write that must follow others is applied only when every one of them is
\* done, though the verdict is read long before the claim (_sequence_verdict).
AppliedInOrder ==
    \A a \in Action : effects[a] > 0 =>
        \A b \in payload[a].after : status[b] = "done"

\* A card that was declined, dismissed, superseded or left to run out never
\* lets the write it gates through (cancel_for_prompt, expire_actions).
RefusedNeverApplied ==
    \A a \in Action : gate[a] # NoCard =>
        \/ answer[gate[a]] = "yes" /\ cardStatus[gate[a]] = "answered"
        \/ effects[a] = 0

\* Two rows in flight would write the same thing (actions_dedupe_key_idx) only
\* where the chat, which leaves the key behind, has made one of them say so: a
\* card's edit never does.
OneInFlightPerPayload ==
    \A a, b \in InFlight : payload[a] = payload[b] =>
        a = b \/ \E x \in {a, b} : told[x] = payload[x] \/ x \in rewritten

\* A row that waits to be claimed has never been attempted: step 2 of
\* _execute, the search of Gmail's Sent folder, is never reached.
ApprovedIsFresh == \A a \in Action : status[a] \in Closable => attempts[a] = 0

\* The bulk UPDATEs that do not go through transition() make no move it would
\* refuse, and nothing leaves a status TERMINAL_STATUSES calls final.
StatusMoves ==
    [][\A a \in Action :
          status[a] # "absent" /\ status'[a] # status[a] =>
              /\ status[a] \notin TerminalStatuses
              /\ status'[a] \in AllowedTransitions[status[a]]]_vars

----------------------------------------------------------------------------
(* The promise this design implements.                                     *)

\* Where a write stands for the person: "applied" as soon as Google has
\* applied it, whatever became of the row or of the worker since, and "broken"
\* once its words have been changed behind a yes.
StageOf(a) ==
    IF a \in rewritten THEN "broken"
    ELSE IF effects[a] > 0 THEN "applied"
    ELSE CASE status[a] = "absent"                  -> "none"
           [] status[a] = "draft"                   -> "offered"
           [] status[a] \in {"approved", "running"} -> "granted"
           [] OTHER                                 -> "closed"

Promise == INSTANCE Consent WITH
    stage <- [a \in Action |-> StageOf(a)], words <- payload

\* Every behaviour of turns, cards, queue, workers and sweeps is, seen through
\* StageOf, a behaviour of Consent.
ImplementsConsent == Promise!Spec

----------------------------------------------------------------------------
(* Fairness and liveness.                                                  *)

Deliver(a) ==
    \E m \in queue, w \in Worker : m.action = a /\ (Skip(w, m) \/ Load(w, m))

\* Celery runs what it is given: the queue is first in, first out (so no
\* message is passed over for ever), tasks run to their end, and beat keeps
\* sending the sweeps.  Nothing makes a person answer, a clock strike at a
\* given moment, or a failure happen.
Fairness ==
    /\ \A a \in Action :
          /\ WF_vars(Enqueue(a))
          /\ WF_vars(Replay(a) /\ UNCHANGED cardVars)
          /\ SF_vars(Deliver(a) /\ UNCHANGED cardVars)
    /\ \A w \in Worker : WF_vars(pc[w] # "idle" /\ WorkerStep(w) /\ UNCHANGED cardVars)
    /\ WF_vars(SweepStep /\ UNCHANGED workerVars)

FairSpec == Spec /\ Fairness

\* An approved write that depends on no other is attempted, or cancelled, or
\* its card runs out first.
ApprovedIsAttempted ==
    \A a \in Action :
        status[a] = "approved" /\ payload[a].after = {}
            ~> status[a] # "approved" \/ gate[a] \in due

\* When a card runs out, whatever it gates is closed, also when the card was
\* superseded or already answered (the "backstop" of _expire_prompts).
DueIsClosed ==
    \A a \in Action :
        status[a] \in Closable /\ gate[a] \in due ~> status[a] \notin Closable

\* A turn whose process died leaves no write behind that could still happen.
DeadTurnIsClosed ==
    \A r \in Run :
        turn[r] = "dead" ~> \A a \in Action : home[a] = r => status[a] \notin Closable

----------------------------------------------------------------------------
(* What the code or its documents say and the model refutes.               *)

\* cancel_for_prompt: "Close out every action a card was gating when the card
\* is declined, superseded or expired."
SupersededCardGatesNothing ==
    \A a \in Action : gate[a] # NoCard /\ cardStatus[gate[a]] = "superseded" =>
        status[a] # "draft"

\* fail_action: "It did not happen."  _execute tells the person "Nothing was
\* changed."
FailedDidNotHappen == \A a \in Action : status[a] = "failed" => effects[a] = 0

\* _confirm and the card ("Approve"): what runs is what the card put before
\* the person.  _revise changes the payload behind a card that stays up.
CardShowsWhatRuns ==
    \A e \in applied : \E c \in Card : answer[c] = "yes" /\ e \in shown[c]

\* _revise: "Updated. It still has not been sent - approve the card when it
\* looks right."  The draft in Gmail, which is what is sent, is not updated.
ToldIsWhatRuns ==
    \A a \in Action : effects[a] > 0 /\ told[a] # NoPayload => <<a, told[a]>> \in applied

\* create_action: "If an identical action is already in flight, that row is
\* returned instead of a second one being made."
NoTwinsInFlight == \A a, b \in InFlight : payload[a] = payload[b] => a = b

\* A claimed row's outcome is recorded, whatever becomes of the worker.
RunningSettles ==
    \A a \in Action : status[a] = "running" ~> status[a] \in {"done", "failed"}
============================================================================
