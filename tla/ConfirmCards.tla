---------------------------- MODULE ConfirmCards ---------------------------
(***************************************************************************)
(* The person's side of a write: the turn that stages it, the confirm card *)
(* that gates it, every way the card can be answered, edited, dismissed or *)
(* left to run out, and the sweepers that clean up.                        *)
(* Source: orchestrator/runner.py, api/v1/prompts.py,                      *)
(* db/repositories/prompts.py, tasks/maintenance.py.                       *)
(*                                                                         *)
(* One user, one conversation.  Each action below is one database          *)
(* transaction of the code, or one step of it that others can interleave   *)
(* with.  Rows written under row locks or guarded by a conditional UPDATE  *)
(* make the transaction atomic; where they do not (the supersede UPDATE    *)
(* cannot see another transaction's uncommitted card; the list of open     *)
(* cards is read before it is used) the transaction is split.              *)
(***************************************************************************)
EXTENDS ActionStore

CONSTANTS
    MaxStaged,  \* writes one turn may stage (bound)
    MaxRevised  \* rows that may stand revised in the chat at once (bound)

VARIABLES
    cardStatus, \* pending_inputs.status; "absent" before the row is committed
    cardOp,     \* op of the step that made the card (by node_execution_id)
    answer,     \* how the card was answered: "yes", "no", "edit" or "none"
    shown,      \* the <<action, payload>> pairs the card put before the person
    due,        \* the cards whose expires_at is in the past
    turn,       \* where each turn is
    runStatus,  \* runs.status
    staged,     \* self.actions of the turn, in staging order
    newCard,    \* the turn's own confirm card (self.pending_inputs)
    actionIds,  \* ids new_id() has given to actions
    cardIds,    \* ids new_id() has given to cards
    cancelling, \* the open cards a "cancel" turn has listed, not yet closed
    outbox      \* approvals committed by _confirm, not yet handed to Celery

cardRows == <<cardStatus, cardOp, answer, shown>>
turnVars == <<turn, runStatus, staged, newCard, actionIds, cardIds>>
cardVars == <<cardRows, due, turnVars, cancelling, outbox>>

InputStatus == {"pending", "answered", "cancelled", "expired", "superseded"}

Entry == [id : Action, payload : Payload, exists : BOOLEAN]

CardTypeOK ==
    /\ cardStatus \in [Card -> InputStatus \cup {"absent"}]
    /\ cardOp \in [Card -> Op \cup {"none"}]
    /\ answer \in [Card -> {"none", "yes", "no", "edit"}]
    /\ shown \in [Card -> SUBSET (Action \X Payload)]
    /\ due \subseteq Card
    /\ turn \in [Run -> {"idle", "working", "writing", "written", "over", "dead"}]
    /\ runStatus \in [Run -> {"none", "running", "complete", "timeout"}]
    /\ staged \in [Run -> Seq(Entry)]
    /\ newCard \in [Run -> Card \cup {NoCard}]
    /\ actionIds \subseteq Action
    /\ cardIds \subseteq Card
    /\ cancelling \subseteq Card
    /\ outbox \subseteq Action

CardInit ==
    /\ cardStatus = [c \in Card |-> "absent"]
    /\ cardOp = [c \in Card |-> "none"]
    /\ answer = [c \in Card |-> "none"]
    /\ shown = [c \in Card |-> {}]
    /\ due = {}
    /\ turn = [r \in Run |-> "idle"]
    /\ runStatus = [r \in Run |-> "none"]
    /\ staged = [r \in Run |-> <<>>]
    /\ newCard = [r \in Run |-> NoCard]
    /\ actionIds = {}
    /\ cardIds = {}
    /\ cancelling = {}
    /\ outbox = {}

----------------------------------------------------------------------------
(* A turn stages its writes and commits them.                              *)

StartTurn(r) ==
    /\ turn[r] = "idle"
    /\ turn' = [turn EXCEPT ![r] = "working"]
    /\ runStatus' = [runStatus EXCEPT ![r] = "running"]
    /\ UNCHANGED <<storeVars, faults, cardRows, due, staged, newCard,
                   actionIds, cardIds, cancelling, outbox>>

\* The action ids _stage_write has returned to this turn's dispatcher.
StagedIds(r) == {staged[r][i].id : i \in DOMAIN staged[r]}

\* What a step stages: its write, after the staged writes it depends on.
StagedPayload(w, deps) == [write |-> w, after |-> deps]

\* _stage_write, when an identical write is in flight: point at that row.
StageExisting(r, w, deps) ==
    /\ turn[r] = "working"
    /\ Len(staged[r]) < MaxStaged
    /\ deps \subseteq StagedIds(r)
    /\ \E b \in FindInFlight(StagedPayload(w, deps)) :
          staged' = [staged EXCEPT ![r] =
              Append(@, [id |-> b, payload |-> StagedPayload(w, deps), exists |-> TRUE])]
    /\ UNCHANGED <<storeVars, faults, cardRows, due, turn, runStatus, newCard,
                   actionIds, cardIds, cancelling, outbox>>

\* _confirm_gate: the turn's one confirm card, made by the first new write and
\* carrying its op.
ConfirmGate(r, w) ==
    IF newCard[r] # NoCard
      THEN UNCHANGED <<newCard, cardIds, cardOp>>
      ELSE \E c \in Card \ cardIds :
              /\ newCard' = [newCard EXCEPT ![r] = c]
              /\ cardIds' = cardIds \cup {c}
              /\ cardOp' = [cardOp EXCEPT ![c] = OpOf[w]]

\* _stage_write, when nothing identical is in flight: a new id, gated.
StageNew(r, w, deps, a) ==
    /\ turn[r] = "working"
    /\ Len(staged[r]) < MaxStaged
    /\ deps \subseteq StagedIds(r)
    /\ FindInFlight(StagedPayload(w, deps)) = {}
    /\ a \notin actionIds
    /\ actionIds' = actionIds \cup {a}
    /\ ConfirmGate(r, w)
    /\ staged' = [staged EXCEPT ![r] =
           Append(@, [id |-> a, payload |-> StagedPayload(w, deps), exists |-> FALSE])]
    /\ UNCHANGED <<storeVars, faults, cardStatus, answer, shown, due, turn,
                   runStatus, cancelling, outbox>>

\* supersede_matching: committed cards of the same op that are still pending.
Superseded(r) ==
    IF newCard[r] = NoCard THEN {}
    ELSE {c \in Card : cardStatus[c] = "pending" /\ cardOp[c] = cardOp[newCard[r]]}

\* _write_message, up to create_prompt: the older twins are superseded.  The
\* new card stays invisible to others until the commit.
RaiseCard(r) ==
    /\ turn[r] = "working"
    /\ staged[r] # <<>>
    /\ turn' = [turn EXCEPT ![r] = "writing"]
    /\ cardStatus' = [c \in Card |->
           IF c \in Superseded(r) THEN "superseded" ELSE cardStatus[c]]
    /\ UNCHANGED <<storeVars, faults, cardOp, answer, shown, due, runStatus,
                   staged, newCard, actionIds, cardIds, cancelling, outbox>>

\* create_action for every entry, in order: an entry becomes a row unless its
\* key is in flight, in the database or earlier in this transaction.
Created(r) ==
    {i \in DOMAIN staged[r] :
        /\ ~staged[r][i].exists
        /\ FindInFlight(staged[r][i].payload) = {}
        /\ \A j \in DOMAIN staged[r] :
              j < i => staged[r][j].exists
                       \/ staged[r][j].payload # staged[r][i].payload}

\* The rows the message brings into being, and the payload of each.
NewRows(r) == {staged[r][i].id : i \in Created(r)}
NewPayload(r, a) ==
    staged[r][CHOOSE i \in Created(r) : staged[r][i].id = a].payload

\* _write_message, from the actions to the commit.
CommitMessage(r) ==
    /\ turn[r] = "writing"
    /\ status' = Set(NewRows(r), "draft")
    /\ payload' = [a \in Action |->
           IF a \in NewRows(r) THEN NewPayload(r, a) ELSE payload[a]]
    /\ dedupe' = [a \in Action |->
           IF a \in NewRows(r) THEN NewPayload(r, a) ELSE dedupe[a]]
    /\ gmailDraft' = [a \in Action |->
           IF a \in NewRows(r) THEN NewPayload(r, a) ELSE gmailDraft[a]]
    /\ gate' = [a \in Action |-> IF a \in NewRows(r) THEN newCard[r] ELSE gate[a]]
    /\ home' = [a \in Action |-> IF a \in NewRows(r) THEN r ELSE home[a]]
    /\ IF newCard[r] = NoCard THEN UNCHANGED cardRows
       ELSE /\ cardStatus' = [cardStatus EXCEPT ![newCard[r]] = "pending"]
            /\ shown' = [shown EXCEPT ![newCard[r]] =
                   {<<a, NewPayload(r, a)>> : a \in NewRows(r)}]
            /\ UNCHANGED <<cardOp, answer>>
    /\ turn' = [turn EXCEPT ![r] = "written"]
    /\ staged' = [staged EXCEPT ![r] = <<>>]
    /\ UNCHANGED <<attempts, told, rewritten, faults, due, runStatus, newCard,
                   actionIds, cardIds, cancelling, outbox>>

\* _settle: the run's status, in a transaction of its own, never over a
\* terminal one.
SettleRun(r) ==
    /\ turn[r] = "written"
    /\ turn' = [turn EXCEPT ![r] = "over"]
    /\ runStatus' = [runStatus EXCEPT ![r] = IF @ = "running" THEN "complete" ELSE @]
    /\ UNCHANGED <<storeVars, faults, cardRows, due, staged, newCard,
                   actionIds, cardIds, cancelling, outbox>>

\* The process running the turn dies.  An open transaction is rolled back, so
\* dying inside it is dying before it.
RunnerCrash(r) ==
    /\ turn[r] \in {"working", "written"}
    /\ Fault("runner")
    /\ turn' = [turn EXCEPT ![r] = "dead"]
    /\ staged' = [staged EXCEPT ![r] = <<>>]
    /\ UNCHANGED <<storeVars, cardRows, due, runStatus, newCard, actionIds,
                   cardIds, cancelling, outbox>>

\* Mutant: the run is stopped and its staged writes are forgotten.
CloseDeadRun_RunOnly(r) ==
    /\ turn[r] = "dead"
    /\ runStatus[r] = "running"
    /\ runStatus' = [runStatus EXCEPT ![r] = "timeout"]
    /\ UNCHANGED <<storeVars, faults, cardRows, due,
                   turn, staged, newCard, actionIds, cardIds, cancelling, outbox>>

\* _close_dead_run: the run, and whatever its messages had staged.  The card
\* itself is left as it is.
CloseDeadRun(r) ==
    /\ turn[r] = "dead"
    /\ runStatus[r] = "running"
    /\ runStatus' = [runStatus EXCEPT ![r] = "timeout"]
    /\ status' = Set({a \in Action : home[a] = r /\ status[a] \in Closable}, "cancelled")
    /\ UNCHANGED <<wordVars, gate, home, attempts, faults, cardRows, due,
                   turn, staged, newCard, actionIds, cardIds, cancelling, outbox>>

----------------------------------------------------------------------------
(* The person answers.                                                     *)

\* Mutant: answer_prompt without its status guard.
AnswerCard_AnyStatus(c, how) ==
    /\ cardStatus[c] # "absent"
    /\ c \notin due
    /\ answer' = [answer EXCEPT ![c] = how]

\* answer_prompt: only a pending card whose time has not run out.
AnswerCard(c, how) ==
    /\ cardStatus[c] = "pending"
    /\ c \notin due
    /\ answer' = [answer EXCEPT ![c] = how]

\* Mutant: the yes approves whatever the card gates, closed rows too.
ConfirmYes_All(c) ==
    /\ AnswerCard(c, "yes")
    /\ cardStatus' = [cardStatus EXCEPT ![c] = "answered"]
    /\ status' = Set(Gated(c, ActionStatus), "approved")
    /\ outbox' = outbox \cup Gated(c, ActionStatus)
    /\ UNCHANGED <<wordVars, gate, home, attempts, faults, cardOp, shown,
                   due, turnVars, cancelling>>

\* _confirm with a yes: every draft the card gates is approved, then handed on.
ConfirmYes(c) ==
    /\ AnswerCard(c, "yes")
    /\ cardStatus' = [cardStatus EXCEPT ![c] = "answered"]
    /\ status' = Set(Gated(c, {"draft"}), "approved")
    /\ outbox' = outbox \cup Gated(c, {"draft"})
    /\ UNCHANGED <<wordVars, gate, home, attempts, faults, cardOp, shown,
                   due, turnVars, cancelling>>

\* _confirm with a no: cancel_for_prompt.
ConfirmNo(c) ==
    /\ AnswerCard(c, "no")
    /\ cardStatus' = [cardStatus EXCEPT ![c] = "answered"]
    /\ status' = Set(Gated(c, Closable), "cancelled")
    /\ UNCHANGED <<wordVars, gate, home, attempts, faults, cardOp, shown,
                   due, turnVars, cancelling, outbox>>

\* Mutant: the edit is saved behind the card the person is looking at.
Edit_SameCard(c, a, w, next) ==
    LET p == [payload[a] EXCEPT !.write = w]
    IN  /\ cardStatus[c] = "pending"
        /\ c \notin due
        /\ Gated(c, {"draft"}) = {a}
        /\ ReviseAction(a, p)
        /\ FindInFlight(p) \subseteq {a}
        /\ next \notin cardIds
        /\ dedupe' = [dedupe EXCEPT ![a] = p]
        /\ gmailDraft' = [gmailDraft EXCEPT ![a] = p]
        /\ told' = [told EXCEPT ![a] = NoPayload]
        /\ UNCHANGED <<status, rewritten, gate, home, attempts, faults, cardVars>>

\* Mutant: the dedupe key stays behind when the payload changes.
Edit_KeepsKey(c, a, w, next) ==
    LET p == [payload[a] EXCEPT !.write = w]
    IN  /\ AnswerCard(c, "edit")
        /\ Gated(c, {"draft"}) = {a}
        /\ ReviseAction(a, p)
        /\ next \notin cardIds
        /\ cardIds' = cardIds \cup {next}
        /\ cardStatus' = [cardStatus EXCEPT ![c] = "answered", ![next] = "pending"]
        /\ cardOp' = [cardOp EXCEPT ![next] = cardOp[c]]
        /\ shown' = [shown EXCEPT ![next] = {<<a, p>>}]
        /\ gmailDraft' = [gmailDraft EXCEPT ![a] = p]
        /\ told' = [told EXCEPT ![a] = NoPayload]
        /\ gate' = [gate EXCEPT ![a] = next]
        /\ UNCHANGED <<status, dedupe, rewritten, home, attempts, faults, due, turn,
                       runStatus, staged, newCard, actionIds, cancelling, outbox>>

\* _edit: revise the one draft, write the draft in Gmail anew, spend the card,
\* gate the draft with a new card that expires with the old one, and move the
\* dedupe key with the payload.  A key another row holds in flight violates
\* the index and rolls back.
Edit(c, a, w, next) ==
    LET p == [payload[a] EXCEPT !.write = w]
    IN  /\ AnswerCard(c, "edit")
        /\ Gated(c, {"draft"}) = {a}
        /\ ReviseAction(a, p)
        /\ FindInFlight(p) \subseteq {a}
        /\ next \notin cardIds
        /\ cardIds' = cardIds \cup {next}
        /\ cardStatus' = [cardStatus EXCEPT ![c] = "answered", ![next] = "pending"]
        /\ cardOp' = [cardOp EXCEPT ![next] = cardOp[c]]
        /\ shown' = [shown EXCEPT ![next] = {<<a, p>>}]
        /\ dedupe' = [dedupe EXCEPT ![a] = p]
        /\ gmailDraft' = [gmailDraft EXCEPT ![a] = p]
        /\ told' = [told EXCEPT ![a] = NoPayload]
        /\ gate' = [gate EXCEPT ![a] = next]
        /\ UNCHANGED <<status, rewritten, home, attempts, faults, due, turn, runStatus,
                       staged, newCard, actionIds, cancelling, outbox>>

\* The person asks for the change in the chat: the verb "revise" (_revise), or
\* a plan with the step action.revise.  Only the row's payload changes: not the
\* card, which may be in any state, not the key, not the draft in Gmail.  (A
\* patch that leaves the payload as it is says nothing new.)
Revise(a, w) ==
    LET p == [payload[a] EXCEPT !.write = w]
    IN  /\ ReviseAction(a, p)
        /\ p # payload[a]
        /\ Cardinality({b \in Action : told[b] # NoPayload}) < MaxRevised
        /\ told' = [told EXCEPT ![a] = p]
        /\ UNCHANGED <<status, dedupe, gmailDraft, rewritten, gate, home, attempts,
                       faults, cardVars>>

\* action.revise reads the row, then locks it and is handed back the object it
\* read (the session keeps it): a row that has left draft in between passes
\* for a draft, and its payload is rewritten whatever its status is now.
ReviseLate(a, w) ==
    /\ status[a] \notin {"absent", "draft"}
    /\ OpOf[w] = OpOf[payload[a].write]
    /\ Fault("stale")
    /\ payload' = [payload EXCEPT ![a].write = w]
    /\ rewritten' = rewritten \cup {a}
    /\ UNCHANGED <<status, dedupe, gmailDraft, told, gate, home, attempts, cardVars>>

\* cancel_prompt: "Not now".  It asks only that the card is pending.
CancelPrompt(c) ==
    /\ cardStatus[c] = "pending"
    /\ cardStatus' = [cardStatus EXCEPT ![c] = "cancelled"]
    /\ status' = Set(Gated(c, Closable), "cancelled")
    /\ UNCHANGED <<wordVars, gate, home, attempts, faults, cardOp, answer,
                   shown, due, turnVars, cancelling, outbox>>

\* _pending_prompts: a "cancel" turn lists the open cards ...
ListOpenCards ==
    /\ cancelling = {}
    /\ cancelling' = {c \in Card : cardStatus[c] = "pending"}
    /\ cancelling' # {}
    /\ UNCHANGED <<storeVars, faults, cardRows, due, turnVars, outbox>>

\* ... and _cancel_open_cards closes what it listed, whatever has happened to
\* those cards since.
CancelOpenCards ==
    /\ cancelling # {}
    /\ status' = Set(UNION {Gated(c, Closable) : c \in cancelling}, "cancelled")
    /\ cardStatus' = [c \in Card |->
           IF c \in cancelling /\ cardStatus[c] = "pending"
             THEN "cancelled" ELSE cardStatus[c]]
    /\ cancelling' = {}
    /\ UNCHANGED <<wordVars, gate, home, attempts, faults, cardOp, answer,
                   shown, due, turnVars, outbox>>

----------------------------------------------------------------------------
(* Time.                                                                   *)

\* A card's expires_at passes.
CardDue(c) ==
    /\ cardStatus[c] # "absent"
    /\ c \notin due
    /\ due' = due \cup {c}
    /\ UNCHANGED <<storeVars, faults, cardRows, turnVars, cancelling, outbox>>

\* What a pass of _expire_prompts closes: cards still pending, and every
\* draft or approved action whose card has run out (cancel_for_prompt for the
\* cards of this pass, expire_actions for the rest).
ExpiredCards == {c \in due : cardStatus[c] = "pending"}
\* Mutant: no backstop, only the cards of this pass.
ExpiredActions_NoBackstop ==
    {a \in Action : status[a] \in Closable /\ gate[a] \in ExpiredCards}

ExpiredActions == {a \in Action : status[a] \in Closable /\ gate[a] \in due}

ExpirePrompts ==
    /\ ExpiredCards \cup ExpiredActions # {}
    /\ cardStatus' = [c \in Card |->
           IF c \in ExpiredCards THEN "expired" ELSE cardStatus[c]]
    /\ status' = Set(ExpiredActions, "expired")
    /\ UNCHANGED <<wordVars, gate, home, attempts, faults, cardOp, answer,
                   shown, due, turnVars, cancelling, outbox>>
============================================================================
