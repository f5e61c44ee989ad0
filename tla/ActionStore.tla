---------------------------- MODULE ActionStore ----------------------------
(***************************************************************************)
(* The rows of the `actions` table and the repository that moves them.     *)
(* Source: db/models.py (Action), db/repositories/actions.py.              *)
(*                                                                         *)
(* An action is one prepared write.  Its payload names what will be        *)
(* written (`write`) and the actions it must run after (`after`, the       *)
(* payload key "_sequence_after").  The dedupe key is a fingerprint of     *)
(* user, op, payload and conversation; user and conversation are fixed     *)
(* here and the op is a function of the write, so the fingerprint is the   *)
(* payload itself.  It is kept in a variable of its own because the code   *)
(* stores it in a column of its own and has to move the two together.      *)
(*                                                                         *)
(* Two variables are histories no step reads: `told` and `rewritten` say   *)
(* what became of a payload that changed behind the card gating it.        *)
(***************************************************************************)
EXTENDS Naturals, FiniteSets, Sequences

CONSTANTS
    Action,     \* ids new_id() may give an action
    Card,       \* ids new_id() may give a prompt (a confirm card)
    Run,        \* turns of one conversation, each owning at most one message
    Write,      \* what a payload may ask Google to do
    Op,         \* op names ("gmail.send_email", "gcal.update_event", ...)
    OpOf,       \* the op that owns each write
    DraftBacked,\* the ops that send a draft kept in Gmail, not the payload
    NoPayload, NoCard, NoRun,
    Faults,     \* the kinds of failure the environment may inject
    MaxFaults   \* how many of them in one behaviour (bound)

FaultKind ==
    {"enqueue",    \* API process dies or the broker is down before .delay()
     "runner",     \* the process running a turn dies
     "worker",     \* a worker dies before it claims the row
     "claim",      \* the claim's transaction fails for another reason than a race
     "claimed",    \* a worker dies, or cannot write, after it claimed the row
     "stale",      \* a row leaves draft while a step that revises it is at work
     "transient",  \* Google fails revalidation with a class a retry may fix
     "permanent"}  \* ... or with one it cannot

ASSUME OpAssumption == OpOf \in [Write -> Op] /\ DraftBacked \subseteq Op
ASSUME NullAssumption ==
    /\ NoCard \notin Card
    /\ NoRun \notin Run
    /\ NoPayload \notin [write : Write, after : SUBSET Action]
ASSUME FaultAssumption == Faults \subseteq FaultKind /\ MaxFaults \in Nat

VARIABLES
    status,     \* actions.status; "absent" before the row is inserted
    payload,    \* actions.payload
    dedupe,     \* actions.dedupe_key
    gmailDraft, \* what the draft behind actions.external_ref says
    gate,       \* actions.requires_input_id
    home,       \* the turn whose message the row belongs to (message_id)
    attempts,   \* actions.attempts
    told,       \* what the chat last said the payload had become (history)
    rewritten,  \* the rows whose payload changed after a yes (history)
    faults      \* how many failures have been injected so far

\* What a row says, in all the places it says it.
wordVars == <<payload, dedupe, gmailDraft, told, rewritten>>
storeVars == <<status, wordVars, gate, home, attempts>>

Payload == [write : Write, after : SUBSET Action]
ActionStatus ==
    {"draft", "approved", "running", "done", "failed", "cancelled", "expired"}
InFlightStatuses == {"draft", "approved", "running"}
TerminalStatuses == {"done", "failed", "cancelled", "expired"}
\* Mutant: a sweep or a "no" also closes rows a worker is executing.
Closable_Running == {"draft", "approved", "running"}

\* What cancel_for_prompt, expire_actions and _close_dead_run may still close.
Closable == {"draft", "approved"}

AllowedTransitions ==
    [s \in ActionStatus |->
        CASE s = "draft"    -> {"approved", "cancelled", "expired"}
          [] s = "approved" -> {"running", "cancelled", "expired"}
          [] s = "running"  -> {"done", "failed", "approved"}
          [] s = "failed"   -> {"approved"}
          [] OTHER          -> {}]

StoreTypeOK ==
    /\ status \in [Action -> ActionStatus \cup {"absent"}]
    /\ payload \in [Action -> Payload \cup {NoPayload}]
    /\ dedupe \in [Action -> Payload \cup {NoPayload}]
    /\ gmailDraft \in [Action -> Payload \cup {NoPayload}]
    /\ told \in [Action -> Payload \cup {NoPayload}]
    /\ rewritten \subseteq Action
    /\ gate \in [Action -> Card \cup {NoCard}]
    /\ home \in [Action -> Run \cup {NoRun}]
    /\ attempts \in [Action -> Nat]
    /\ faults \in Nat

StoreInit ==
    /\ status = [a \in Action |-> "absent"]
    /\ payload = [a \in Action |-> NoPayload]
    /\ dedupe = [a \in Action |-> NoPayload]
    /\ gmailDraft = [a \in Action |-> NoPayload]
    /\ told = [a \in Action |-> NoPayload]
    /\ rewritten = {}
    /\ gate = [a \in Action |-> NoCard]
    /\ home = [a \in Action |-> NoRun]
    /\ attempts = [a \in Action |-> 0]
    /\ faults = 0

InFlight == {a \in Action : status[a] \in InFlightStatuses}

\* find_in_flight: the rows the partial unique index covers, with this key.
FindInFlight(p) == {a \in InFlight : dedupe[a] = p}

\* list_for_prompt, restricted to the statuses a caller is after.
Gated(c, S) == {a \in Action : gate[a] = c /\ status[a] \in S}

\* One UPDATE ... SET status over a set of rows.
Set(rows, to) == [a \in Action |-> IF a \in rows THEN to ELSE status[a]]

\* transition(): the guarded single-row move, as its conditional UPDATE makes it.
Transition(a, from, to) ==
    /\ status[a] = from
    /\ to \in AllowedTransitions[from]
    /\ status' = [status EXCEPT ![a] = to]

\* Mutant: the claim does not put the expected status in its WHERE clause.
ClaimAction_Unguarded(a) ==
    /\ status[a] \in {"approved", "running"}
    /\ status' = [status EXCEPT ![a] = "running"]
    /\ attempts' = [attempts EXCEPT ![a] = @ + 1]

\* claim_action: approved -> running, counting the attempt.
ClaimAction(a) ==
    /\ Transition(a, "approved", "running")
    /\ attempts' = [attempts EXCEPT ![a] = @ + 1]

\* revise_action: the payload of a draft, merged with a patch.  The key, the
\* card and the op stay as they are.
ReviseAction(a, p) ==
    /\ status[a] = "draft"
    /\ OpOf[p.write] = OpOf[payload[a].write]
    /\ payload' = [payload EXCEPT ![a] = p]

\* One injected failure of kind k, within the bound.
Fault(k) ==
    /\ k \in Faults
    /\ faults < MaxFaults
    /\ faults' = faults + 1
============================================================================
