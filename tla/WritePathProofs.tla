--------------------------- MODULE WritePathProofs -------------------------
(***************************************************************************)
(* What is proved of WritePath, for every set of actions, cards, turns,    *)
(* writes and workers and every bound: its types; that IInv (module        *)
(* WritePathInv) is an inductive invariant, and the safety properties that *)
(* follow from it; then what one step may do to one write, from which      *)
(* every status change is one transition() allows and the whole implements *)
(* Consent.                                                                *)
(***************************************************************************)
EXTENDS WritePathInv, TLAPS

----------------------------------------------------------------------------
(* Type correctness.                                                       *)

\* The initial state is well typed.
LEMMA InitType == Init => TypeOK
  BY NullAssumption, WorkerAssumption
  DEF Init, StoreInit, CardInit, WorkerInit, TypeOK, StoreTypeOK, CardTypeOK, WorkerTypeOK,
      RowOK, Entry, Message, ActionStatus, InputStatus, Steps, Payload

\* What a turn stages is well formed: it depends on actions it has staged.
LEMMA StagedPayloadType ==
  ASSUME CardTypeOK, NEW r \in Run, NEW w \in Write, NEW deps \in SUBSET StagedIds(r)
  PROVE  StagedPayload(w, deps) \in Payload
<1>1. \A i \in DOMAIN staged[r] : staged[r][i] \in Entry
  BY DEF CardTypeOK
<1>2. \A i \in DOMAIN staged[r] : staged[r][i].id \in Action
  BY <1>1 DEF Entry
<1>3. StagedIds(r) \subseteq Action
  BY <1>2 DEF StagedIds
<1> QED
  BY <1>3 DEF StagedPayload, Payload

\* Appending an entry to a turn's staged writes keeps their type.
LEMMA AppendStaged ==
  ASSUME CardTypeOK, NEW r \in Run, NEW e \in Entry,
         staged' = [staged EXCEPT ![r] = Append(@, e)]
  PROVE  staged' \in [Run -> Seq(Entry)]
  BY DEF CardTypeOK

\* The first new write of a turn allocates its card; later ones use it.
LEMMA GateCases ==
  ASSUME NEW r \in Run, NEW w \in Write, ConfirmGate(r, w)
  PROVE  \/ newCard[r] # NoCard /\ newCard' = newCard /\ cardIds' = cardIds /\ cardOp' = cardOp
         \/ /\ newCard[r] = NoCard
            /\ \E c \in Card \ cardIds :
                  /\ newCard' = [newCard EXCEPT ![r] = c]
                  /\ cardIds' = cardIds \cup {c}
                  /\ cardOp' = [cardOp EXCEPT ![c] = OpOf[w]]
  BY Zenon DEF ConfirmGate

\* What a committed message gives a new row.
LEMMA NewRowType ==
  ASSUME TypeOK, ActionIdsInv, NEW r \in Run, NEW a \in NewRows(r)
  PROVE  /\ a \in Action
         /\ NewPayload(r, a) \in Payload
         /\ newCard[r] \in Card
         /\ status[a] = "absent"
         /\ a \in actionIds
         /\ \E i \in Created(r) : staged[r][i].id = a /\ NewPayload(r, a) = staged[r][i].payload
<1> DEFINE k == CHOOSE i \in Created(r) : staged[r][i].id = a
<1>1. k \in Created(r) /\ staged[r][k].id = a
  BY DEF NewRows
<1>2. k \in DOMAIN staged[r] /\ ~staged[r][k].exists
  BY <1>1 DEF Created
<1>3. staged[r][k] \in Entry
  BY <1>2 DEF TypeOK, CardTypeOK
<1>4. newCard[r] \in Card /\ status[a] = "absent" /\ a \in actionIds
  BY <1>1, <1>2 DEF ActionIdsInv, TypeOK, CardTypeOK
<1> QED
  BY <1>1, <1>3, <1>4 DEF NewPayload, Entry

\* The steps of a turn keep the types.
LEMMA TurnType ==
  ASSUME TypeOK, ActionIdsInv, CardIdsInv, NEW r \in Run, TurnStep(r), UNCHANGED workerVars
  PROVE  TypeOK'
<1> USE NullAssumption DEF TypeOK, StoreTypeOK, CardTypeOK, RowOK, storeVars, wordVars, cardRows, turnVars
<1>w. WorkerTypeOK'
  BY DEF WorkerTypeOK, workerVars, taskVars, googleVars
<1>1. CASE StartTurn(r)
  BY <1>1, <1>w DEF StartTurn
<1>2. ASSUME NEW w \in Write, NEW deps \in SUBSET StagedIds(r), StageExisting(r, w, deps)
      PROVE  TypeOK'
  <2>1. PICK b \in FindInFlight(StagedPayload(w, deps)) :
          staged' = [staged EXCEPT ![r] = Append(@,
              [id |-> b, payload |-> StagedPayload(w, deps), exists |-> TRUE])]
    BY <1>2 DEF StageExisting
  <2>2. [id |-> b, payload |-> StagedPayload(w, deps), exists |-> TRUE] \in Entry
    BY StagedPayloadType DEF FindInFlight, InFlight, Entry
  <2>3. staged' \in [Run -> Seq(Entry)]
    BY <2>1, <2>2, AppendStaged
  <2> QED
    BY <1>2, <2>3, <1>w DEF StageExisting
<1>3. ASSUME NEW w \in Write, NEW deps \in SUBSET StagedIds(r), NEW a \in Action,
             StageNew(r, w, deps, a)
      PROVE  TypeOK'
  <2>1. [id |-> a, payload |-> StagedPayload(w, deps), exists |-> FALSE] \in Entry
    BY StagedPayloadType DEF Entry
  <2>2. staged' \in [Run -> Seq(Entry)]
    BY <1>3, <2>1, AppendStaged DEF StageNew
  <2>3. newCard' \in [Run -> Card \cup {NoCard}] /\ cardIds' \subseteq Card
    <3>1. ConfirmGate(r, w)
      BY <1>3 DEF StageNew
    <3>2. CASE newCard' = newCard /\ cardIds' = cardIds
      BY <3>2
    <3>3. ASSUME NEW c \in Card \ cardIds, newCard' = [newCard EXCEPT ![r] = c],
                 cardIds' = cardIds \cup {c}
          PROVE  newCard' \in [Run -> Card \cup {NoCard}] /\ cardIds' \subseteq Card
      BY <3>3
    <3> QED
      BY <3>1, <3>2, <3>3, GateCases
  <2>4. cardOp' \in [Card -> Op \cup {"none"}]
    <3>1. ConfirmGate(r, w)
      BY <1>3 DEF StageNew
    <3>2. OpOf[w] \in Op
      BY OpAssumption
    <3>3. CASE cardOp' = cardOp
      BY <3>3
    <3>4. ASSUME NEW c \in Card \ cardIds, cardOp' = [cardOp EXCEPT ![c] = OpOf[w]]
          PROVE  cardOp' \in [Card -> Op \cup {"none"}]
      BY <3>2, <3>4
    <3> QED
      BY <3>1, <3>3, <3>4, GateCases
  <2> QED
    BY <1>3, <2>2, <2>3, <2>4, <1>w DEF StageNew
<1>4. CASE RaiseCard(r)
  <2>1. cardStatus' \in [Card -> InputStatus \cup {"absent"}]
    BY <1>4 DEF RaiseCard, InputStatus
  <2>2. \A c \in Card : cardStatus[c] # "absent" => cardStatus'[c] # "absent"
    BY <1>4 DEF RaiseCard
  <2>3. \A a \in Action : RowOK(a)'
    BY <1>4, <2>2 DEF RaiseCard
  <2> QED
    BY <1>4, <2>1, <2>3, <1>w DEF RaiseCard
<1>5. CASE CommitMessage(r)
  <2>1. \A a \in NewRows(r) : a \in Action /\ NewPayload(r, a) \in Payload /\ newCard[r] \in Card
    BY NewRowType
  <2>2. StoreTypeOK'
    BY <1>5, <2>1 DEF CommitMessage, Set, ActionStatus
  <2>3. cardStatus' \in [Card -> InputStatus \cup {"absent"}]
    BY <1>5 DEF CommitMessage, InputStatus
  <2>5. {<<a, NewPayload(r, a)>> : a \in NewRows(r)} \subseteq Action \X Payload
    BY <2>1
  <2>6. shown' \in [Card -> SUBSET (Action \X Payload)] /\ answer' = answer
    <3> DEFINE S == {<<a, NewPayload(r, a)>> : a \in NewRows(r)}
    <3>1. \/ shown' = shown /\ answer' = answer
          \/ shown' = [shown EXCEPT ![newCard[r]] = S] /\ answer' = answer
      BY <1>5 DEF CommitMessage
    <3>2. S \in SUBSET (Action \X Payload)
      BY <2>5
    <3> HIDE DEF S
    <3> QED
      BY <3>1, <3>2
  <2>7. cardOp' = cardOp /\ staged' \in [Run -> Seq(Entry)]
    BY <1>5 DEF CommitMessage
  <2>9. CardTypeOK'
    <3>1. turn' \in [Run -> {"idle", "working", "writing", "written", "over", "dead"}]
      BY <1>5 DEF CommitMessage
    <3>2. UNCHANGED <<due, runStatus, newCard, actionIds, cardIds, cancelling, outbox>>
      BY <1>5 DEF CommitMessage
    <3> QED
      BY <2>3, <2>6, <2>7, <3>1, <3>2, SMTT(30)
  <2>8. \A a \in Action : RowOK(a)'
    BY <1>5, <2>1 DEF CommitMessage, Set
  <2> QED
    BY <2>2, <2>8, <2>9, <1>w
<1>6. CASE SettleRun(r)
  BY <1>6, <1>w DEF SettleRun
<1>7. CASE RunnerCrash(r)
  BY <1>7, <1>w DEF RunnerCrash, Fault
<1> QED
  BY <1>1, <1>2, <1>3, <1>4, <1>5, <1>6, <1>7 DEF TurnStep

\* A set of rows moved to a status keeps its type, and rows stay complete.
LEMMA SetType ==
  ASSUME StoreTypeOK, NEW rows, NEW to \in ActionStatus, status' = Set(rows, to)
  PROVE  status' \in [Action -> ActionStatus \cup {"absent"}]
  BY DEF StoreTypeOK, Set

\* A bulk close keeps the types of the rows.
LEMMA CloseType ==
  ASSUME TypeOK, NEW rows, \A a \in rows : a \in Action => status[a] # "absent",
         NEW to \in ActionStatus, status' = Set(rows, to),
         UNCHANGED <<wordVars, gate, home, attempts>>, faults' \in Nat,
         \A c \in Card : cardStatus[c] # "absent" => cardStatus'[c] # "absent"
  PROVE  StoreTypeOK' /\ \A a \in Action : RowOK(a)'
<1> USE DEF wordVars
<1>1. StoreTypeOK'
  BY SetType DEF TypeOK, StoreTypeOK
<1>2. \A a \in Action : RowOK(a)'
  BY DEF TypeOK, StoreTypeOK, RowOK, Set, ActionStatus
<1> QED
  BY <1>1, <1>2

\* A payload revised in the chat is a payload, which follows what it followed.
LEMMA RevisedPayload ==
  ASSUME TypeOK, NEW a \in Action, NEW w \in Write, Revise(a, w) \/ ReviseLate(a, w)
  PROVE  \E p \in Payload :
            /\ payload' = [payload EXCEPT ![a] = p]
            /\ p.after = payload[a].after
            /\ \/ Revise(a, w) /\ told' = [told EXCEPT ![a] = p]
               \/ ReviseLate(a, w) /\ told' = told
<1> DEFINE p == [payload[a] EXCEPT !.write = w]
<1>1. payload[a] \in Payload
  BY DEF Revise, ReviseLate, ReviseAction, TypeOK, RowOK
<1>2. p \in Payload /\ p.after = payload[a].after
  BY <1>1 DEF Payload
<1>3. payload' = [payload EXCEPT ![a] = p]
  BY DEF Revise, ReviseLate, ReviseAction
<1>4. \/ Revise(a, w) /\ told' = [told EXCEPT ![a] = p]
      \/ ReviseLate(a, w) /\ told' = told
  BY DEF Revise, ReviseLate
<1> HIDE DEF p
<1> QED
  BY <1>2, <1>3, <1>4

\* What a person does keeps the types.
LEMMA PersonType ==
  ASSUME TypeOK, PersonStep, UNCHANGED workerVars
  PROVE  TypeOK'
<1> USE DEF storeVars, wordVars, cardRows, turnVars, cardVars
<1>w. WorkerTypeOK' /\ faults \in Nat
  BY DEF TypeOK, StoreTypeOK, WorkerTypeOK, workerVars, taskVars, googleVars
<1>s. {"approved", "cancelled", "expired"} \subseteq ActionStatus
  BY DEF ActionStatus
<1>1. ASSUME NEW c \in Card, ConfirmYes(c) PROVE TypeOK'
  <2>1. StoreTypeOK' /\ \A a \in Action : RowOK(a)'
    BY <1>1, <1>w, <1>s, CloseType DEF ConfirmYes, Gated, TypeOK, CardTypeOK
  <2>2. CardTypeOK'
    BY <1>1 DEF ConfirmYes, AnswerCard, Gated, TypeOK, CardTypeOK, InputStatus
  <2> QED
    BY <2>1, <2>2, <1>w DEF TypeOK
<1>2. ASSUME NEW c \in Card, ConfirmNo(c) PROVE TypeOK'
  <2>1. StoreTypeOK' /\ \A a \in Action : RowOK(a)'
    BY <1>2, <1>w, <1>s, CloseType DEF ConfirmNo, Gated, Closable, TypeOK, CardTypeOK
  <2>2. CardTypeOK'
    BY <1>2 DEF ConfirmNo, AnswerCard, TypeOK, CardTypeOK, InputStatus
  <2> QED
    BY <2>1, <2>2, <1>w DEF TypeOK
<1>3. ASSUME NEW c \in Card, CancelPrompt(c) PROVE TypeOK'
  <2>1. StoreTypeOK' /\ \A a \in Action : RowOK(a)'
    BY <1>3, <1>w, <1>s, CloseType DEF CancelPrompt, Gated, Closable, TypeOK, CardTypeOK
  <2>2. CardTypeOK'
    BY <1>3 DEF CancelPrompt, TypeOK, CardTypeOK, InputStatus
  <2> QED
    BY <2>1, <2>2, <1>w DEF TypeOK
<1>4. ASSUME NEW c \in Card, NEW next \in Card, NEW a \in Action, NEW w \in Write,
             Edit(c, a, w, next)
      PROVE TypeOK'
  <2> DEFINE p == [payload[a] EXCEPT !.write = w]
  <2>1. status[a] = "draft" /\ payload[a] \in Payload
    BY <1>4 DEF Edit, ReviseAction, TypeOK, RowOK
  <2>2. p \in Payload
    BY <2>1 DEF Payload
  <2>3. /\ payload' = [payload EXCEPT ![a] = p]
        /\ dedupe' = [dedupe EXCEPT ![a] = p]
        /\ gmailDraft' = [gmailDraft EXCEPT ![a] = p]
        /\ told' = [told EXCEPT ![a] = NoPayload]
        /\ shown' = [shown EXCEPT ![next] = {<<a, p>>}]
    BY <1>4 DEF Edit, ReviseAction
  <2> HIDE DEF p
  <2>4. StoreTypeOK'
    BY <1>4, <2>2, <2>3 DEF Edit, TypeOK, StoreTypeOK
  <2>5. \A b \in Action : RowOK(b)'
    <3>1. /\ status' = status /\ home' = home
          /\ gate' = [gate EXCEPT ![a] = next]
          /\ \A d \in Card : cardStatus[d] # "absent" => cardStatus'[d] # "absent"
          /\ cardStatus'[next] = "pending"
      BY <1>4 DEF Edit, TypeOK, CardTypeOK
    <3>2. RowOK(a)'
      BY <2>1, <2>2, <2>3, <3>1 DEF TypeOK, StoreTypeOK, RowOK
    <3>3. ASSUME NEW b \in Action, b # a PROVE RowOK(b)'
      BY <2>3, <3>1, <3>3 DEF TypeOK, StoreTypeOK, RowOK
    <3> QED
      BY <3>2, <3>3
  <2>6. shown' \in [Card -> SUBSET (Action \X Payload)]
    <3>1. {<<a, p>>} \in SUBSET (Action \X Payload)
      BY <2>2
    <3> QED
      BY <2>3, <3>1 DEF TypeOK, CardTypeOK
  <2>7. CardTypeOK'
    <3>1. /\ cardStatus' \in [Card -> InputStatus \cup {"absent"}]
          /\ cardOp' \in [Card -> Op \cup {"none"}]
          /\ answer' \in [Card -> {"none", "yes", "no", "edit"}]
          /\ cardIds' \subseteq Card
      BY <1>4 DEF Edit, AnswerCard, TypeOK, CardTypeOK, InputStatus
    <3>2. UNCHANGED <<due, turn, runStatus, staged, newCard, actionIds, cancelling, outbox>>
      BY <1>4 DEF Edit
    <3> QED
      BY <2>6, <3>1, <3>2 DEF TypeOK, CardTypeOK
  <2> QED
    BY <2>4, <2>5, <2>7, <1>w DEF TypeOK
<1>5. CASE ListOpenCards
  BY <1>5, <1>w DEF ListOpenCards, TypeOK, StoreTypeOK, CardTypeOK, RowOK
<1>7. ASSUME NEW a \in Action, NEW w \in Write, Revise(a, w) \/ ReviseLate(a, w) PROVE TypeOK'
  <2>1. PICK p \in Payload :
          /\ payload' = [payload EXCEPT ![a] = p]
          /\ told' = told \/ told' = [told EXCEPT ![a] = p]
    BY <1>7, RevisedPayload
  <2>2. /\ UNCHANGED <<status, dedupe, gmailDraft, gate, home, attempts, cardVars>>
        /\ rewritten' \subseteq Action /\ faults' \in Nat
        /\ status[a] # "absent"
    BY <1>7, <1>w DEF Revise, ReviseLate, ReviseAction, Fault, TypeOK, StoreTypeOK
  <2>3. StoreTypeOK'
    BY <2>1, <2>2 DEF TypeOK, StoreTypeOK
  <2>4. \A b \in Action : RowOK(b)'
    BY <2>1, <2>2 DEF TypeOK, StoreTypeOK, RowOK
  <2>5. CardTypeOK'
    BY <2>2 DEF TypeOK, CardTypeOK
  <2> QED
    BY <2>3, <2>4, <2>5, <1>w DEF TypeOK
<1>6. CASE CancelOpenCards
  <2> DEFINE rows == UNION {Gated(c, Closable) : c \in cancelling}
  <2>1. \A a \in rows : a \in Action => status[a] # "absent"
    BY DEF Gated, Closable
  <2>2. status' = Set(rows, "cancelled")
    BY <1>6 DEF CancelOpenCards
  <2>3. \A c \in Card : cardStatus[c] # "absent" => cardStatus'[c] # "absent"
    BY <1>6 DEF CancelOpenCards
  <2> HIDE DEF rows
  <2>4. StoreTypeOK' /\ \A a \in Action : RowOK(a)'
    BY <1>6, <1>w, <1>s, <2>1, <2>2, <2>3, CloseType DEF CancelOpenCards
  <2>5. CardTypeOK'
    BY <1>6 DEF CancelOpenCards, TypeOK, CardTypeOK, InputStatus
  <2> QED
    BY <2>4, <2>5, <1>w DEF TypeOK
<1> QED
  BY <1>1, <1>2, <1>3, <1>4, <1>5, <1>6, <1>7 DEF PersonStep

\* Time and the sweeps keep the types.
LEMMA ClockAndSweepType ==
  ASSUME TypeOK, UNCHANGED workerVars, SweepStep \/ \E c \in Card : CardDue(c)
  PROVE  TypeOK'
<1> USE DEF storeVars, wordVars, cardRows, turnVars, cardVars
<1>w. WorkerTypeOK' /\ faults \in Nat
  BY DEF TypeOK, StoreTypeOK, WorkerTypeOK, workerVars, taskVars, googleVars
<1>s. {"approved", "cancelled", "expired"} \subseteq ActionStatus
  BY DEF ActionStatus
<1>1. CASE ExpirePrompts
  <2>1. StoreTypeOK' /\ \A a \in Action : RowOK(a)'
    BY <1>1, <1>w, <1>s, CloseType
    DEF ExpirePrompts, ExpiredActions, Closable, TypeOK, CardTypeOK
  <2>2. CardTypeOK'
    BY <1>1 DEF ExpirePrompts, TypeOK, CardTypeOK, InputStatus
  <2> QED
    BY <2>1, <2>2, <1>w DEF TypeOK
<1>2. ASSUME NEW r \in Run, CloseDeadRun(r) PROVE TypeOK'
  <2>1. StoreTypeOK' /\ \A a \in Action : RowOK(a)'
    BY <1>2, <1>w, <1>s, CloseType DEF CloseDeadRun, Closable, TypeOK, CardTypeOK
  <2>2. CardTypeOK'
    BY <1>2 DEF CloseDeadRun, TypeOK, CardTypeOK
  <2> QED
    BY <2>1, <2>2, <1>w DEF TypeOK
<1>3. ASSUME NEW c \in Card, CardDue(c) PROVE TypeOK'
  BY <1>3, <1>w DEF CardDue, TypeOK, StoreTypeOK, CardTypeOK, RowOK
<1> QED
  BY <1>1, <1>2, <1>3 DEF SweepStep

\* However a delivery ends, the task variables keep their types.
TaskTypes(w) ==
    /\ queue' \subseteq Message
    /\ deadLetter' \in [Action -> Nat]
    /\ pc' = [pc EXCEPT ![w] = "idle"]
    /\ job' = [job EXCEPT ![w] = NoJob]
    /\ body' = [body EXCEPT ![w] = NoPayload]

\* Acknowledging a message keeps the types of the queue.
LEMMA AckType ==
  ASSUME WorkerTypeOK, NEW w \in Worker, Ack(w)
  PROVE  TaskTypes(w)
  BY DEF WorkerTypeOK, Ack, Release, TaskTypes

\* Recording a failed task keeps the types of job_failed_tasks.
LEMMA RecordFailureType ==
  ASSUME WorkerTypeOK, NEW a \in Action, NEW n \in Nat, RecordFailure(a, n)
  PROVE  deadLetter' \in [Action -> Nat]
  BY WorkerAssumption DEF WorkerTypeOK, RecordFailure

\* So does a task that gives up for good.
LEMMA GiveUpForGoodType ==
  ASSUME WorkerTypeOK, NEW w \in Worker, job[w] \in Message, GiveUpForGood(w)
  PROVE  TaskTypes(w)
<1>1. deadLetter' \in [Action -> Nat]
  BY RecordFailureType, WorkerAssumption DEF GiveUpForGood, Message
<1> QED
  BY <1>1 DEF WorkerTypeOK, GiveUpForGood, Release, TaskTypes

\* And self.retry.
LEMMA RetryType ==
  ASSUME WorkerTypeOK, NEW w \in Worker, job[w] \in Message, NEW limit, Retry(w, limit)
  PROVE  TaskTypes(w)
<1>1. CASE job[w].retries < limit
  <2>1. [job[w] EXCEPT !.retries = @ + 1] \in Message
    BY DEF Message
  <2> QED
    BY <1>1, <2>1 DEF WorkerTypeOK, Retry, Release, TaskTypes
<1>2. CASE ~(job[w].retries < limit)
  <2>1. GiveUp(w)
    BY <1>2 DEF Retry
  <2>2. job[w].action \in Action /\ job[w].retries + 1 \in Nat
    BY DEF Message
  <2>3. deadLetter' \in [Action -> Nat]
    BY <2>1, <2>2, RecordFailureType DEF GiveUp
  <2> QED
    BY <2>1, <2>3 DEF WorkerTypeOK, GiveUp, Release, TaskTypes
<1> QED
  BY <1>1, <1>2

\* With Google's side unchanged, the types of queue and workers are all there is.
LEMMA TaskTypesSuffice ==
  ASSUME WorkerTypeOK, NEW w \in Worker, TaskTypes(w), UNCHANGED googleVars
  PROVE  WorkerTypeOK'
  BY DEF WorkerTypeOK, TaskTypes, googleVars, Steps

\* The steps and deaths of workers keep the types.
LEMMA WorkerStepType ==
  ASSUME TypeOK, WorkerInv, NEW w \in Worker, WorkerStep(w) \/ WorkerCrash(w),
         UNCHANGED cardVars
  PROVE  TypeOK'
<1> USE DEF storeVars, wordVars, taskVars, googleVars
<1>c. /\ CardTypeOK'
      /\ UNCHANGED cardStatus
  BY DEF TypeOK, CardTypeOK, cardVars, cardRows, turnVars
<1>r. UNCHANGED <<storeVars, faults>> => StoreTypeOK' /\ \A a \in Action : RowOK(a)'
  BY <1>c DEF TypeOK, StoreTypeOK, RowOK
<1>f. \A k \in Faults : Fault(k) => faults' \in Nat
  BY DEF Fault, TypeOK, StoreTypeOK
<1>g. faults' \in Nat /\ UNCHANGED storeVars => StoreTypeOK' /\ \A a \in Action : RowOK(a)'
  BY <1>c DEF TypeOK, StoreTypeOK, RowOK
<1>j. pc[w] # "idle" => job[w] \in Message /\ body[w] \in Payload
  BY DEF WorkerInv
<1>t. WorkerTypeOK
  BY DEF TypeOK
<1>1. ASSUME NEW m \in queue, Skip(w, m) PROVE TypeOK'
  BY <1>1, <1>c, <1>r DEF Skip, TypeOK, WorkerTypeOK
<1>2. ASSUME NEW m \in queue, Load(w, m) PROVE TypeOK'
  <2>1. WorkerTypeOK'
    BY <1>2 DEF Load, TypeOK, WorkerTypeOK, StoreTypeOK, Message, Steps
  <2> QED
    BY <1>2, <2>1, <1>c, <1>r DEF Load, TypeOK
<1>3. CASE SequenceClear(w) \/ SequenceBlocked(w) \/ RevalidateFresh(w) \/ RevalidateStale(w)
  <2>1. /\ \E q \in Steps : pc' = [pc EXCEPT ![w] = q]
        /\ UNCHANGED <<storeVars, faults, taskVars, job, body, googleVars>>
    BY <1>3 DEF SequenceClear, SequenceBlocked, RevalidateFresh, RevalidateStale, Steps
  <2> QED
    BY <2>1, <1>c, <1>r DEF TypeOK, WorkerTypeOK
<1>4. CASE SequenceWaiting(w)
  <2>1. TaskTypes(w)
    BY <1>4, <1>j, <1>t, RetryType DEF SequenceWaiting
  <2>2. WorkerTypeOK'
    BY <1>4, <1>t, <2>1, TaskTypesSuffice DEF SequenceWaiting
  <2> QED
    BY <1>4, <2>2, <1>c, <1>r DEF SequenceWaiting, TypeOK
<1>5. CASE RevalidateRaises(w)
  <2>1. TaskTypes(w)
    BY <1>5, <1>j, <1>t, RetryType, GiveUpForGoodType DEF RevalidateRaises
  <2>2. WorkerTypeOK'
    BY <1>5, <1>t, <2>1, TaskTypesSuffice DEF RevalidateRaises
  <2>3. faults' \in Nat
    BY <1>5 DEF RevalidateRaises, Fault, TypeOK, StoreTypeOK
  <2> QED
    BY <1>5, <2>2, <2>3, <1>c, <1>g DEF RevalidateRaises, TypeOK
<1>6. CASE SettleHeld(w)
  <2>1. TaskTypes(w)
    BY <1>6, <1>j, <1>t, RetryType, AckType DEF SettleHeld
  <2>2. WorkerTypeOK'
    BY <1>6, <1>t, <2>1, TaskTypesSuffice DEF SettleHeld
  <2>3. StoreTypeOK' /\ \A a \in Action : RowOK(a)'
    BY <1>6, <1>c DEF SettleHeld, Transition, Closable, TypeOK, StoreTypeOK, RowOK, ActionStatus
  <2> QED
    BY <2>2, <2>3, <1>c DEF TypeOK
<1>7. CASE Claim(w)
  <2>1. WorkerTypeOK'
    BY <1>7 DEF Claim, TypeOK, WorkerTypeOK, Steps
  <2>2. StoreTypeOK' /\ \A a \in Action : RowOK(a)'
    BY <1>7, <1>c, <1>j
    DEF Claim, ClaimAction, Transition, TypeOK, StoreTypeOK, RowOK, ActionStatus, Message
  <2> QED
    BY <2>1, <2>2, <1>c DEF TypeOK
<1>8. CASE ClaimLost(w)
  <2>1. WorkerTypeOK'
    BY <1>8, <1>t, AckType, TaskTypesSuffice DEF ClaimLost
  <2>2. faults' \in Nat
    BY <1>8 DEF ClaimLost, Fault, TypeOK, StoreTypeOK
  <2> QED
    BY <1>8, <2>1, <2>2, <1>c, <1>g DEF ClaimLost, TypeOK
<1>9. CASE ExecuteSucceeds(w) \/ ExecuteFails(w)
  <2>1. /\ pc[w] = "execute"
        /\ Apply(w) \/ UNCHANGED googleVars
        /\ \E q \in Steps : pc' = [pc EXCEPT ![w] = q]
        /\ UNCHANGED <<storeVars, faults, taskVars, job, body>>
    BY <1>9 DEF ExecuteSucceeds, ExecuteFails, Steps
  <2>4. Sent(w) \in Payload
    BY <2>1, <1>j DEF Sent, WorkerInv, TypeOK, RowOK, Message
  <2>2. WorkerTypeOK'
    BY <2>1, <2>4, <1>t, <1>j DEF Apply, WorkerTypeOK, Message
  <2> QED
    BY <2>1, <2>2, <1>c, <1>r DEF TypeOK
<1>10. CASE SettleDone(w)
  <2>1. WorkerTypeOK'
    BY <1>10, <1>t, AckType, TaskTypesSuffice DEF SettleDone
  <2>2. StoreTypeOK' /\ \A a \in Action : RowOK(a)'
    BY <1>10, <1>c DEF SettleDone, Transition, TypeOK, StoreTypeOK, RowOK, ActionStatus
  <2> QED
    BY <2>1, <2>2, <1>c DEF TypeOK
<1>11. CASE SettleFailed(w)
  <2>1. TaskTypes(w)
    BY <1>11, <1>j, <1>t, RetryType, GiveUpForGoodType DEF SettleFailed
  <2>2. WorkerTypeOK'
    BY <1>11, <1>t, <2>1, TaskTypesSuffice DEF SettleFailed
  <2>3. StoreTypeOK' /\ \A a \in Action : RowOK(a)'
    BY <1>11, <1>c DEF SettleFailed, Transition, TypeOK, StoreTypeOK, RowOK, ActionStatus
  <2> QED
    BY <2>2, <2>3, <1>c DEF TypeOK
<1>12. CASE WorkerCrash(w)
  <2>1. WorkerTypeOK'
    BY <1>12 DEF WorkerCrash, Release, TypeOK, WorkerTypeOK, Steps
  <2>2. faults' \in Nat
    BY <1>12 DEF WorkerCrash, Fault, TypeOK, StoreTypeOK
  <2> QED
    BY <1>12, <2>1, <2>2, <1>c, <1>g DEF WorkerCrash, TypeOK
<1> QED
  BY <1>1, <1>2, <1>3, <1>4, <1>5, <1>6, <1>7, <1>8, <1>9, <1>10, <1>11, <1>12
  DEF WorkerStep

\* Handing a row over, losing it and replaying it keep the types.
LEMMA QueueType ==
  ASSUME TypeOK, NEW a \in Action,
         \/ Enqueue(a) \/ EnqueueLost(a)
         \/ Replay(a) /\ UNCHANGED cardVars
  PROVE  TypeOK'
<1> USE DEF storeVars, wordVars, cardVars, cardRows, turnVars, workerVars, taskVars, googleVars, TypeOK
<1>1. [action |-> a, retries |-> 0] \in Message
  BY DEF Message
<1>2. CASE Enqueue(a)
  BY <1>1, <1>2 DEF Enqueue, StoreTypeOK, CardTypeOK, WorkerTypeOK, RowOK
<1>3. CASE EnqueueLost(a)
  BY <1>3 DEF EnqueueLost, Fault, StoreTypeOK, CardTypeOK, WorkerTypeOK, RowOK
<1>4. CASE Replay(a) /\ UNCHANGED cardVars
  BY <1>1, <1>4 DEF Replay, StoreTypeOK, CardTypeOK, WorkerTypeOK, RowOK
<1> QED
  BY <1>2, <1>3, <1>4

----------------------------------------------------------------------------
(* The inductive invariant.                                                *)

\* What a step keeps besides the types.
Inv == /\ ActionIdsInv /\ CardIdsInv /\ CardRowInv /\ KeyInv /\ WorkerInv /\ EffectInv
       /\ RewrittenInv

\* The invariant holds before anything has happened.
LEMMA InitInv == Init => Inv
  BY NullAssumption
  DEF Init, StoreInit, CardInit, WorkerInit, Inv, ActionIdsInv, CardIdsInv, CardRowInv,
      KeyInv, WorkerInv, EffectInv, RewrittenInv, InFlight, InFlightStatuses, Granted, Owning

----------------------------------------------------------------------------
(* What each part of the invariant does not depend on.                     *)

\* A step that leaves the rows and the workers alone keeps what only they
\* are about.
LEMMA RowsSame ==
  ASSUME Inv, UNCHANGED <<status, wordVars, gate, attempts, workerVars>>
  PROVE  KeyInv' /\ WorkerInv' /\ EffectInv' /\ RewrittenInv'
<1> USE DEF wordVars, workerVars, taskVars, googleVars
<1>1. KeyInv'
  BY DEF Inv, KeyInv, InFlight
<1>2. WorkerInv'
  BY DEF Inv, WorkerInv
<1>3. EffectInv'
  BY DEF Inv, EffectInv, Words
<1>4. RewrittenInv'
  BY DEF Inv, RewrittenInv
<1> QED
  BY <1>1, <1>2, <1>3, <1>4

\* ... and one that also leaves the answered cards alone keeps CardRowInv.
LEMMA CardsSame ==
  ASSUME TypeOK, Inv, UNCHANGED <<status, wordVars, gate, shown>>,
         \A c \in Card : cardStatus[c] = "answered" =>
            cardStatus'[c] = "answered" /\ answer'[c] = answer[c]
  PROVE  CardRowInv'
  BY DEF wordVars, TypeOK, RowOK, Inv, CardRowInv, Granted

----------------------------------------------------------------------------
(* Turns.                                                                  *)

\* Steps of a turn that stage nothing and commit nothing keep the invariant: the
\* only row they move is a card that closes.
LEMMA TurnQuiet ==
  ASSUME TypeOK, Inv, NEW r \in Run, UNCHANGED workerVars,
         StartTurn(r) \/ SettleRun(r) \/ RunnerCrash(r) \/ RaiseCard(r)
  PROVE  Inv'
<1> USE DEF storeVars, wordVars, cardRows, turnVars
<1>1. /\ UNCHANGED <<status, wordVars, gate, attempts, shown, newCard,
                     actionIds, cardIds, answer>>
      /\ staged' = staged \/ staged' = [staged EXCEPT ![r] = <<>>]
      /\ \A c \in Card : \/ cardStatus'[c] = cardStatus[c]
                         \/ cardStatus[c] = "pending" /\ cardStatus'[c] # "absent"
  BY DEF StartTurn, SettleRun, RunnerCrash, RaiseCard, Superseded, TypeOK, CardTypeOK
<1>2. KeyInv' /\ WorkerInv' /\ EffectInv' /\ RewrittenInv'
  BY <1>1, RowsSame
<1>3. CardRowInv'
  BY <1>1, CardsSame
<1>4. \A s \in Run : staged'[s] = staged[s] \/ staged'[s] = <<>>
  BY <1>1 DEF TypeOK, CardTypeOK
<1>5. ActionIdsInv'
  BY <1>1, <1>4 DEF Inv, ActionIdsInv
<1>6. CardIdsInv'
  <2>1. /\ \A s \in Run : s # r => turn'[s] = turn[s] /\ staged'[s] = staged[s]
        /\ turn'[r] \in {"working", "writing"} => turn[r] \in {"idle", "working", "writing"}
        /\ turn'[r] # "idle"
    BY DEF StartTurn, SettleRun, RunnerCrash, RaiseCard, TypeOK, CardTypeOK
  <2>2. turn'[r] \notin {"working", "writing"} => staged'[r] = <<>>
    <3>1. CASE StartTurn(r) \/ RaiseCard(r)
      BY <3>1 DEF StartTurn, RaiseCard, TypeOK, CardTypeOK
    <3>2. CASE SettleRun(r)
      BY <3>2 DEF SettleRun, Inv, CardIdsInv
    <3>3. CASE RunnerCrash(r)
      BY <3>3 DEF RunnerCrash, TypeOK, CardTypeOK
    <3> QED
      BY <3>1, <3>2, <3>3
  <2>3. \A c \in Card : cardStatus[c] = "absent" <=> cardStatus'[c] = "absent"
    BY <1>1
  <2>4. \A s \in Run : newCard[s] # NoCard => newCard[s] \in Card
    BY DEF TypeOK, CardTypeOK
  <2>5. \A c \in Card : cardStatus'[c] # "absent" => c \in cardIds'
    BY <1>1, <2>3 DEF Inv, CardIdsInv
  <2>6. \A s \in Run : turn'[s] \notin {"working", "writing"} => staged'[s] = <<>>
    BY <2>1, <2>2 DEF Inv, CardIdsInv
  <2>7. \A s \in Run : turn'[s] = "idle" => newCard'[s] = NoCard
    BY <1>1, <2>1 DEF Inv, CardIdsInv
  <2>8. \A s \in Run : newCard'[s] # NoCard /\ turn'[s] \in {"working", "writing"}
          => cardStatus'[newCard'[s]] = "absent"
    BY <1>1, <2>1, <2>3, <2>4 DEF Inv, CardIdsInv
  <2> QED
    BY <1>1, <2>5, <2>6, <2>7, <2>8 DEF Inv, CardIdsInv
<1> QED
  BY <1>2, <1>3, <1>5, <1>6 DEF Inv

\* Appending one entry leaves every other entry of every turn where it was.
LEMMA AppendCases ==
  ASSUME CardTypeOK, NEW r \in Run, NEW e \in Entry,
         staged' = [staged EXCEPT ![r] = Append(@, e)],
         NEW s \in Run, NEW i \in DOMAIN staged'[s]
  PROVE  \/ i \in DOMAIN staged[s] /\ staged'[s][i] = staged[s][i]
         \/ s = r /\ i = Len(staged[r]) + 1 /\ staged'[s][i] = e
<1>1. staged[r] \in Seq(Entry) /\ staged[s] \in Seq(Entry)
  BY DEF CardTypeOK
<1>2. CASE s # r
  BY <1>2 DEF CardTypeOK
<1>3. CASE s = r
  <2>1. staged'[s] = Append(staged[r], e)
    BY <1>3 DEF CardTypeOK
  <2>2. i \in 1 .. Len(staged[r]) + 1
    BY <1>1, <2>1
  <2> QED
    BY <1>1, <1>3, <2>1, <2>2
<1> QED
  BY <1>2, <1>3

\* A turn that finds its write in flight already records it and allocates no id.
LEMMA StageExistingInv ==
  ASSUME TypeOK, Inv, NEW r \in Run, NEW w \in Write, NEW deps \in SUBSET StagedIds(r),
         StageExisting(r, w, deps), UNCHANGED workerVars
  PROVE  Inv'
<1> USE DEF storeVars, wordVars, cardRows
<1>1. /\ UNCHANGED <<status, wordVars, gate, attempts, cardStatus, shown, answer, turn,
                     newCard, actionIds, cardIds>>
      /\ turn[r] = "working"
  BY DEF StageExisting
<1>2. PICK b \in FindInFlight(StagedPayload(w, deps)) :
        staged' = [staged EXCEPT ![r] = Append(@,
            [id |-> b, payload |-> StagedPayload(w, deps), exists |-> TRUE])]
  BY DEF StageExisting
<1> DEFINE e == [id |-> b, payload |-> StagedPayload(w, deps), exists |-> TRUE]
<1>3. e \in Entry /\ e.exists
  BY StagedPayloadType DEF FindInFlight, InFlight, Entry, TypeOK
<1> HIDE DEF e
<1>4. \A s \in Run : \A i \in DOMAIN staged'[s] : ~staged'[s][i].exists =>
        i \in DOMAIN staged[s] /\ staged'[s][i] = staged[s][i]
  BY <1>2, <1>3, AppendCases DEF e, TypeOK
<1>5. \A s \in Run : s # r => staged'[s] = staged[s]
  BY <1>2 DEF TypeOK, CardTypeOK
<1>6. KeyInv' /\ WorkerInv' /\ EffectInv' /\ RewrittenInv' /\ CardRowInv'
  BY <1>1, RowsSame, CardsSame
<1>7. ActionIdsInv'
  BY <1>1, <1>4 DEF Inv, ActionIdsInv
<1>8. CardIdsInv'
  BY <1>1, <1>5 DEF Inv, CardIdsInv
<1> QED
  BY <1>6, <1>7, <1>8 DEF Inv

\* A turn that stages a new write allocates an id nobody has.
LEMMA StageNewInv ==
  ASSUME TypeOK, Inv, NEW r \in Run, NEW w \in Write, NEW deps \in SUBSET StagedIds(r),
         NEW a \in Action, StageNew(r, w, deps, a), UNCHANGED workerVars
  PROVE  Inv'
<1> USE DEF storeVars, wordVars
<1> DEFINE e == [id |-> a, payload |-> StagedPayload(w, deps), exists |-> FALSE]
<1>1. /\ UNCHANGED <<status, wordVars, gate, attempts, cardStatus, shown, answer, turn>>
      /\ turn[r] = "working"
      /\ a \notin actionIds /\ actionIds' = actionIds \cup {a}
      /\ staged' = [staged EXCEPT ![r] = Append(@, e)]
      /\ ConfirmGate(r, w)
  BY DEF StageNew
<1>2. e \in Entry /\ ~e.exists /\ e.id = a
  BY StagedPayloadType DEF Entry, TypeOK
<1> HIDE DEF e
<1>3. KeyInv' /\ WorkerInv' /\ EffectInv' /\ RewrittenInv' /\ CardRowInv'
  BY <1>1, RowsSame, CardsSame
<1>4. \A s \in Run : s # r => staged'[s] = staged[s] /\ newCard'[s] = newCard[s]
  <2>1. newCard' = newCard \/ \E c \in Card : newCard' = [newCard EXCEPT ![r] = c]
    BY <1>1, GateCases
  <2> QED
    BY <1>1, <2>1 DEF TypeOK, CardTypeOK
<1>5. \/ newCard[r] # NoCard /\ newCard' = newCard /\ cardIds' = cardIds
      \/ /\ newCard[r] = NoCard
         /\ newCard'[r] \in Card \ cardIds
         /\ cardIds' = cardIds \cup {newCard'[r]}
  BY <1>1, GateCases DEF TypeOK, CardTypeOK
<1>6. newCard'[r] # NoCard
  BY <1>5, NullAssumption
<1>7. \A s \in Run : \A i \in DOMAIN staged'[s] :
        \/ i \in DOMAIN staged[s] /\ staged'[s][i] = staged[s][i]
        \/ s = r /\ i = Len(staged[r]) + 1 /\ staged'[s][i] = e
  BY <1>1, <1>2, AppendCases DEF TypeOK
<1>8. ActionIdsInv'
  <2>1. status[a] = "absent"
    BY <1>1 DEF Inv, ActionIdsInv
  <2>2. \A s \in Run : \A i \in DOMAIN staged[s] :
          ~staged[s][i].exists => staged[s][i].id # a
    BY <1>1 DEF Inv, ActionIdsInv
  <2>3. \A b \in Action : status'[b] # "absent" => b \in actionIds'
    BY <1>1 DEF Inv, ActionIdsInv
  <2>4. \A s \in Run : \A i \in DOMAIN staged'[s] : ~staged'[s][i].exists =>
          /\ staged'[s][i].id \in actionIds'
          /\ status'[staged'[s][i].id] = "absent"
          /\ newCard'[s] # NoCard
    BY <1>1, <1>2, <1>4, <1>6, <1>7, <2>1 DEF Inv, ActionIdsInv
  <2>5. \A s, t \in Run : \A i \in DOMAIN staged'[s], j \in DOMAIN staged'[t] :
          ~staged'[s][i].exists /\ ~staged'[t][j].exists
          /\ staged'[s][i].id = staged'[t][j].id => s = t /\ i = j
    BY <1>2, <1>7, <2>2 DEF Inv, ActionIdsInv
  <2> QED
    BY <2>3, <2>4, <2>5 DEF ActionIdsInv
<1>9. CardIdsInv'
  <2>1. \A s \in Run : newCard[s] # NoCard => newCard[s] \in cardIds
    BY DEF Inv, CardIdsInv
  <2>2. newCard[r] = NoCard => cardStatus[newCard'[r]] = "absent"
    BY <1>5 DEF Inv, CardIdsInv
  <2>3. \A s, t \in Run : newCard'[s] # NoCard /\ newCard'[s] = newCard'[t] => s = t
    <3>1. CASE newCard' = newCard
      BY <3>1 DEF Inv, CardIdsInv
    <3>2. CASE newCard'[r] \notin cardIds
      BY <3>2, <1>4, <2>1 DEF Inv, CardIdsInv
    <3> QED
      BY <1>5, <3>1, <3>2
  <2>4. \A s \in Run : newCard'[s] # NoCard => newCard'[s] \in cardIds'
    BY <1>4, <1>5, <2>1
  <2>5. \A s \in Run : newCard'[s] # NoCard /\ turn'[s] \in {"working", "writing"}
          => cardStatus'[newCard'[s]] = "absent"
    BY <1>1, <1>4, <1>5, <2>2 DEF Inv, CardIdsInv
  <2>6. \A s \in Run : turn'[s] = "idle" => newCard'[s] = NoCard
    BY <1>1, <1>4 DEF Inv, CardIdsInv
  <2>7. \A s \in Run : turn'[s] \notin {"working", "writing"} => staged'[s] = <<>>
    BY <1>1, <1>4 DEF Inv, CardIdsInv
  <2>8. \A c \in Card : cardStatus'[c] # "absent" => c \in cardIds'
    BY <1>1, <1>5 DEF Inv, CardIdsInv
  <2> QED
    BY <2>3, <2>4, <2>5, <2>6, <2>7, <2>8 DEF CardIdsInv
<1> QED
  BY <1>3, <1>8, <1>9 DEF Inv

\* A message brings its new rows into being, behind the card it raises, and
\* leaves every older row as it is.
LEMMA CommitMessageInv ==
  ASSUME TypeOK, Inv, NEW r \in Run, CommitMessage(r), UNCHANGED workerVars
  PROVE  Inv'
<1> USE DEF cardRows, workerVars, taskVars, googleVars
<1>1. \A a \in NewRows(r) :
        /\ a \in Action /\ NewPayload(r, a) \in Payload /\ newCard[r] \in Card
        /\ status[a] = "absent" /\ a \in actionIds
        /\ \E i \in Created(r) : staged[r][i].id = a /\ NewPayload(r, a) = staged[r][i].payload
  BY NewRowType DEF Inv
<1>2. /\ turn[r] = "writing"
      /\ UNCHANGED <<attempts, told, rewritten, answer, newCard, actionIds, cardIds>>
      /\ turn' = [turn EXCEPT ![r] = "written"]
      /\ staged' = [staged EXCEPT ![r] = <<>>]
  BY DEF CommitMessage
<1>3. \A a \in Action \ NewRows(r) :
        /\ status'[a] = status[a] /\ payload'[a] = payload[a]
        /\ dedupe'[a] = dedupe[a] /\ gate'[a] = gate[a]
        /\ gmailDraft'[a] = gmailDraft[a]
  BY DEF CommitMessage, Set
<1>4. \A a \in NewRows(r) :
        /\ status'[a] = "draft" /\ payload'[a] = NewPayload(r, a)
        /\ dedupe'[a] = NewPayload(r, a) /\ gate'[a] = newCard[r]
        /\ gmailDraft'[a] = NewPayload(r, a)
  BY <1>1 DEF CommitMessage, Set
<1>5. newCard[r] \in Card =>
        /\ cardStatus' = [cardStatus EXCEPT ![newCard[r]] = "pending"]
        /\ \A a \in NewRows(r) : <<a, NewPayload(r, a)>> \in shown'[newCard[r]]
        /\ \A c \in Card : c # newCard[r] => shown'[c] = shown[c]
  BY NullAssumption DEF CommitMessage, TypeOK, CardTypeOK
<1>6. newCard[r] = NoCard => UNCHANGED <<cardStatus, shown>>
  BY DEF CommitMessage
<1>7. newCard[r] \in Card \cup {NoCard}
  BY DEF TypeOK, CardTypeOK
<1>8. \A s \in Run : s # r => staged'[s] = staged[s] /\ turn'[s] = turn[s]
  BY <1>2 DEF TypeOK, CardTypeOK
<1>9. staged'[r] = <<>> /\ turn'[r] = "written"
  BY <1>2 DEF TypeOK, CardTypeOK
<1>10. ActionIdsInv'
  <2>1. \A a \in Action : status'[a] # "absent" => a \in actionIds'
    BY <1>1, <1>2, <1>3 DEF Inv, ActionIdsInv
  <2>2. \A s \in Run : \A i \in DOMAIN staged'[s] :
          s # r /\ i \in DOMAIN staged[s] /\ staged'[s][i] = staged[s][i]
    BY <1>8, <1>9
  <2>3. ASSUME NEW s \in Run, NEW i \in DOMAIN staged'[s], ~staged'[s][i].exists
        PROVE  /\ staged'[s][i].id \in actionIds'
               /\ status'[staged'[s][i].id] = "absent"
               /\ newCard'[s] # NoCard
    <3>1. staged[s][i].id \in actionIds /\ status[staged[s][i].id] = "absent" /\ newCard[s] # NoCard
      BY <2>2, <2>3 DEF Inv, ActionIdsInv
    <3>2. staged[s][i].id \notin NewRows(r)
      BY <2>2, <2>3 DEF NewRows, Created, Inv, ActionIdsInv
    <3>3. staged[s][i].id \in Action
      BY <3>1 DEF TypeOK, CardTypeOK
    <3> QED
      BY <1>2, <1>3, <2>2, <3>1, <3>2, <3>3
  <2>4. \A s, t \in Run : \A i \in DOMAIN staged'[s], j \in DOMAIN staged'[t] :
          ~staged'[s][i].exists /\ ~staged'[t][j].exists
          /\ staged'[s][i].id = staged'[t][j].id => s = t /\ i = j
    BY <2>2 DEF Inv, ActionIdsInv
  <2> QED
    BY <2>1, <2>3, <2>4 DEF ActionIdsInv
<1>11. CardIdsInv'
  <2>1. \A c \in Card : cardStatus'[c] = cardStatus[c] \/ c = newCard[r]
    BY <1>5, <1>6, <1>7 DEF TypeOK, CardTypeOK
  <2>2. \A c \in Card : cardStatus'[c] # "absent" => c \in cardIds'
    BY <1>2, <2>1, NullAssumption DEF Inv, CardIdsInv
  <2>3. \A s \in Run : newCard[s] # NoCard => newCard[s] \in Card
    BY DEF TypeOK, CardTypeOK
  <2>4. \A s \in Run : newCard'[s] # NoCard /\ turn'[s] \in {"working", "writing"}
          => cardStatus'[newCard'[s]] = "absent"
    BY <1>2, <1>8, <1>9, <2>1, <2>3 DEF Inv, CardIdsInv
  <2>5. \A s \in Run : turn'[s] = "idle" => newCard'[s] = NoCard
    BY <1>2, <1>8, <1>9 DEF Inv, CardIdsInv
  <2>6. \A s \in Run : turn'[s] \notin {"working", "writing"} => staged'[s] = <<>>
    BY <1>8, <1>9 DEF Inv, CardIdsInv
  <2> QED
    BY <1>2, <2>2, <2>4, <2>5, <2>6 DEF Inv, CardIdsInv
<1>12. CardRowInv'
  <2>1. ASSUME NEW a \in Action, a \notin NewRows(r), status[a] # "absent"
        PROVE  /\ gate'[a] = gate[a] /\ gate[a] \in Card
               /\ shown'[gate[a]] = shown[gate[a]] /\ cardStatus'[gate[a]] = cardStatus[gate[a]]
    <3>1. gate[a] \in Card /\ cardStatus[gate[a]] # "absent"
      BY <2>1 DEF TypeOK, RowOK
    <3>2. newCard[r] \in Card => cardStatus[newCard[r]] = "absent"
      BY <1>2, NullAssumption DEF Inv, CardIdsInv
    <3> QED
      BY <1>3, <1>5, <1>6, <1>7, <2>1, <3>1, <3>2 DEF TypeOK, CardTypeOK
  <2>2. ASSUME NEW a \in Action, a \in NewRows(r)
        PROVE  /\ status'[a] = "draft" /\ gmailDraft'[a] = payload'[a]
               /\ <<a, payload'[a]>> \in shown'[gate'[a]]
    BY <1>1, <1>4, <1>5, <2>2
  <2>3. ASSUME NEW a \in Action, a \notin NewRows(r)
        PROVE  /\ status'[a] \in {"draft"} \cup Granted =>
                     /\ <<a, gmailDraft'[a]>> \in shown'[gate'[a]]
                     /\ \/ <<a, payload'[a]>> \in shown'[gate'[a]]
                        \/ told'[a] = payload'[a]
                        \/ a \in rewritten'
               /\ status'[a] \in Granted =>
                     answer'[gate'[a]] = "yes" /\ cardStatus'[gate'[a]] = "answered"
    <3>1. status'[a] = status[a] /\ payload'[a] = payload[a] /\ gmailDraft'[a] = gmailDraft[a]
      BY <1>3, <2>3
    <3>2. status[a] \in {"draft"} \cup Granted => status[a] # "absent"
      BY DEF Granted
    <3> QED
      BY <1>2, <2>1, <2>3, <3>1, <3>2 DEF Inv, CardRowInv
  <2>4. "draft" \notin Granted
    BY DEF Granted
  <2> QED
    BY <2>2, <2>3, <2>4 DEF CardRowInv
<1>13. KeyInv'
  <2>1. \A a \in Action : status'[a] # "absent" =>
          dedupe'[a] = payload'[a] \/ told'[a] = payload'[a] \/ a \in rewritten'
    BY <1>2, <1>3, <1>4 DEF Inv, KeyInv
  <2>2. ASSUME NEW a \in NewRows(r), NEW b \in NewRows(r), NewPayload(r, a) = NewPayload(r, b)
        PROVE  a = b
    <3>1. PICK i \in Created(r) : staged[r][i].id = a /\ NewPayload(r, a) = staged[r][i].payload
      BY <1>1
    <3>2. PICK j \in Created(r) : staged[r][j].id = b /\ NewPayload(r, b) = staged[r][j].payload
      BY <1>1
    <3>3. i \in Nat /\ j \in Nat
      BY DEF Created, TypeOK, CardTypeOK
    <3>4. staged[r][i].payload = staged[r][j].payload
      BY <2>2, <3>1, <3>2
    <3>5. ~(i < j) /\ ~(j < i)
      BY <3>4 DEF Created
    <3>6. i = j
      BY <3>3, <3>5
    <3> QED
      BY <3>1, <3>2, <3>6
  <2>3. ASSUME NEW a \in NewRows(r), NEW b \in InFlight
        PROVE  NewPayload(r, a) # dedupe[b]
    <3>1. FindInFlight(NewPayload(r, a)) = {}
      BY <1>1 DEF Created
    <3> QED
      BY <3>1 DEF FindInFlight
  <2>4. \A a \in Action \ NewRows(r) : a \in InFlight' => a \in InFlight
    BY <1>3 DEF InFlight
  <2>5. ASSUME NEW a \in InFlight', NEW b \in InFlight', dedupe'[a] = dedupe'[b]
        PROVE  a = b
    <3>1. a \in Action /\ b \in Action
      BY DEF InFlight
    <3>2. CASE a \in NewRows(r) /\ b \in NewRows(r)
      BY <1>4, <2>2, <2>5, <3>2
    <3>3. CASE a \in NewRows(r) /\ b \notin NewRows(r)
      BY <1>3, <1>4, <2>3, <2>4, <2>5, <3>1, <3>3
    <3>4. CASE a \notin NewRows(r) /\ b \in NewRows(r)
      BY <1>3, <1>4, <2>3, <2>4, <2>5, <3>1, <3>4
    <3>5. CASE a \notin NewRows(r) /\ b \notin NewRows(r)
      BY <1>3, <2>4, <2>5, <3>1, <3>5 DEF Inv, KeyInv
    <3> QED
      BY <3>2, <3>3, <3>4, <3>5
  <2> QED
    BY <2>1, <2>5 DEF KeyInv
<1>14. \A a \in Action : status[a] # "absent" =>
         status'[a] = status[a] /\ payload'[a] = payload[a] /\ gmailDraft'[a] = gmailDraft[a]
  BY <1>1, <1>3
<1>15. \A a \in Action : /\ status'[a] # "draft" => status'[a] = status[a]
                         /\ status'[a] = "draft" => status[a] \in {"absent", "draft"}
  BY <1>1, <1>3, <1>4
<1>16. WorkerInv'
  <2>1. \A w \in Worker : pc[w] # "idle" =>
          /\ status'[job[w].action] = status[job[w].action]
          /\ payload'[job[w].action] = payload[job[w].action]
    BY <1>14 DEF Inv, WorkerInv, Message
  <2>2. \A w \in Worker : pc[w] \in {"validate", "claim"} \cup Owning =>
          body[w].after \subseteq Action
    BY DEF Inv, WorkerInv, Payload, Owning
  <2> QED
    BY <1>2, <1>14, <2>1, <2>2 DEF Inv, WorkerInv, Owning
<1>17. EffectInv'
  <2>1. \A a \in Action : effects[a] > 0 => status[a] # "absent" /\ payload[a] \in Payload
    BY DEF Inv, EffectInv, TypeOK, RowOK, WorkerTypeOK
  <2>2. \A a \in Action : effects[a] > 0 => \A b \in payload'[a].after : status'[b] = "done"
    BY <1>14, <2>1 DEF Inv, EffectInv, Payload
  <2>3. \A a \in Action :
          /\ status'[a] \notin {"running", "done", "failed"} => effects[a] = 0
          /\ status'[a] = "done" => effects[a] = 1
          /\ status'[a] \in {"absent", "draft", "approved"} => attempts[a] = 0
    BY <1>15 DEF Inv, EffectInv
  <2>4. \A a \in Action, p \in Payload : <<a, p>> \in applied =>
          effects[a] > 0 /\ (a \in rewritten' \/ p = Words(a)')
    BY <1>2, <1>14, <2>1 DEF Inv, EffectInv, Words
  <2> QED
    BY <1>2, <2>2, <2>3, <2>4 DEF Inv, EffectInv
<1>18. RewrittenInv'
  BY <1>2, <1>15 DEF Inv, RewrittenInv, TypeOK, StoreTypeOK
<1> QED
  BY <1>10, <1>11, <1>12, <1>13, <1>16, <1>17, <1>18 DEF Inv

----------------------------------------------------------------------------
(* The person, the clock and the sweeps.                                   *)

\* Turns and ids are none of their business.
IdsKept ==
    /\ UNCHANGED <<turn, staged, newCard, actionIds, cardIds>>
    /\ \A c \in Card : cardStatus[c] = "absent" <=> cardStatus'[c] = "absent"
    /\ \A a \in Action : status[a] = "absent" <=> status'[a] = "absent"

\* Steps that allocate nothing and stage nothing keep the ids apart.
LEMMA IdsKeptInv ==
  ASSUME TypeOK, Inv, IdsKept
  PROVE  ActionIdsInv' /\ CardIdsInv'
<1>1. \A r \in Run : /\ newCard[r] \in Card \cup {NoCard}
                     /\ \A i \in DOMAIN staged[r] : staged[r][i].id \in Action
  <2>1. \A r \in Run : \A i \in DOMAIN staged[r] : staged[r][i] \in Entry
    BY DEF TypeOK, CardTypeOK
  <2> QED
    BY <2>1 DEF TypeOK, CardTypeOK, Entry
<1>2. ActionIdsInv'
  BY <1>1 DEF IdsKept, Inv, ActionIdsInv
<1>3. CardIdsInv'
  <2>1. \A r \in Run : newCard[r] # NoCard => newCard[r] \in Card
    BY <1>1
  <2> QED
    BY <2>1 DEF IdsKept, Inv, CardIdsInv
<1> QED
  BY <1>2, <1>3

\* Whatever closes rows ("no", "Not now", a cancel turn, either sweep) closes
\* only rows no worker has claimed, and touches only pending cards.
LEMMA CloseInv ==
  ASSUME TypeOK, Inv, NEW rows, NEW to \in {"cancelled", "expired"},
         status' = Set(rows, to),
         \A a \in rows : a \in Action => status[a] \in Closable,
         UNCHANGED <<wordVars, gate, attempts, shown, turn, staged, newCard,
                     actionIds, cardIds, workerVars>>,
         \A c \in Card :
            \/ cardStatus'[c] = cardStatus[c] /\ answer'[c] = answer[c]
            \/ cardStatus[c] = "pending" /\ cardStatus'[c] # "absent"
  PROVE  Inv'
<1> USE DEF wordVars, workerVars, taskVars, googleVars
<1>1. \A a \in Action : \/ status'[a] = status[a]
                        \/ status[a] \in {"draft", "approved"}
                           /\ status'[a] \in {"cancelled", "expired"}
  BY DEF Set, Closable
<1>2. IdsKept
  BY <1>1 DEF IdsKept
<1>3. CardRowInv'
  <2>1. \A a \in Action : status'[a] \in {"draft"} \cup Granted =>
          status'[a] = status[a] /\ gate[a] \in Card
    BY <1>1 DEF Granted, TypeOK, RowOK
  <2> QED
    BY <2>1 DEF Inv, CardRowInv, Granted
<1>4. KeyInv'
  <2>1. \A a \in Action : a \in InFlight' => a \in InFlight
    BY <1>1 DEF InFlight, InFlightStatuses
  <2> QED
    BY <1>1, <2>1 DEF Inv, KeyInv, InFlight
<1>5. WorkerInv'
  <2>1. \A w \in Worker : pc[w] # "idle" => job[w].action \in Action
    BY DEF Inv, WorkerInv, Message
  <2>3. \A w \in Worker : pc[w] # "idle" => body[w].after \subseteq Action
    BY DEF Inv, WorkerInv, Payload
  <2>4. "idle" \notin {"validate", "claim"} \cup Owning
    BY DEF Owning
  <2>5. \A w \in Worker : pc[w] # "idle" =>
          status'[job[w].action] \notin {"absent", "draft"}
    BY <1>1, <2>1 DEF Inv, WorkerInv
  <2>6. \A w \in Worker : pc[w] \in {"validate", "claim"} \cup Owning =>
          \A b \in body[w].after : status'[b] = "done"
    BY <1>1, <2>3, <2>4 DEF Inv, WorkerInv
  <2>7. \A w \in Worker : pc[w] \in Owning => status'[job[w].action] = "running"
    BY <1>1, <2>1, <2>4 DEF Inv, WorkerInv
  <2> QED
    BY <2>5, <2>6, <2>7 DEF Inv, WorkerInv
<1>6. EffectInv'
  <2>1. \A a \in Action : effects[a] > 0 => payload[a].after \subseteq Action
    BY DEF Inv, EffectInv, TypeOK, RowOK, WorkerTypeOK, Payload
  <2>2. \A a \in Action : effects[a] > 0 => \A b \in payload[a].after : status'[b] = "done"
    BY <1>1, <2>1 DEF Inv, EffectInv
  <2>3. \A a \in Action :
          /\ status'[a] \notin {"running", "done", "failed"} => effects[a] = 0
          /\ status'[a] = "done" => effects[a] = 1
          /\ status'[a] \in {"absent", "draft", "approved"} => attempts[a] = 0
    BY <1>1 DEF Inv, EffectInv
  <2> QED
    BY <2>2, <2>3 DEF Inv, EffectInv, Words
<1>7. RewrittenInv'
  BY <1>1 DEF Inv, RewrittenInv, TypeOK, StoreTypeOK
<1> QED
  BY <1>2, <1>3, <1>4, <1>5, <1>6, <1>7, IdsKeptInv DEF Inv

\* A yes grants the drafts of its card exactly as the card shows them.
LEMMA ConfirmYesInv ==
  ASSUME TypeOK, Inv, NEW c \in Card, ConfirmYes(c), UNCHANGED workerVars
  PROVE  Inv'
<1> USE DEF wordVars, workerVars, taskVars, googleVars, turnVars
<1>1. /\ cardStatus[c] = "pending"
      /\ cardStatus'[c] = "answered" /\ answer'[c] = "yes"
      /\ \A d \in Card : d # c => cardStatus'[d] = cardStatus[d] /\ answer'[d] = answer[d]
      /\ UNCHANGED <<wordVars, gate, attempts, shown, turn, staged, newCard,
                     actionIds, cardIds>>
  BY DEF ConfirmYes, AnswerCard, TypeOK, CardTypeOK
<1>2. \A a \in Action :
        \/ status'[a] = status[a]
        \/ status[a] = "draft" /\ status'[a] = "approved" /\ gate[a] = c
  BY DEF ConfirmYes, Gated, Set
<1>3. ActionIdsInv' /\ CardIdsInv'
  <2>1. IdsKept
    BY <1>1, <1>2 DEF IdsKept
  <2> QED
    BY <2>1, IdsKeptInv
<1>4. CardRowInv'
  <2>1. \A a \in Action : status[a] \in {"draft"} \cup Granted => gate[a] \in Card
    BY DEF Granted, TypeOK, RowOK
  <2> QED
    BY <1>1, <1>2, <2>1 DEF Inv, CardRowInv, Granted
<1>5. KeyInv'
  <2>1. \A a \in Action : a \in InFlight' => a \in InFlight
    BY <1>2 DEF InFlight, InFlightStatuses
  <2> QED
    BY <1>1, <1>2, <2>1 DEF Inv, KeyInv, InFlight
<1>6. WorkerInv'
  <2>1. \A w \in Worker : pc[w] # "idle" => job[w].action \in Action
    BY DEF Inv, WorkerInv, Message
  <2>3. \A w \in Worker : pc[w] # "idle" => body[w].after \subseteq Action
    BY DEF Inv, WorkerInv, Payload
  <2>4. "idle" \notin {"validate", "claim"} \cup Owning
    BY DEF Owning
  <2>5. \A w \in Worker : pc[w] # "idle" =>
          status'[job[w].action] \notin {"absent", "draft"}
    BY <1>2, <2>1 DEF Inv, WorkerInv
  <2>6. \A w \in Worker : pc[w] \in {"validate", "claim"} \cup Owning =>
          \A b \in body[w].after : status'[b] = "done"
    BY <1>2, <2>3, <2>4 DEF Inv, WorkerInv
  <2>7. \A w \in Worker : pc[w] \in Owning => status'[job[w].action] = "running"
    BY <1>2, <2>1, <2>4 DEF Inv, WorkerInv
  <2> QED
    BY <1>1, <2>5, <2>6, <2>7 DEF Inv, WorkerInv
<1>7. EffectInv'
  <2>1. \A a \in Action : effects[a] > 0 => payload[a].after \subseteq Action
    BY DEF Inv, EffectInv, TypeOK, RowOK, WorkerTypeOK, Payload
  <2>2. \A a \in Action : effects[a] > 0 => \A b \in payload[a].after : status'[b] = "done"
    BY <1>2, <2>1 DEF Inv, EffectInv
  <2>3. \A a \in Action :
          /\ status'[a] \notin {"running", "done", "failed"} => effects[a] = 0
          /\ status'[a] = "done" => effects[a] = 1
          /\ status'[a] \in {"absent", "draft", "approved"} => attempts[a] = 0
    BY <1>2 DEF Inv, EffectInv
  <2> QED
    BY <1>1, <2>2, <2>3 DEF Inv, EffectInv, Words
<1>8. RewrittenInv'
  BY <1>1, <1>2 DEF Inv, RewrittenInv, TypeOK, StoreTypeOK
<1> QED
  BY <1>3, <1>4, <1>5, <1>6, <1>7, <1>8 DEF Inv

\* An edit revises a draft nobody has granted, behind a card of its own.
LEMMA EditInv ==
  ASSUME TypeOK, Inv, NEW c \in Card, NEW next \in Card, NEW a \in Action, NEW w \in Write,
         Edit(c, a, w, next), UNCHANGED workerVars
  PROVE  Inv'
<1> USE DEF workerVars, taskVars, googleVars
<1> DEFINE p == [payload[a] EXCEPT !.write = w]
<1>1. /\ cardStatus[c] = "pending" /\ status[a] = "draft" /\ gate[a] = c
      /\ FindInFlight(p) \subseteq {a}
      /\ next \notin cardIds /\ cardIds' = cardIds \cup {next}
      /\ cardStatus' = [cardStatus EXCEPT ![c] = "answered", ![next] = "pending"]
      /\ answer' = [answer EXCEPT ![c] = "edit"]
      /\ shown' = [shown EXCEPT ![next] = {<<a, p>>}]
      /\ payload' = [payload EXCEPT ![a] = p]
      /\ dedupe' = [dedupe EXCEPT ![a] = p]
      /\ gmailDraft' = [gmailDraft EXCEPT ![a] = p]
      /\ gate' = [gate EXCEPT ![a] = next]
      /\ told' = [told EXCEPT ![a] = NoPayload]
      /\ UNCHANGED <<status, rewritten, attempts, turn, staged, newCard, actionIds>>
  BY DEF Edit, ReviseAction, AnswerCard, Gated
<1>2. p \in Payload /\ effects[a] = 0
  BY <1>1 DEF TypeOK, RowOK, Payload, Inv, EffectInv
<1> HIDE DEF p
<1>3. /\ payload'[a] = p /\ dedupe'[a] = p /\ gmailDraft'[a] = p /\ gate'[a] = next
      /\ \A b \in Action : b # a =>
            /\ payload'[b] = payload[b] /\ dedupe'[b] = dedupe[b]
            /\ gmailDraft'[b] = gmailDraft[b] /\ told'[b] = told[b] /\ gate'[b] = gate[b]
  BY <1>1 DEF TypeOK, StoreTypeOK
<1>4. cardStatus[next] = "absent" /\ next # c
  BY <1>1 DEF Inv, CardIdsInv
<1>5. /\ shown'[next] = {<<a, p>>}
      /\ cardStatus'[next] = "pending" /\ cardStatus'[c] = "answered"
      /\ \A d \in Card : d # next => shown'[d] = shown[d]
      /\ \A d \in Card : d \notin {c, next} =>
            cardStatus'[d] = cardStatus[d] /\ answer'[d] = answer[d]
  BY <1>1, <1>4 DEF TypeOK, CardTypeOK
<1>6. ActionIdsInv'
  BY <1>1 DEF Inv, ActionIdsInv
<1>7. CardIdsInv'
  <2>1. \A s \in Run : newCard[s] # NoCard => newCard[s] \in Card /\ newCard[s] \in cardIds
    BY DEF TypeOK, CardTypeOK, Inv, CardIdsInv
  <2>2. \A s \in Run : newCard[s] # NoCard => newCard[s] # next
    BY <1>1, <2>1
  <2>3. ASSUME NEW s \in Run, newCard'[s] # NoCard, turn'[s] \in {"working", "writing"}
        PROVE  cardStatus'[newCard'[s]] = "absent"
    <3>1. newCard'[s] = newCard[s] /\ turn'[s] = turn[s]
      BY <1>1
    <3>2. newCard[s] \in Card /\ newCard[s] # next
      BY <2>1, <2>2, <2>3, <3>1
    <3>3. cardStatus[newCard[s]] = "absent"
      BY <2>3, <3>1 DEF Inv, CardIdsInv
    <3>4. newCard[s] # c
      BY <1>1, <3>3
    <3> QED
      BY <1>5, <3>1, <3>2, <3>3, <3>4
  <2>4. \A d \in Card : cardStatus'[d] # "absent" => d \in cardIds'
    BY <1>1, <1>5 DEF Inv, CardIdsInv
  <2> QED
    BY <1>1, <2>3, <2>4 DEF Inv, CardIdsInv
<1>8. CardRowInv'
  <2>1. /\ <<a, payload'[a]>> \in shown'[gate'[a]] /\ gmailDraft'[a] = payload'[a]
        /\ status'[a] \notin Granted
    BY <1>1, <1>3, <1>5 DEF Granted
  <2>2. ASSUME NEW b \in Action, b # a, status[b] \in {"draft"} \cup Granted
        PROVE  gate[b] \in Card /\ gate[b] # next
    BY <2>2, <1>4 DEF TypeOK, RowOK, Granted
  <2>3. ASSUME NEW b \in Action, b # a, status[b] \in {"draft"} \cup Granted
        PROVE  /\ <<b, gmailDraft'[b]>> \in shown'[gate'[b]]
               /\ \/ <<b, payload'[b]>> \in shown'[gate'[b]]
                  \/ told'[b] = payload'[b]
                  \/ b \in rewritten'
               /\ status[b] \in Granted =>
                     answer'[gate'[b]] = "yes" /\ cardStatus'[gate'[b]] = "answered"
    <3>1. gate[b] \in Card /\ gate[b] # next
      BY <2>2, <2>3
    <3>2. /\ payload'[b] = payload[b] /\ gmailDraft'[b] = gmailDraft[b] /\ told'[b] = told[b]
          /\ gate'[b] = gate[b] /\ shown'[gate[b]] = shown[gate[b]] /\ rewritten' = rewritten
      BY <1>1, <1>3, <1>5, <2>3, <3>1
    <3>3. /\ <<b, gmailDraft[b]>> \in shown[gate[b]]
          /\ \/ <<b, payload[b]>> \in shown[gate[b]]
             \/ told[b] = payload[b]
             \/ b \in rewritten
      BY <2>3 DEF Inv, CardRowInv
    <3>4. ASSUME status[b] \in Granted
          PROVE  answer'[gate[b]] = "yes" /\ cardStatus'[gate[b]] = "answered"
      <4>1. answer[gate[b]] = "yes" /\ cardStatus[gate[b]] = "answered"
        BY <3>4 DEF Inv, CardRowInv
      <4>2. gate[b] # c
        BY <1>1, <4>1
      <4> QED
        BY <1>5, <3>1, <4>1, <4>2
    <3> QED
      BY <3>2, <3>3, <3>4
  <2>4. status' = status
    BY <1>1
  <2> QED
    BY <2>1, <2>3, <2>4 DEF CardRowInv
<1>9. KeyInv'
  <2>1. \A b \in Action : status'[b] # "absent" =>
          dedupe'[b] = payload'[b] \/ told'[b] = payload'[b] \/ b \in rewritten'
    BY <1>1, <1>3 DEF Inv, KeyInv
  <2>2. \A b \in InFlight : b # a => dedupe[b] # p
    BY <1>1 DEF FindInFlight
  <2>3. InFlight' = InFlight /\ InFlight \subseteq Action
    BY <1>1 DEF InFlight
  <2>4. \A b, d \in InFlight' : dedupe'[b] = dedupe'[d] => b = d
    BY <1>3, <2>2, <2>3 DEF Inv, KeyInv
  <2> QED
    BY <2>1, <2>4 DEF KeyInv
<1>10. WorkerInv'
  <2>1. \A v \in Worker : pc[v] # "idle" => job[v].action \in Action /\ job[v].action # a
    BY <1>1 DEF Inv, WorkerInv, Message
  <2>2. \A v \in Worker : pc[v] # "idle" => payload'[job[v].action] = payload[job[v].action]
    BY <1>3, <2>1
  <2> QED
    BY <1>1, <2>2 DEF Inv, WorkerInv
<1>11. EffectInv'
  <2>1. \A b \in Action : effects[b] > 0 =>
          payload'[b] = payload[b] /\ gmailDraft'[b] = gmailDraft[b]
    BY <1>2, <1>3
  <2> QED
    BY <1>1, <2>1 DEF Inv, EffectInv, Words
<1>12. RewrittenInv'
  BY <1>1 DEF Inv, RewrittenInv
<1> QED
  BY <1>6, <1>7, <1>8, <1>9, <1>10, <1>11, <1>12 DEF Inv

\* The chat changes what a draft says and tells so; a step that comes too late
\* changes what a row says that is no draft any more.  Nothing else moves.
LEMMA ReviseInv ==
  ASSUME TypeOK, Inv, NEW a \in Action, NEW w \in Write, Revise(a, w) \/ ReviseLate(a, w),
         UNCHANGED workerVars
  PROVE  Inv'
<1> USE DEF workerVars, taskVars, googleVars, cardVars, cardRows, turnVars
<1>1. PICK p \in Payload :
        /\ payload' = [payload EXCEPT ![a] = p]
        /\ p.after = payload[a].after
        /\ \/ Revise(a, w) /\ told' = [told EXCEPT ![a] = p]
           \/ ReviseLate(a, w) /\ told' = told
  BY RevisedPayload
<1>2. UNCHANGED <<status, dedupe, gmailDraft, gate, attempts, cardVars>>
  BY DEF Revise, ReviseLate
<1>3. /\ payload'[a] = p
      /\ \A b \in Action : payload'[b].after = payload[b].after
      /\ \A b \in Action : b # a => payload'[b] = payload[b] /\ told'[b] = told[b]
  BY <1>1 DEF TypeOK, StoreTypeOK
<1>4. \/ status[a] = "draft" /\ told'[a] = p /\ rewritten' = rewritten
      \/ status[a] \notin {"absent", "draft"} /\ rewritten' = rewritten \cup {a}
  BY <1>1 DEF Revise, ReviseLate, ReviseAction, TypeOK, StoreTypeOK
<1>5. ActionIdsInv' /\ CardIdsInv'
  BY <1>2, IdsKeptInv DEF IdsKept
<1>6. CardRowInv'
  BY <1>2, <1>3, <1>4 DEF Inv, CardRowInv
<1>7. KeyInv'
  BY <1>2, <1>3, <1>4 DEF Inv, KeyInv, InFlight
<1>8. WorkerInv'
  <2>1. \A v \in Worker : pc[v] # "idle" => job[v].action \in Action
    BY DEF Inv, WorkerInv, Message
  <2>2. \A v \in Worker : pc[v] # "idle" =>
          job[v].action \in rewritten' \/ body[v] = payload'[job[v].action]
    BY <1>3, <1>4, <2>1 DEF Inv, WorkerInv
  <2> QED
    BY <1>2, <1>3, <2>1, <2>2 DEF Inv, WorkerInv
<1>9. EffectInv'
  <2>1. status[a] = "draft" => effects[a] = 0
    BY DEF Inv, EffectInv
  <2>2. \A b \in Action, q \in Payload : <<b, q>> \in applied =>
          effects[b] > 0 /\ (b \in rewritten' \/ q = Words(b)')
    BY <1>2, <1>3, <1>4, <2>1 DEF Inv, EffectInv, Words
  <2> QED
    BY <1>2, <1>3, <2>2 DEF Inv, EffectInv
<1>10. RewrittenInv'
  BY <1>2, <1>4 DEF Inv, RewrittenInv
<1> QED
  BY <1>5, <1>6, <1>7, <1>8, <1>9, <1>10 DEF Inv

\* The steps of turns, people and sweeps keep the invariant.
LEMMA CardSideInv ==
  ASSUME TypeOK, Inv, CardSide
  PROVE  Inv'
<1>w. UNCHANGED workerVars
  BY DEF CardSide
<1>1. ASSUME NEW r \in Run, TurnStep(r) PROVE Inv'
  BY <1>1, <1>w, TurnQuiet, StageExistingInv, StageNewInv, CommitMessageInv DEF TurnStep
<1>2. ASSUME NEW c \in Card, ConfirmNo(c) \/ CancelPrompt(c) PROVE Inv'
  <2>1. /\ status' = Set(Gated(c, Closable), "cancelled")
        /\ UNCHANGED <<wordVars, gate, attempts, shown, turn, staged, newCard,
                       actionIds, cardIds>>
    BY <1>2 DEF ConfirmNo, CancelPrompt, turnVars
  <2>2. \A a \in Gated(c, Closable) : status[a] \in Closable
    BY DEF Gated
  <2>3. \A d \in Card :
          \/ cardStatus'[d] = cardStatus[d] /\ answer'[d] = answer[d]
          \/ cardStatus[d] = "pending" /\ cardStatus'[d] # "absent"
    BY <1>2 DEF ConfirmNo, CancelPrompt, AnswerCard, TypeOK, CardTypeOK
  <2> QED
    BY <1>w, <2>1, <2>2, <2>3, CloseInv
<1>3. CASE CancelOpenCards
  <2> DEFINE rows == UNION {Gated(c, Closable) : c \in cancelling}
  <2>1. /\ status' = Set(rows, "cancelled")
        /\ UNCHANGED <<wordVars, gate, attempts, shown, turn, staged, newCard,
                       actionIds, cardIds>>
    BY <1>3 DEF CancelOpenCards, turnVars
  <2>2. \A a \in rows : status[a] \in Closable
    BY DEF Gated
  <2>3. \A d \in Card :
          \/ cardStatus'[d] = cardStatus[d] /\ answer'[d] = answer[d]
          \/ cardStatus[d] = "pending" /\ cardStatus'[d] # "absent"
    BY <1>3 DEF CancelOpenCards
  <2> HIDE DEF rows
  <2> QED
    BY <1>w, <2>1, <2>2, <2>3, CloseInv
<1>4. CASE ExpirePrompts
  <2>1. /\ status' = Set(ExpiredActions, "expired")
        /\ UNCHANGED <<wordVars, gate, attempts, shown, turn, staged, newCard,
                       actionIds, cardIds>>
    BY <1>4 DEF ExpirePrompts, turnVars
  <2>2. \A a \in ExpiredActions : status[a] \in Closable
    BY DEF ExpiredActions
  <2>3. \A d \in Card :
          \/ cardStatus'[d] = cardStatus[d] /\ answer'[d] = answer[d]
          \/ cardStatus[d] = "pending" /\ cardStatus'[d] # "absent"
    BY <1>4 DEF ExpirePrompts, ExpiredCards
  <2> QED
    BY <1>w, <2>1, <2>2, <2>3, CloseInv
<1>5. ASSUME NEW r \in Run, CloseDeadRun(r) PROVE Inv'
  <2> DEFINE rows == {a \in Action : home[a] = r /\ status[a] \in Closable}
  <2>1. /\ status' = Set(rows, "cancelled")
        /\ UNCHANGED <<wordVars, gate, attempts, shown, turn, staged, newCard,
                       actionIds, cardIds, cardStatus, answer>>
    BY <1>5 DEF CloseDeadRun, cardRows
  <2>2. \A a \in rows : status[a] \in Closable
    OBVIOUS
  <2> HIDE DEF rows
  <2> QED
    BY <1>w, <2>1, <2>2, CloseInv
<1>6. ASSUME NEW c \in Card, ConfirmYes(c) PROVE Inv'
  BY <1>6, <1>w, ConfirmYesInv
<1>7. ASSUME NEW c \in Card, NEW next \in Card, NEW a \in Action, NEW w \in Write,
             Edit(c, a, w, next)
      PROVE  Inv'
  BY <1>7, <1>w, EditInv
<1>9. ASSUME NEW a \in Action, NEW w \in Write, Revise(a, w) \/ ReviseLate(a, w) PROVE Inv'
  BY <1>9, <1>w, ReviseInv
<1>8. ASSUME ListOpenCards \/ \E c \in Card : CardDue(c) PROVE Inv'
  <2>1. UNCHANGED <<storeVars, cardRows, turnVars>>
    BY <1>8 DEF ListOpenCards, CardDue
  <2>2. KeyInv' /\ WorkerInv' /\ EffectInv' /\ RewrittenInv' /\ CardRowInv'
    BY <1>w, <2>1, RowsSame, CardsSame DEF storeVars, wordVars, cardRows
  <2>3. IdsKept
    BY <2>1 DEF IdsKept, storeVars, wordVars, cardRows, turnVars
  <2> QED
    BY <2>2, <2>3, IdsKeptInv DEF Inv
<1> QED
  BY <1>1, <1>2, <1>3, <1>4, <1>5, <1>6, <1>7, <1>8, <1>9 DEF CardSide, PersonStep, SweepStep

----------------------------------------------------------------------------
(* Workers.                                                                *)

\* A worker moves rows only on from where a yes has put them.
LEMMA RowMoveInv ==
  ASSUME TypeOK, Inv, UNCHANGED <<cardVars, wordVars, gate>>,
         \A a \in Action :
            \/ status'[a] = status[a]
            \/ /\ status[a] \notin {"absent", "draft"} /\ status'[a] \notin {"absent", "draft"}
               /\ status'[a] \in Granted => status[a] \in Granted
               /\ status'[a] \in InFlightStatuses => status[a] \in InFlightStatuses
  PROVE  ActionIdsInv' /\ CardIdsInv' /\ CardRowInv' /\ KeyInv' /\ RewrittenInv'
<1> USE DEF wordVars, cardVars, cardRows, turnVars
<1>1. IdsKept
  BY DEF IdsKept
<1>2. CardRowInv'
  <2>1. \A a \in Action : status'[a] \in {"draft"} \cup Granted =>
          status[a] \in {"draft"} \cup Granted
    BY DEF Granted
  <2>2. \A a \in Action : status'[a] \in Granted => status[a] \in Granted
    OBVIOUS
  <2> QED
    BY <2>1, <2>2 DEF Inv, CardRowInv
<1>3. KeyInv'
  <2>1. \A a \in Action : a \in InFlight' => a \in InFlight
    BY DEF InFlight
  <2> QED
    BY <2>1 DEF Inv, KeyInv, InFlight
<1>4. RewrittenInv'
  BY DEF Inv, RewrittenInv, TypeOK, StoreTypeOK
<1> QED
  BY <1>1, <1>2, <1>3, <1>4, IdsKeptInv

\* What a worker has with a message: the row's payload, or what the row said
\* before it was rewritten.
Holds(j, p) ==
    /\ j \in Message /\ p \in Payload
    /\ p.after = payload[j.action].after
    /\ j.action \in rewritten \/ p = payload[j.action]

\* Where a step leaves the worker that takes it; the others stay where they are.
Moves(w, q, j, p) ==
    /\ pc'[w] = q /\ job'[w] = j /\ body'[w] = p
    /\ \A v \in Worker \ {w} : pc'[v] = pc[v] /\ job'[v] = job[v] /\ body'[v] = body[v]

\* A step moves no row but the worker's own, and none another worker owns.
LEMMA WorkerMoveInv ==
  ASSUME TypeOK, Inv, NEW w \in Worker, NEW q, NEW j, NEW p, Moves(w, q, j, p),
         UNCHANGED wordVars,
         \A a \in Action :
            \/ status'[a] = status[a]
            \/ /\ pc[w] # "idle" /\ a = job[w].action
               /\ status[a] # "done" /\ status'[a] \notin {"absent", "draft"}
               /\ status[a] = "running" => pc[w] \in Owning,
         q # "idle" => Holds(j, p) /\ status'[j.action] \notin {"absent", "draft"},
         q \in {"validate", "claim"} \cup Owning => \A b \in p.after : status'[b] = "done",
         q \in Owning => /\ status'[j.action] = "running"
                         /\ pc[w] \in Owning \/ status[j.action] # "running"
                         /\ pc[w] # "idle" /\ j = job[w]
  PROVE  WorkerInv'
<1> USE DEF wordVars
<1>0. "idle" \notin {"validate", "claim"} \cup Owning
  BY DEF Owning
<1>1. \A v \in Worker : pc[v] # "idle" => job[v].action \in Action
  BY DEF Inv, WorkerInv, Message
<1>2. \A v \in Worker : pc[v] # "idle" => body[v].after \subseteq Action
  BY DEF Inv, WorkerInv, Payload
<1>3. ASSUME NEW v \in Worker, v # w
      PROVE  /\ pc'[v] # "idle" =>
                /\ Holds(job[v], body[v])' /\ status'[job'[v].action] \notin {"absent", "draft"}
             /\ pc'[v] \in {"validate", "claim"} \cup Owning =>
                \A b \in body'[v].after : status'[b] = "done"
  BY <1>0, <1>1, <1>2, <1>3 DEF Moves, Holds, Inv, WorkerInv
<1>4. ASSUME NEW v \in Worker, v # w, pc[v] \in Owning
      PROVE  status'[job[v].action] = "running"
  <2>1. status[job[v].action] = "running" /\ job[v].action \in Action
    BY <1>0, <1>1, <1>4 DEF Inv, WorkerInv
  <2>2. pc[w] \in Owning => job[w].action # job[v].action
    BY <1>4 DEF Inv, WorkerInv
  <2> QED
    BY <2>1, <2>2
<1>5. ASSUME NEW v \in Worker, v # w, pc[v] \in Owning, q \in Owning
      PROVE  job[v].action # j.action
  BY <1>5 DEF Inv, WorkerInv
<1>6. ASSUME NEW v \in Worker, pc'[v] \in Owning
      PROVE  status'[job'[v].action] = "running"
  <2>1. CASE v = w
    <3>1. q \in Owning /\ job'[v] = j
      BY <1>6, <2>1 DEF Moves
    <3> QED
      BY <3>1
  <2>2. CASE v # w
    <3>1. pc'[v] = pc[v] /\ job'[v] = job[v]
      BY <2>2 DEF Moves
    <3> QED
      BY <1>4, <1>6, <2>2, <3>1
  <2> QED
    BY <2>1, <2>2
<1>7. \A v, u \in Worker :
        pc'[v] \in Owning /\ pc'[u] \in Owning /\ job'[v].action = job'[u].action => v = u
  <2>1. ASSUME NEW v \in Worker, NEW u \in Worker, pc'[v] \in Owning, pc'[u] \in Owning,
               job'[v].action = job'[u].action, v # u
        PROVE  FALSE
    <3>1. CASE v = w
      BY <1>5, <2>1, <3>1 DEF Moves
    <3>2. CASE u = w
      BY <1>5, <2>1, <3>2 DEF Moves
    <3>3. CASE v # w /\ u # w
      BY <2>1, <3>3 DEF Moves, Inv, WorkerInv
    <3> QED
      BY <3>1, <3>2, <3>3
  <2> QED
    BY <2>1
<1>8. /\ pc'[w] # "idle" =>
         /\ Holds(job[w], body[w])' /\ status'[job'[w].action] \notin {"absent", "draft"}
      /\ pc'[w] \in {"validate", "claim"} \cup Owning =>
         \A b \in body'[w].after : status'[b] = "done"
  BY DEF Moves, Holds
<1>9. \A v \in Worker : pc'[v] # "idle" =>
         /\ Holds(job[v], body[v])' /\ status'[job'[v].action] \notin {"absent", "draft"}
  BY <1>3, <1>8
<1>10. \A v \in Worker : pc'[v] \in {"validate", "claim"} \cup Owning =>
         \A b \in body'[v].after : status'[b] = "done"
  BY <1>3, <1>8
<1> QED
  BY <1>6, <1>7, <1>9, <1>10 DEF WorkerInv, Holds

\* What Google has done stays in step with the rows while it does nothing.
LEMMA EffectKept ==
  ASSUME TypeOK, Inv, UNCHANGED <<wordVars, applied, effects>>,
         \A a \in Action :
            \/ status'[a] = status[a] /\ attempts'[a] = attempts[a]
            \/ status[a] = "approved" /\ status'[a] \in {"running", "cancelled"}
            \/ status[a] = "running" /\ status'[a] = "failed"
            \/ status[a] = "running" /\ status'[a] = "done" /\ effects[a] = 1,
         \A v \in Worker :
            /\ pc'[v] = "execute" => effects[job'[v].action] = 0
            /\ pc'[v] = "succeeded" => effects[job'[v].action] = 1
  PROVE  EffectInv'
<1> USE DEF wordVars
<1>1. \A a \in Action : effects[a] > 0 => payload[a].after \subseteq Action
  BY DEF Inv, EffectInv, TypeOK, RowOK, WorkerTypeOK, Payload
<1>2. \A a \in Action : effects[a] > 0 => \A b \in payload[a].after : status'[b] = "done"
  <2>1. \A b \in Action : status[b] = "done" => status'[b] = "done"
    OBVIOUS
  <2> QED
    BY <1>1, <2>1 DEF Inv, EffectInv
<1>3. \A a \in Action :
        /\ status'[a] \notin {"running", "done", "failed"} => effects[a] = 0
        /\ status'[a] = "done" => effects[a] = 1
        /\ status'[a] \in {"absent", "draft", "approved"} => attempts'[a] = 0
  BY DEF Inv, EffectInv
<1> QED
  BY <1>2, <1>3 DEF Inv, EffectInv, Words

\* The rows a worker may move its own row to, and when.
OwnMove(w, from, to) ==
    /\ status[job[w].action] = from
    /\ status' = [status EXCEPT ![job[w].action] = to]

\* A worker's conditional UPDATE moves the row of its own message or none.
LEMMA OwnMoveCases ==
  ASSUME TypeOK, NEW w \in Worker, NEW from, NEW to, OwnMove(w, from, to)
  PROVE  \A a \in Action : \/ status'[a] = status[a]
                           \/ a = job[w].action /\ status[a] = from /\ status'[a] = to
  BY DEF OwnMove, TypeOK, StoreTypeOK

\* A step that ends a delivery and moves no row.
LEMMA EndQuietInv ==
  ASSUME TypeOK, Inv, NEW w \in Worker, UNCHANGED <<cardVars, storeVars, googleVars>>,
         NEW j, NEW p, NEW q \in {"idle", "hold", "sequence"}, Moves(w, q, j, p),
         q # "idle" => Holds(j, p) /\ status[j.action] \notin {"absent", "draft"}
  PROVE  Inv'
<1> USE DEF storeVars, wordVars, googleVars
<1>1. ActionIdsInv' /\ CardIdsInv' /\ CardRowInv' /\ KeyInv' /\ RewrittenInv'
  BY RowMoveInv
<1>2. q \notin {"validate", "claim"} \cup Owning
  BY DEF Owning
<1>3. WorkerInv'
  BY <1>2, WorkerMoveInv
<1>4. \A v \in Worker :
        /\ pc'[v] = "execute" => effects[job'[v].action] = 0
        /\ pc'[v] = "succeeded" => effects[job'[v].action] = 1
  BY DEF Moves, Inv, EffectInv
<1>5. EffectInv'
  BY <1>4, EffectKept
<1> QED
  BY <1>1, <1>3, <1>5 DEF Inv

\* Taking the next step of _execute, up to the claim.
LEMMA AdvanceInv ==
  ASSUME TypeOK, Inv, NEW w \in Worker, UNCHANGED cardVars,
         SequenceClear(w) \/ SequenceBlocked(w) \/ RevalidateFresh(w) \/ RevalidateStale(w)
  PROVE  Inv'
<1> USE DEF storeVars, wordVars, taskVars, googleVars
<1>1. PICK q \in {"validate", "hold", "claim"} : pc' = [pc EXCEPT ![w] = q]
  BY DEF SequenceClear, SequenceBlocked, RevalidateFresh, RevalidateStale
<1>2. /\ UNCHANGED <<storeVars, job, body, googleVars>>
      /\ pc[w] \in {"sequence", "validate"}
      /\ q \in {"validate", "claim"} => \/ \A b \in body[w].after : status[b] = "done"
                                        \/ pc[w] = "validate"
  BY <1>1 DEF SequenceClear, SequenceBlocked, RevalidateFresh, RevalidateStale,
             TypeOK, WorkerTypeOK
<1>3. Moves(w, q, job[w], body[w])
  BY <1>1, <1>2 DEF Moves, TypeOK, WorkerTypeOK
<1>4. ActionIdsInv' /\ CardIdsInv' /\ CardRowInv' /\ KeyInv' /\ RewrittenInv'
  BY <1>2, RowMoveInv
<1>5. WorkerInv'
  <2>1. q \notin Owning
    BY DEF Owning
  <2>2. q \in {"validate", "claim"} => \A b \in body[w].after : status'[b] = "done"
    BY <1>2 DEF Inv, WorkerInv
  <2>3. Holds(job[w], body[w]) /\ status[job[w].action] \notin {"absent", "draft"}
    BY <1>2 DEF Inv, WorkerInv, Holds
  <2> QED
    BY <1>2, <1>3, <2>1, <2>2, <2>3, WorkerMoveInv
<1>6. \A v \in Worker :
        /\ pc'[v] = "execute" => effects[job'[v].action] = 0
        /\ pc'[v] = "succeeded" => effects[job'[v].action] = 1
  BY <1>2, <1>3 DEF Moves, Inv, EffectInv
<1>7. EffectInv'
  BY <1>2, <1>6, EffectKept
<1> QED
  BY <1>4, <1>5, <1>7 DEF Inv

\* However a delivery ends, the worker is idle and holds nothing.
LEMMA EndsIdle ==
  ASSUME WorkerTypeOK, NEW w \in Worker, NEW limit, 
         Ack(w) \/ GiveUpForGood(w) \/ Retry(w, limit) \/ Release(w)
  PROVE  Moves(w, "idle", NoJob, NoPayload)
  BY DEF WorkerTypeOK, Ack, GiveUpForGood, Retry, GiveUp, Release, Moves

\* Loading a row, and every way to stop without having moved it.
LEMMA QuietInv ==
  ASSUME TypeOK, Inv, NEW w \in Worker, UNCHANGED cardVars,
         \/ \E m \in queue : Skip(w, m) \/ Load(w, m)
         \/ SequenceWaiting(w) \/ RevalidateRaises(w) \/ ClaimLost(w) \/ WorkerCrash(w)
  PROVE  Inv'
<1> USE DEF storeVars, wordVars, googleVars, taskVars
<1>t. WorkerTypeOK
  BY DEF TypeOK
<1>1. ASSUME NEW m \in queue, Skip(w, m) PROVE Inv'
  <2>1. Moves(w, "idle", job[w], body[w])
    BY <1>1 DEF Skip, Moves
  <2> QED
    BY <1>1, <2>1, EndQuietInv DEF Skip
<1>2. ASSUME NEW m \in queue, Load(w, m) PROVE Inv'
  <2>1. Moves(w, "sequence", m, payload[m.action])
    BY <1>2, <1>t DEF Load, Moves, WorkerTypeOK
  <2>2. m \in Message /\ status[m.action] = "approved"
    BY <1>2, <1>t DEF Load, WorkerTypeOK
  <2>3. Holds(m, payload[m.action])
    BY <2>2 DEF Holds, Message, TypeOK, RowOK
  <2> QED
    BY <1>2, <2>1, <2>2, <2>3, EndQuietInv DEF Load
<1>3. CASE SequenceWaiting(w)
  <2>1. Moves(w, "idle", NoJob, NoPayload)
    BY <1>3, <1>t, EndsIdle DEF SequenceWaiting
  <2> QED
    BY <1>3, <2>1, EndQuietInv DEF SequenceWaiting
<1>4. CASE RevalidateRaises(w)
  <2>1. Moves(w, "idle", NoJob, NoPayload)
    BY <1>4, <1>t, EndsIdle DEF RevalidateRaises
  <2> QED
    BY <1>4, <2>1, EndQuietInv DEF RevalidateRaises
<1>5. CASE ClaimLost(w)
  <2>1. Moves(w, "idle", NoJob, NoPayload)
    BY <1>5, <1>t, EndsIdle DEF ClaimLost
  <2> QED
    BY <1>5, <2>1, EndQuietInv DEF ClaimLost
<1>6. CASE WorkerCrash(w)
  <2>1. Moves(w, "idle", NoJob, NoPayload)
    BY <1>6, <1>t, EndsIdle DEF WorkerCrash
  <2> QED
    BY <1>6, <2>1, EndQuietInv DEF WorkerCrash
<1> QED
  BY <1>1, <1>2, <1>3, <1>4, <1>5, <1>6

\* A row whose turn to run never comes is cancelled, unless it has been claimed.
LEMMA SettleHeldInv ==
  ASSUME TypeOK, Inv, NEW w \in Worker, UNCHANGED cardVars, SettleHeld(w)
  PROVE  Inv'
<1> USE DEF googleVars
<1>t. WorkerTypeOK
  BY DEF TypeOK
<1>1. Moves(w, "idle", NoJob, NoPayload)
  BY <1>t, EndsIdle DEF SettleHeld
<1>2. CASE UNCHANGED status
  <2>1. UNCHANGED <<storeVars, googleVars>>
    BY <1>2 DEF SettleHeld, storeVars, wordVars
  <2> QED
    BY <1>1, <2>1, EndQuietInv
<1>3. CASE OwnMove(w, "approved", "cancelled")
  <2>1. UNCHANGED <<wordVars, gate, attempts, googleVars>> /\ pc[w] = "hold"
    BY DEF SettleHeld
  <2>2. \A a \in Action : \/ status'[a] = status[a]
                          \/ /\ a = job[w].action
                             /\ status[a] = "approved" /\ status'[a] = "cancelled"
    BY <1>3, OwnMoveCases
  <2>3. ActionIdsInv' /\ CardIdsInv' /\ CardRowInv' /\ KeyInv' /\ RewrittenInv'
    BY <2>1, <2>2, RowMoveInv DEF Granted, InFlightStatuses
  <2>4. WorkerInv'
    BY <1>1, <2>1, <2>2, WorkerMoveInv DEF Owning
  <2>5. \A v \in Worker :
          /\ pc'[v] = "execute" => effects[job'[v].action] = 0
          /\ pc'[v] = "succeeded" => effects[job'[v].action] = 1
    BY <1>1 DEF Moves, Inv, EffectInv
  <2>6. EffectInv'
    BY <2>1, <2>2, <2>5, EffectKept
  <2> QED
    BY <2>3, <2>4, <2>6 DEF Inv
<1>4. status[job[w].action] # "draft"
  BY DEF SettleHeld, Inv, WorkerInv
<1> QED
  BY <1>2, <1>3, <1>4 DEF SettleHeld, Transition, OwnMove, Closable

\* The claim makes the worker the row's one owner.
LEMMA ClaimInv ==
  ASSUME TypeOK, Inv, NEW w \in Worker, UNCHANGED cardVars, Claim(w)
  PROVE  Inv'
<1> USE DEF googleVars, taskVars
<1> DEFINE a == job[w].action
<1>1. /\ pc[w] = "claim" /\ OwnMove(w, "approved", "running")
      /\ attempts' = [attempts EXCEPT ![a] = @ + 1]
      /\ UNCHANGED <<wordVars, gate, job, body, googleVars>>
  BY DEF Claim, ClaimAction, Transition, OwnMove
<1>2. Moves(w, "execute", job[w], body[w])
  BY DEF Claim, Moves, TypeOK, WorkerTypeOK
<1>3. /\ Holds(job[w], body[w]) /\ a \in Action /\ status[a] = "approved"
      /\ \A b \in body[w].after : status[b] = "done" /\ b # a
  BY <1>1 DEF Inv, WorkerInv, Message, OwnMove, Holds
<1>4. \A b \in Action : \/ status'[b] = status[b]
                        \/ b = a /\ status[b] = "approved" /\ status'[b] = "running"
  BY <1>1, OwnMoveCases
<1>5. status'[a] = "running"
  BY <1>1, <1>3 DEF OwnMove, TypeOK, StoreTypeOK
<1>6. ActionIdsInv' /\ CardIdsInv' /\ CardRowInv' /\ KeyInv' /\ RewrittenInv'
  BY <1>1, <1>4, RowMoveInv DEF Granted, InFlightStatuses
<1>7. WorkerInv'
  <2>1. \A b \in body[w].after : status'[b] = "done"
    <3>1. body[w].after \subseteq Action
      BY <1>3 DEF Holds, Payload
    <3> QED
      BY <1>3, <1>4, <3>1
  <2> QED
    BY <1>1, <1>2, <1>3, <1>4, <1>5, <2>1, WorkerMoveInv
<1>8. EffectInv'
  <2>1. effects[a] = 0
    BY <1>3 DEF Inv, EffectInv
  <2>2. \A v \in Worker :
          /\ pc'[v] = "execute" => effects[job'[v].action] = 0
          /\ pc'[v] = "succeeded" => effects[job'[v].action] = 1
    BY <1>2, <2>1 DEF Moves, Inv, EffectInv
  <2>3. \A b \in Action : b # a => attempts'[b] = attempts[b]
    BY <1>1 DEF TypeOK, StoreTypeOK
  <2> QED
    BY <1>1, <1>3, <1>4, <1>5, <2>2, <2>3, EffectKept
<1> QED
  BY <1>6, <1>7, <1>8 DEF Inv

\* The owner is the only one who can make Google apply the write.
LEMMA ExecuteInv ==
  ASSUME TypeOK, Inv, NEW w \in Worker, UNCHANGED cardVars,
         ExecuteSucceeds(w) \/ ExecuteFails(w)
  PROVE  Inv'
<1> USE DEF storeVars, wordVars, taskVars
<1> DEFINE a == job[w].action
<1>1. PICK q \in {"succeeded", "failed"} : pc' = [pc EXCEPT ![w] = q]
  BY DEF ExecuteSucceeds, ExecuteFails
<1>2. /\ pc[w] = "execute" /\ UNCHANGED <<storeVars, job, body>>
      /\ Apply(w) \/ (UNCHANGED googleVars /\ q = "failed")
  <2>1. CASE ExecuteSucceeds(w)
    BY <2>1 DEF ExecuteSucceeds
  <2>2. CASE ExecuteFails(w)
    <3>1. pc'[w] = "failed" /\ pc'[w] = q
      BY <1>1, <2>2 DEF ExecuteFails, TypeOK, WorkerTypeOK
    <3> QED
      BY <2>2, <3>1 DEF ExecuteFails
  <2> QED
    BY <2>1, <2>2
<1>3. Moves(w, q, job[w], body[w])
  BY <1>1, <1>2 DEF Moves, TypeOK, WorkerTypeOK
<1>4. /\ Holds(job[w], body[w]) /\ a \in Action /\ status[a] = "running" /\ effects[a] = 0
      /\ \A b \in body[w].after : status[b] = "done"
  BY <1>2 DEF Inv, WorkerInv, EffectInv, Message, Owning, Holds
<1>5. ActionIdsInv' /\ CardIdsInv' /\ CardRowInv' /\ KeyInv' /\ RewrittenInv'
  BY <1>2, RowMoveInv
<1>6. WorkerInv'
  BY <1>2, <1>3, <1>4, WorkerMoveInv DEF Owning
<1>7. CASE UNCHANGED googleVars /\ q = "failed"
  <2>1. \A v \in Worker :
          /\ pc'[v] = "execute" => effects[job'[v].action] = 0
          /\ pc'[v] = "succeeded" => effects[job'[v].action] = 1
    BY <1>3, <1>7 DEF Moves, Inv, EffectInv
  <2>2. EffectInv'
    BY <1>2, <1>7, <2>1, EffectKept DEF googleVars
  <2> QED
    BY <1>5, <1>6, <2>2 DEF Inv
<1>8. CASE Apply(w)
  <2>1. /\ effects'[a] = 1
        /\ \A b \in Action : b # a => effects'[b] = effects[b]
        /\ applied' = applied \cup {<<a, Sent(w)>>}
    BY <1>4, <1>8 DEF Apply, TypeOK, WorkerTypeOK
  <2>7. a \in rewritten \/ Sent(w) = Words(a)
    BY <1>4 DEF Holds, Sent, Words
  <2>2. \A b \in Action :
          /\ status[b] \notin {"running", "done", "failed"} => effects'[b] = 0
          /\ status[b] = "done" => effects'[b] = 1
          /\ effects'[b] <= 1
          /\ effects'[b] > 0 => \A d \in payload[b].after : status[d] = "done"
    BY <1>4, <2>1 DEF Inv, EffectInv, Holds
  <2>3. \A v \in Worker : v # w /\ pc[v] \in Owning =>
          job[v].action \in Action /\ job[v].action # a
    BY <1>2 DEF Inv, WorkerInv, Owning, Message
  <2>4. \A v \in Worker :
          /\ pc'[v] = "execute" => effects'[job'[v].action] = 0
          /\ pc'[v] = "succeeded" => effects'[job'[v].action] = 1
    BY <1>3, <2>1, <2>3 DEF Moves, Inv, EffectInv, Owning
  <2>5. \A b \in Action, p \in Payload : <<b, p>> \in applied' =>
          effects'[b] > 0 /\ (b \in rewritten \/ p = Words(b))
    BY <2>1, <2>7 DEF Inv, EffectInv
  <2>6. EffectInv'
    BY <1>2, <2>2, <2>4, <2>5 DEF Inv, EffectInv, Words
  <2> QED
    BY <1>5, <1>6, <2>6 DEF Inv
<1> QED
  BY <1>2, <1>7, <1>8

\* The owner records how it went.
LEMMA SettleInv ==
  ASSUME TypeOK, Inv, NEW w \in Worker, UNCHANGED cardVars, SettleDone(w) \/ SettleFailed(w)
  PROVE  Inv'
<1> USE DEF googleVars
<1> DEFINE a == job[w].action
<1>t. WorkerTypeOK
  BY DEF TypeOK
<1>1. Moves(w, "idle", NoJob, NoPayload)
  BY <1>t, EndsIdle DEF SettleDone, SettleFailed
<1>2. PICK to \in {"done", "failed"} :
        /\ OwnMove(w, "running", to)
        /\ pc[w] = IF to = "done" THEN "succeeded" ELSE "failed"
  <2>1. CASE SettleDone(w)
    BY <2>1 DEF SettleDone, Transition, OwnMove
  <2>2. CASE SettleFailed(w)
    BY <2>2 DEF SettleFailed, Transition, OwnMove
  <2> QED
    BY <2>1, <2>2
<1>3. UNCHANGED <<wordVars, gate, attempts, googleVars>>
  BY DEF SettleDone, SettleFailed
<1>4. \A b \in Action : \/ status'[b] = status[b]
                        \/ b = a /\ status[b] = "running" /\ status'[b] = to
  BY <1>2, OwnMoveCases
<1>5. ActionIdsInv' /\ CardIdsInv' /\ CardRowInv' /\ KeyInv' /\ RewrittenInv'
  BY <1>3, <1>4, RowMoveInv DEF Granted, InFlightStatuses
<1>6. WorkerInv'
  <2>1. pc[w] \in Owning /\ pc[w] # "idle" /\ "idle" \notin Owning
    BY <1>2 DEF Owning
  <2> QED
    BY <1>1, <1>3, <1>4, <2>1, WorkerMoveInv
<1>7. EffectInv'
  <2>1. to = "done" => effects[a] = 1
    BY <1>2 DEF Inv, EffectInv
  <2>2. \A v \in Worker :
          /\ pc'[v] = "execute" => effects[job'[v].action] = 0
          /\ pc'[v] = "succeeded" => effects[job'[v].action] = 1
    BY <1>1, <1>3 DEF Moves, Inv, EffectInv
  <2> QED
    BY <1>3, <1>4, <2>1, <2>2, EffectKept
<1> QED
  BY <1>5, <1>6, <1>7 DEF Inv

\* Sending a message, or losing it, is no business of the rows.
LEMMA SendInv ==
  ASSUME TypeOK, Inv, UNCHANGED <<storeVars, cardRows, turnVars, pc, job, body, googleVars>>
  PROVE  Inv'
<1> USE DEF storeVars, wordVars, cardRows, turnVars, googleVars
<1>1. ActionIdsInv' /\ CardIdsInv'
  BY IdsKeptInv DEF IdsKept
<1>2. CardRowInv'
  BY CardsSame
<1>3. KeyInv'
  BY DEF Inv, KeyInv, InFlight
<1>4. WorkerInv'
  BY DEF Inv, WorkerInv
<1>5. EffectInv'
  BY DEF Inv, EffectInv, Words
<1>6. RewrittenInv'
  BY DEF Inv, RewrittenInv
<1> QED
  BY <1>1, <1>2, <1>3, <1>4, <1>5, <1>6 DEF Inv

----------------------------------------------------------------------------
(* The invariant.                                                          *)

\* Every step keeps the types.
LEMMA NextType ==
  ASSUME TypeOK, Inv, Next
  PROVE  TypeOK'
<1> USE DEF Inv
<1>1. CASE CardSide
  BY <1>1, TurnType, PersonType, ClockAndSweepType DEF CardSide
<1>2. CASE WorkerSide
  BY <1>2, WorkerStepType, QueueType DEF WorkerSide
<1>3. CASE \E a \in Action : Enqueue(a) \/ EnqueueLost(a)
  BY <1>3, QueueType
<1> QED
  BY <1>1, <1>2, <1>3 DEF Next

\* Every step keeps the invariant: one case for each side and for the hand-over.
LEMMA NextInv ==
  ASSUME TypeOK, Inv, Next
  PROVE  Inv'
<1>1. CASE CardSide
  BY <1>1, CardSideInv
<1>2. CASE WorkerSide
  <2>1. ASSUME NEW w \in Worker, WorkerStep(w) \/ WorkerCrash(w) PROVE Inv'
    BY <1>2, <2>1, AdvanceInv, QuietInv, SettleHeldInv, ClaimInv, ExecuteInv, SettleInv
    DEF WorkerSide, WorkerStep
  <2>2. ASSUME NEW a \in Action, Replay(a) PROVE Inv'
    BY <1>2, <2>2, SendInv DEF WorkerSide, Replay, cardVars
  <2> QED
    BY <1>2, <2>1, <2>2 DEF WorkerSide
<1>3. CASE \E a \in Action : Enqueue(a) \/ EnqueueLost(a)
  BY <1>3, SendInv DEF Enqueue, EnqueueLost, workerVars
<1> QED
  BY <1>1, <1>2, <1>3 DEF Next

\* A stuttering step keeps types and invariant.
LEMMA StutterInv ==
  ASSUME TypeOK, Inv, UNCHANGED vars
  PROVE  TypeOK' /\ Inv'
<1>1. UNCHANGED <<storeVars, cardRows, turnVars, pc, job, body, googleVars>>
  BY DEF vars, cardVars, workerVars
<1>2. TypeOK'
  BY DEF vars, cardVars, workerVars, storeVars, wordVars, cardRows, turnVars, taskVars, googleVars,
         TypeOK, StoreTypeOK, CardTypeOK, WorkerTypeOK, RowOK
<1> QED
  BY <1>1, <1>2, SendInv

\* IInv holds in every reachable state, whatever the sets of actions, cards,
\* turns, writes and workers, and whatever the bounds on failures and retries.
THEOREM InvariantHolds == Spec => []IInv
<1>1. Init => TypeOK /\ Inv
  BY InitType, InitInv
<1>2. TypeOK /\ Inv /\ [Next]_vars => TypeOK' /\ Inv'
  BY NextType, NextInv, StutterInv
<1>3. TypeOK /\ Inv => IInv
  BY DEF IInv, Inv
<1> QED
  BY <1>1, <1>2, <1>3, PTL DEF Spec

----------------------------------------------------------------------------
(* What follows from it.                                                   *)

\* Every row is complete and gated by a card that exists (_stage_write,
\* create_action), and every variable has its type.
THEOREM TypeCorrect == Spec => []TypeOK
<1>1. IInv => TypeOK
  BY DEF IInv
<1> QED
  BY <1>1, InvariantHolds, PTL

\* However often execute_action is delivered, retried or replayed, Google
\* applies a write at most once.
THEOREM AtMostOnce == Spec => []AppliedAtMostOnce
<1>1. IInv => AppliedAtMostOnce
  BY DEF IInv, EffectInv, AppliedAtMostOnce
<1> QED
  BY <1>1, InvariantHolds, PTL

\* What Google applied is what a card answered "yes" had shown, or what the chat
\* had said the draft behind it had become; save for a row rewritten too late.
THEOREM Consented == Spec => []ConsentedWrites
<1>1. IInv => ConsentedWrites
  <2> SUFFICES ASSUME IInv, NEW e \in applied, e[1] \notin rewritten
               PROVE  \/ \E c \in Card : answer[c] = "yes" /\ e \in shown[c]
                      \/ answer[gate[e[1]]] = "yes" /\ told[e[1]] = e[2]
    BY DEF ConsentedWrites
  <2>1. PICK a \in Action, p \in Payload : e = <<a, p>>
    BY DEF IInv, TypeOK, WorkerTypeOK
  <2>2. a \notin rewritten /\ p = Words(a) /\ effects[a] > 0
    BY <2>1 DEF IInv, EffectInv
  <2>3. status[a] \in {"running", "done", "failed"}
    BY <2>2 DEF IInv, EffectInv
  <2>4. /\ answer[gate[a]] = "yes"
        /\ <<a, Words(a)>> \in shown[gate[a]] \/ told[a] = Words(a)
    BY <2>2, <2>3 DEF IInv, CardRowInv, Granted, Words
  <2>5. gate[a] \in Card
    BY <2>3 DEF IInv, TypeOK, RowOK
  <2> QED
    BY <2>1, <2>2, <2>4, <2>5
<1> QED
  BY <1>1, InvariantHolds, PTL

\* A row that waits, or that was closed unexecuted, has never touched Google.
THEOREM ClosedUntouched == Spec => []ClosedNeverApplied
<1>1. IInv => ClosedNeverApplied
  BY DEF IInv, EffectInv, ClosedNeverApplied
<1> QED
  BY <1>1, InvariantHolds, PTL

\* complete_action is reached only with Google's answer in hand.
THEOREM DoneIsDone == Spec => []DoneWasApplied
<1>1. IInv => DoneWasApplied
  BY DEF IInv, EffectInv, DoneWasApplied
<1> QED
  BY <1>1, InvariantHolds, PTL

\* A sequenced write is applied after everything it must follow is done.
THEOREM InOrder == Spec => []AppliedInOrder
<1>1. IInv => AppliedInOrder
  BY DEF IInv, EffectInv, AppliedInOrder
<1> QED
  BY <1>1, InvariantHolds, PTL

\* A card that was not answered "yes" never lets a write through.
THEOREM RefusedStays == Spec => []RefusedNeverApplied
<1>1. IInv => RefusedNeverApplied
  <2> SUFFICES ASSUME IInv, NEW a \in Action, effects[a] # 0
               PROVE  answer[gate[a]] = "yes" /\ cardStatus[gate[a]] = "answered"
    BY DEF RefusedNeverApplied
  <2>1. status[a] \in {"running", "done", "failed"}
    BY DEF IInv, EffectInv
  <2> QED
    BY <2>1 DEF IInv, CardRowInv, Granted
<1> QED
  BY <1>1, InvariantHolds, PTL

\* The partial unique index keeps two rows in flight from writing the same
\* thing, except where a payload moved in the chat and left its key behind.
THEOREM OneInFlight == Spec => []OneInFlightPerPayload
<1>1. IInv => OneInFlightPerPayload
  <2> SUFFICES ASSUME IInv, NEW a \in InFlight, NEW b \in InFlight, payload[a] = payload[b],
                      \A x \in {a, b} : told[x] # payload[x] /\ x \notin rewritten
               PROVE  a = b
    BY DEF OneInFlightPerPayload
  <2>1. \A x \in {a, b} : dedupe[x] = payload[x]
    BY DEF IInv, KeyInv, InFlight, InFlightStatuses
  <2> QED
    BY <2>1 DEF IInv, KeyInv
<1> QED
  BY <1>1, InvariantHolds, PTL

\* No row that waits for a claim has been attempted, so the search of Sent
\* that _execute makes for attempts > 0 is never made.
THEOREM ApprovedFresh == Spec => []ApprovedIsFresh
<1>1. IInv => ApprovedIsFresh
  BY DEF IInv, EffectInv, ApprovedIsFresh, Closable
<1> QED
  BY <1>1, InvariantHolds, PTL

----------------------------------------------------------------------------
(* What one step may do to one write.                                      *)


\* The step does not rewrite the row too late.
Sound(a) == a \in rewritten' <=> a \in rewritten

\* Nothing a person or Google would notice about the row changes but its status.
Moved(a, from, to) ==
    /\ status[a] = from /\ status'[a] = to
    /\ payload'[a] = payload[a] /\ effects'[a] = effects[a] /\ Sound(a)

\* The row is made, or revised while it is a draft.
Worded(a) ==
    /\ status[a] \in {"absent", "draft"} /\ status'[a] = "draft"
    /\ payload'[a] \in Payload /\ effects'[a] = effects[a] /\ Sound(a)

\* Its owner has Google apply it.
Carried(a) ==
    /\ status[a] = "running" /\ status'[a] = "running" /\ payload'[a] = payload[a]
    /\ effects[a] = 0 /\ effects'[a] = 1 /\ Sound(a)
    /\ \A b \in payload[a].after : status[b] = "done"

\* It is rewritten when it is no draft any more.
Reworded(a) ==
    /\ status[a] \notin {"absent", "draft"} /\ status'[a] = status[a]
    /\ payload'[a] \in Payload /\ effects'[a] = effects[a] /\ a \in rewritten'

\* Everything a step may do to the row of action a.
RowStep(a) ==
    \/ Moved(a, status[a], status[a])
    \/ Worded(a)
    \/ Moved(a, "draft", "approved")
    \/ \E from \in Closable, to \in {"cancelled", "expired"} : Moved(a, from, to)
    \/ Moved(a, "approved", "running")
    \/ Carried(a)
    \/ Moved(a, "running", "done") /\ effects[a] = 1
    \/ Moved(a, "running", "failed")
    \/ Reworded(a)

\* A bulk close of drafts and approved rows moves each as the code allows.
LEMMA CloseRows ==
  ASSUME NEW rows, \A a \in rows : a \in Action => status[a] \in Closable,
         NEW to \in {"cancelled", "expired"}, status' = Set(rows, to),
         UNCHANGED <<payload, rewritten, effects>>
  PROVE  \A a \in Action : RowStep(a)
<1>1. ASSUME NEW a \in Action, a \in rows PROVE RowStep(a)
  BY <1>1 DEF Set, RowStep, Moved, Sound
<1>2. ASSUME NEW a \in Action, a \notin rows PROVE RowStep(a)
  BY <1>2 DEF Set, RowStep, Moved, Sound
<1> QED
  BY <1>1, <1>2

\* A step that touches neither rows nor effects is no move of any row.
LEMMA SameRows ==
  ASSUME UNCHANGED <<status, payload, rewritten, effects>>
  PROVE  \A a \in Action : RowStep(a)
  BY DEF RowStep, Moved, Sound

\* Turns, people and sweeps move a row only in an allowed way.
LEMMA CardSideRows ==
  ASSUME TypeOK, Inv, CardSide
  PROVE  \A a \in Action : RowStep(a)
<1> USE DEF wordVars
<1>w. UNCHANGED effects
  BY DEF CardSide, workerVars, googleVars
<1>1. ASSUME NEW r \in Run, TurnStep(r) PROVE \A a \in Action : RowStep(a)
  <2>1. CASE CommitMessage(r)
    <3>1. \A a \in NewRows(r) : status[a] = "absent" /\ NewPayload(r, a) \in Payload
      BY NewRowType DEF Inv
    <3>2. ASSUME NEW a \in Action, a \in NewRows(r) PROVE RowStep(a)
      BY <1>w, <2>1, <3>1, <3>2 DEF CommitMessage, Set, RowStep, Worded, Sound
    <3>3. ASSUME NEW a \in Action, a \notin NewRows(r) PROVE RowStep(a)
      BY <1>w, <2>1, <3>3 DEF CommitMessage, Set, RowStep, Moved, Sound
    <3> QED
      BY <3>2, <3>3
  <2>2. CASE ~CommitMessage(r)
    <3>1. UNCHANGED <<status, payload, rewritten>>
      BY <1>1, <2>2
      DEF TurnStep, StartTurn, StageExisting, StageNew, RaiseCard, SettleRun, RunnerCrash, storeVars, wordVars
    <3> QED
      BY <1>w, <3>1, SameRows
  <2> QED
    BY <2>1, <2>2
<1>2. ASSUME NEW c \in Card, ConfirmNo(c) \/ CancelPrompt(c) PROVE \A a \in Action : RowStep(a)
  BY <1>2, <1>w, CloseRows DEF ConfirmNo, CancelPrompt, Gated
<1>3. CASE CancelOpenCards
  <2> DEFINE rows == UNION {Gated(c, Closable) : c \in cancelling}
  <2>1. status' = Set(rows, "cancelled") /\ UNCHANGED <<payload, rewritten>>
    BY <1>3 DEF CancelOpenCards
  <2>2. \A a \in rows : status[a] \in Closable
    BY DEF Gated
  <2> HIDE DEF rows
  <2> QED
    BY <1>w, <2>1, <2>2, CloseRows
<1>4. CASE ExpirePrompts
  BY <1>4, <1>w, CloseRows DEF ExpirePrompts, ExpiredActions
<1>5. ASSUME NEW r \in Run, CloseDeadRun(r) PROVE \A a \in Action : RowStep(a)
  BY <1>5, <1>w, CloseRows DEF CloseDeadRun
<1>6. ASSUME NEW c \in Card, ConfirmYes(c) PROVE \A a \in Action : RowStep(a)
  BY <1>6, <1>w DEF ConfirmYes, Gated, Set, RowStep, Moved, Sound
<1>7. ASSUME NEW c \in Card, NEW next \in Card, NEW a \in Action, NEW w \in Write,
             Edit(c, a, w, next)
      PROVE  \A b \in Action : RowStep(b)
  <2> DEFINE p == [payload[a] EXCEPT !.write = w]
  <2>1. /\ status[a] = "draft" /\ payload[a] \in Payload
        /\ UNCHANGED <<status, rewritten>> /\ payload' = [payload EXCEPT ![a] = p]
    BY <1>7 DEF Edit, ReviseAction, TypeOK, RowOK
  <2>2. p \in Payload
    BY <2>1 DEF Payload
  <2> HIDE DEF p
  <2>3. payload'[a] = p /\ \A b \in Action : b # a => payload'[b] = payload[b]
    BY <2>1 DEF TypeOK, StoreTypeOK
  <2>4. RowStep(a)
    BY <1>w, <2>1, <2>2, <2>3 DEF RowStep, Worded, Sound
  <2>5. \A b \in Action : b # a => RowStep(b)
    BY <1>w, <2>1, <2>3 DEF RowStep, Moved, Sound
  <2> QED
    BY <2>4, <2>5
<1>9. ASSUME NEW a \in Action, NEW w \in Write, Revise(a, w) \/ ReviseLate(a, w)
      PROVE  \A b \in Action : RowStep(b)
  <2>1. PICK p \in Payload :
          /\ payload' = [payload EXCEPT ![a] = p]
          /\ Revise(a, w) \/ ReviseLate(a, w)
    BY <1>9, RevisedPayload
  <2>2. payload'[a] = p /\ \A b \in Action : b # a => payload'[b] = payload[b]
    BY <2>1 DEF TypeOK, StoreTypeOK
  <2>3. /\ UNCHANGED status
        /\ \/ status[a] = "draft" /\ rewritten' = rewritten
           \/ status[a] \notin {"absent", "draft"} /\ rewritten' = rewritten \cup {a}
    BY <2>1 DEF Revise, ReviseLate, ReviseAction
  <2>4. RowStep(a)
    BY <1>w, <2>2, <2>3 DEF RowStep, Worded, Reworded, Sound
  <2>5. \A b \in Action : b # a => RowStep(b)
    BY <1>w, <2>2, <2>3 DEF RowStep, Moved, Sound
  <2> QED
    BY <2>4, <2>5
<1>8. ASSUME ListOpenCards \/ \E c \in Card : CardDue(c) PROVE \A a \in Action : RowStep(a)
  BY <1>8, <1>w, SameRows DEF ListOpenCards, CardDue, storeVars, wordVars
<1> QED
  BY <1>1, <1>2, <1>3, <1>4, <1>5, <1>6, <1>7, <1>8, <1>9 DEF CardSide, PersonStep, SweepStep

\* So do the workers.
LEMMA WorkerSideRows ==
  ASSUME TypeOK, Inv, NEW w \in Worker, WorkerStep(w) \/ WorkerCrash(w)
  PROVE  \A a \in Action : RowStep(a)
<1> USE DEF storeVars, wordVars, googleVars
<1>1. CASE UNCHANGED <<status, payload, rewritten, effects>>
  BY <1>1, SameRows
<1>2. ASSUME UNCHANGED <<payload, rewritten, effects>>,
             \/ OwnMove(w, "approved", "cancelled")
             \/ OwnMove(w, "approved", "running")
             \/ OwnMove(w, "running", "done") /\ effects[job[w].action] = 1
             \/ OwnMove(w, "running", "failed")
      PROVE  \A a \in Action : RowStep(a)
  <2>1. \A a \in Action :
          \/ status'[a] = status[a]
          \/ status[a] = "approved" /\ status'[a] \in {"cancelled", "running"}
          \/ status[a] = "running" /\ status'[a] = "done" /\ effects[a] = 1
          \/ status[a] = "running" /\ status'[a] = "failed"
    BY <1>2, OwnMoveCases
  <2> QED
    BY <1>2, <2>1 DEF RowStep, Moved, Sound, Closable
<1>3. CASE SettleHeld(w)
  <2>1. status[job[w].action] # "draft"
    BY <1>3 DEF SettleHeld, Inv, WorkerInv
  <2>2. UNCHANGED status \/ OwnMove(w, "approved", "cancelled")
    BY <1>3, <2>1 DEF SettleHeld, Transition, OwnMove, Closable
  <2> QED
    BY <1>1, <1>2, <1>3, <2>2 DEF SettleHeld
<1>4. CASE Claim(w)
  BY <1>2, <1>4 DEF Claim, ClaimAction, Transition, OwnMove
<1>5. CASE SettleDone(w)
  <2>1. effects[job[w].action] = 1
    BY <1>5 DEF SettleDone, Inv, EffectInv
  <2> QED
    BY <1>2, <1>5, <2>1 DEF SettleDone, Transition, OwnMove
<1>6. CASE SettleFailed(w)
  BY <1>2, <1>6 DEF SettleFailed, Transition, OwnMove
<1>7. CASE ExecuteSucceeds(w) \/ ExecuteFails(w)
  <2> DEFINE a == job[w].action
  <2>1. /\ pc[w] = "execute" /\ UNCHANGED <<status, payload, rewritten>>
        /\ Apply(w) \/ UNCHANGED effects
    BY <1>7 DEF ExecuteSucceeds, ExecuteFails
  <2>2. /\ a \in Action /\ status[a] = "running" /\ effects[a] = 0
        /\ \A b \in payload[a].after : status[b] = "done"
    BY <2>1 DEF Inv, WorkerInv, EffectInv, Message, Owning
  <2>3. ASSUME Apply(w) PROVE \A b \in Action : RowStep(b)
    <3>1. effects'[a] = 1 /\ \A b \in Action : b # a => effects'[b] = effects[b]
      BY <2>2, <2>3 DEF Apply, TypeOK, WorkerTypeOK
    <3>2. RowStep(a)
      BY <2>1, <2>2, <3>1 DEF RowStep, Carried, Sound
    <3>3. \A b \in Action : b # a => RowStep(b)
      BY <2>1, <3>1 DEF RowStep, Moved, Sound
    <3> QED
      BY <3>2, <3>3
  <2> QED
    BY <1>1, <2>1, <2>3
<1>8. ASSUME \/ \E m \in queue : Skip(w, m) \/ Load(w, m)
             \/ SequenceClear(w) \/ SequenceWaiting(w) \/ SequenceBlocked(w)
             \/ RevalidateFresh(w) \/ RevalidateStale(w) \/ RevalidateRaises(w)
             \/ ClaimLost(w) \/ WorkerCrash(w)
      PROVE  UNCHANGED <<status, payload, rewritten, effects>>
  BY <1>8 DEF Skip, Load, SequenceClear, SequenceWaiting, SequenceBlocked, RevalidateFresh,
              RevalidateStale, RevalidateRaises, ClaimLost, WorkerCrash
<1> QED
  BY <1>1, <1>3, <1>4, <1>5, <1>6, <1>7, <1>8 DEF WorkerStep

\* And so does every step of the write path.
LEMMA NextRows ==
  ASSUME TypeOK, Inv, [Next]_vars
  PROVE  \A a \in Action : RowStep(a)
<1> USE DEF storeVars, wordVars, googleVars, workerVars
<1>1. CASE CardSide
  BY <1>1, CardSideRows
<1>2. CASE WorkerSide
  <2>1. ASSUME NEW a \in Action, Replay(a) PROVE \A b \in Action : RowStep(b)
    BY <2>1, SameRows DEF Replay
  <2> QED
    BY <1>2, <2>1, WorkerSideRows DEF WorkerSide
<1>3. CASE \E a \in Action : Enqueue(a) \/ EnqueueLost(a)
  BY <1>3, SameRows DEF Enqueue, EnqueueLost
<1>4. CASE UNCHANGED vars
  BY <1>4, SameRows DEF vars
<1> QED
  BY <1>1, <1>2, <1>3, <1>4 DEF Next

\* No bulk UPDATE moves a row where transition() would not, and nothing
\* leaves a terminal status.
THEOREM StatusMovesAllowed == Spec => StatusMoves
<1> DEFINE A == \A a \in Action :
              status[a] # "absent" /\ status'[a] # status[a] =>
                  /\ status[a] \notin TerminalStatuses
                  /\ status'[a] \in AllowedTransitions[status[a]]
<1>1. TypeOK /\ Inv /\ [Next]_vars => A
  <2> SUFFICES ASSUME TypeOK, Inv, [Next]_vars, NEW a \in Action,
                      status[a] # "absent", status'[a] # status[a]
               PROVE  /\ status[a] \notin TerminalStatuses
                      /\ status'[a] \in AllowedTransitions[status[a]]
    OBVIOUS
  <2>1. RowStep(a)
    BY NextRows
  <2>2. \/ status[a] = "draft" /\ status'[a] \in {"approved", "cancelled", "expired"}
        \/ status[a] = "approved" /\ status'[a] \in {"running", "cancelled", "expired"}
        \/ status[a] = "running" /\ status'[a] \in {"done", "failed"}
    BY <2>1 DEF RowStep, Moved, Worded, Carried, Reworded, Closable
  <2> QED
    BY <2>2 DEF TerminalStatuses, AllowedTransitions, ActionStatus
<1>2. IInv => TypeOK /\ Inv
  BY DEF IInv, Inv
<1> QED
  BY <1>1, <1>2, InvariantHolds, PTL DEF Spec, StatusMoves

\* Every behaviour of the write path is a behaviour of Consent: worded only while
\* it is an offer, granted as it stands, applied once and in order, or closed; or
\* broken, where a step action.revise came too late.
THEOREM WritePathImplementsConsent == Spec => ImplementsConsent
<1>1. Init => Promise!Init
  BY DEF Init, StoreInit, WorkerInit, Promise!Init, StageOf
<1>2. TypeOK /\ Inv /\ [Next]_vars => [Promise!Next]_<<[a \in Action |-> StageOf(a)], payload>>
  <2> SUFFICES ASSUME TypeOK, Inv, [Next]_vars, NEW a \in Action
               PROVE  \/ Promise!Offer(a) \/ Promise!Revise(a) \/ Promise!Grant(a)
                      \/ Promise!Apply(a) \/ Promise!Close(a) \/ Promise!Break(a)
                      \/ Promise!Stay(a)
    BY DEF Promise!Next
  <2>1. RowStep(a)
    BY NextRows
  <2>2. effects[a] \in Nat
    BY DEF TypeOK, WorkerTypeOK
  <2>3. status[a] \notin {"running", "done", "failed"} => effects[a] = 0
    BY DEF Inv, EffectInv
  <2>4. CASE Reworded(a)
    <3>1. StageOf(a)' = "broken"
      BY <2>4 DEF Reworded, StageOf
    <3>2. StageOf(a) \in {"granted", "applied", "closed", "broken"}
      BY <2>4 DEF Reworded, StageOf
    <3> QED
      BY <2>4, <3>1, <3>2 DEF Reworded, Promise!Break
  <2>5. CASE Worded(a)
    <3>1. a \notin rewritten /\ a \notin rewritten'
      BY <2>5 DEF Worded, Sound, Inv, RewrittenInv
    <3> QED
      BY <2>3, <2>5, <3>1 DEF Worded, StageOf, Promise!Offer, Promise!Revise
  <2>6. CASE /\ a \in rewritten
             /\ Carried(a) \/ \E from, to \in ActionStatus \cup {"absent"} : Moved(a, from, to)
    <3>1. StageOf(a) = "broken" /\ StageOf(a)' = "broken" /\ payload'[a] = payload[a]
      BY <2>6 DEF Carried, Moved, Sound, StageOf
    <3> QED
      BY <3>1 DEF Promise!Stay
  <2>7. CASE a \notin rewritten /\ Moved(a, status[a], status[a])
    BY <2>7 DEF Moved, Sound, StageOf, Promise!Stay
  <2>8. CASE a \notin rewritten /\ Moved(a, "draft", "approved")
    BY <2>3, <2>8 DEF Moved, Sound, StageOf, Promise!Grant
  <2>9. CASE /\ a \notin rewritten
             /\ \E from \in Closable, to \in {"cancelled", "expired"} : Moved(a, from, to)
    BY <2>3, <2>9 DEF Moved, Sound, StageOf, Closable, Promise!Close
  <2>10. CASE a \notin rewritten /\ Moved(a, "approved", "running")
    BY <2>3, <2>10 DEF Moved, Sound, StageOf, Promise!Stay
  <2>11. CASE a \notin rewritten /\ Carried(a)
    <3>1. payload[a].after \subseteq Action
      BY <2>11 DEF Carried, TypeOK, RowOK, Payload
    <3>2. \A b \in payload[a].after : StageOf(b) \in {"applied", "broken"}
      BY <2>11, <3>1 DEF Carried, StageOf, Inv, EffectInv
    <3>3. StageOf(a) = "granted" /\ StageOf(a)' = "applied"
      BY <2>11 DEF Carried, Sound, StageOf
    <3> QED
      BY <2>11, <3>1, <3>2, <3>3 DEF Carried, Promise!Apply
  <2>12. CASE a \notin rewritten /\ Moved(a, "running", "done") /\ effects[a] = 1
    <3>1. StageOf(a) = "applied" /\ StageOf(a)' = "applied"
      BY <2>12 DEF Moved, Sound, StageOf
    <3> QED
      BY <2>12, <3>1 DEF Moved, Promise!Stay
  <2>13. CASE a \notin rewritten /\ Moved(a, "running", "failed")
    <3>1. CASE effects[a] > 0
      <4>1. StageOf(a) = "applied" /\ StageOf(a)' = "applied"
        BY <2>13, <3>1 DEF Moved, Sound, StageOf
      <4> QED
        BY <2>13, <4>1 DEF Moved, Promise!Stay
    <3>2. CASE ~(effects[a] > 0)
      <4>1. StageOf(a) = "granted" /\ StageOf(a)' = "closed"
        BY <2>13, <3>2 DEF Moved, Sound, StageOf
      <4> QED
        BY <2>13, <4>1 DEF Moved, Promise!Close
    <3> QED
      BY <3>1, <3>2
  <2>14. (\E from \in Closable, to \in {"cancelled", "expired"} : Moved(a, from, to))
           => \E from, to \in ActionStatus \cup {"absent"} : Moved(a, from, to)
    BY DEF Closable, ActionStatus
  <2>15. /\ {"draft", "approved", "running", "done", "failed"} \subseteq ActionStatus
         /\ status[a] \in ActionStatus \cup {"absent"}
    BY DEF ActionStatus, TypeOK, StoreTypeOK
  <2> QED
    BY <2>1, <2>4, <2>5, <2>6, <2>7, <2>8, <2>9, <2>10, <2>11, <2>12, <2>13, <2>14, <2>15
    DEF RowStep
<1>3. IInv => TypeOK /\ Inv
  BY DEF IInv, Inv
<1> QED
  BY <1>1, <1>2, <1>3, InvariantHolds, PTL DEF Spec, ImplementsConsent, Promise!Spec
============================================================================
