--------------------------- MODULE ActionsWorker ---------------------------
(***************************************************************************)
(* The worker's side of a write: the `actions.execute` task, the queue     *)
(* that delivers it at least once, and the dead-letter table behind it.    *)
(* Source: tasks/actions.py, tasks/celery_app.py, tasks/maintenance.py.    *)
(*                                                                         *)
(* A message stays in the queue until the worker that took it acknowledges *)
(* it (task_acks_late), and until then any idle worker may be given it as  *)
(* well: that is what task_reject_on_worker_lost and a visibility timeout  *)
(* shorter than a stalled task amount to.                                  *)
(*                                                                         *)
(* The check of Gmail's Sent folder, step 2 of _execute, runs only when    *)
(* the approved row has attempts > 0.  ApprovedIsFresh (module WritePath)  *)
(* says no such row exists, so the step has no action here.                *)
(***************************************************************************)
EXTENDS ActionStore

CONSTANTS
    Worker,
    NoJob,
    MaxErrorRetries,    \* max_retries of the task (3)
    MaxWaitRetries,     \* max_retries of the wait for a predecessor (8)
    MaxReplayAttempts   \* MAX_REPLAY_ATTEMPTS of the sweeper (8)

ASSUME WorkerAssumption ==
    /\ MaxErrorRetries \in Nat /\ MaxWaitRetries \in Nat /\ MaxReplayAttempts \in Nat
    /\ NoJob \notin [action : Action, retries : Nat]

VARIABLES
    queue,      \* messages not yet acknowledged: which action, which retry
    deadLetter, \* attempts of the action's open job_failed_tasks row; 0: no row
    pc,         \* where each worker is in _execute
    job,        \* the message it holds
    body,       \* the payload it loaded; what it will execute
    applied,    \* <<action, payload>> pairs Google has applied
    effects     \* how often Google has applied each action

taskVars == <<queue, deadLetter>>
googleVars == <<applied, effects>>
workerVars == <<taskVars, pc, job, body, googleVars>>

Message == [action : Action, retries : Nat]
Steps == {"idle", "sequence", "validate", "hold", "claim", "execute",
          "succeeded", "failed"}

WorkerTypeOK ==
    /\ queue \subseteq Message
    /\ deadLetter \in [Action -> Nat]
    /\ pc \in [Worker -> Steps]
    /\ job \in [Worker -> Message \cup {NoJob}]
    /\ body \in [Worker -> Payload \cup {NoPayload}]
    /\ applied \subseteq Action \X Payload
    /\ effects \in [Action -> Nat]

WorkerInit ==
    /\ queue = {}
    /\ deadLetter = [a \in Action |-> 0]
    /\ pc = [w \in Worker |-> "idle"]
    /\ job = [w \in Worker |-> NoJob]
    /\ body = [w \in Worker |-> NoPayload]
    /\ applied = {}
    /\ effects = [a \in Action |-> 0]

----------------------------------------------------------------------------
(* How a delivery ends.                                                    *)

Release(w) ==
    /\ pc' = [pc EXCEPT ![w] = "idle"]
    /\ job' = [job EXCEPT ![w] = NoJob]
    /\ body' = [body EXCEPT ![w] = NoPayload]

\* The task returned: the message is acknowledged.
Ack(w) ==
    /\ queue' = queue \ {job[w]}
    /\ UNCHANGED deadLetter
    /\ Release(w)

\* _record_failure: insert the row, or bump the open one.  Only "enough to be
\* held" is told apart above MaxReplayAttempts.
RecordFailure(a, n) ==
    LET m == IF deadLetter[a] = 0 THEN n ELSE deadLetter[a] + 1
    IN  deadLetter' = [deadLetter EXCEPT ![a] =
            IF m < MaxReplayAttempts THEN m ELSE MaxReplayAttempts]

\* on_failure, for a class the sweeper replays.
GiveUp(w) ==
    /\ queue' = queue \ {job[w]}
    /\ RecordFailure(job[w].action, job[w].retries + 1)
    /\ Release(w)

\* on_failure, for a class that is not in REPLAYABLE: the row is held.  The
\* same comes of a row on_failure could not write.
GiveUpForGood(w) ==
    /\ queue' = queue \ {job[w]}
    /\ RecordFailure(job[w].action, MaxReplayAttempts)
    /\ Release(w)

\* self.retry: the message is published again with one more retry on it,
\* until the limit; then on_failure.
Retry(w, limit) ==
    IF job[w].retries < limit
      THEN /\ queue' = (queue \ {job[w]})
                          \cup {[job[w] EXCEPT !.retries = @ + 1]}
           /\ UNCHANGED deadLetter
           /\ Release(w)
      ELSE GiveUp(w)

----------------------------------------------------------------------------
(* _execute, step by step.                                                 *)

\* A worker is given a message and reads the row.  A row that is not approved
\* is left alone.
Skip(w, m) ==
    /\ pc[w] = "idle"
    /\ m \in queue
    /\ status[m.action] # "approved"
    /\ queue' = queue \ {m}
    /\ UNCHANGED <<storeVars, faults, deadLetter, pc, job, body, googleVars>>

\* Mutant: the message is acknowledged when it is taken (no task_acks_late).
Load_AckEarly(w, m) ==
    /\ pc[w] = "idle"
    /\ m \in queue
    /\ status[m.action] = "approved"
    /\ pc' = [pc EXCEPT ![w] = "sequence"]
    /\ job' = [job EXCEPT ![w] = m]
    /\ body' = [body EXCEPT ![w] = payload[m.action]]
    /\ queue' = queue \ {m}
    /\ UNCHANGED <<storeVars, faults, deadLetter, googleVars>>

Load(w, m) ==
    /\ pc[w] = "idle"
    /\ m \in queue
    /\ status[m.action] = "approved"
    /\ pc' = [pc EXCEPT ![w] = "sequence"]
    /\ job' = [job EXCEPT ![w] = m]
    /\ body' = [body EXCEPT ![w] = payload[m.action]]
    /\ UNCHANGED <<storeVars, faults, taskVars, googleVars>>

\* _sequence_verdict.
Waiting(p) == \E b \in p.after : status[b] \notin TerminalStatuses \cup {"absent"}
Blocked(p) == \E b \in p.after : status[b] \in (TerminalStatuses \cup {"absent"}) \ {"done"}

\* Mutant: a predecessor that is finished in any way will do.
SequenceClear_AnyEnd(w) ==
    /\ pc[w] = "sequence"
    /\ \A b \in body[w].after : status[b] \in TerminalStatuses
    /\ pc' = [pc EXCEPT ![w] = "validate"]
    /\ UNCHANGED <<storeVars, faults, taskVars, job, body, googleVars>>

SequenceClear(w) ==
    /\ pc[w] = "sequence"
    /\ \A b \in body[w].after : status[b] = "done"
    /\ pc' = [pc EXCEPT ![w] = "validate"]
    /\ UNCHANGED <<storeVars, faults, taskVars, job, body, googleVars>>

\* The verdict is the first reference that is not done, and the references are
\* in no order here: with one of each kind, either verdict may be the one.
SequenceWaiting(w) ==
    /\ pc[w] = "sequence"
    /\ Waiting(body[w])
    /\ Retry(w, MaxWaitRetries)
    /\ UNCHANGED <<storeVars, faults, googleVars>>

SequenceBlocked(w) ==
    /\ pc[w] = "sequence"
    /\ Blocked(body[w])
    /\ pc' = [pc EXCEPT ![w] = "hold"]
    /\ UNCHANGED <<storeVars, faults, taskVars, job, body, googleVars>>

\* _revalidate: fresh, stale (etag moved, event gone), or an exception.
RevalidateFresh(w) ==
    /\ pc[w] = "validate"
    /\ pc' = [pc EXCEPT ![w] = "claim"]
    /\ UNCHANGED <<storeVars, faults, taskVars, job, body, googleVars>>

RevalidateStale(w) ==
    /\ pc[w] = "validate"
    /\ pc' = [pc EXCEPT ![w] = "hold"]
    /\ UNCHANGED <<storeVars, faults, taskVars, job, body, googleVars>>

RevalidateRaises(w) ==
    /\ pc[w] = "validate"
    /\ \/ Fault("transient") /\ Retry(w, MaxErrorRetries)
       \/ Fault("permanent") /\ GiveUpForGood(w)
    /\ UNCHANGED <<storeVars, googleVars>>

\* _settle, held or stale: cancel_action from whatever the row says now.  A
\* row another worker claimed cannot be cancelled, and the task retries.
SettleHeld(w) ==
    /\ pc[w] = "hold"
    /\ LET a == job[w].action IN
       \/ /\ status[a] \in Closable
          /\ Transition(a, status[a], "cancelled")
          /\ Ack(w)
       \/ /\ status[a] \notin Closable
          /\ Retry(w, MaxErrorRetries)
          /\ UNCHANGED status
    /\ UNCHANGED <<wordVars, gate, home, attempts, faults, googleVars>>

\* claim_action: only one worker wins, and only while the row is approved.
Claim(w) ==
    /\ pc[w] = "claim"
    /\ ClaimAction(job[w].action)
    /\ pc' = [pc EXCEPT ![w] = "execute"]
    /\ UNCHANGED <<wordVars, gate, home, faults, taskVars, job, body, googleVars>>

\* A claim that raises, for whatever reason, ends the task as skipped.
ClaimLost(w) ==
    /\ pc[w] = "claim"
    /\ \/ status[job[w].action] # "approved" /\ UNCHANGED faults
       \/ Fault("claim")
    /\ Ack(w)
    /\ UNCHANGED <<storeVars, googleVars>>

\* What Google is given: send_email sends the draft its row points at.
Sent(w) ==
    IF OpOf[body[w].write] \in DraftBacked THEN gmailDraft[job[w].action] ELSE body[w]

\* Google applies the write once.  The transport repeats a write only on
\* answers that say it was not applied.
Apply(w) ==
    /\ applied' = applied \cup {<<job[w].action, Sent(w)>>}
    /\ effects' = [effects EXCEPT ![job[w].action] = @ + 1]

\* _run_op returns a result.
ExecuteSucceeds(w) ==
    /\ pc[w] = "execute"
    /\ Apply(w)
    /\ pc' = [pc EXCEPT ![w] = "succeeded"]
    /\ UNCHANGED <<storeVars, faults, taskVars, job, body>>

\* _run_op raises: Google refused, or applied the write and the answer was lost.
ExecuteFails(w) ==
    /\ pc[w] = "execute"
    /\ Apply(w) \/ UNCHANGED googleVars
    /\ pc' = [pc EXCEPT ![w] = "failed"]
    /\ UNCHANGED <<storeVars, faults, taskVars, job, body>>

SettleDone(w) ==
    /\ pc[w] = "succeeded"
    /\ Transition(job[w].action, "running", "done")
    /\ Ack(w)
    /\ UNCHANGED <<wordVars, gate, home, attempts, faults, googleVars>>

\* Mutant: a retry puts the row back to approved.
SettleFailed_Reapproves(w) ==
    /\ pc[w] = "failed"
    /\ Transition(job[w].action, "running", "approved")
    /\ Retry(w, MaxErrorRetries) \/ GiveUpForGood(w)
    /\ UNCHANGED <<wordVars, gate, home, attempts, faults, googleVars>>

\* Mutant: the exception leaves before the outcome is recorded.
SettleFailed_NoRecord(w) ==
    /\ pc[w] = "failed"
    /\ Retry(w, MaxErrorRetries) \/ GiveUpForGood(w)
    /\ UNCHANGED <<storeVars, faults, googleVars>>

\* The row fails, then the exception decides: another delivery, or none.
SettleFailed(w) ==
    /\ pc[w] = "failed"
    /\ Transition(job[w].action, "running", "failed")
    /\ Retry(w, MaxErrorRetries) \/ GiveUpForGood(w)
    /\ UNCHANGED <<wordVars, gate, home, attempts, faults, googleVars>>

----------------------------------------------------------------------------
(* What happens around the task.                                           *)

\* The worker process dies; its message is still in the queue.
WorkerCrash(w) ==
    /\ \/ pc[w] \in {"sequence", "validate", "hold", "claim"} /\ Fault("worker")
       \/ pc[w] \in {"execute", "succeeded", "failed"} /\ Fault("claimed")
    /\ Release(w)
    /\ UNCHANGED <<storeVars, taskVars, googleVars>>

\* _sweep_dlq sends a replayable row's task again and closes the row.
Replay(a) ==
    /\ deadLetter[a] # 0
    /\ deadLetter[a] < MaxReplayAttempts
    /\ deadLetter' = [deadLetter EXCEPT ![a] = 0]
    /\ queue' = queue \cup {[action |-> a, retries |-> 0]}
    /\ UNCHANGED <<storeVars, faults, pc, job, body, googleVars>>
============================================================================
