# Verification of the Ryuk backend

Ryuk is an assistant that turns a chat message into a plan of operations on
Gmail, Google Calendar and Google Drive. Reads run at once. Writes do not: a
write is *staged*, shown to a person on a confirm card, and carried out by a
Celery worker after the person says yes. This directory holds TLA+ modules
translated from `src/backend/app`, the TLC runs that check them on small
instances, and theorems about them that TLAPS proves for all instances.

What is here now:

- the **write path**, from the turn that stages a write to the call that makes
  Google apply it;
- below it the **Google transport**, the retries and the circuit breaker of
  that call;
- around it the **run**: how it parks on a question, is answered, resumes in
  another process and ends (`RunLifecycle`), and inside it one call of the
  **step dispatcher** (`Dispatch`);
- the **event stream** by which a browser tab follows a run, with the tab's own
  bookkeeping (`EventStream`);
- the **Gmail mirror** that searches read, and the tasks that keep it up to date
  (`MirrorSync`);
- the **plan** of a turn: how it streams in while its first steps run, is checked,
  repaired, run, repaired again and resumed from its rows (`PlanTurn`, with the
  validator in `PlanRules` and `PlanSearch`);
- the **connection** to Google: the refresh of one person's access token by
  callers and a sweep, while the person disconnects and consents again
  (`TokenRefresh`).

The rest is inventoried and planned below. Paths in this file are relative to
`src/backend/app` unless they say otherwise.

## 1. Inventory

| Part | State it keeps | Operations | What makes it hard | What makes it correct |
|---|---|---|---|---|
| **Action rows** (`db/models.py`, `db/repositories/actions.py`) | `actions`: status, payload, dedupe key, gating card, attempts | create, revise, approve, claim, complete, fail, cancel, bulk cancel, expire | six writers in different processes; some moves go through `transition()`, three are bulk UPDATEs that do not; a payload can be changed without its key, its card and its draft | every move is one `transition()` allows; two rows in flight write the same thing only where the chat changed one of them |
| **Confirm cards** (`db/repositories/prompts.py`, `orchestrator/runner.py`, `api/v1/prompts.py`) | `pending_inputs`: status, expiry, answer, what it showed | stage, raise, supersede, yes, no, edit, "Not now", chat "cancel", chat "revise" | every way of closing a card races with every other, and with the worker; a revision in the chat leaves the card as it is | what is applied is what a card answered yes showed, or what the chat said the draft behind it says now; a refused card lets nothing through |
| **Actions worker** (`tasks/actions.py`) | none of its own: a position in `_execute` and the payload it loaded | load, sequencing verdict, Sent check, revalidation, claim, run the op, settle | redelivery, two workers on one row, death between claim and settle, answers lost after Google applied the write | applied at most once, in order, never after it was closed; outcomes recorded |
| **Task queue and dead letters** (`tasks/celery_app.py`, `tasks/maintenance.py`) | unacknowledged messages, `job_failed_tasks` | deliver, redeliver, retry, on_failure, replay | a retry, a replay and the original can all be alive at once | an approved write is eventually attempted or closed |
| **Sweepers** (`tasks/maintenance.py`) | – | `expire_prompts`, `sweep_stuck`, `sweep_dlq`, token refresh, pruning | they race with people, turns and workers | what runs out is closed; a dead turn leaves nothing that can happen |
| **Run lifecycle** (`orchestrator/runner.py`, `db/repositories/runs.py`) | `runs`, `messages`, `node_executions` | open, plan, dispatch, park on a question, resume, replan, settle | a run waits for a person for days and resumes in another process | one live process per run; each question answered once |
| **Step dispatcher** (`orchestrator/dispatch.py`) | in-memory results, events per node, semaphores, budget | wait, gate, run, retry, park, stage | concurrent steps that fail, park or time out | every step ends in one outcome; none runs before what it depends on |
| **Gmail drafts behind writes** (`ops/gmail_ops.py`, `services/gmail.py`, `api/v1/prompts.py`) | drafts at Google, `external_ref` | create, rebuild on edit, delete on decline | calls to Google inside transactions that can roll back | a row never points at a deleted draft |
| **Event stream** (`orchestrator/events.py`, `api/v1/events.py`, `frontend/src/lib/sse.ts`, `useRun.ts`) | sequence number, buffer and channel in Redis; the tab's last number, retries and repairs | publish, subscribe, replay, reconnect, repair a gap, refetch | the number and the append are separate calls; the buffer is trimmed and expires; a run that asked has two ends on one stream | a stream that says complete has applied every event once and in order; a tab comes to rest with its run |
| **Query idempotency** (`api/v1/query.py`) | memo by `client_request_id` in Redis | run, remember, replay | the memo is written after the run | one turn for one request |
| **Google transport** (`google/retry.py`, `google/client.py`, `google/quota.py`) | circuit breaker and quota buckets in Redis | classify, retry, open, probe, close | a probe that never reports; several processes | an open circuit is probed again; a write is repeated only if it was not applied |
| **OAuth tokens** (`auth/token_store.py`, `auth/google_oauth.py`, `google/client.py`, `tasks/maintenance.py`) | the row of `oauth_tokens`: tokens, expiry, failures, revoked | consent, use, refresh, sweep, count a failure, disconnect | one lock per process, row locks held to the end of a transaction, failures booked in a session of their own | an outage costs nobody the connection; a disconnect stays; no caller waits for ever |
| **Sync and mirror** (`tasks/sync_*.py`, `tasks/cursors.py`, `db/repositories/sync_state.py`, `db/repositories/mirror.py`) | cursors, mirror tables | full and incremental sync, rename of a cursor, prune | a crash between page and cursor; an expired cursor | a cursor never passes what the mirror holds |
| **Routing, planning, validation** (`orchestrator/runner.py`, `route.py`, `validate.py`) | the plan in hand, early results, rows of `node_executions` | stream a plan, start steps early, check, repair, run, repair again, rebuild from rows | early runs and rows race with the stream and with the check; results are kept by step id while the plan changes | no step runs without what it refers to; nothing is done or asked twice; a write below the floor waits for an answer |
| Front door, retrieval, rendering | none shared | text in, text out | sequential, unit-tested | – |
| **Model providers** (`llm/router.py`) | a circuit breaker per provider in Redis, and one in memory for when Redis is away | walk a chain of providers, retry, stream | a stream that breaks half way; a probe that never reports | one answer is of one provider; a provider that is well again is used again |
| Operations, search, authentication, the rest of the frontend | none the write path depends on | calls out, ranking, request-local checks | – | – |

### How the parts interact

```
 person ── cards ──> api/v1/prompts ──> runner._confirm ──┐
   ^                                                      │ commit, then .delay()
   │ card                                                 v
 turn (runner) ── stage ── commit message ──> actions / pending_inputs rows
                                                  ^   ^            │
                        expire_prompts, sweep_stuck   │            v
                                                      │     queue actions.execute
                                                      │            │
   job_failed_tasks <── on_failure ── worker (_execute) <──────────┘
         └────────── sweep_dlq replays ───────────────────────> queue
```

The two sides share only the rows of `actions` and meet at the queue. A turn
reads rows outside the transaction that writes its message; a person's answer
locks the card; the worker holds no lock at all between its steps, and only the
claim (`UPDATE … WHERE status = 'approved'`) makes it the owner of a row.

```
 message ── turn ──> plan ──> dispatch() ──> message, cards ──> runs: awaiting_input
                       ^          │  one task per step             │
                       │ repair   │  hooks: node_executions        │ answer, dismissal
                       └──────────┘                                v
 tab <── POST body, SSE ── buffer, channel <── events ──── request: _resume ──> dispatch()

 beat ── dispatch_all_users ──> sync_gmail: pass ──> mirror rows, then the cursor
                                   └──> backfill chain ──> mirror rows, page token
```

Every call to Google takes an access token from the row of the connection; callers
and the sweep refresh it, and meet only at that row and at a lock per process.

A run is one row and no process: whoever has its answer carries it on, and
`sweep_stuck` closes it when nobody does. The processes of a run meet only in
its rows. A call of the dispatcher is one thread of asyncio tasks that meet at
events, a lock and semaphores. Passes over one mailbox meet only in the rows of
the mirror and in the cursor.

The hazards this interaction has, each at its line, are listed under `hazards`
in `PROJECT.json`; one that no property covers says why, and names the module
that will carry it if one is planned.

## 2. Modules

| Module | Models | Notes |
|---|---|---|
| `ActionStore` | the `actions` table, its index, `transition()`, `claim_action`; the failures the environment may inject | no Next of its own |
| `ConfirmCards` | turns, staging, cards, answers, edits, dismissals, expiry, `sweep_stuck` | EXTENDS `ActionStore` |
| `ActionsWorker` | the queue, `_execute` step by step, retries, dead letters, `sweep_dlq` | EXTENDS `ActionStore` |
| `WritePath` | the composition, the hand-over between the two sides, properties, fairness | EXTENDS both |
| `Consent` | the abstract specification: a write is offered, revised, granted, applied or closed | `WritePath` implements it |
| `WritePathInv` | the inductive invariant `IInv` | EXTENDS `WritePath` |
| `MCWritePath` | the instances TLC checks | EXTENDS `WritePathInv` |
| `WritePathProofs` | `IInv` is inductive; the safety theorems; allowed status moves; refinement of `Consent` | proofs |
| `CircuitBreaker` | the Redis hash of one user and service, its two Lua scripts, its DEL and its expiry | no Next of its own |
| `GoogleTransport` | `Transport.request`: calls that share a breaker, their attempts, retries and ends | EXTENDS `CircuitBreaker` |
| `MCTransport` | the instances TLC checks | EXTENDS `GoogleTransport` |
| `TransportProofs` | the transport's inductive invariant and safety theorems | proofs |
| `PlanRound` | the abstract specification of one round over a plan | `Dispatch` implements it |
| `Dispatch` | `dispatch()`: one task per step, the hooks of the runner, slots, retries, deadlines | |
| `MCDispatch` | five plans of three steps | EXTENDS `Dispatch` |
| `DispatchProofs` | the call's inductive invariant, its safety theorems, refinement of `PlanRound` | proofs |
| `RunLifecycle` | runs from message to end, across turns, answers, dismissals, deaths and `sweep_stuck` | a step of the dispatcher is one action |
| `MCRunLifecycle` | small plans for two turns | EXTENDS `RunLifecycle` |
| `RunProofs` | who moves a run, what its rows remember, what its status follows | proofs |
| `EventStream` | publishers, the buffer, a subscription, the connection and the tab | |
| `MCEventStream` | the instance TLC checks | EXTENDS `EventStream` |
| `StreamProofs` | the stream's inductive invariant; complete is whole; a gap has an excuse | proofs |
| `MirrorSync` | the mailbox, `sync_state`, the mirror, the sync queue and its workers | |
| `MCMirrorSync` | two short histories of a mailbox | EXTENDS `MirrorSync` |
| `MirrorProofs` | the mirror's inductive invariant and safety theorems | proofs |
| `PlanRules` | what a plan is, and what `validate_plan` lets through | no state |
| `PlanSearch` | the validator's two graph searches as they are written | recursive, for TLC only; EXTENDS `PlanRules` |
| `PlanTurn` | one turn and its plan, from the stream to the resume | EXTENDS `PlanRules` |
| `MCPlanTurn` | the plans TLC checks, and what the searches must find | EXTENDS `PlanTurn`, `PlanSearch` |
| `PlanTurnProofs` | a step that starts finds what it refers to; once is once; the trace; writes below the floor | proofs |
| `TokenRefresh` | one connection: its row, callers, sweeps, the person | |
| `MCTokenRefresh` | two callers of one process and a sweep | EXTENDS `TokenRefresh` |
| `TokenProofs` | the connection's inductive invariant and safety theorems | proofs |

The two halves are checked apart. The write path sees one call of the transport as one
step that ends in "applied", "failed, not applied" or "failed, and applied all the
same"; `OnceMeansOnce` is what the transport owes it. `Dispatch` and `RunLifecycle`
divide a round the same way: inside `Dispatch` a step is a task with twelve places to
stand; in `RunLifecycle` it has an outcome, and what `Dispatch` shows about outcomes
and rows (`RowsTell`, `AwaitingIsParked`) is what lets `RunLifecycle` write both in
one step. The writes `RunLifecycle` stages and the cards it does not follow
(non-blocking confirm cards) are those of `ConfirmCards`. In both, the plan is given.
In `PlanTurn` it is what moves: a round is a set of steps with outcomes, as in
`RunLifecycle`, but the steps of one id may be different steps of different plans, and
rows, results and cards, which the code keeps by id, say in the model which one they
are of.

### State

| Variable | In the code |
|---|---|
| `status`, `payload`, `dedupe`, `gate`, `attempts`, `home` | columns of `actions`: `status`, `payload`, `dedupe_key`, `requires_input_id`, `attempts`, and the run of `message_id`. `"absent"` is a row that is not there |
| `gmailDraft` | what the Gmail draft behind `external_ref` says; ops in `DraftBacked` send it, the others do what the payload says |
| `told`, `rewritten` | what the chat last said a payload had become ("Updated."); the rows whose payload changed after they had left draft: history |
| `cardStatus`, `cardOp`, `answer`, `shown`, `due` | a card's `status`, the op of its step, how it was answered, the rows and payloads its preview showed, and whether `expires_at` has passed |
| `turn`, `runStatus`, `staged`, `newCard` | where the runner of a turn is, `runs.status`, `self.actions`, and the turn's own card in `self.pending_inputs` |
| `actionIds`, `cardIds` | the ids `new_id()` has given out |
| `cancelling` | the cards a "cancel" turn has listed and not yet closed |
| `outbox` | actions approved by a committed `_confirm` whose `.delay()` has not been called yet |
| `queue`, `deadLetter` | unacknowledged `actions.execute` messages with their retry count; attempts of the open `job_failed_tasks` row |
| `pc`, `job`, `body` | where each worker is in `_execute`, its message, the payload it loaded |
| `applied`, `effects` | what Google applied, and how often, for each action: history the code does not keep |

Of the transport:

| Variable | In the code |
|---|---|
| `failures`, `openMs`, `tripped`, `openLeft`, `probeLeft`, `ttl` | the hash `cb:<user>:<service>`: `failures`, `open_ms`, `open_until > 0`, the time left until `open_until` and `probe_until`, and what the key has left to live |
| `pc`, `kind`, `used`, `failedOnce`, `probing`, `result` | a call's place in the loop of `request`, whether it passes `retry_on=SAFE_TO_REPEAT`, its locals `used`, `failed_once`, `probing`, and how it ended |
| `effects` | how often Google did what a call to be made once asks for: history |
| `up` | whether Google answers well |

Of the dispatcher:

| Variable | In the code |
|---|---|
| `deps`, `kind` | the plan: the edges of each step; whether it reads, asks (a blocking card), notes (a card nobody has to answer first) or writes |
| `pc` | which await of `run_one` a step's task stands at |
| `stat`, `why`, `blame` | `outcome.status`, the `reason` and `depends_on` of `outcome.outcome` |
| `done`, `lock`, `tries` | the events that are set, `write_lock` with its waiters, the calls made |
| `stop`, `late`, `asked`, `replan` | `paused`, the budget's deadlines, the blocking entries of `paused`, `needs_replan` |
| `staged`, `after` | `staged_by_node`, the predecessors a write was told |
| `parked`, `cards`, `prepared`, `row` | the runner's `_parked_nodes`, `pending_inputs`, `actions`, and `node_executions.status` |
| `verdict` | the status of the `DispatchResult` |
| `lost` | the steps whose last row write the database refused: history |

Of the run:

| Variable | In the code |
|---|---|
| `status`, `row`, `value`, `round`, `card`, `act`, `after` | `runs.status`; `node_executions.status`, whose answer its result holds, and the latest round; blocking `pending_inputs`; staged `actions` and their predecessors |
| `issued` | `created_at` of the cards: for each the cards that were in the table before its message, from which `Newer` has the order `list_prompts` sorts by |
| `old`, `sweep` | runs whose `started_at` is past `STUCK_AFTER_S`; what `sweep_stuck` has read of each run and not yet acted on |
| `proc` | what one process holds in memory: which run and card, the outcomes of the round, the cards and writes not yet committed, the verdict |
| `ran`, `lost` | how often a step was carried out; the steps whose success the database did not take: history |

Of the event stream:

| Variable | In the code |
|---|---|
| `phase`, `left`, `owed` | `runs.status`; what each publisher has yet to send; the event it has numbered and not appended |
| `seqno`, `buffer` | `seq:<run>` and `buf:<run>` in Redis |
| `server`, `pipe` | the generator of `subscribe` (where it stands, `seen`, what pub/sub holds for it, what is left of the list `replay` gave it); frames on the way |
| `tab` | `RunStream` or the POST's reader: `lastSeq`, retries, gap repairs; the hook around it: what it shows, whether it is attached, whether it refetches |
| `sent` | what each number was given to: history |
| `holes`, `missed` | whether the buffer was appended to out of order; how many messages pub/sub dropped and first replays failed: history |

Of the mirror:

| Variable | In the code |
|---|---|
| `log`, `floor` | the mailbox's history, and how much of it Gmail no longer serves: external |
| `state` | the row of `sync_state`: history id, page token, failures, circuit, backfill token and `backfill_complete` |
| `queue`, `task` | messages of the sync queue, and where each worker is in `_run` |
| `seen` | for each message the newest entry the mirror ever reflected: history |
| `resynced` | where the history stood when the last full walk began: history |

Of a turn and its plan:

| Variable | In the code |
|---|---|
| `at`, `plan`, `came` | where `_pipeline` stands; the plan in hand; how many of its steps `PlanScanner` has closed |
| `early`, `by` | the tasks of `_start_early` and what they gave; the spec each was started with |
| `claimed`, `writing`, `row` | `_written`; the tasks of `_write_step_row`; `node_executions` of the latest round, with the step each row describes |
| `has`, `out`, `again` | `results`, with the step that gave each; the outcomes of the round; `needs_replan` |
| `told`, `card`, `asked` | `_raised_for_node`; the last card of a step; how many were raised for it |
| `round`, `calls`, `resumed` | `replan_round`, `llm_calls`, and whether `_resume` picked the run up |
| `ran`, `accepted`, `lost` | how often a result was got for an id; the steps of the plan let through last; the ids whose row missed its last write: history |

Of the connection:

| Variable | In the code |
|---|---|
| `row` | `oauth_tokens`: whether it is there, which consent its refresh token and its access token are of, how close `expires_at` is, `revoked_at`, `refresh_failures` |
| `holder`, `lock` | the transaction that holds the row (uncommitted write or `FOR UPDATE`); `_locks` of each process |
| `at`, `saw` | where a caller or a sweep stands; the row as its session loaded it, and whether the session is its own |
| `grants`, `dropped` | consents given, and those Google no longer honours: external |

A payload is a member of `Write` (what is to be done) and the set of actions it
must run after (`_sequence_after`). The dedupe key is a hash of user, op,
payload and conversation; with one user and one conversation, and the op a
function of the write, the hash is the payload. It has a variable of its own
because the code has to move the two together.

### Actions

Every action is one transaction of the code or one step others can interleave
with. Where the code takes a row lock (`_confirm`, `_edit`) or a conditional
UPDATE, the transaction is one step. It is split where the code can be
interleaved: `RaiseCard` / `CommitMessage` (a card is not visible to another
turn's supersede until it commits), `ListOpenCards` / `CancelOpenCards` (cards
are listed before they are closed), `CommitMessage` / `SettleRun` (two
transactions), `ConfirmYes` / `Enqueue` (commit, then `.delay()`), and each step
of `_execute`. In the transport each Lua script is one step, as Redis makes it;
between the permission, the request and its answer any other call, and time,
may come in. In the dispatcher an action is what runs between two awaits; in
`RunLifecycle` a commit; in the stream a call to Redis, a frame, or what the tab
does with one; in the mirror a transaction, or a call to Gmail; in a turn and its plan a
step that closes, a commit of a row, the end of an early task, or an outcome; at the
connection a commit, a lock, or a call to Google. `map` in
`PROJECT.json` gives the lines of every definition.

### Abstractions

- One user and one conversation. Nothing in the write path relates two users.
- An edited card's expiry is free of the old card's. The code copies
  `expires_at`; the model allows more behaviours.
- A process that dies inside a transaction dies before it.
- `sweep_stuck` closes turns that are dead. The case where it takes a live run
  for a dead one is in `RunLifecycle`.
- Step 2 of `_execute`, the search of Gmail's Sent folder, has no action: it runs
  only for an approved row with `attempts > 0`, and `ApprovedIsFresh`, which is
  proved, says there is none.
- Google applies one write per call of an op. That is the transport's
  `OnceMeansOnce`.
- Instants are kept as the time left until them, and `Tick` lets one unit pass.
  How long a backoff, a wait for quota or a request takes is how many ticks come
  in between; the deadline of `request` is that any error may be the last.
- An exception and an error answer of one class differ only in
  `retry_on_network`, which the calls that are repeatable leave on and the others
  pass together with `SAFE_TO_REPEAT`, which no exception is in: one action.
- A call whose token, quota or time runs out, or whose process dies, is
  `CutShort`. A Redis that does not answer is a failure at one breaker call, and
  leave to go on.
- Of a Gmail draft the model keeps what it says (`gmailDraft`), since that is what
  `send_email` sends; the calls that create, rebuild and delete drafts are left out,
  and so are notifications, audit rows and messages to the person.
- **Revisions.** A payload changes in three ways, and all are actions. `Edit` is the
  card's: new card, new key, new draft. `Revise` is the chat's (`_revise`, or a plan
  with `action.revise`): the payload alone, whatever the card's state, and a sentence
  to the person, kept in `told`. `ReviseLate` is `action.revise` racing with a yes, a
  no or a worker: `require_action` has put the row in the session, the session hands
  the same object back after the lock, and the payload of a row that is no draft any
  more is rewritten. It is the failure `"stale"`. `Edit` loads and locks in the same
  way; what could come in between is only the sweep of a dead turn, so it is one step.
  A patch that leaves the payload as it is, is no step. In `write_exec`, with one
  write, a late revision changes nothing but `rewritten`; other words are in
  `write_cards` (in the chat) and in the theorems (both).
- **Dispatcher.** What a step reads, binds and returns is left out: whether a
  reference resolves, a gate holds, an op is known or a call succeeds is free, except
  that a call only fails before it has an answer. Any write of a row may be refused,
  in which case `_persist_step` logs it and goes on (`Persist`). How long anything
  takes is where the two deadlines fall. `Hitches` says which of the rare ends a run
  of TLC includes; all are included.
- **Runs.** A step and its row are one action, with two ends: the database takes the
  row, or refuses it and the step goes on (`Refuse`; the trouble `"lost"` says which
  steps it may hit). What rows a refused insert leaves out is `PlanTurn`'s. A repair
  round gets the same plan again: what a repair changes in it is the planner's, and
  `Replan` keeps what the runner keeps. Plans are given, not chosen by a planner.
  Front-door answers are `Say`. The retry button is not an action: `_ui_verb` asks for
  the latest run and finds the turn's own, so `retry_run` finds nothing to do.
- **Stream.** An event is a number and whether it ends the run. Pings, the
  conversation channel and the text of events are left out. When time runs out
  (a key, an idle connection) is an action that needs the run to be quiet.
- **Mirror.** One person, Gmail only. A message is its latest version; text,
  chunks and vectors are left out. Listing a page and fetching its messages is
  one step: a message that changes in between only makes the fetch newer. A task
  is on the queue once: a second copy does what the first did.
- **Plans.** A step is its id, its kind of op, the edges it declares, the steps its
  arguments refer to and whether a gate stands before it. The rules about one step
  alone are one kind, "unfit". Whether a bound field exists, a call works, or a step
  asks for another plan, is free. So is what a repair brings back: the prompt asks the
  planner to keep the ids of steps that have a result, and nothing checks it. Every
  write of rows may be refused, in part where each row is written for itself.
  Deadlines, speculation, templates and the verbs `answer` and `clarify` are left out;
  of the other verbs `cancel` and `revise` are in `ConfirmCards`, `input_answer` is in
  `RunLifecycle`. The validator's own correction of a
  reference (singular for plural) changes no step that is referred to, and is left
  out.
- **Connection.** One person. A transaction that wrote the row holds it to its end, as
  PostgreSQL has it; a reader sees what was committed. Deadlocks that PostgreSQL
  cannot see, because the two sessions are of one task, are what `WaitsForItself`,
  `TimeUp` and `Recycle` are about. `Timed` are the callers with a deadline: the steps
  of a run. A request of the API has none. Scopes and encryption are left out, and so
  is whether an old refresh token is still good after Google sent a new one
  (`Rotating`).

## 3. Runs

| Run | Instance | What it shows |
|---|---|---|
| `write_exec` | 1 turn, 2 actions, 2 workers, any one failure, a late revision among them; 130,354 states | at most once, in order, nothing closed is applied, approved rows are fresh, and the whole implements `Consent` |
| `write_cards` | 2 concurrent turns, 3 cards, 2 writes of one op, 1 worker; about 714,000 states | what is applied is what a yes showed or the chat said since, a refused card lets nothing through, one row in flight per payload but for the chat's revisions |
| `write_live` | 1 turn, 2 actions, 1 worker, one worker, Google or runner failure; about 52,000 states | approved writes are attempted, due cards and dead turns leave nothing open |
| `transport` | 2 calls, one of them cut short or without Redis once; 343,054 states | a send is done once or not at all, an open breaker is not forgotten, and it closes for good once Google is well |
| `dispatch` | 5 plans of 3 steps on one slot, carried steps, 2 tries, every hitch, a refused row, both deadlines at any time; 321,896 states | a step is called only on results; what waits for an answer, and what is prepared, is the same to the dispatcher and to the runner; no step vanishes, no row names another outcome, and rows tell the outcomes but for a refused one; the call ends, and implements `PlanRound` |
| `run_life` | 2 turns of one conversation, 5 pairs of plans, 4 cards, 1 request, one death, failure or lost row; 189,299 states | an answer is worked on once; what succeeded is not run again unless its row was lost or two questions were open at once; what is closed leaves nothing open and what waits has a card; every run ends, but for one whose answer was lost with its process |
| `stream` | the run and one other publisher, a buffer of 3, one fault, expiry of the buffer and then of the counter, one reload; 856,591 states | complete means whole and in order, a gap has a cause in Redis and a stream is given up only on one, a tab comes to rest with its run |
| `sync` | 2 workers, 2 histories of 3 entries, pages and walks of 1, history gone with a 404 or a 410, one mishap; 335,981 states | the cursor never passes what the mirror reflects, the backfill flag is true, the mirror catches up unless Gmail goes on saying 404 |
| `plan_turn` | 570 plans of up to 3 steps, 4 repairs that may give an id to another step, one refusal of rows, 2 rounds, 5 planning calls; about 167,000 states | a step that starts finds what it refers to unless a repair reassigned an id above it; nothing is done or asked twice; the trace tells what happened but for refused rows; a write below the floor waits for an answer; the validator's searches find every cycle and everything upstream; the turn ends |
| `tokens` | 2 callers of one process, one with a deadline, 1 sweep, 2 consents of which the first rotates, 3 failures; 304,087 states | asking stops after enough failures; a disconnect stays, but for a rotated token; no caller waits for ever but behind a sweep that failed or a request that waits for itself |
| `enqueue_lost` | 1 action, the broker fails | **violation** of `ApprovedIsAttempted` |
| `refused_plan` | 1 plan of a question and a write, no fault | **violation** of `ResumesWhatWasAccepted` |

The two violations are disagreements between the code and what the repository
says of it:

- **enqueue_lost.** `_enqueue_action` swallows a failed `.delay()` with the
  comment "the row is approved; a sweep retries it". No sweep does:
  `sweep_dlq` replays rows of `job_failed_tasks` only, and `expire_prompts`
  closes the row when its card runs out.
- **refused_plan.** `validate.py` calls itself the gate a plan goes through "before
  a write has been staged", and `_sync_step_rows` says that "the row has to hold
  what will actually run". Rows are written while the plan streams in, and a
  question that needs nothing is put on screen before the plan is checked. If the
  plan is then refused, rows and card stay. The answer resumes the run: `_resume`
  puts the plan together from the rows, does not check it, and runs it. In the
  counterexample a write below the confidence floor, which was refused because it
  waits for no question, is carried out with the answer to another question.

### Stated and refuted, without a run of their own

These properties are defined in the modules, each beside the code it is about,
and the code refutes them. To see one, name it in the cfg given here.

| Property | Add to | What the code says, and does |
|---|---|---|
| `CardShowsWhatRuns` | `write_cards.cfg` | the card's "Approve" is consent to what the card puts before the person. `_revise` rewrites the payload of the draft behind a pending card and leaves the card: a yes then carries out what the card never showed. The person was told in the chat, which is what `ConsentedWrites` is left with |
| `ToldIsWhatRuns` | `write_cards.cfg` with `DraftBacked = {"send"}` | "Updated. It still has not been sent — approve the card when it looks right." (`runner.py`, `_revise`). `send_email` sends the Gmail draft (`gmail_ops.py:957-966`), which only the card's edit rebuilds: after a yes the *old* words are sent. `_rebuild_draft` says of this that "a card that says one thing and sends another is the worst outcome available here" (`api/v1/prompts.py`) |
| `NoTwinsInFlight` | `write_cards.cfg` | `create_action`: "If an identical action is already in flight, that row is returned instead of a second one being made." The key of a row revised in the chat is that of its old payload: the same write staged again is a second row |
| `NeverRerun` | `run_life.cfg` | the result of a step is carried over a pause from its row (`_resume`). When the database refuses the row, `_persist_step` logs it and the step goes on; after the answer it is carried out again. So it is, without any failure, with `Plans <- FormPlans`, `Request = {q1, q2}`, `MaxFaults = 0`: two questions of different form asked together both stay pending, since only a card of the same kind and op is superseded (`prompts.py:112-141`), and answered at once the run is resumed by two processes, each of which read the rows before the other wrote its own. `ResumedOnce` holds: one answer is still one resume |
| `AlwaysAgrees` | `run_life.cfg` | of two such questions one is answered and the other dismissed: the run is cancelled under the process at work, whose step leaves its row open |
| `EveryRunEnds` (PROPERTY) | `run_life.cfg` | `sweep_stuck` is there for "runs left behind by a dead worker, and paused runs whose answer was lost" (`maintenance.py:573-574`). For the second it sends a task under a name no worker registers (`maintenance.py:533`): a run whose card was answered by a process that then died awaits input for ever, on a card nobody can answer again |
| `AnswerInPlace` | `run_life.cfg` with `Plans <- ReconnectPlans` | `_resume_run` says "The answer stands where the paused node's result would have been". It finds the node by the card, and failing that takes the first ask step without a value. A reconnect card has no node: when a read fails on a lost grant, the `{"approve": true}` given to its card is stored as the answer to a question that was skipped and never asked |
| `ResumeIsFollowed` | `stream.cfg` with `Cap = 5`, `MaxFaults = 0`, `MaxForget = 0` | `useRun.ts` says that a tab reopened onto a run that is still going gets its live tool calls back. A run that was parked and resumed has the `run.complete` of its first half in the buffer; the replay ends there, the tab calls the stream complete and finds the run already attached |
| `WindowIsExact` | `stream.cfg` with `Cap = 2`, `Slack = 2`, `MaxRepairs = 1`, `MaxFaults = 0`, `MaxForget = 0` | `events.py:17` says that the buffer is "the last 500 events" and "inside that window a replay is exact". XADD trims approximately and may leave more than 500; `replay` reads 500 from the oldest (`events.py:207`), so the newest are not among them. A tab that has all but those hears the next event, sees a gap, opens again, reads the same 500, and after two repairs gives the stream up |
| `AlwaysCatchesUp` (PROPERTY) | `sync.cfg` | `history_list`: "A 404 or 410 here means the history id is older than Gmail keeps" (`services/gmail.py:697`), and the caller has to fall back to a full walk. `_incremental` falls back on 410 only; on a 404 the cursor stays and every later pass asks for the same lost history |
| `ReferencesBind` | `plan_turn.cfg` | `_collect_early` promises to keep an early result "only if the finished plan still asked for it" (`runner.py:1358`). The comparison is made before the repair: a repaired plan that gives the id to another step is run on the old result, that step is taken for done, and a reference to it below can be empty. The prompt asks the planner to keep ids (`orchestrator/prompts.py:802`), but the first repair is not told what ran early |
| `EveryCallerEnds` (PROPERTY) | `tokens.cfg` | a step of a run has a deadline, a request has none. `DELETE /auth/google` loads its clients on the request's session (`auth.py:295`); if the token was stale that transaction has written the row. A 401 on `delete_draft` then refreshes in another session (`client.py:486`, 805-829), which waits for the row until the request ends, and the request waits for the refresh |
| `GrantSurvives` | `tokens.cfg` | `invalid_grant` means that the grant is gone. The answer is of the refresh token that was sent; `_record_failure` marks whatever row the person has by then, so a late refusal of the old consent revokes the new one |
| `TokenOfItsGrant` | `tokens.cfg` | a refresh stores its access token in the row of the person, whichever consent the row is of by then |
| `DisconnectIsFinal` (PROPERTY) | `tokens.cfg` | deleting the row ends the connection. When Google's answer brings a new refresh token, it is stored by `upsert_token`, which inserts the row if it is gone |
| `SweepFailureIsCounted` (PROPERTY) | `tokens.cfg` | `_record_failure` is in a session of its own "so a request that is about to unwind still leaves the record". The sweep calls it while it holds the row `FOR UPDATE`: the record waits for the sweep and the sweep for the record, until the worker process is replaced (`celery_app.py:106`) |
| `RunningSettles` | `enqueue_lost.cfg` with `Faults = {"worker"}` | `docs/DESIGN.md` and `execute_action` say a retry looks in Sent before it sends. The attempt count grows only in the claim, which leaves the row `running`; a redelivered task leaves a row that is not `approved` alone. After a worker dies between claim and settle the row is `running` for ever, and Sent is never searched |
| `SupersededCardGatesNothing` | `write_cards.cfg` | `cancel_for_prompt` says it closes the actions of a card that is superseded. `supersede_matching` does not call it: the older write stays a draft with no card that can answer it, until it expires |
| `FailedDidNotHappen` | `write_exec.cfg` | `fail_action` says "It did not happen" and the person is told "Nothing was changed." The exception is also raised when Google applied the write and the answer was lost |
| `ExpiredTokenIsRetried` | `transport.cfg` | "A 401 wants a fresh access token and exactly one more try." The loop asks the breaker before every attempt. A 401 is not counted by the breaker, so if the call is the probe its own slot is still taken and its retry is refused |
| `GoodAnswerResets` | `transport.cfg` | "Five consecutive failures" open the breaker. A good answer resets the count only if its own call failed before, or is the probe, so failures add up across the good answers of other calls |
| `SequencedAfterStaged` | `run_life.cfg` with `Plans <- SequencePlans` | a write follows the writes its dependencies staged (`dispatch.py:1191-1197`). `staged_by_node` lives for one call of the dispatcher: a write staged after a resume or a repair does not name a predecessor staged before |
| `LiveRunNotClosed` | `run_life.cfg` | the age of a run is far above the length of a turn, so the sweep does not race with a live one (`maintenance.py:442-443`). A resume keeps `started_at`, so a resumed run is past that age at once |

### Bounds, and why they are enough

- **Actions, cards, turns, workers.** Each property relates at most two actions
  (predecessor and successor, or two with one payload), two turns, or a worker
  and whatever races with it. A third card is needed in `write_cards` so that
  one card can be edited, or revised behind, while another turn raises its own; there
  `MaxReplayAttempts` is 1, since replays are `write_exec`'s. Two workers are
  needed for a redelivered message.
- **`MaxFaults = 1`.** Each failure is an independent interruption of one
  handler. The theorems of section 5 hold for any number.
- **Retries.** The code allows 3 retries of an error, 8 of a wait, and replays
  rows with fewer than 8 attempts. What the behaviour depends on is the order
  `MaxErrorRetries + 1 < MaxReplayAttempts <= MaxWaitRetries + 1`: an error that
  used up its retries is replayed, a wait that did is held. The instances use
  0, 1 and 2. `RecordFailure` caps the attempts at `MaxReplayAttempts`, above
  which nothing tells two counts apart.
- **`MaxStaged`** is the number of writes one turn may stage, **`MaxRevised`** the
  number of rows that may stand revised in the chat at once; a second revision of a
  row is a new payload, which the first one reached as well.
- **The transport.** Two calls are a probe and one that was admitted before the
  breaker opened, or that finds the slot taken. `Threshold = 2` is the least that
  tells a count from an opening; the windows 2 and 3 are the first and the capped
  double; `ProbeHold`, `Grace` and the retries of each class are 1. `MaxFaults = 1`
  loses a probe or a report. The answers are one class that is ambiguous and
  counted, one that is safe to repeat and counted, one that is safe to repeat
  and not counted; the classes that are never retried behave like a retryable
  one that gives up.
- **The dispatcher.** Three steps are the least in which a step waits for a
  step that waits for a question. The five plans of `SmallPlans` hold a chain, two
  writes behind a question, two questions at once, writes in sequence and beside a
  note, and a write after a read with a read beside them. `MaxRefused = 1` row may stand
  refused at a time. One slot makes every pair of steps compete. Two tries
  are `MAX_ATTEMPTS`. Only the middle step is optional.
- **Runs.** Two turns of one conversation let one supersede or answer the
  other's card. Four cards are two questions of one plan, one more after a resume or a
  repair, and one of the other turn. One request answers or dismisses; a turn that
  answers in chat is the second. `MaxRounds = 1` and one fault: each plan of
  `LifePlans` has few things that may go wrong with it; `TwoForms` is two questions
  that stay open together.
- **The stream.** One event before each end makes a run of five events, two of them
  ends; a second publisher makes reordering possible. `Cap = 3`, `Slack = 1` are below
  that, so that trimming bites; one retry (the client has more) and two repairs reach
  every end of the client. `MaxForget = 2` expires the buffer and then the counter.
  The inductive invariant was checked on this instance, and on one with `Cap = 2`,
  `Slack = 2`, two faults and one repair.
- **The mirror.** Two overlapping tasks are the least that can race. A third
  entry comes while a pass is cut short by its page bound. With the page, walk and
  circuit bounds at 1 every pass of two entries is cut, every walk of two messages
  is a chain, and every failure opens the circuit. One mishap is a death, a
  failure, an expiry of history, a manual trigger, or a beat that overlaps a pass.
- **Plans.** Three ids are the least with something two edges upstream, and with a
  cycle that the first step does not reach. The drafts are every graph of three steps,
  every pair of steps of the kinds that behave differently, and a few of three for
  what pairs cannot show (a step named twice, two questions before a write, a gate).
  Two rounds and five calls are `MAX_REPLAN_ROUNDS` and `MAX_LLM_CALLS`; one fault
  is one transaction whose rows the database refuses; the stream may break at any time.
- **The connection.** Two callers race for the process's lock and for the row, or one
  comes in by a refused token while the other holds both; the sweep is the third. The
  bound of failures, 5 in the code, is 1, so that it is reached; two consents are the
  old and the new one; three tries let everybody come once. One caller is timed, the
  other a request.
- **Symmetry** over actions, cards, turns, workers and writes, whose values are
  only compared; not in the liveness runs, where TLC's reduction is unsound.
- **Deadlock** is not checked in the write path, the run, the dispatcher, the stream,
  the plan and the connection: a conversation, a run, a call, a stream or a turn that
  is over stops, and so does a connection nobody uses. The liveness properties say
  where each may. It is checked in the transport and the
  mirror, which never stop.

### Fairness

`FairSpec` assumes what the deployment's scheduling gives and no more:

- weak fairness of `Enqueue`: the process that committed goes on to `.delay()`,
  unless a failure is injected there;
- strong fairness of `Deliver` for each action: the queue is first in, first out,
  so no message is passed over for ever, but an individual worker may always be
  busy with another message when one looks;
- weak fairness of each step of a worker that holds a message: tasks run to
  their end, within their time limit;
- weak fairness of `Replay` and of the sweeps: `beat_schedule` sends them again
  and again.

Nothing makes a person answer, a clock strike at a given moment, a turn
proceed, or a failure happen.

The transport's `FairSpec` assumes that time passes, that a call which has begun
takes its next step unless it is cut short, and that there is always another
call: `sync.dispatch_all_users` is sent every fifteen minutes. It does not assume
that Google gets well; `RecoversWithGoogle` is about the case that it does.

The dispatcher's `FairSpec` assumes that something that can go on goes on, and
nothing about time: both deadlines may stay away for ever. `CallEnds` therefore
has a premise: no step's staging fell over, or the hard deadline comes. A step
whose staging raises leaves its event unset, and only the deadline ends the call.

The fairness of `RunLifecycle` is that a process which lives takes its next step (one
condition for each, whether it is a turn or a request), that `expire_prompts` and
`sweep_stuck` come round, and that time passes for a run's age; a request may be made
or not. `RunsEnd` says that in the end every run that began is over, but for one whose
answer was taken by a process that died before it marked the run (`AnswerLost`): that
one nothing in the code comes back to. That of `EventStream` is that publishers, the
subscription and the tab each go on; reloads, answers, faults and expiries are free.
In `MirrorSync` the beat comes round, an open circuit elapses, and each worker goes on
with its task; taking a message is strongly fair, since the queue is first in, first
out but a worker may be busy whenever one looks. `CatchesUp` excepts the behaviours in
which Gmail answers for a lost history with a 404 again and again.

A turn (`PlanTurn`) goes on while its process lives: weak fairness of `Proceed`, with
no deadline's help. That is what `TurnEnds` is about, and why it says nothing of a
resumed turn: a plan put together from the rows of a refused one may have a cycle,
and then only the hard deadline ends the call. At the connection callers and sweeps
go on with what they began; consents, disconnects, failures and the end of a worker
process are free, and a deadline comes for a step (`Timed`), not for a request.
`CallersEnd` therefore excepts what waits behind a sweep that failed, or behind a
request that waits for a row its own transaction has written.

`ApprovedIsAttempted` is restricted to writes that follow no other. A successor
whose predecessor is slow uses up its eight waits in about two minutes and is
then held in `job_failed_tasks` with nine attempts, which `sweep_dlq` never
replays; it stays approved until its card runs out (`DueIsClosed`).

## 4. What is only model-checked

- Liveness (`ApprovedIsAttempted`, `DueIsClosed`, `DeadTurnIsClosed`,
  `RecoversWithGoogle`, `CallEnds`, `RunsEnd`,
  `StreamSettles`, `CatchesUp`, `TurnEnds`, `CallersEnd`): temporal reasoning under
  fairness is out of TLAPS's reach here.
- The refuted statements, by their nature.
- `GraphSearchRight` of `plan_turn`: `PlanSearch` is recursive.

Every other property of the runs is also a theorem. Each module has a type invariant,
and each module with proofs an inductive one. They were checked while the modules
were built; the inductive ones, and the types of the write path and of the
transport, are proved, and no run repeats any of them.

## 5. What is proved

The assumptions are those the modules declare: `OpAssumption` (every write has an
op), `NullAssumption` (the null values are not ids), `FaultAssumption` and
`WorkerAssumption` (the bounds are natural numbers), and for the transport
`BreakerAssumption` (the probe slot is no longer than the first window, which is
no longer than the last: 30 s, 300 s, 1800 s) and `TransportAssumption` (types of
the answers and caps); `PlanTurnAssumption` (ids are positive numbers, drafts and fixes
are plans) and `TokenAssumption` (callers are finitely many and no sweeps, the bounds
are natural numbers). `DispatchAssumption`: a plan has finitely many steps and at
least one, each semaphore has a slot, a step is tried at least once. `SyncAssumption`:
pages, walks and bounds are at least 1, and a message that was deleted does not
come back under its id, which is Gmail's. `RunAssumption`: ids of steps and of cards
are numbers, finitely many; dependencies are steps of the plan. `StreamAssumption`: the
run is not one of the other publishers, a replay reads at least one entry, the other
bounds are natural numbers. Where nothing else is
said the sets (actions, cards, turns, writes, workers, calls, ids, plans, sweeps,
runs, requests, messages) may be of any size, infinite included.

Two theorems have a hypothesis of their own, said in their statements. `MaxCalls > 1`
of `PlanTurnTraceTells` and `PlanTurnUnsureWriteIsAnswered` is the run's budget of model
calls, 5 in the code (`MAX_LLM_CALLS_PER_RUN`); with 1, a planner that died cannot be
told from a plan that used the call up. Nothing is assumed of plans but that they are
plans, of repairs, of questions, or of the rows the database takes: where one of these
matters, the property names the case and excepts it, and section 3 shows it happen.

None of the safety properties is inductive. A worker about to call Google is
safe to do so because of what it knows about the row, and that in turn rests on
what no card, turn or sweep can have done since. `IInv` says this:

- `ActionIdsInv`, `CardIdsInv`: ids are given out once, so what a turn is still
  staging has no row and no other turn's card is its own. Without it two
  messages could write the same row.
- `CardRowInv`: a draft says what its card shows, or what the chat has said it says
  since; what was granted stands behind a card answered yes; the Gmail draft says what
  the card shows in any case. It turns `ConsentedWrites` into a fact about the row a
  worker holds.
- `KeyInv`: among rows in flight the dedupe key is unique, and it is the fingerprint of
  the payload unless the payload has moved on in the chat or too late. Hence what is
  left of `OneInFlightPerPayload`.
- `WorkerInv`: the payload a worker loaded is still the row's, unless the row was
  rewritten after its yes; what it must follow is the row's in any case, since no
  revision changes that; the predecessors it saw done stay done, and between claim and
  settle it is the only owner of a `running` row.
- `EffectInv`: how often Google applied a row, told from its status and from
  where its owner is, and in which words: the Gmail draft's or the payload's (`Words`).
- `RewrittenInv`: what was rewritten too late is no draft.

`WritePathProofs` shows that every action preserves the types and each part of `IInv`,
with general lemmas about the kinds of step (a step of one worker that changes no row,
a bulk close of rows nobody owns, a grant of drafts), and derives the properties from
it. Its last part shows that in every step each row either keeps its status and words,
or makes one of the moves of `Consent` (`RowStep`); both `StatusMoves` and the
refinement of `Consent` follow from that case split. A row that `ReviseLate` rewrites
is "broken" in `Consent`: it makes no further promise about that row, and keeps those
about every other.

In `TransportProofs` the breaker and the calls are proved apart. `BreakerShape`
says that a window lies within its bounds and that a breaker that is not tripped
has no window; with it the renewal of the key in `_ALLOW_LUA`, which counts from
the old window, is enough for the slot, since the slot is no longer than any
window. `CallInv` says that a call under way has had nothing done: an answer
that leaves that open ends a call that must be made once.

For `PlanTurnBinds` the ids with a result are closed under the edges of the plan in
force: whatever gave a result had results for all it depends on. A step that may start
has its edges among those ids, hence everything upstream, hence whatever it refers to,
by the rule of the validator, if those results are of the steps the plan now has
there. In the plan that came first they are (`Agrees`, which is what `_collect_early`
compares); a repaired plan may have given such an id to another step, and the property
excepts the steps below one (`Reassigned`), for that reason alone.

`OnceInv` counts: a result is counted when it is got, and where the turn stands says
which results there can be, so that an early result is in place before the round
looks. `DiedInv` says that a planner that died before a plan was accepted left no
card, no row being written and no open row but one that was refused. `UnsureInv`
follows one planning call without a fault through the rows and back: what came, then
what was collected, then a plan, its rows, its results and its cards that are of the
same steps, edge for edge. A resume rebuilds the plan from these rows, so the upstream
of a write is what the validator saw, and `GroundedButAsked` (what has a result has
results behind it, unless it is a question) leads from the write down to an answered
question; the edges have no cycle there, so the search ends.

In `DispatchProofs` the place where a step stands says what it has left behind in each
variable (`Local`), what its row says if its last write was taken (`lost` otherwise)
among them, which is enough for types, `CalledOnResults` and most of `RowsTell`. What
is not local is that the runner and the dispatcher, which keep lists of their own,
agree on what waits for an answer. It rests on asyncio's lock being first in, first
out: a step is in the queue after the step that broke it (`LockInv`), so its hook
knows whether that one was parked (`ParkInv`). `BehindInv` says of every set that
holds the questions and is closed under "waits for" that it holds what is parked;
`Behind` is the least such set, and `AwaitingIsParked` follows. In the refinement of
`PlanRound` most steps of a task are stutters; a hard deadline is the abstract one for
all steps at once.

In `StreamProofs` what a completed stream has applied needs two facts. Every message
anywhere, in the buffer, in what was heard or read, in the pipe, at the tab, is the
event that was given its number (`Numbered`), which holds until the counter expires;
and what the tab applied is numbered from 1 on without a hole (`InTurn`), which is
`SeqTracker.check`. So neither the order of two publishers nor what Redis does comes
into it. That a gap has an excuse is about the whole way. As long as the buffer is
whole (`Damaged` says what makes it not so, and that lasts), the pipe continues what
the tab applied, and the server's `seen` is its end; what was read of the buffer begins
no later than that; and what was heard of the channel begins at `Joint`, the length of
the buffer when the oldest message still unlooked at was published, which `seen` or the
reading reaches (`Seamless`). Subscribing before reading the buffer is what makes the
last part true. A dropped message or a failed replay opens a seam. A seam leads to one
gap at most, because the repair opens a new subscription, so the repairs of a stream
are never more than what was missed, and fewer while there is a seam (`Excused`).

In `MirrorProofs` nothing covered is ever uncovered, because the mirror never goes back
and history only grows. So a pass may keep to itself what it has covered (`ListCovers`,
`WalkCovers`), whatever other passes do meanwhile, and hand it over with the cursor at
its end (`StateCovers`). `CoversWith` is the page in between: fetched, not committed.
A deletion that history tells of later excuses a message that could not be fetched;
this is where Gmail's assumption is used.

In `RunProofs` the argument is a token. A run is moved by one process that acts on it
or by one pending card that may be answered, never by two (`OneToken`): a message that
asks gives the token to a card, `answer_prompt`'s WHERE clause gives it to one
process, and whoever has it is the only one that writes the rows. `CardsHeld` gives
`ResumedOnce`: an answered card was taken by one process, whoever else has read it.
The token is single only in a run none of whose messages asked two questions that do
not replace each other (`Single`; a run that is `Crossed` stays so, `SingleShrinks`);
the parts about the token, about results and about closed runs speak of such runs, the
rest of all. `RanRight` says that the rows remember each step that was carried out,
unless the database refused to (`lost`), and that the process in charge has them in
hand, hence `ReusedNotRerun`. For `StatusAgrees`, `InOrder` says that the pending
card, or the one the acting process holds, is the newest of its run; `Verdicts` that
nobody settles as waiting without a card in the table; `Closed` that a run is closed
only when nothing can move it any more (`NoToken`), from the sweeper's look to its
close; and `AnswerTaken` that while nothing has failed the process which took the
newest answer is still on its way to an end of the run.

In `TokenProofs` the failures are bounded by a count: those booked, plus the callers
that looked below the bound and have not ended, stay below the bound plus the number
of callers (`Budget`). A sweep adds none, because it holds the row its record waits
for (`Held`). A deleted row is held by nobody but one who inserts it, so no commit
but of a rotated token finds it.

| Theorem | Says |
|---|---|
| `InvariantHolds` | `Spec => []IInv` |
| `AtMostOnce`, `Consented`, `ClosedUntouched`, `InOrder`, `RefusedStays`, `OneInFlight`, `ApprovedFresh` | the safety invariants of the runs |
| `TypeCorrect`, `DoneIsDone`, `StatusMovesAllowed` | types, `DoneWasApplied` (a row that says done was applied) and the action property `StatusMoves`, which no run repeats |
| `WritePathImplementsConsent` | `Spec => ImplementsConsent` |
| `TransportInvariant` | the transport's inductive invariant |
| `DoneOnce`, `KeyOutlives` | the safety invariants of `transport` |
| `TransportTypes` | types of the transport |
| `PlanTurnBinds` | `NothingMissing` of `plan_turn`, for any plans, repairs and refused rows |
| `PlanTurnDoneOnce` | `DoneOnce` of `plan_turn` |
| `PlanTurnTraceTells`, `PlanTurnUnsureWriteIsAnswered` | `TraceTells` and `UnsureWriteIsAnswered` of `plan_turn`, when more than one call of the planner is allowed |
| `DispatchInvariant`, `DispatchTyped` | the call's inductive invariant, and its types |
| `DispatchCallsOnResults`, `DispatchRowsTell`, `DispatchShownAgrees`, `DispatchAwaitingIsParked` | the safety invariants of `dispatch` |
| `DispatchImplementsRound` | `Spec => ImplementsPlanRound` |
| `MirrorInvariant`, `MirrorTyped` | the mirror's inductive invariant, and its types |
| `MirrorNothingSkipped`, `MirrorBackfillIsWhole` | the safety invariants of `sync` |
| `RunTyped`, `RunResumedOnce` | types of the run, and who holds a card; `ResumedOnce` of `run_life` |
| `RunOneToken` | one process or one card moves a run that is not `Crossed` |
| `RunReusedNotRerun`, `RunStatusAgrees` | `ReusedNotRerun` and `StatusAgrees` of `run_life`, for any plans |
| `StreamTyped`, `StreamCompleteIsWhole`, `StreamGapNeedsFault` | types of the stream, and the safety invariants of `stream`, with `Overfull` and failed replays among the causes of a gap |
| `CallersGiveUp`, `DisconnectHolds` | `GivesUp` and `DisconnectStays` of `tokens` |
| `OutageKeeps` | `OutageKeepsGrant`: a connection is marked revoked only if Google dropped a consent |

## 6. Plan

Done, in order of what matters most to a person using the system:

1. `ActionStore`, `ConfirmCards`, `ActionsWorker`, `WritePath`, `Consent`, with
   their proofs.
2. `CircuitBreaker`, `GoogleTransport`, with their safety proofs.
3. `RunLifecycle`, with its safety proofs.
4. `Dispatch` and `PlanRound`, with their safety proofs and the refinement.
5. `EventStream`, with its safety proofs.
6. `MirrorSync`, with its safety proofs.
7. `PlanRules`, `PlanSearch`, `PlanTurn`, with the proofs of the turn's safety.
8. `TokenRefresh`, with its safety proofs.

To do:

9. `DraftCopies`: the Gmail draft behind a row, through edits that roll back.
    It composes with `ConfirmCards`.
10. `QueryIdem`: two requests with one `client_request_id`.
11. Calendar and Drive in `MirrorSync`, the vectors behind the rows.

## 7. Not modelled, and why

Front door, retrieval and rendering are sequential transformations of text with no
shared state, which unit tests reach; so are the parsing of a plan's text and the
rules of the validator about one step alone. What a model answers is an input: any
plan may come back. What an op does at Google is
outside the program; the model has the one thing the write path relies on, that
a call applies the write once or not at all, and the transport shows how the
code keeps it. Search is arithmetic and SQL.
Authentication and rate limits are request-local. But for how a tab follows a
run, the frontend is the person of the model: it may press any button in any
order.

What reading the code for the models showed, and no property says:

- **Runs.** With two questions of different form that wait for nothing, two cards of one
  run can be acted on at once (`Crossed`): `NeverRerun` and `AlwaysAgrees` in section 3
  show what follows. Nothing in the code says that a run has one process at a time; the
  proofs show that it does unless this happened. The retry button (`_ui_verb`,
  `runner.py:938-958`) asks for the conversation's latest run, which is the one
  just opened for the click; `retry_run` has nothing to do.
- **Stream.** `STREAM_EXPIRED` is handled by the client (`sse.ts:263`) and sent by
  nobody, contrary to `events.py:18-20`. When the counter expires too (an hour), a
  resumed run numbers from 1 again and a tab that kept its number drops what it is
  sent (`CompleteIsWhole` leaves it out). Two
  publishers that append out of order leave a hole no replay repairs. A POST that
  breaks half way is reported as an error and not followed on the stream, contrary
  to `sse.ts:606-610`. The count of gap repairs is never reset.
- **Idempotency.** The browser never sends `client_request_id`
  (`api/v1/query.py:43-45`), and the memo is written after the run
  (`query.py:180`): a repeated request that comes earlier runs again.
- **Mirror.** Concurrent passes can write an older fetch over a newer one, bring
  back a deleted message, or move the cursor backwards; nothing in the code
  promises otherwise, so `seen` keeps the newest entry a message ever reflected.
  A full walk never deletes rows that went away during lost history. Rows
  committed before a death between `_commit` and `fan_to_embed`, or overwritten by
  a step's write-through, get no vector: `embed.backfill_missing` is scheduled and
  sent by nobody (`tasks/embed.py:147`). A backfill that outlives a disconnect can
  mark the row of a new connection complete. Calendar and Drive have the same
  shape; Drive commits its cursor with each page, Calendar keeps a sync token and
  a page token.
- **Plans.** What a repair brings back is not compared with the results there are
  (`ReferencesBind`). A resume
  drops gates and `optional`, which rows do not keep. `_sync_step_rows` stores the
  repaired arguments of a row and not its edges, so `depends_on` of a repaired plan is
  stale on resume. A row the database refused (`runner.py:2547-2553`) loses its step
  on resume, and edges to it are not waited for; `UnsureWriteIsAnswered` is about
  plans accepted as they came with every row written. Rows of a repair round stay
  pending for steps that were carried.
- **Model providers.** `router.py:463` lets "exactly one call" through a half-open
  breaker. The probe key lives 30 s, one provider's attempts may take longer, and a
  call that was admitted before the breaker opened deletes the key when it fails. A
  failure that says nothing about the provider's health, or a stream nobody reads to
  its end, leaves the key until it runs out. The count and the window are written by
  two calls to Redis.
- **Connection.** After the process's lock, `get_access_token` looks at the row again
  through a session that already has it and returns the object as it was loaded, so
  "one refresh, not ten" (`token_store.py:66-67`) fails when the callers have sessions
  of their own. `TokenHolder.refreshed` does not look again under its lock: three
  calls that see a 401 cause three refreshes, not one (`client.py:169-170`). A refresh
  that is rolled back loses the new refresh token Google sent with it, which is not
  "always safe" (`token_store.py:22-24`). A run whose own open transaction wrote the
  row cannot refresh a refused token before its step's deadline (`TimeUp`); a request
  that did waits for itself for ever (`EveryCallerEnds` in section 3).
