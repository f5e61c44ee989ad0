----------------------------- MODULE MirrorSync ----------------------------
(***************************************************************************)
(* One person's Gmail and the copy of it the searches read.                *)
(* Source: tasks/sync_gmail.py (the passes), tasks/cursors.py,             *)
(* db/repositories/sync_state.py and mirror.py (the two tables), and       *)
(* tasks/celery_app.py (beat, late acknowledgement).                       *)
(*                                                                         *)
(* The mailbox is its history: an entry says that a message arrived or     *)
(* changed, or that it went away, and a history id is a position in it.    *)
(* A version of a message is the position of its entry.  A pass lists a    *)
(* page, fetches the messages, commits them and, at its end, moves the     *)
(* cursor: steps with nothing held between them, and nothing that keeps    *)
(* two passes over one mailbox apart.  Text, chunks and vectors are left   *)
(* out.                                                                    *)
(***************************************************************************)
EXTENDS Naturals, SequencesExt

CONSTANTS
    Msg,           \* messages
    Histories,     \* what may happen to the mailbox, each a whole history
    Connected,     \* how much of it has happened when the person connects
    Slot,          \* workers of the sync queue
    Page,          \* SYNC_PAGE_SIZE: history records in a page
    MaxPages,      \* history pages in one pass
    Limit,         \* BACKFILL_MESSAGES: messages in one walk
    CircuitAfter,  \* failures in a row that open the circuit
    GoneStatus,    \* what Gmail answers for a history it no longer keeps
    MaxMishaps     \* failures, deaths, expiries and requests in a behaviour

ASSUME SyncAssumption ==
    /\ Histories \subseteq Seq([msg : Msg, gone : BOOLEAN])
    /\ {Connected, Page, MaxPages, Limit, CircuitAfter} \subseteq Nat \ {0}
    /\ \A h \in Histories : Len(h) >= Connected
    \* Gmail's: a message that was deleted does not come back under its id.
    /\ \A h \in Histories : \A i, j \in 1..Len(h) : i < j /\ h[i].msg = h[j].msg => ~h[i].gone
    /\ MaxMishaps \in Nat
    /\ GoneStatus \subseteq {404, 410}

VARIABLES
    log,      \* the mailbox's history
    floor,    \* history before this is no longer served
    seen,     \* the newest entry of a message the mirror ever reflected
    state,    \* the person's row of sync_state
    resynced, \* where the history stood when the last full walk began
    queue,    \* tasks on the sync queue
    task,     \* what each worker is doing
    mishaps   \* failures, deaths, expiries and requests so far

mail == <<log, floor>>
vars == <<log, floor, seen, state, resynced, queue, task, mishaps>>

Kind == {"pass", "full", "backfill"}

\* What a message is in the mailbox: the position of its last entry, 0 once it
\* went away or before it came.
Entries(m, lo, hi) == {i \in lo..hi : log[i].msg = m}
Version(m) ==
    LET last == Max(Entries(m, 1, Len(log)) \cup {0})
    IN IF last = 0 \/ log[last].gone THEN 0 ELSE last
InBox == {m \in Msg : Version(m) # 0}

Idle == [at |-> "idle"]
NoBatch == [m \in {} |-> 0]

Init ==
    /\ log \in {SubSeq(h, 1, Connected) : h \in Histories}
    /\ floor = 0
    /\ seen = [m \in Msg |-> 0]
    /\ state = [history |-> 0, page |-> 0, failures |-> 0, open |-> FALSE,
                walked |-> {}, complete |-> FALSE]
    /\ resynced = Connected
    /\ queue = {"pass"}
    /\ task = [s \in Slot |-> Idle]
    /\ mishaps = 0

Mishap ==
    /\ mishaps < MaxMishaps
    /\ mishaps' = mishaps + 1

-----------------------------------------------------------------------------
(* The mailbox.                                                            *)

\* A message arrives, is relabelled or goes away.
Change ==
    /\ \E h \in Histories :
          /\ IsStrictPrefix(log, h)
          /\ log' = SubSeq(h, 1, Len(log) + 1)
    /\ UNCHANGED <<floor, seen, state, resynced, queue, task, mishaps>>

\* Gmail drops the history it has kept long enough.
Forget ==
    /\ Mishap
    /\ floor' = Len(log)
    /\ UNCHANGED <<log, seen, state, resynced, queue, task>>

-----------------------------------------------------------------------------
(* What puts a task on the queue.                                          *)

\* Beat fans out to every connected person whose circuit is shut.
Beat ==
    /\ ~state.open
    /\ "pass" \notin queue
    /\ IF \A s \in Slot : task[s].at = "idle" \/ task[s].kind = "backfill"
       THEN UNCHANGED mishaps
       ELSE Mishap
    /\ queue' = queue \cup {"pass"}
    /\ UNCHANGED <<mail, seen, state, resynced, task>>

\* POST /sync/trigger.
Trigger(k) ==
    /\ ~state.open
    /\ k \notin queue
    /\ Mishap
    /\ queue' = queue \cup {k}
    /\ UNCHANGED <<mail, seen, state, resynced, task>>

\* circuit_open_until passes.
Elapse ==
    /\ state.open
    /\ state' = [state EXCEPT !.open = FALSE]
    /\ UNCHANGED <<mail, seen, resynced, queue, task, mishaps>>

-----------------------------------------------------------------------------
(* One task.  It reads sync_state once, at its start.                      *)

At(s, place) == task[s].at = place
Rest(s) == task' = [task EXCEPT ![s] = Idle]

\* Workers are alike: it does not matter which of the idle ones takes it.
Free == IF \E s \in Slot : At(s, "idle")
        THEN CHOOSE s \in Slot : At(s, "idle") ELSE "none"

\* Mutant: the count is asked, not whether the circuit has been shut again.
Skips_ByFailures(k) == state.failures >= CircuitAfter \/ (k = "backfill" /\ state.complete)

Skips(k) == state.open \/ (k = "backfill" /\ state.complete)

Skip(k) ==
    /\ k \in queue
    /\ Skips(k)
    /\ \E s \in Slot : s = Free
    /\ queue' = queue \ {k}
    /\ UNCHANGED <<mail, seen, state, resynced, task, mishaps>>

Entry(k) ==
    CASE k = "backfill" -> "walk"
      [] k = "full" \/ (k = "pass" /\ state.history = 0) -> "profile"
      [] OTHER -> "list"

Start(s, k) ==
    /\ k \in queue
    /\ s = Free
    /\ ~Skips(k)
    /\ queue' = queue \ {k}
    /\ task' = [task EXCEPT ![s] =
          LET listing == Entry(k) = "list"
          IN [at |-> Entry(k), kind |-> k, mode |-> Entry(k), latest |-> 0,
              start |-> IF listing THEN state.history ELSE 0,
              page |-> IF listing THEN state.page ELSE 0,
              walked |-> IF k = "backfill" THEN state.walked ELSE {},
              whole |-> k = "backfill" \/ state.complete,
              done |-> 0, more |-> FALSE, gone |-> {}, batch |-> NoBatch]]
    /\ UNCHANGED <<mail, seen, state, resynced, mishaps>>

\* _full_resync takes the mailbox's history id before it walks.
Profile(s) ==
    /\ At(s, "profile")
    /\ task' = [task EXCEPT ![s] = [@ EXCEPT !.at = "walk", !.mode = "profile", !.latest = Len(log)]]
    /\ UNCHANGED <<mail, seen, state, resynced, queue, mishaps>>

\* messages.get for a page: a message gone by now is left out, and is no
\* failure.
Fetched(refs) == [m \in refs \cap InBox |-> Version(m)]

\* A page of history.list: what it touched, split into changed and deleted.
ListHistory(s) ==
    LET t == task[s]
        from == IF t.page = 0 THEN t.start ELSE t.page
        upto == Min({from + Page, Len(log)})
        gone == {m \in Msg : \E i \in Entries(m, from + 1, upto) : log[i].gone}
        changed == {m \in Msg : Entries(m, from + 1, upto) # {}} \ gone
    IN /\ At(s, "list")
       /\ t.start >= floor
       /\ task' = [task EXCEPT ![s] = [@ EXCEPT
              !.at = "commit", !.gone = gone, !.batch = Fetched(changed),
              !.latest = Len(log), !.done = t.done + 1,
              !.page = IF upto < Len(log) THEN upto ELSE 0]]
       /\ UNCHANGED <<mail, seen, state, resynced, queue, mishaps>>

\* A page of messages.list, of one message; walked stands for the page token.
WalkPage(s) ==
    LET t == task[s]
        left == InBox \ t.walked
    IN /\ At(s, "walk")
       /\ \E m \in left :
             task' = [task EXCEPT ![s] = [@ EXCEPT
                 !.at = "commit", !.batch = Fetched({m}), !.walked = t.walked \cup {m},
                 !.done = t.done + 1, !.more = left # {m}]]
       /\ UNCHANGED <<mail, seen, state, resynced, queue, mishaps>>

WalkEmpty(s) ==
    /\ At(s, "walk")
    /\ InBox \subseteq task[s].walked
    /\ task' = [task EXCEPT ![s] = [@ EXCEPT !.at = "mark", !.more = FALSE]]
    /\ UNCHANGED <<mail, seen, state, resynced, queue, mishaps>>

\* Whether a pass asks for another page before it moves the cursor.
Continues(t) ==
    IF t.mode = "list" THEN t.page # 0 /\ t.done < MaxPages
                       ELSE t.more /\ t.done < Limit

\* One transaction: the messages fetched, then the deletes.
Commit(s) ==
    LET t == task[s]
        fresh == DOMAIN t.batch \ t.gone
    IN /\ At(s, "commit")
       /\ seen' = [m \in Msg |-> CASE m \in t.gone -> Max(Entries(m, 1, Len(log)))
                                   [] m \in fresh -> Max({seen[m], t.batch[m]})
                                   [] OTHER -> seen[m]]
       /\ task' = [task EXCEPT ![s] = [@ EXCEPT
              !.at = IF ~Continues(t) THEN "mark"
                     ELSE IF t.mode = "list" THEN "list" ELSE "walk",
              !.gone = {}, !.batch = NoBatch,
              !.done = IF Continues(t) THEN t.done ELSE 0,
              !.walked = IF t.kind = "backfill" \/ Continues(t) THEN t.walked ELSE {}]]
       /\ UNCHANGED <<mail, state, resynced, queue, mishaps>>

-----------------------------------------------------------------------------
(* The end of a task.                                                      *)

Clean(st) == [st EXCEPT !.failures = 0, !.open = FALSE]

\* Mutant: a pass cut short by its page bound moves the cursor to the end.
NextCursor_DropsPage(t) == [history |-> t.latest, page |-> 0]

NextCursor(t) ==
    IF t.mode = "list" /\ t.page # 0
    THEN [history |-> t.start, page |-> t.page]
    ELSE [history |-> t.latest, page |-> 0]

\* mark_success, then the follow-up tasks: the rest of the pages, and the
\* backfill as long as it was not complete when this pass began.
MarkPass(s) ==
    LET t == task[s]
    IN /\ At(s, "mark")
       /\ t.mode # "walk"
       /\ state' = [Clean(state) EXCEPT !.history = NextCursor(t).history, !.page = NextCursor(t).page]
       /\ resynced' = IF t.mode = "profile" THEN Max({resynced, t.latest}) ELSE resynced
       /\ queue' = queue \cup (IF NextCursor(t).page # 0 THEN {"pass"} ELSE {})
                         \cup (IF t.whole THEN {} ELSE {"backfill"})
       /\ Rest(s)
       /\ UNCHANGED <<mail, seen, mishaps>>

\* Mutant: the first bounded walk is taken for the whole backfill.
MarkBackfill_OneWalk(s) ==
    /\ At(s, "mark")
    /\ task[s].mode = "walk"
    /\ state' = [state EXCEPT !.walked = {}, !.complete = TRUE]
    /\ Rest(s)
    /\ UNCHANGED <<mail, seen, resynced, queue, mishaps>>

\* set_backfill, then the next link of the chain.
MarkBackfill(s) ==
    LET t == task[s]
    IN /\ At(s, "mark")
       /\ t.mode = "walk"
       /\ state' = IF t.more THEN [state EXCEPT !.walked = t.walked]
                   ELSE [state EXCEPT !.walked = {}, !.complete = TRUE]
       /\ queue' = queue \cup (IF t.more THEN {"backfill"} ELSE {})
       /\ Rest(s)
       /\ UNCHANGED <<mail, seen, resynced, mishaps>>

\* mark_failure counts it in a transaction of its own; a failure a retry can
\* fix puts the message back until its retries are used up.
Failed(s, again) ==
    /\ state' = [state EXCEPT !.failures = Min({@ + 1, CircuitAfter}),
                              !.open = state.failures + 1 >= CircuitAfter]
    /\ queue' = IF again THEN queue \cup {task[s].kind} ELSE queue
    /\ Rest(s)

Fail(s, again) ==
    /\ task[s].at \in {"profile", "list", "walk"}
    /\ Mishap
    /\ Failed(s, again)
    /\ UNCHANGED <<mail, seen, resynced>>

\* Gmail no longer keeps the history asked for.  A 410 turns the pass into a
\* full walk; a 404 is a failure like any other, and not one to retry.
HistoryGone(s, status) ==
    /\ At(s, "list")
    /\ task[s].start < floor
    /\ IF status = 410
       THEN task' = [task EXCEPT ![s] = [@ EXCEPT !.at = "profile"]] /\ UNCHANGED <<state, queue>>
       ELSE Failed(s, FALSE)
    /\ UNCHANGED <<mail, seen, resynced, mishaps>>

\* acks_late: the message of a worker that died is delivered again.
Crash(s) ==
    /\ ~At(s, "idle")
    /\ Mishap
    /\ Rest(s)
    /\ queue' = queue \cup {task[s].kind}
    /\ UNCHANGED <<mail, seen, state, resynced>>

-----------------------------------------------------------------------------

Proceed(s) ==
    \/ Profile(s) \/ ListHistory(s) \/ WalkPage(s) \/ WalkEmpty(s) \/ Commit(s)
    \/ MarkPass(s) \/ MarkBackfill(s)
    \/ \E status \in GoneStatus : HistoryGone(s, status)

Next ==
    \/ Change \/ Forget \/ Beat \/ Elapse
    \/ \E k \in Kind : Skip(k)
    \/ \E k \in {"full", "backfill"} : Trigger(k)
    \/ \E s \in Slot :
          \/ Proceed(s) \/ Crash(s)
          \/ \E k \in Kind : Start(s, k)
          \/ \E again \in BOOLEAN : Fail(s, again)

Spec == Init /\ [][Next]_vars

\* Beat keeps its schedule, workers keep working and the queue is first in,
\* first out: a message that waits is taken in the end, whatever else arrives.
Fairness ==
    /\ WF_vars(Beat) /\ WF_vars(Elapse)
    /\ \A s \in Slot : WF_vars(Proceed(s))
    /\ \A k \in Kind : SF_vars(Skip(k) \/ \E s \in Slot : Start(s, k))

FairSpec == Spec /\ Fairness

-----------------------------------------------------------------------------
(* Properties.                                                             *)

Position == 0..Len(log)

\* The variables hold what the code stores: rows and versions of messages, one
\* row of sync_state, tasks on the queue and tasks at work (sync_gmail.py).
TypeOK ==
    /\ seen \in [Msg -> Position]
    /\ state.history \in Position /\ state.page \in Position
    /\ state.walked \subseteq Msg
    /\ queue \subseteq Kind
    /\ \A s \in Slot : task[s].at \in
          {"idle", "profile", "list", "walk", "commit", "mark"}

\* A crash reprocesses a page and never skips one (sync_gmail.py:17-18): what
\* happened up to the stored history id, since the last full walk began, has
\* reached the mirror, through crashes, retries, passes cut short by their page
\* bound and passes that overlap.  A message deleted since may be left to the
\* entry that deletes it.
NothingSkipped ==
    \A m \in Msg :
        \A i \in Entries(m, resynced + 1, state.history) :
            \/ seen[m] >= i
            \/ \E j \in Entries(m, state.history + 1, Len(log)) : log[j].gone

\* backfill_complete is the end of a chain of bounded walks, each of which may
\* fail, be repeated or run beside another (_backfill): once it is set, every
\* message that was there on connecting and still is has been copied.
BackfillIsWhole ==
    state.complete =>
        \A m \in InBox : Entries(m, 1, Connected) # {} => seen[m] # 0

CaughtUp == state.history = Len(log) /\ state.page = 0 /\ state.complete

\* Once the mailbox is quiet the cursor comes to stand at its end, no page is left over
\* and the backfill is complete: failures, an open circuit and a history that has
\* expired only delay it (_run, mark_failure, _full_resync), unless Gmail answers for
\* that history with a 404 time and again.
CatchesUp ==
    \/ []<><<\E s \in Slot : HistoryGone(s, 404)>>_vars
    \/ <>[]CaughtUp

\* Not a property of this code: history_list says that "a 404 or 410 here means the
\* history id is older than Gmail keeps" (services/gmail.py:697); a pass falls back on a
\* full walk after a 410 only.
AlwaysCatchesUp == <>[]CaughtUp
=============================================================================
