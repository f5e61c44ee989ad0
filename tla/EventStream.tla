----------------------------- MODULE EventStream ---------------------------
(***************************************************************************)
(* The events of one run on their way to one browser tab.                  *)
(* Source: orchestrator/events.py (publishers, buffer, subscription),      *)
(* api/v1/query.py and api/v1/events.py (the two carriers), and the client *)
(* in frontend/src/lib/sse.ts and useRun.ts.                               *)
(*                                                                         *)
(* A publisher takes a number from Redis and then, in one transaction,     *)
(* sends the event to whoever is subscribed and appends it to the buffer.  *)
(* A subscription relays the buffer and then what it hears; the tab        *)
(* applies, drops or repairs by the number.  What an event says is left    *)
(* out, save whether it is a run.complete, and for a paused or an ended    *)
(* run.                                                                    *)
(***************************************************************************)
EXTENDS Naturals, Sequences

CONSTANTS
    Run,         \* the publisher that is the run itself
    Other,       \* publishers beside it: steps at work, a worker, a card's request
    Events,      \* plain events of a stretch of the run, and of each other publisher
    Cap, Slack,  \* BUFFER_SIZE, and what XADD's approximate trimming may leave over it
    MaxRetries,  \* reconnects of the client in a row
    MaxRepairs,  \* repairs of a gap by one stream of the client
    MaxFaults,   \* failures of Redis, of its pub/sub or of a connection
    MaxForget,   \* 1: the buffer's keys may expire, 2: the counter's as well
    MaxTabs      \* reloads of the page

ASSUME StreamAssumption ==
    /\ Run \notin Other
    /\ {Events, Slack, MaxRetries, MaxRepairs, MaxFaults, MaxForget, MaxTabs} \subseteq Nat
    /\ Cap \in Nat \ {0}

VARIABLES
    phase,    \* runs.status, with the two stretches of a run that asks told apart
    left,     \* the plain events each publisher has yet to send
    owed,     \* the event a publisher has numbered and not yet sent
    seqno,    \* the counter seq:run
    buffer,   \* the stream buf:run
    server,   \* the subscription behind the tab's connection
    pipe,     \* frames between the server and the tab
    tab,      \* the client: RunStream or the POST's reader, and the hook around it
    sent,     \* history: what each number was given to
    holes,    \* whether the buffer was ever appended to out of sequence
    missed,   \* messages pub/sub dropped, and first readings of the buffer that failed
    faults, forgot, reloads

vars == <<phase, left, owed, seqno, buffer, server, pipe, tab, sent, holes, missed,
          faults, forgot, reloads>>

Publisher == {Run} \cup Other
Nothing == [seq |-> 0, kind |-> "none"]
Terminal == {"paused", "over"}   \* run.complete, by the status it carries

Running == phase \in {"first", "second"}
Shown == IF Running THEN "running" ELSE phase

\* at: where subscribe stands; todo: what is left of the last reading of the buffer.
Silent == [at |-> "off", seen |-> 0, heard |-> <<>>, todo |-> <<>>]
Opened(last) == [at |-> "start", seen |-> last, heard |-> <<>>, todo |-> <<>>]

Init ==
    /\ phase = "first"
    /\ left = [p \in Publisher |-> Events]
    /\ owed = [p \in Publisher |-> Nothing]
    /\ seqno = 0 /\ buffer = <<>> /\ sent = <<>>
    /\ server = Opened(0) /\ pipe = <<>>
    /\ tab = [carrier |-> "post", conn |-> "open", why |-> "none", last |-> 0,
              applied |-> <<>>, gapped |-> FALSE, repairs |-> 0, retries |-> 0,
              shows |-> "running", attached |-> FALSE, fetching |-> FALSE]
    /\ holes = FALSE /\ missed = 0
    /\ faults = 0 /\ forgot = 0 /\ reloads = 0

Fault == faults < MaxFaults /\ faults' = faults + 1

---------------------------------------------------------------------------
(* Publishing *)

Number(p, kind) ==
    /\ owed[p] = Nothing
    /\ seqno' = seqno + 1
    /\ owed' = [owed EXCEPT ![p] = [seq |-> seqno + 1, kind |-> kind]]
    /\ sent' = Append(sent, kind)
    /\ UNCHANGED <<buffer, server, pipe, tab, holes, missed, faults, forgot, reloads>>

Emit(p) ==
    /\ left[p] > 0
    /\ p = Run => Running
    /\ left' = [left EXCEPT ![p] = @ - 1]
    /\ Number(p, "event")
    /\ UNCHANGED phase

\* The status is committed before the event that tells of it is numbered.
Settle(kind) ==
    /\ Running /\ left[Run] = 0
    /\ kind = "paused" => phase = "first"
    /\ phase' = IF kind = "paused" THEN "waiting" ELSE "over"
    /\ Number(Run, kind)
    /\ UNCHANGED left

LastSeq == IF buffer = <<>> THEN 0 ELSE buffer[Len(buffer)].seq

Kept(log) ==
    {SubSeq(log, Len(log) - n + 1, Len(log)) :
        n \in IF Len(log) <= Cap THEN {Len(log)}
              ELSE {m \in Cap..(Cap + Slack) : m <= Len(log)}}

Hears == server.at \in {"replay", "live"}

Push(p) ==
    /\ owed[p] # Nothing
    /\ server' = IF Hears THEN [server EXCEPT !.heard = Append(@, owed[p])] ELSE server
    /\ buffer' \in Kept(Append(buffer, owed[p]))
    /\ holes' = (holes \/ owed[p].seq # LastSeq + 1)
    /\ owed' = [owed EXCEPT ![p] = Nothing]
    /\ UNCHANGED <<phase, left, seqno, pipe, tab, sent, missed, faults, forgot, reloads>>

\* publish never raises: the event is gone, and its number with it.
Lose(p) ==
    /\ owed[p] # Nothing /\ Fault
    /\ owed' = [owed EXCEPT ![p] = Nothing]
    /\ UNCHANGED <<phase, left, seqno, buffer, server, pipe, tab, sent, holes, missed, forgot, reloads>>

Quiet == ~Running /\ \A p \in Publisher : owed[p] = Nothing

\* The buffer lives fifteen minutes after the last event, the counter an hour.
Forget ==
    /\ Quiet /\ forgot < MaxForget /\ seqno > 0
    /\ forgot' = forgot + 1
    /\ buffer' = <<>>
    /\ seqno' = IF forgot = 0 THEN seqno ELSE 0
    /\ UNCHANGED <<phase, left, owed, server, pipe, tab, sent, holes, missed, faults, reloads>>

---------------------------------------------------------------------------
(* The subscription *)

\* replay: at most BUFFER_SIZE entries, from the oldest.  What is older than the caller
\* asked for is passed over, here by the loop that relays.
Replay == SubSeq(buffer, 1, IF Len(buffer) < Cap THEN Len(buffer) ELSE Cap)

New(log) == {k \in DOMAIN log : log[k].seq > server.seen}

source == <<phase, left, owed, seqno, buffer, tab, sent, holes, forgot, reloads>>

\* One message goes to the tab; a run.complete is the last.
Relay(m, todo, heard) ==
    /\ pipe' = Append(pipe, m)
    /\ server' = IF m.kind \in Terminal THEN Silent
                 ELSE [server EXCEPT !.seen = m.seq, !.todo = todo, !.heard = heard]
    /\ UNCHANGED <<source, missed, faults>>

Reading(at) == server' = [server EXCEPT !.at = at, !.todo = Replay]

\* Mutant: the buffer is read first, and what comes before the subscription is missed.
Join_ReplayFirst ==
    /\ \/ server.at = "start" /\ Reading("late")
       \/ server.at = "late" /\ New(server.todo) = {} /\ server' = [server EXCEPT !.at = "live"]
    /\ UNCHANGED <<source, pipe, missed, faults>>

\* Subscribe, and read the buffer after that.  Without pub/sub the buffer is polled.
Join ==
    /\ \/ server.at = "start" /\ server' = [server EXCEPT !.at = "replay"] /\ UNCHANGED faults
       \/ server.at = "start" /\ server' = [server EXCEPT !.at = "unheard"] /\ Fault
       \/ server.at = "replay" /\ Reading("live") /\ UNCHANGED faults
       \/ server.at = "unheard" /\ Reading("poll") /\ UNCHANGED faults
    /\ UNCHANGED <<source, pipe, missed>>

\* A reading that fails gives nothing.  All but this one are soon made again.
ReplayFails ==
    /\ server.at = "replay" /\ Fault
    /\ server' = [server EXCEPT !.at = "live"]
    /\ missed' = missed + 1
    /\ UNCHANGED <<source, pipe>>

\* The next of what was read that the tab has not been sent.
PassOn ==
    \E k \in New(server.todo) :
        /\ \A j \in New(server.todo) : k <= j
        /\ Relay(server.todo[k], SubSeq(server.todo, k + 1, Len(server.todo)), server.heard)

Waiting == server.at \in {"live", "poll"} /\ New(server.todo) = {}

Hear ==
    /\ server.at = "live" /\ Waiting /\ server.heard # <<>>
    /\ LET m == Head(server.heard) IN
       \/ m.seq > server.seen /\ Relay(m, <<>>, Tail(server.heard))
       \/ /\ m.seq <= server.seen
          /\ server' = [server EXCEPT !.heard = Tail(@)]
          /\ UNCHANGED <<source, pipe, missed, faults>>

\* A quiet tick of the live loop and a turn of the polling loop read the buffer.
Tick ==
    /\ Waiting /\ server.heard = <<>> /\ New(Replay) # {}
    /\ Reading(server.at)
    /\ UNCHANGED <<source, pipe, missed, faults>>

Gone == server' = Silent /\ UNCHANGED <<source, pipe, missed>>

\* Five minutes without an event.
IdleOut ==
    /\ Waiting /\ server.heard = <<>>
    /\ Quiet
    /\ server.at = "poll" => New(Replay) = {}
    /\ Gone /\ UNCHANGED faults

\* get_message raises: the subscription ends.
Dropped == server.at = "live" /\ Waiting /\ Fault /\ Gone

\* Pub/sub promises nothing.
GoUnheard ==
    /\ server.heard # <<>> /\ Fault
    /\ server' = [server EXCEPT !.heard = Tail(@)]
    /\ missed' = missed + 1
    /\ UNCHANGED <<source, pipe>>

---------------------------------------------------------------------------
(* The tab *)

world == <<left, owed, seqno, buffer, sent, holes, missed, forgot>>

\* A new RunStream, from the event after the last one applied.
Attach(t) == [t EXCEPT !.carrier = "sse", !.conn = "opening", !.why = "none",
                       !.repairs = 0, !.retries = 0]

Close(t, why) == [t EXCEPT !.conn = "none", !.why = why, !.fetching = TRUE]

Retry(t) ==
    IF t.retries >= MaxRetries THEN Close(t, "exhausted")
    ELSE [t EXCEPT !.conn = "opening", !.retries = @ + 1]

Verdict_SkipsGap(seq) == IF seq <= tab.last THEN "drop" ELSE "apply"

\* SeqTracker.check
Verdict(seq) ==
    IF seq <= tab.last THEN "drop" ELSE IF seq > tab.last + 1 THEN "gap" ELSE "apply"

Applied(m) == [tab EXCEPT !.last = m.seq, !.applied = Append(@, m), !.attached = TRUE]

Finished(m) ==
    [Close(Applied(m), "complete") EXCEPT !.shows = IF m.kind = "paused" THEN "waiting" ELSE "over"]

\* The POST's reader stops at a gap and hands over to a RunStream; a RunStream
\* opens anew, up to MaxRepairs times.
Repaired ==
    LET t == [tab EXCEPT !.gapped = TRUE, !.fetching = TRUE] IN
    IF tab.carrier = "post" THEN Attach(t)
    ELSE IF tab.repairs >= MaxRepairs THEN Close(t, "expired")
    ELSE [t EXCEPT !.repairs = @ + 1, !.conn = "opening"]

HangUp == server' = Silent /\ pipe' = <<>>

Receive ==
    /\ tab.conn = "open" /\ pipe # <<>>
    /\ LET m == Head(pipe) IN
       \/ /\ Verdict(m.seq) = "drop"
          /\ pipe' = Tail(pipe) /\ UNCHANGED <<server, tab>>
       \/ /\ Verdict(m.seq) = "gap"
          /\ tab' = Repaired /\ HangUp
       \/ /\ Verdict(m.seq) = "apply" /\ m.kind \notin Terminal
          /\ tab' = Applied(m) /\ pipe' = Tail(pipe) /\ UNCHANGED server
       \/ /\ Verdict(m.seq) = "apply" /\ m.kind \in Terminal
          /\ tab' = Finished(m) /\ HangUp
    /\ UNCHANGED <<phase, world, faults, reloads>>

SeeEnd_SseOnly ==
    /\ tab.conn = "open" /\ pipe = <<>> /\ server.at = "off"
    /\ tab.carrier = "sse" /\ tab' = Retry(tab)
    /\ UNCHANGED <<phase, world, server, pipe, faults, reloads>>

\* The server has closed the stream.  The POST ends only with the run.
SeeEnd ==
    /\ tab.conn = "open" /\ pipe = <<>> /\ server.at = "off"
    /\ \/ tab.carrier = "sse" /\ tab' = Retry(tab)
       \/ /\ tab.carrier = "post" /\ ~Running /\ owed[Run] = Nothing
          /\ tab' = IF tab.last = 0 THEN Close(tab, "lost") ELSE Attach(tab)
    /\ UNCHANGED <<phase, world, server, pipe, faults, reloads>>

\* The connection breaks.  Reading the POST's body raises, and nobody attaches.
Break ==
    /\ tab.conn = "open" /\ Fault
    /\ tab' = IF tab.carrier = "sse" THEN Retry(tab) ELSE Close(tab, "lost")
    /\ HangUp
    /\ UNCHANGED <<phase, world, reloads>>

Open ==
    /\ tab.conn = "opening"
    /\ \/ /\ tab' = [tab EXCEPT !.conn = "open", !.retries = 0]
          /\ server' = Opened(tab.last) /\ pipe' = <<>> /\ UNCHANGED faults
       \/ Fault /\ tab' = Retry(tab) /\ UNCHANGED <<server, pipe>>
    /\ UNCHANGED <<phase, world, reloads>>

\* refetch reads the durable record, and follows a run it is not attached to.
Fetch ==
    /\ tab.fetching
    /\ LET t == [tab EXCEPT !.fetching = FALSE, !.shows = Shown] IN
       IF Running /\ ~tab.attached
       THEN tab' = [Attach(t) EXCEPT !.attached = TRUE] /\ HangUp
       ELSE tab' = t /\ UNCHANGED <<server, pipe>>
    /\ UNCHANGED <<phase, world, faults, reloads>>

\* The person answers the card: the run resumes and the tab follows it.
Answer ==
    /\ phase = "waiting" /\ tab.shows = "waiting"
    /\ phase' = "second"
    /\ left' = [left EXCEPT ![Run] = Events]
    /\ tab' = [Attach(tab) EXCEPT !.attached = TRUE] /\ HangUp
    /\ UNCHANGED <<owed, seqno, buffer, sent, holes, missed, forgot, faults, reloads>>

Reload ==
    /\ reloads < MaxTabs /\ reloads' = reloads + 1
    /\ tab' = [carrier |-> "sse", conn |-> "none", why |-> "none", last |-> 0,
               applied |-> <<>>, gapped |-> FALSE, repairs |-> 0, retries |-> 0,
               shows |-> "nothing", attached |-> FALSE, fetching |-> TRUE]
    /\ HangUp
    /\ UNCHANGED <<phase, world, faults>>

---------------------------------------------------------------------------
Publish ==
    \/ \E p \in Publisher : Emit(p) \/ Push(p) \/ Lose(p)
    \/ \E kind \in Terminal : Settle(kind)

Next ==
    \/ Publish \/ Forget
    \/ Join \/ PassOn \/ Hear \/ Tick \/ IdleOut \/ Dropped \/ GoUnheard \/ ReplayFails
    \/ Receive \/ SeeEnd \/ Break \/ Open \/ Fetch \/ Answer \/ Reload

Spec == Init /\ [][Next]_vars

\* Each process goes on; nothing is asked of a person, a fault or a clock's hour.
Fairness ==
    /\ \A p \in Other : WF_vars(Emit(p) \/ Push(p))
    /\ WF_vars(Emit(Run) \/ Push(Run) \/ \E kind \in Terminal : Settle(kind))
    /\ WF_vars(Join \/ PassOn \/ Hear \/ Tick \/ IdleOut)
    /\ WF_vars(Receive \/ SeeEnd \/ Open)
    /\ WF_vars(Fetch)

FairSpec == Spec /\ Fairness

---------------------------------------------------------------------------
Kinds == Terminal \cup {"event"}
Messages == [seq : Nat \ {0}, kind : Kinds]

Subscription ==
    [at : {"off", "start", "replay", "unheard", "live", "poll"}, seen : Nat,
     heard : Seq(Messages), todo : Seq(Messages)]

Client ==
    [carrier : {"post", "sse"}, conn : {"none", "opening", "open"},
     why : {"none", "complete", "expired", "exhausted", "lost"},
     last : Nat, applied : Seq(Messages), gapped : BOOLEAN, repairs : 0..MaxRepairs,
     retries : 0..MaxRetries, shows : {"nothing", "running", "waiting", "over"},
     attached : BOOLEAN, fetching : BOOLEAN]

\* The shape of the state.
TypeOK ==
    /\ phase \in {"first", "waiting", "second", "over"}
    /\ left \in [Publisher -> 0..Events] /\ owed \in [Publisher -> Messages \cup {Nothing}]
    /\ seqno \in Nat /\ sent \in Seq(Kinds)
    /\ buffer \in Seq(Messages) /\ Len(buffer) <= Cap + Slack
    /\ server \in Subscription /\ pipe \in Seq(Messages) /\ tab \in Client
    /\ server.at \notin {"replay", "live"} => server.heard = <<>>
    /\ server.at \notin {"live", "poll"} => server.todo = <<>>
    /\ holes \in BOOLEAN /\ missed \in Nat
    /\ faults \in 0..MaxFaults /\ forgot \in 0..MaxForget /\ reloads \in 0..MaxTabs

\* A stream that closes as complete has applied every event of the run up to its
\* run.complete, each as it was numbered, once and in order, whatever was sent twice,
\* lost on the way, replayed or reconnected (content.delta appends: events.py, sse.ts).
CompleteIsWhole ==
    tab.why = "complete" /\ forgot < 2 =>
        /\ Len(tab.applied) = tab.last /\ tab.last \in 1..Len(sent)
        /\ \A i \in 1..tab.last : tab.applied[i] = [seq |-> i, kind |-> sent[i]]
        /\ sent[tab.last] \in Terminal

\* The buffer no longer begins with the first event, or is longer than a replay reads.
Trimmed == buffer # <<>> /\ buffer[1].seq > 1
Overfull == Len(buffer) > Cap

\* What makes a replay from the buffer inexact.
Damaged == holes \/ Trimmed \/ Overfull \/ forgot > 0

\* Between a replay and the live channel nothing falls: the tab sees a gap only
\* when the publisher lost an event or sent two out of order, pub/sub dropped one or
\* the replay failed, or the tab is behind the buffer (subscribe before replay).  And
\* a replay is exact inside the window: the tab gives a stream up as expired only when
\* the buffer is damaged, or more was missed than the tab repairs.
GapNeedsFault ==
    /\ tab.gapped => Damaged \/ missed > 0
    /\ tab.why = "expired" => Damaged \/ missed > MaxRepairs

\* "The last 500 events ...  Inside that window a replay is exact" (events.py): a tab that
\* has all but the last Cap events does not give the stream up.
WindowIsExact ==
    tab.why = "expired" =>
        holes \/ forgot > 0 \/ missed > MaxRepairs \/ tab.last < LastSeq - Cap

\* Once the end of the run can be read from the buffer, no tab follows it for
\* ever: it applies the end, or gives up and reads the durable record.
StreamSettles ==
    (\E i \in DOMAIN Replay : Replay[i].kind = "over")
        ~> (tab.conn = "none" /\ ~tab.fetching) \/ forgot > 0

\* A person who answers a card, or reopens the page meanwhile, sees how the run
\* ends: subscribing "is what turns the frozen Working back into live tool calls"
\* (useRun.ts), for a resumed run as for a new one.
ResumeIsFollowed == phase = "second" ~> tab.shows = "over"
============================================================================
