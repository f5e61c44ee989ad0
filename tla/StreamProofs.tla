---------------------------- MODULE StreamProofs ---------------------------
(***************************************************************************)
(* What is proved of EventStream, for any number of publishers, events,    *)
(* faults, retries and reloads, and any size of buffer.                    *)
(*                                                                         *)
(* Every message on its way is the event that was given its number, and    *)
(* what the tab applied is the events from 1 on (Numbered, InTurn).  As    *)
(* long as the buffer is whole, what is in the pipe, what was read of the  *)
(* buffer and what was heard of the channel join without a seam (Seamless) *)
(* unless more was missed than was repaired (Excused).                     *)
(***************************************************************************)
EXTENDS EventStream, SequenceTheorems, TLAPS

\* m is the event that was given its number.
Given(s, m) == m.seq \in 1..Len(s) /\ m = [seq |-> m.seq, kind |-> s[m.seq]]
Genuine(m) == Given(sent, m)
AllGenuine(log) == \A i \in 1..Len(log) : Genuine(log[i])

Numbered ==
    /\ Len(sent) = seqno
    /\ \A p \in Publisher : owed[p] # Nothing => Genuine(owed[p])
    /\ AllGenuine(buffer) /\ AllGenuine(server.heard) /\ AllGenuine(server.todo)
    /\ AllGenuine(pipe) /\ AllGenuine(tab.applied)

InTurn ==
    /\ Len(tab.applied) = tab.last
    /\ \A i \in 1..tab.last : tab.applied[i].seq = i
    /\ tab.conn # "none" => tab.why = "none"
    /\ tab.why = "complete" => tab.last > 0 /\ tab.applied[tab.last].kind \in Terminal
    /\ tab.conn # "open" => pipe = <<>> /\ server.at = "off"

\* log holds the events from + 1, from + 2 and so on.
Row(log, from) == \A i \in 1..Len(log) : log[i].seq = from + i

BufferInTurn == ~holes /\ forgot = 0 /\ buffer # <<>> => Row(buffer, buffer[1].seq - 1)

\* Where the channel begins: before what was heard and is not yet looked at.
Joint == Len(buffer) - Len(server.heard)

Seamless ==
    /\ Row(pipe, tab.last)
    /\ server.at # "off" =>
        /\ server.seen = tab.last + Len(pipe)
        /\ Joint >= 0 /\ Row(server.heard, Joint)
        /\ server.todo # <<>> =>
              server.todo[1].seq <= server.seen + 1 /\ Row(server.todo, server.todo[1].seq - 1)
        /\ server.at = "live" =>
              \/ server.seen >= Joint
              \/ server.todo # <<>> /\ server.todo[Len(server.todo)].seq >= Joint

Excused ==
    ~Damaged =>
        /\ tab.repairs <= missed
        /\ Seamless \/ tab.repairs < missed
        /\ tab.gapped => missed > 0
        /\ tab.why = "expired" => missed > MaxRepairs

IInv == TypeOK /\ InTurn /\ BufferInTurn /\ Excused /\ (forgot < 2 => Numbered)

-----------------------------------------------------------------------------
(* The shape of the state.                                                 *)

LEMMA Numbers ==
    /\ Run \notin Other /\ Cap \in Nat \ {0} /\ Events \in Nat /\ Slack \in Nat
    /\ MaxRetries \in Nat /\ MaxRepairs \in Nat
    /\ MaxFaults \in Nat /\ MaxForget \in Nat /\ MaxTabs \in Nat
  BY StreamAssumption

LEMMA TabTypes ==
    ASSUME NEW t \in Client
    PROVE  /\ Attach(t) \in Client
           /\ \A why \in {"complete", "expired", "exhausted", "lost"} : Close(t, why) \in Client
           /\ Retry(t) \in Client
<1>1. Attach(t) \in Client
  <2>1. 0 \in 0..MaxRepairs /\ 0 \in 0..MaxRetries
    BY Numbers
  <2> QED
    BY <2>1 DEF Attach, Client
<1>2. ASSUME NEW why \in {"complete", "expired", "exhausted", "lost"}
      PROVE  Close(t, why) \in Client
  BY DEF Close, Client
<1>3. CASE t.retries >= MaxRetries
  BY <1>2, <1>1, <1>3 DEF Retry
<1>4. CASE ~(t.retries >= MaxRetries)
  <2>1. t.retries + 1 \in 0..MaxRetries
    BY <1>4, Numbers DEF Client
  <2> QED
    BY <1>1, <1>2, <1>4, <2>1 DEF Retry, Client
<1> QED
  BY <1>1, <1>2, <1>3, <1>4

LEMMA ServerTypes ==
    /\ Silent \in Subscription
    /\ \A last \in Nat : Opened(last) \in Subscription
<1>1. <<>> \in Seq(Messages)
  BY EmptySeq
<1> QED
  BY <1>1 DEF Silent, Opened, Subscription

\* Trimming leaves the newest entries, all of them as long as they fit.
LEMMA KeptIsSuffix ==
    ASSUME NEW log \in Seq(Messages), NEW rest \in Kept(log), Len(log) <= Cap + Slack + 1
    PROVE  /\ rest \in Seq(Messages) /\ Len(rest) <= Len(log) /\ Len(rest) <= Cap + Slack
           /\ \A i \in 1..Len(rest) : rest[i] = log[i + (Len(log) - Len(rest))]
           /\ IF Len(log) <= Cap THEN rest = log ELSE Len(rest) >= Cap
<1>0. Cap \in Nat \ {0} /\ Slack \in Nat /\ Len(log) \in Nat
  BY Numbers
<1>1. PICK n \in IF Len(log) <= Cap THEN {Len(log)}
                 ELSE {m \in Cap..(Cap + Slack) : m <= Len(log)} :
              rest = SubSeq(log, Len(log) - n + 1, Len(log))
  BY DEF Kept
<1>2. n \in 0..Len(log) /\ n <= Cap + Slack /\ (Len(log) <= Cap => n = Len(log))
      /\ (Len(log) > Cap => n >= Cap)
  BY <1>0
<1> DEFINE from == Len(log) - n + 1
<1>3. from \in Int /\ \A i \in from..Len(log) : log[i] \in Messages
  BY <1>0, <1>2, ElementOfSeq
<1>4. rest \in Seq(Messages) /\ Len(rest) = n /\ \A i \in 1..n : rest[i] = log[from + i - 1]
  BY <1>0, <1>1, <1>2, <1>3, SubSeqProperties
<1>5. ASSUME Len(log) <= Cap PROVE rest = log
  <2>1. Len(log) - n + 1 = 1
    BY <1>0, <1>2, <1>5
  <2>2. rest = SubSeq(log, 1, Len(log))
    BY <1>1, <2>1
  <2> QED
    BY <2>2, SubSeqFull
<1>6. ASSUME NEW i \in 1..Len(rest) PROVE rest[i] = log[i + (Len(log) - Len(rest))]
  <2>1. from + i - 1 = i + (Len(log) - Len(rest))
    BY <1>0, <1>2, <1>4
  <2> QED
    BY <1>4, <2>1
<1> QED
  BY <1>0, <1>2, <1>4, <1>5, <1>6

LEMMA ReplayTypes ==
    ASSUME TypeOK
    PROVE  /\ Replay \in Seq(Messages) /\ Len(Replay) <= Len(buffer)
           /\ \A i \in 1..Len(Replay) : Replay[i] = buffer[i]
           /\ Len(buffer) <= Cap => Len(Replay) = Len(buffer)
<1> DEFINE n == IF Len(buffer) < Cap THEN Len(buffer) ELSE Cap
<1>1. n \in 0..Len(buffer) /\ (Len(buffer) <= Cap => n = Len(buffer))
  BY Numbers DEF TypeOK
<1>2. \A i \in 1..n : buffer[i] \in Messages
  BY <1>1, ElementOfSeq DEF TypeOK
<1>3. Replay = SubSeq(buffer, 1, n)
  BY DEF Replay
<1> HIDE DEF n
<1> QED
  BY <1>1, <1>2, <1>3, SubSeqProperties

LEMMA FaultTypes == ASSUME TypeOK, Fault PROVE faults' \in 0..MaxFaults
  BY Numbers DEF TypeOK, Fault

LEMMA PublishTypes ==
    ASSUME TypeOK, Publish \/ Forget
    PROVE  TypeOK'
<1> USE DEF TypeOK
<1>1. ASSUME NEW p \in Publisher, NEW kind \in Kinds, Number(p, kind)
      PROVE  /\ owed' \in [Publisher -> Messages \cup {Nothing}]
             /\ seqno' \in Nat /\ sent' \in Seq(Kinds)
  <2>1. [seq |-> seqno + 1, kind |-> kind] \in Messages
    BY DEF Messages
  <2>2. sent' \in Seq(Kinds)
    BY <1>1, AppendProperties DEF Number
  <2> QED
    BY <1>1, <2>1, <2>2 DEF Number
<1>2. ASSUME NEW p \in Publisher, Emit(p) PROVE TypeOK'
  <2>1. Number(p, "event") /\ "event" \in Kinds
    BY <1>2 DEF Emit, Kinds
  <2>2. left' \in [Publisher -> 0..Events]
    BY <1>2, Numbers DEF Emit
  <2>3. UNCHANGED phase /\ UNCHANGED <<buffer, server, pipe, tab, holes, missed, faults, forgot, reloads>>
    BY <1>2, <2>1 DEF Emit, Number
  <2> QED
    BY <1>1, <2>1, <2>2, <2>3
<1>3. ASSUME NEW kind \in Terminal, Settle(kind) PROVE TypeOK'
  <2>1. Number(Run, kind) /\ kind \in Kinds /\ Run \in Publisher
    BY <1>3 DEF Settle, Kinds, Publisher
  <2>2. phase' \in {"waiting", "over"} /\ UNCHANGED left
    BY <1>3 DEF Settle
  <2>3. UNCHANGED <<buffer, server, pipe, tab, holes, missed, faults, forgot, reloads>>
    BY <2>1 DEF Number
  <2> QED
    BY <1>1, <2>1, <2>2, <2>3
<1>4. ASSUME NEW p \in Publisher, Push(p) PROVE TypeOK'
  <2>1. owed[p] \in Messages
    BY <1>4 DEF Push
  <2>2. server' \in Subscription /\ server'.at = server.at /\ server'.todo = server.todo
        /\ (~Hears => server'.heard = server.heard)
    <3>1. Append(server.heard, owed[p]) \in Seq(Messages)
      BY <2>1, AppendProperties DEF Subscription
    <3>2. CASE Hears
      BY <1>4, <3>1, <3>2 DEF Push, Subscription
    <3>3. CASE ~Hears
      BY <1>4, <3>3 DEF Push
    <3> QED
      BY <3>2, <3>3
  <2>3. /\ Append(buffer, owed[p]) \in Seq(Messages)
        /\ Len(Append(buffer, owed[p])) <= Cap + Slack + 1
    BY <2>1, AppendProperties, Numbers
  <2>4. buffer' \in Seq(Messages) /\ Len(buffer') <= Cap + Slack
    BY <1>4, <2>3, KeptIsSuffix DEF Push
  <2>5. owed' \in [Publisher -> Messages \cup {Nothing}] /\ holes' \in BOOLEAN
    BY <1>4 DEF Push
  <2> QED
    BY <1>4, <2>2, <2>4, <2>5 DEF Push, Hears
<1>5. ASSUME NEW p \in Publisher, Lose(p) PROVE TypeOK'
  <2>1. owed' \in [Publisher -> Messages \cup {Nothing}]
    BY <1>5 DEF Lose
  <2> QED
    BY <1>5, <2>1, FaultTypes DEF Lose
<1>6. CASE Forget
  <2>1. buffer' = <<>> /\ <<>> \in Seq(Messages) /\ Len(<<>>) = 0
    BY <1>6, EmptySeq DEF Forget
  <2>2. forgot' \in 0..MaxForget /\ seqno' \in Nat
    BY <1>6, Numbers DEF Forget
  <2> QED
    BY <1>6, <2>1, <2>2, Numbers DEF Forget
<1> QED
  BY <1>2, <1>3, <1>4, <1>5, <1>6 DEF Publish

LEMMA RelayTypes ==
    ASSUME TypeOK, server.at \in {"live", "poll"},
           NEW m \in Messages, NEW todo \in Seq(Messages), NEW heard \in Seq(Messages),
           server.at = "poll" => heard = <<>>,
           Relay(m, todo, heard)
    PROVE  TypeOK'
<1> USE DEF TypeOK
<1>1. pipe' \in Seq(Messages)
  BY AppendProperties DEF Relay
<1>2. /\ server' \in Subscription
      /\ server'.at \notin {"replay", "live"} => server'.heard = <<>>
      /\ server'.at \notin {"live", "poll"} => server'.todo = <<>>
  <2>1. CASE m.kind \in Terminal
    BY <2>1, ServerTypes DEF Relay, Silent
  <2>2. CASE m.kind \notin Terminal
    BY <2>2 DEF Relay, Subscription, Messages
  <2> QED
    BY <2>1, <2>2
<1> QED
  BY <1>1, <1>2 DEF Relay, source

\* What New finds is in the log.
LEMMA NewTypes ==
    ASSUME NEW log \in Seq(Messages)
    PROVE  New(log) = {k \in 1..Len(log) : log[k].seq > server.seen}
  BY LenProperties DEF New

LEMMA ServerStepTypes ==
    ASSUME TypeOK, Join \/ PassOn \/ Hear \/ Tick \/ IdleOut \/ Dropped \/ GoUnheard \/ ReplayFails
    PROVE  TypeOK'
<1> USE DEF TypeOK
<1>1. ASSUME NEW at \in {"live", "poll"}, server.at \in {"replay", "unheard", "live", "poll"},
             server.at \in {"unheard", "poll"} => at = "poll",
             server.at \in {"replay", "live"} => at = "live",
             Reading(at), UNCHANGED pipe
      PROVE  /\ server' \in Subscription
             /\ server'.at \notin {"replay", "live"} => server'.heard = <<>>
             /\ server'.at \notin {"live", "poll"} => server'.todo = <<>>
  BY <1>1, ReplayTypes DEF Reading, Subscription
<1>2. CASE Join
  <2>1. faults' \in 0..MaxFaults
    BY <1>2, FaultTypes DEF Join
  <2>2. /\ server' \in Subscription
        /\ server'.at \notin {"replay", "live"} => server'.heard = <<>>
        /\ server'.at \notin {"live", "poll"} => server'.todo = <<>>
    <3>1. CASE server.at = "start" /\ server' = [server EXCEPT !.at = "replay"]
      BY <3>1 DEF Subscription
    <3>2. CASE server.at = "start" /\ server' = [server EXCEPT !.at = "unheard"]
      BY <3>2 DEF Subscription
    <3>3. CASE server.at = "replay" /\ Reading("live")
      BY <1>1, <1>2, <3>3 DEF Join
    <3>4. CASE server.at = "unheard" /\ Reading("poll")
      BY <1>1, <1>2, <3>4 DEF Join
    <3> QED
      BY <1>2, <3>1, <3>2, <3>3, <3>4 DEF Join
  <2> QED
    BY <1>2, <2>1, <2>2 DEF Join, source
<1>3. CASE PassOn
  <2>1. PICK k \in New(server.todo) :
          Relay(server.todo[k], SubSeq(server.todo, k + 1, Len(server.todo)), server.heard)
    BY <1>3 DEF PassOn
  <2>2. server.todo \in Seq(Messages) /\ server.heard \in Seq(Messages)
    BY DEF Subscription
  <2>3. k \in 1..Len(server.todo) /\ Len(server.todo) \in Nat
    BY <2>1, <2>2, NewTypes
  <2>4. server.todo # <<>>
    BY <2>3, EmptySeq
  <2>5. server.todo[k] \in Messages
    BY <2>2, <2>3, ElementOfSeq
  <2>6. SubSeq(server.todo, k + 1, Len(server.todo)) \in Seq(Messages)
    <3>1. \A i \in k + 1 .. Len(server.todo) : server.todo[i] \in Messages
      BY <2>2, <2>3, ElementOfSeq
    <3> QED
      BY <2>3, <3>1, SubSeqProperties
  <2> QED
    BY <2>1, <2>2, <2>4, <2>5, <2>6, RelayTypes
<1>4. CASE Hear
  <2>1. server.heard \in Seq(Messages) /\ server.heard # <<>> /\ <<>> \in Seq(Messages)
    BY <1>4, EmptySeq DEF Hear, Subscription
  <2>2. Head(server.heard) \in Messages /\ Tail(server.heard) \in Seq(Messages)
    BY <2>1, HeadTailProperties
  <2>3. CASE Relay(Head(server.heard), <<>>, Tail(server.heard))
    BY <1>4, <2>1, <2>2, <2>3, RelayTypes DEF Hear
  <2>4. CASE /\ server' = [server EXCEPT !.heard = Tail(@)]
             /\ UNCHANGED <<source, pipe, missed, faults>>
    BY <1>4, <2>2, <2>4 DEF Hear, source, Subscription
  <2> QED
    BY <1>4, <2>3, <2>4 DEF Hear
<1>5. CASE Tick
  BY <1>1, <1>5 DEF Tick, Waiting, source
<1>6. CASE IdleOut \/ Dropped
  BY <1>6, ServerTypes, FaultTypes DEF IdleOut, Dropped, Gone, source, Silent
<1>7. CASE GoUnheard
  <2>1. server.heard \in Seq(Messages) /\ server.heard # <<>>
    BY <1>7 DEF GoUnheard, Subscription
  <2>2. Tail(server.heard) \in Seq(Messages)
    BY <2>1, HeadTailProperties
  <2>3. server' \in Subscription /\ server'.at = server.at /\ server'.todo = server.todo
    BY <1>7, <2>2 DEF GoUnheard, Subscription
  <2> QED
    BY <1>7, <2>1, <2>3, FaultTypes DEF GoUnheard, source
<1>8. CASE ReplayFails
  <2>1. server' \in Subscription /\ server'.at = "live" /\ server'.todo = server.todo
    BY <1>8 DEF ReplayFails, Subscription
  <2> QED
    BY <1>8, <2>1, FaultTypes DEF ReplayFails, source
<1> QED
  BY <1>2, <1>3, <1>4, <1>5, <1>6, <1>7, <1>8

-----------------------------------------------------------------------------
(* What the tab may do beside receiving: it keeps what it applied, and its *)
(* connection stays, is given up, or is a new one.                         *)

Keeps(t, u) ==
    /\ u \in Client /\ u.last = t.last /\ u.applied = t.applied
    /\ u.gapped = t.gapped /\ u.repairs \in {0, t.repairs}
    /\ u.conn # "none" => u.why = "none" \/ (u.why = t.why /\ t.conn # "none")
    /\ u.why \in {"none", "exhausted", "lost", t.why}

Carried ==
    \/ pipe' = pipe /\ server' = server /\ tab'.conn = tab.conn
    \/ tab'.conn # "open" /\ pipe' = <<>> /\ server'.at = "off"
    \/ tab'.conn = "open" /\ pipe' = <<>> /\ server' = Opened(tab.last)

LEMMA KeepsTypes ==
    ASSUME NEW t \in Client
    PROVE  /\ Keeps(t, Attach(t)) /\ Attach(t).conn = "opening" /\ Attach(t).repairs = 0
           /\ \A why \in {"exhausted", "lost"} : Keeps(t, Close(t, why)) /\ Close(t, why).conn = "none"
           /\ t.conn # "none" => Keeps(t, Retry(t))
           /\ Retry(t).conn \in {"none", "opening"}
<1>0. DOMAIN t = {"carrier", "conn", "why", "last", "applied", "gapped", "repairs",
                  "retries", "shows", "attached", "fetching"}
  BY DEF Client
<1>1. Keeps(t, Attach(t)) /\ Attach(t).conn = "opening" /\ Attach(t).repairs = 0
  <2> DEFINE u == [t EXCEPT !.carrier = "sse", !.conn = "opening", !.why = "none",
                            !.repairs = 0, !.retries = 0]
  <2>1. Attach(t) = u
    BY DEF Attach
  <2>2. /\ u.last = t.last /\ u.applied = t.applied /\ u.gapped = t.gapped
        /\ u.repairs = 0 /\ u.conn = "opening" /\ u.why = "none"
    BY <1>0
  <2>3. u \in Client
    BY <2>1, TabTypes
  <2> HIDE DEF u
  <2> QED
    BY <2>1, <2>2, <2>3 DEF Keeps
<1>2. ASSUME NEW why \in {"exhausted", "lost"}
      PROVE  Keeps(t, Close(t, why)) /\ Close(t, why).conn = "none"
  <2> DEFINE u == [t EXCEPT !.conn = "none", !.why = why, !.fetching = TRUE]
  <2>1. Close(t, why) = u
    BY DEF Close
  <2>2. /\ u.last = t.last /\ u.applied = t.applied /\ u.gapped = t.gapped
        /\ u.repairs = t.repairs /\ u.conn = "none" /\ u.why = why
    BY <1>0
  <2>3. u \in Client
    BY <2>1, TabTypes
  <2> HIDE DEF u
  <2> QED
    BY <2>1, <2>2, <2>3 DEF Keeps
<1>3. CASE t.retries >= MaxRetries
  BY <1>1, <1>2, <1>3 DEF Retry
<1>4. CASE ~(t.retries >= MaxRetries)
  <2> DEFINE u == [t EXCEPT !.conn = "opening", !.retries = @ + 1]
  <2>1. Retry(t) = u
    BY <1>4 DEF Retry
  <2>2. /\ u.last = t.last /\ u.applied = t.applied /\ u.gapped = t.gapped
        /\ u.repairs = t.repairs /\ u.conn = "opening" /\ u.why = t.why
    BY <1>0
  <2>3. u \in Client
    BY <2>1, TabTypes
  <2> HIDE DEF u
  <2>4. t.conn # "none" => Keeps(t, u)
    BY <2>2, <2>3 DEF Keeps
  <2> QED
    BY <1>1, <1>2, <2>1, <2>2, <2>4
<1> QED
  BY <1>1, <1>2, <1>3, <1>4

LEMMA KeepsAttached ==
    ASSUME NEW t, NEW u, Keeps(t, u)
    PROVE  LET v == [u EXCEPT !.attached = TRUE] IN Keeps(t, v) /\ v.conn = u.conn
<1> DEFINE v == [u EXCEPT !.attached = TRUE]
<1>1. u \in Client
  BY DEF Keeps
<1>2. v \in Client
  BY <1>1 DEF Client
<1>3. /\ v.last = u.last /\ v.applied = u.applied /\ v.gapped = u.gapped
      /\ v.repairs = u.repairs /\ v.conn = u.conn /\ v.why = u.why
  BY <1>1 DEF Client
<1> HIDE DEF v
<1>4. Keeps(t, v) /\ v.conn = u.conn
  BY <1>2, <1>3 DEF Keeps
<1> QED
  BY <1>4 DEF v

LEMMA ShownTypes == ASSUME TypeOK PROVE Shown \in {"running", "waiting", "over"}
  BY DEF TypeOK, Shown, Running

LEMMA TabSteps ==
    ASSUME TypeOK, InTurn, SeeEnd \/ Break \/ Open \/ Fetch \/ Answer
    PROVE  TypeOK' /\ Keeps(tab, tab') /\ Carried
<1> USE DEF TypeOK
<1>0. tab \in Client /\ Silent \in Subscription /\ <<>> \in Seq(Messages)
      /\ Silent.at = "off" /\ Silent.heard = <<>> /\ Silent.todo = <<>>
  BY ServerTypes, EmptySeq DEF Silent
<1>1. ASSUME Keeps(tab, tab') PROVE tab' \in Client
  BY <1>1 DEF Keeps
<1>2. CASE SeeEnd
  <2>1. Keeps(tab, tab') /\ tab'.conn \in {"none", "opening"}
    <3>1. CASE tab' = Retry(tab)
      BY <1>0, <1>2, <3>1, KeepsTypes DEF SeeEnd
    <3>2. CASE tab' = Close(tab, "lost")
      BY <1>0, <3>2, KeepsTypes
    <3>3. CASE tab' = Attach(tab)
      BY <1>0, <3>3, KeepsTypes
    <3> QED
      BY <1>2, <3>1, <3>2, <3>3 DEF SeeEnd
  <2>2. Carried
    BY <1>2, <2>1 DEF Carried, SeeEnd
  <2> QED
    BY <1>1, <1>2, <2>1, <2>2 DEF SeeEnd, world
<1>3. CASE Break
  <2>1. Keeps(tab, tab') /\ tab'.conn \in {"none", "opening"}
    <3>1. CASE tab' = Retry(tab)
      BY <1>0, <1>3, <3>1, KeepsTypes DEF Break
    <3>2. CASE tab' = Close(tab, "lost")
      BY <1>0, <3>2, KeepsTypes
    <3> QED
      BY <1>3, <3>1, <3>2 DEF Break
  <2>2. Carried
    BY <1>0, <1>3, <2>1 DEF Carried, Break, HangUp
  <2> QED
    BY <1>0, <1>1, <1>3, <2>1, <2>2, FaultTypes DEF Break, HangUp, world
<1>4. CASE Open
  <2>1. CASE Fault /\ tab' = Retry(tab) /\ UNCHANGED <<server, pipe>>
    <3>1. Keeps(tab, tab') /\ tab'.conn \in {"none", "opening"}
      BY <1>0, <1>4, <2>1, KeepsTypes DEF Open
    <3>2. Carried
      BY <1>4, <2>1, <3>1 DEF Carried, Open, InTurn
    <3> QED
      BY <1>1, <1>4, <2>1, <3>1, <3>2, FaultTypes DEF Open, world
  <2>2. CASE /\ tab' = [tab EXCEPT !.conn = "open", !.retries = 0]
             /\ server' = Opened(tab.last) /\ pipe' = <<>> /\ UNCHANGED faults
    <3>1. tab' \in Client
      <4>1. 0 \in 0..MaxRetries
        BY Numbers
      <4> QED
        BY <1>0, <2>2, <4>1 DEF Client
    <3>2. /\ tab'.last = tab.last /\ tab'.applied = tab.applied /\ tab'.gapped = tab.gapped
          /\ tab'.repairs = tab.repairs /\ tab'.conn = "open" /\ tab'.why = tab.why
          /\ tab.conn = "opening"
      BY <1>0, <1>4, <2>2 DEF Open, Client
    <3>3. Keeps(tab, tab') /\ Carried
      BY <2>2, <3>1, <3>2 DEF Keeps, Carried
    <3>4. Opened(tab.last) \in Subscription
      BY <1>0, ServerTypes DEF Client
    <3> QED
      BY <1>0, <1>4, <2>2, <3>1, <3>3, <3>4 DEF Open, world, Opened
  <2> QED
    BY <1>4, <2>1, <2>2 DEF Open
<1>5. CASE Fetch
  <2> DEFINE t == [tab EXCEPT !.fetching = FALSE, !.shows = Shown]
  <2>1. t \in Client
    BY <1>0, ShownTypes DEF Client
  <2>2. /\ t.last = tab.last /\ t.applied = tab.applied /\ t.gapped = tab.gapped
        /\ t.repairs = tab.repairs /\ t.conn = tab.conn /\ t.why = tab.why
    BY <1>0 DEF Client
  <2>3. \/ tab' = t /\ UNCHANGED <<server, pipe>>
        \/ tab' = [Attach(t) EXCEPT !.attached = TRUE] /\ HangUp
    BY <1>5 DEF Fetch
  <2> HIDE DEF t
  <2>4. CASE tab' = t /\ UNCHANGED <<server, pipe>>
    <3>1. Keeps(tab, tab') /\ Carried
      BY <2>1, <2>2, <2>4 DEF Keeps, Carried
    <3> QED
      BY <1>1, <1>5, <2>4, <3>1 DEF Fetch, world
  <2>5. CASE tab' = [Attach(t) EXCEPT !.attached = TRUE] /\ HangUp
    <3>1. Keeps(t, tab') /\ tab'.conn = "opening"
      BY <2>1, <2>5, KeepsTypes, KeepsAttached
    <3>2. Keeps(tab, tab')
      BY <2>2, <3>1 DEF Keeps
    <3>3. Carried
      BY <1>0, <2>5, <3>1 DEF Carried, HangUp
    <3> QED
      BY <1>0, <1>1, <1>5, <2>5, <3>2, <3>3 DEF Fetch, HangUp, world
  <2> QED
    BY <2>3, <2>4, <2>5
<1>6. CASE Answer
  <2>1. Keeps(tab, tab') /\ tab'.conn = "opening"
    BY <1>0, <1>6, KeepsTypes, KeepsAttached DEF Answer
  <2>2. Carried
    BY <1>0, <1>6, <2>1 DEF Carried, Answer, HangUp
  <2>3. phase' = "second" /\ left' \in [Publisher -> 0..Events]
    <3>1. Events \in 0..Events
      BY Numbers
    <3>2. left' = [left EXCEPT ![Run] = Events] /\ left \in [Publisher -> 0..Events]
      BY <1>6 DEF Answer
    <3> QED
      BY <1>6, <3>1, <3>2 DEF Answer
  <2> QED
    BY <1>0, <1>1, <1>6, <2>1, <2>2, <2>3 DEF Answer, HangUp
<1> QED
  BY <1>2, <1>3, <1>4, <1>5, <1>6

\* A message that is applied: it is the next one.
LEMMA AppliedNext ==
    ASSUME TypeOK, NEW m \in Messages, Verdict(m.seq) = "apply"
    PROVE  /\ m.seq = tab.last + 1
           /\ Applied(m) \in Client /\ Finished(m) \in Client
           /\ \A u \in {Applied(m), Finished(m)} :
                 /\ u.last = m.seq /\ u.applied = Append(tab.applied, m)
                 /\ u.gapped = tab.gapped /\ u.repairs = tab.repairs
           /\ Applied(m).conn = tab.conn /\ Applied(m).why = tab.why
           /\ Finished(m).conn = "none" /\ Finished(m).why = "complete"
<1>0. tab \in Client /\ tab.last \in Nat /\ m.seq \in Nat
  BY DEF TypeOK, Client, Messages
<1>1. m.seq = tab.last + 1
  BY <1>0 DEF Verdict
<1> DEFINE more == Append(tab.applied, m)
           a == [tab EXCEPT !.last = m.seq, !.applied = more, !.attached = TRUE]
<1>2. more \in Seq(Messages)
  BY <1>0, AppendProperties DEF Client
<1>3. Applied(m) = a
  BY DEF Applied
<1> HIDE DEF more
<1>4. a \in Client
  BY <1>0, <1>2 DEF Client
<1>5. /\ a.last = m.seq /\ a.applied = more /\ a.gapped = tab.gapped
      /\ a.repairs = tab.repairs /\ a.conn = tab.conn /\ a.why = tab.why
  BY <1>0 DEF Client
<1> HIDE DEF a
<1> DEFINE c == Close(a, "complete")
           f == [c EXCEPT !.shows = IF m.kind = "paused" THEN "waiting" ELSE "over"]
<1>6. c \in Client
  BY <1>4, TabTypes
<1>7. /\ c.last = a.last /\ c.applied = a.applied /\ c.gapped = a.gapped
      /\ c.repairs = a.repairs /\ c.conn = "none" /\ c.why = "complete"
  BY <1>4 DEF Close, Client
<1>8. Finished(m) = f
  BY <1>3 DEF Finished
<1> HIDE DEF c
<1>9. f \in Client
  BY <1>6 DEF Client
<1>10. /\ f.last = c.last /\ f.applied = c.applied /\ f.gapped = c.gapped
       /\ f.repairs = c.repairs /\ f.conn = c.conn /\ f.why = c.why
  BY <1>6 DEF Client
<1> HIDE DEF f
<1> QED
  BY <1>1, <1>3, <1>4, <1>5, <1>7, <1>8, <1>9, <1>10 DEF more

\* A gap: the tab keeps what it applied, counts a repair or gives up.
LEMMA RepairedTypes ==
    ASSUME TypeOK
    PROVE  /\ Repaired \in Client /\ Repaired.last = tab.last /\ Repaired.applied = tab.applied
           /\ Repaired.gapped = TRUE
           /\ \/ /\ Repaired.conn = "opening" /\ Repaired.why = "none"
                 /\ Repaired.repairs = 0
              \/ /\ Repaired.conn = "opening" /\ Repaired.why = tab.why
                 /\ Repaired.repairs = tab.repairs + 1
              \/ /\ Repaired.conn = "none" /\ Repaired.why = "expired"
                 /\ Repaired.repairs = MaxRepairs /\ tab.repairs = MaxRepairs
<1>0. tab \in Client
  BY DEF TypeOK
<1> DEFINE t == [tab EXCEPT !.gapped = TRUE, !.fetching = TRUE]
<1>1. t \in Client
  BY <1>0 DEF Client
<1>2. /\ t.last = tab.last /\ t.applied = tab.applied /\ t.gapped = TRUE
      /\ t.repairs = tab.repairs /\ t.conn = tab.conn /\ t.why = tab.why
  BY <1>0 DEF Client
<1>3. Repaired = IF tab.carrier = "post" THEN Attach(t)
                 ELSE IF tab.repairs >= MaxRepairs THEN Close(t, "expired")
                 ELSE [t EXCEPT !.repairs = @ + 1, !.conn = "opening"]
  BY DEF Repaired
<1> HIDE DEF t
<1>4. CASE tab.carrier = "post"
  <2>1. Attach(t).why = "none"
    BY <1>1 DEF Attach, Client
  <2>2. Keeps(t, Attach(t)) /\ Attach(t).conn = "opening" /\ Attach(t).repairs = 0
    BY <1>1, KeepsTypes
  <2> QED
    BY <1>2, <1>3, <1>4, <2>1, <2>2 DEF Keeps
<1>5. CASE tab.carrier # "post" /\ tab.repairs >= MaxRepairs
  <2> DEFINE c == Close(t, "expired")
  <2>1. c \in Client
    BY <1>1, TabTypes
  <2>2. /\ c.last = t.last /\ c.applied = t.applied /\ c.gapped = t.gapped
        /\ c.repairs = t.repairs /\ c.conn = "none" /\ c.why = "expired"
    BY <1>1 DEF Close, Client
  <2>3. tab.repairs = MaxRepairs
    BY <1>0, <1>5, Numbers DEF Client
  <2> HIDE DEF c
  <2>4. Repaired = c
    BY <1>3, <1>5 DEF c
  <2> QED
    BY <1>2, <2>1, <2>2, <2>3, <2>4
<1>6. CASE tab.carrier # "post" /\ ~(tab.repairs >= MaxRepairs)
  <2> DEFINE c == [t EXCEPT !.repairs = @ + 1, !.conn = "opening"]
  <2>1. tab.repairs + 1 \in 0..MaxRepairs
    BY <1>0, <1>6, Numbers DEF Client
  <2>2. c \in Client
    BY <1>1, <1>2, <2>1 DEF Client
  <2>3. /\ c.last = t.last /\ c.applied = t.applied /\ c.gapped = t.gapped
        /\ c.repairs = t.repairs + 1 /\ c.conn = "opening" /\ c.why = t.why
    BY <1>1 DEF Client
  <2>4. Repaired = c
    BY <1>3, <1>6
  <2> HIDE DEF c
  <2> QED
    BY <1>2, <2>2, <2>3, <2>4
<1> QED
  BY <1>4, <1>5, <1>6

\* The four things that become of a message that arrives.
Drops(m) == Verdict(m.seq) = "drop" /\ pipe' = Tail(pipe) /\ UNCHANGED <<server, tab>>
Repairs(m) == Verdict(m.seq) = "gap" /\ tab' = Repaired /\ HangUp
Applies(m) ==
    /\ Verdict(m.seq) = "apply" /\ m.kind \notin Terminal
    /\ tab' = Applied(m) /\ pipe' = Tail(pipe) /\ UNCHANGED server
Finishes(m) ==
    Verdict(m.seq) = "apply" /\ m.kind \in Terminal /\ tab' = Finished(m) /\ HangUp

LEMMA ReceiveCases ==
    ASSUME TypeOK, Receive
    PROVE  \E m \in Messages :
              /\ m = Head(pipe) /\ tab.conn = "open" /\ pipe # <<>> /\ Len(pipe) \in Nat
              /\ Drops(m) \/ Repairs(m) \/ Applies(m) \/ Finishes(m)
              /\ m = pipe[1] /\ 1 \in 1..Len(pipe)
              /\ Tail(pipe) \in Seq(Messages) /\ Len(Tail(pipe)) = Len(pipe) - 1
              /\ \A i \in 1..Len(Tail(pipe)) : Tail(pipe)[i] = pipe[i + 1]
              /\ UNCHANGED <<phase, world, faults, reloads>>
<1>1. pipe \in Seq(Messages) /\ pipe # <<>>
  BY DEF TypeOK, Receive
<1>2. /\ Head(pipe) \in Messages /\ Tail(pipe) \in Seq(Messages)
      /\ Len(Tail(pipe)) = Len(pipe) - 1
      /\ \A i \in 1..Len(Tail(pipe)) : Tail(pipe)[i] = pipe[i + 1]
  BY <1>1, HeadTailProperties
<1>3. Len(pipe) \in Nat /\ 1 \in 1..Len(pipe) /\ Head(pipe) = pipe[1]
  BY <1>1, EmptySeq
<1> DEFINE m == Head(pipe)
<1>4. Drops(m) \/ Repairs(m) \/ Applies(m) \/ Finishes(m)
  BY DEF Receive, Drops, Repairs, Applies, Finishes
<1> QED
  BY <1>1, <1>2, <1>3, <1>4 DEF Receive

LEMMA ReceiveTypes ==
    ASSUME TypeOK, Receive
    PROVE  TypeOK'
<1> USE DEF TypeOK
<1>1. PICK m \in Messages :
        /\ Drops(m) \/ Repairs(m) \/ Applies(m) \/ Finishes(m)
        /\ Tail(pipe) \in Seq(Messages)
        /\ UNCHANGED <<phase, world, faults, reloads>>
  BY ReceiveCases
<1>2. HangUp => /\ server' \in Subscription /\ server'.at = "off" /\ pipe' \in Seq(Messages)
                /\ server'.heard = <<>> /\ server'.todo = <<>>
  BY ServerTypes, EmptySeq DEF HangUp, Silent
<1>3. /\ server' \in Subscription /\ pipe' \in Seq(Messages) /\ tab' \in Client
      /\ server'.at \notin {"replay", "live"} => server'.heard = <<>>
      /\ server'.at \notin {"live", "poll"} => server'.todo = <<>>
  <2>1. CASE Drops(m)
    BY <1>1, <2>1 DEF Drops
  <2>2. CASE Repairs(m)
    BY <1>2, <2>2, RepairedTypes DEF Repairs
  <2>3. CASE Applies(m)
    BY <1>1, <2>3, AppliedNext DEF Applies
  <2>4. CASE Finishes(m)
    BY <1>2, <2>4, AppliedNext DEF Finishes
  <2> QED
    BY <1>1, <2>1, <2>2, <2>3, <2>4
<1> QED
  BY <1>1, <1>3 DEF world

\* A reload begins with a tab that has applied nothing.
LEMMA ReloadStep ==
    ASSUME TypeOK, Reload
    PROVE  /\ TypeOK'
           /\ tab'.last = 0 /\ tab'.applied = <<>> /\ tab'.gapped = FALSE /\ tab'.repairs = 0
           /\ tab'.conn = "none" /\ tab'.why = "none" /\ HangUp
<1> USE DEF TypeOK
<1>1. tab' = [carrier |-> "sse", conn |-> "none", why |-> "none", last |-> 0,
              applied |-> <<>>, gapped |-> FALSE, repairs |-> 0, retries |-> 0,
              shows |-> "nothing", attached |-> FALSE, fetching |-> TRUE]
  BY DEF Reload
<1>2. tab' \in Client
  BY <1>1, EmptySeq, Numbers DEF Client
<1>3. reloads' \in 0..MaxTabs
  BY Numbers DEF Reload
<1>4. /\ tab'.last = 0 /\ tab'.applied = <<>> /\ tab'.gapped = FALSE /\ tab'.repairs = 0
      /\ tab'.conn = "none" /\ tab'.why = "none"
  BY <1>1
<1> QED
  BY <1>2, <1>3, <1>4, ServerTypes, EmptySeq DEF Reload, HangUp, Silent, world

LEMMA TypesInit == Init => TypeOK
<1> SUFFICES ASSUME Init PROVE TypeOK
  OBVIOUS
<1>1. <<>> \in Seq(Messages) /\ <<>> \in Seq(Kinds) /\ Len(<<>>) = 0
  BY EmptySeq
<1>2. tab \in Client
  BY <1>1, Numbers DEF Init, Client
<1>3. server \in Subscription /\ server.at = "start" /\ server.heard = <<>> /\ server.todo = <<>>
  BY ServerTypes DEF Init, Opened
<1>4. left \in [Publisher -> 0..Events] /\ owed \in [Publisher -> Messages \cup {Nothing}]
  BY Numbers DEF Init
<1>5. Len(buffer) <= Cap + Slack /\ buffer \in Seq(Messages) /\ pipe \in Seq(Messages)
      /\ sent \in Seq(Kinds)
  BY <1>1, Numbers DEF Init
<1>6. /\ phase = "first" /\ seqno = 0 /\ holes = FALSE /\ missed = 0
      /\ faults = 0 /\ forgot = 0 /\ reloads = 0
  BY DEF Init
<1>7. 0 \in 0..MaxFaults /\ 0 \in 0..MaxForget /\ 0 \in 0..MaxTabs
  BY Numbers
<1> QED
  BY <1>2, <1>3, <1>4, <1>5, <1>6, <1>7 DEF TypeOK

LEMMA TypesStep == TypeOK /\ InTurn /\ [Next]_vars => TypeOK'
<1> SUFFICES ASSUME TypeOK, InTurn, [Next]_vars PROVE TypeOK'
  OBVIOUS
<1>1. CASE Publish \/ Forget
  BY <1>1, PublishTypes
<1>2. CASE Join \/ PassOn \/ Hear \/ Tick \/ IdleOut \/ Dropped \/ GoUnheard \/ ReplayFails
  BY <1>2, ServerStepTypes
<1>3. CASE Receive
  BY <1>3, ReceiveTypes
<1>4. CASE SeeEnd \/ Break \/ Open \/ Fetch \/ Answer
  BY <1>4, TabSteps
<1>5. CASE Reload
  BY <1>5, ReloadStep
<1>6. CASE UNCHANGED vars
  <2>1. UNCHANGED <<phase, left, owed, seqno, buffer, sent>>
        /\ UNCHANGED <<server, pipe, tab, holes, missed, faults, forgot, reloads>>
    BY <1>6 DEF vars
  <2> QED
    BY <2>1 DEF TypeOK
<1> QED
  BY <1>1, <1>2, <1>3, <1>4, <1>5, <1>6 DEF Next

-----------------------------------------------------------------------------
(* What the tab applied is the events from 1 on.                           *)

\* The publishers leave the tab alone, and what it is connected to.
LEMMA PublishBeside ==
    ASSUME TypeOK, Publish \/ Forget
    PROVE  /\ UNCHANGED <<pipe, tab, missed>>
           /\ server'.at = server.at /\ server'.seen = server.seen
           /\ server'.todo = server.todo
           /\ ~(\E p \in Publisher : Push(p)) => server' = server
<1>1. ASSUME NEW p \in Publisher, Push(p)
      PROVE  UNCHANGED <<pipe, tab, missed>> /\ server'.at = server.at
             /\ server'.seen = server.seen /\ server'.todo = server.todo
  BY <1>1 DEF Push, TypeOK, Subscription
<1>2. ASSUME ~(\E p \in Publisher : Push(p)) PROVE UNCHANGED <<pipe, tab, missed, server>>
  <2>1. ASSUME NEW p \in Publisher, Emit(p) PROVE UNCHANGED <<pipe, tab, missed, server>>
    BY <2>1 DEF Emit, Number
  <2>2. ASSUME NEW p \in Publisher, Lose(p) PROVE UNCHANGED <<pipe, tab, missed, server>>
    BY <2>2 DEF Lose
  <2>3. ASSUME NEW kind \in Terminal, Settle(kind) PROVE UNCHANGED <<pipe, tab, missed, server>>
    BY <2>3 DEF Settle, Number
  <2>4. CASE Forget
    BY <2>4 DEF Forget
  <2> QED
    BY <1>2, <2>1, <2>2, <2>3, <2>4 DEF Publish
<1> QED
  BY <1>1, <1>2

\* A subscription at work has a tab at the other end.
LEMMA ServerBeside ==
    ASSUME TypeOK, InTurn, Join \/ PassOn \/ Hear \/ Tick \/ IdleOut \/ Dropped \/ GoUnheard \/ ReplayFails
    PROVE  tab.conn = "open" /\ server.at # "off" /\ tab' = tab
<1>1. CASE Join
  BY <1>1 DEF Join, source, InTurn
<1>2. CASE PassOn
  <2>1. PICK k \in New(server.todo) :
          Relay(server.todo[k], SubSeq(server.todo, k + 1, Len(server.todo)), server.heard)
    BY <1>2 DEF PassOn
  <2>2. server.todo \in Seq(Messages)
    BY DEF TypeOK, Subscription
  <2>3. server.todo # <<>>
    BY <2>1, <2>2, NewTypes, EmptySeq
  <2> QED
    BY <2>1, <2>3 DEF Relay, source, TypeOK, InTurn
<1>3. CASE Hear
  BY <1>3 DEF Hear, Relay, source, InTurn
<1>4. CASE Tick \/ IdleOut \/ Dropped
  BY <1>4 DEF Tick, IdleOut, Dropped, Waiting, Gone, source, InTurn
<1>5. CASE GoUnheard
  BY <1>5 DEF GoUnheard, source, TypeOK, InTurn
<1>6. CASE ReplayFails
  BY <1>6 DEF ReplayFails, source, InTurn
<1> QED
  BY <1>1, <1>2, <1>3, <1>4, <1>5, <1>6

\* Applying the next message.
LEMMA AppliedInTurn ==
    ASSUME TypeOK, InTurn, NEW m \in Messages, Verdict(m.seq) = "apply",
           NEW u \in {Applied(m), Finished(m)}
    PROVE  /\ Len(u.applied) = u.last /\ u.last > 0
           /\ \A i \in 1..u.last : u.applied[i].seq = i
           /\ u.applied[u.last] = m
           /\ \A i \in 1..tab.last : u.applied[i] = tab.applied[i]
<1>1. u.last = tab.last + 1 /\ u.last = m.seq /\ u.applied = Append(tab.applied, m)
  BY AppliedNext
<1>2. tab.applied \in Seq(Messages) /\ tab.last \in Nat /\ Len(tab.applied) = tab.last
  BY DEF TypeOK, Client, InTurn
<1>3. /\ Len(u.applied) = tab.last + 1 /\ u.applied[tab.last + 1] = m
      /\ \A i \in 1..tab.last : u.applied[i] = tab.applied[i]
  BY <1>1, <1>2, AppendProperties
<1>4. ASSUME NEW i \in 1..u.last PROVE u.applied[i].seq = i
  <2>1. CASE i = tab.last + 1
    BY <1>1, <1>3, <2>1
  <2>2. CASE i # tab.last + 1
    <3>1. i \in 1..tab.last
      BY <1>1, <1>2, <2>2
    <3> QED
      BY <1>3, <3>1 DEF InTurn
  <2> QED
    BY <2>1, <2>2
<1> QED
  BY <1>1, <1>2, <1>3, <1>4

LEMMA InTurnInit == Init => InTurn
  BY EmptySeq DEF Init, InTurn, Opened

LEMMA InTurnStep == TypeOK /\ InTurn /\ [Next]_vars => InTurn'
<1> SUFFICES ASSUME TypeOK, InTurn, [Next]_vars PROVE InTurn'
  OBVIOUS
<1>1. CASE Publish \/ Forget
  BY <1>1, PublishBeside DEF InTurn
<1>2. CASE Join \/ PassOn \/ Hear \/ Tick \/ IdleOut \/ Dropped \/ GoUnheard \/ ReplayFails
  BY <1>2, ServerBeside DEF InTurn
<1>3. CASE Receive
  <2>1. PICK m \in Messages :
          /\ tab.conn = "open"
          /\ Drops(m) \/ Repairs(m) \/ Applies(m) \/ Finishes(m)
    BY <1>3, ReceiveCases
  <2>2. tab.why = "none"
    BY <2>1 DEF InTurn
  <2>3. HangUp => pipe' = <<>> /\ server'.at = "off"
    BY DEF HangUp, Silent
  <2>4. CASE Drops(m)
    BY <2>1, <2>4 DEF Drops, InTurn
  <2>5. CASE Repairs(m)
    BY <2>2, <2>3, <2>5, RepairedTypes DEF Repairs, InTurn
  <2>6. CASE Applies(m)
    <3>1. Len(tab'.applied) = tab'.last /\ \A i \in 1..tab'.last : tab'.applied[i].seq = i
      BY <2>6, AppliedInTurn DEF Applies
    <3>2. tab'.conn = "open" /\ tab'.why = "none"
      BY <2>1, <2>2, <2>6, AppliedNext DEF Applies
    <3> QED
      BY <3>1, <3>2 DEF InTurn
  <2>7. CASE Finishes(m)
    <3>1. /\ Len(tab'.applied) = tab'.last /\ tab'.last > 0
          /\ \A i \in 1..tab'.last : tab'.applied[i].seq = i
          /\ tab'.applied[tab'.last].kind \in Terminal
      BY <2>7, AppliedInTurn DEF Finishes
    <3>2. tab'.conn = "none"
      BY <2>7, AppliedNext DEF Finishes
    <3> QED
      BY <2>3, <2>7, <3>1, <3>2 DEF InTurn, Finishes
  <2> QED
    BY <2>1, <2>4, <2>5, <2>6, <2>7
<1>4. CASE SeeEnd \/ Break \/ Open \/ Fetch \/ Answer
  <2>1. Keeps(tab, tab') /\ Carried
    BY <1>4, TabSteps
  <2>2. /\ Len(tab'.applied) = tab'.last
        /\ \A i \in 1..tab'.last : tab'.applied[i].seq = i
        /\ tab'.conn # "none" => tab'.why = "none"
        /\ tab'.why = "complete" => tab'.last > 0 /\ tab'.applied[tab'.last].kind \in Terminal
    BY <2>1 DEF InTurn, Keeps
  <2>3. tab'.conn # "open" => pipe' = <<>> /\ server'.at = "off"
    BY <2>1 DEF InTurn, Carried
  <2> QED
    BY <2>2, <2>3 DEF InTurn
<1>5. CASE Reload
  BY <1>5, ReloadStep, EmptySeq DEF InTurn, HangUp, Silent
<1>6. CASE UNCHANGED vars
  BY <1>6 DEF vars, InTurn
<1> QED
  BY <1>1, <1>2, <1>3, <1>4, <1>5, <1>6 DEF Next

-----------------------------------------------------------------------------
(* Every message is the event that was given its number.                   *)

LEMMA GenuineLogs ==
    ASSUME NEW log \in Seq(Messages), AllGenuine(log)
    PROVE  /\ AllGenuine(<<>>)
           /\ log # <<>> => Genuine(Head(log)) /\ AllGenuine(Tail(log))
           /\ \A m \in Messages : Genuine(m) => AllGenuine(Append(log, m))
           /\ \A k \in 1..Len(log) : AllGenuine(SubSeq(log, k + 1, Len(log)))
<1>0. Len(log) \in Nat
  OBVIOUS
<1>1. AllGenuine(<<>>)
  BY EmptySeq DEF AllGenuine
<1>2. ASSUME log # <<>> PROVE Genuine(Head(log)) /\ AllGenuine(Tail(log))
  <2>1. /\ Len(Tail(log)) = Len(log) - 1
        /\ \A i \in 1..Len(Tail(log)) : Tail(log)[i] = log[i + 1]
    BY <1>2, HeadTailProperties
  <2>2. Head(log) = log[1] /\ 1 \in 1..Len(log)
    BY <1>2, EmptySeq
  <2>3. Genuine(Head(log))
    BY <2>2 DEF AllGenuine
  <2>4. \A i \in 1..Len(Tail(log)) : i + 1 \in 1..Len(log)
    BY <1>0, <2>1
  <2> QED
    BY <2>1, <2>3, <2>4 DEF AllGenuine
<1>3. ASSUME NEW m \in Messages, Genuine(m) PROVE AllGenuine(Append(log, m))
  <2>1. /\ Len(Append(log, m)) = Len(log) + 1 /\ Append(log, m)[Len(log) + 1] = m
        /\ \A i \in 1..Len(log) : Append(log, m)[i] = log[i]
    BY AppendProperties
  <2>2. ASSUME NEW i \in 1..Len(Append(log, m)) PROVE Genuine(Append(log, m)[i])
    <3>1. CASE i = Len(log) + 1
      BY <1>3, <2>1, <3>1
    <3>2. CASE i \in 1..Len(log)
      BY <2>1, <3>2 DEF AllGenuine
    <3> QED
      BY <1>0, <2>1, <3>1, <3>2
  <2> QED
    BY <2>2 DEF AllGenuine
<1>4. ASSUME NEW k \in 1..Len(log) PROVE AllGenuine(SubSeq(log, k + 1, Len(log)))
  <2> DEFINE rest == SubSeq(log, k + 1, Len(log))
  <2>1. \A i \in k + 1 .. Len(log) : log[i] \in Messages
    BY <1>0, ElementOfSeq
  <2>2. /\ Len(rest) = IF k + 1 <= Len(log) THEN Len(log) - (k + 1) + 1 ELSE 0
        /\ \A i \in 1 .. Len(log) - (k + 1) + 1 : rest[i] = log[k + 1 + i - 1]
    BY <1>0, <2>1, SubSeqProperties
  <2> HIDE DEF rest
  <2>3. ASSUME NEW i \in 1..Len(rest) PROVE Genuine(rest[i])
    <3>1. rest[i] = log[k + i] /\ k + i \in 1..Len(log)
      BY <1>0, <2>2
    <3> QED
      BY <3>1 DEF AllGenuine
  <2> QED
    BY <2>3 DEF AllGenuine, rest
<1> QED
  BY <1>1, <1>2, <1>3, <1>4

\* A number once given stays given.
LEMMA GenuineStays ==
    ASSUME TypeOK, sent' = sent \/ \E kind \in Kinds : sent' = Append(sent, kind)
    PROVE  \A m : Genuine(m) => Given(sent', m)
<1>1. Len(sent) \in Nat /\ Len(sent') \in Nat /\ Len(sent) <= Len(sent')
      /\ \A i \in 1..Len(sent) : sent'[i] = sent[i]
  <2>1. sent \in Seq(Kinds)
    BY DEF TypeOK
  <2>2. CASE sent' = sent
    BY <2>1, <2>2
  <2>3. ASSUME NEW kind \in Kinds, sent' = Append(sent, kind)
        PROVE  /\ Len(sent') = Len(sent) + 1
               /\ \A i \in 1..Len(sent) : sent'[i] = sent[i]
    BY <2>1, <2>3, AppendProperties
  <2> QED
    BY <2>1, <2>2, <2>3
<1> QED
  BY <1>1 DEF Genuine, Given

LEMMA NumberedPublish ==
    ASSUME TypeOK, Numbered, Publish \/ (Forget /\ forgot' < 2)
    PROVE  Numbered'
<1> USE DEF Numbered
<1>0. /\ buffer \in Seq(Messages) /\ server.heard \in Seq(Messages) /\ seqno \in Nat
      /\ server.todo \in Seq(Messages) /\ sent \in Seq(Kinds)
  BY DEF TypeOK, Subscription
<1>1. ASSUME NEW p \in Publisher, NEW kind \in Kinds, Number(p, kind) PROVE Numbered'
  <2>1. \A m : Genuine(m) => Given(sent', m)
    BY <1>1, GenuineStays DEF Number
  <2>2. Len(sent') = seqno' /\ sent'[seqno + 1] = kind /\ seqno' = seqno + 1
    BY <1>0, <1>1, AppendProperties DEF Number
  <2> DEFINE m0 == [seq |-> seqno + 1, kind |-> kind]
  <2>3. Given(sent', m0)
    BY <1>0, <1>1, <2>2 DEF Given, Number
  <2>4. owed' = [owed EXCEPT ![p] = m0] /\ owed \in [Publisher -> Messages \cup {Nothing}]
    BY <1>1 DEF Number, TypeOK
  <2> HIDE DEF m0
  <2>5. \A q \in Publisher : owed'[q] # Nothing => Given(sent', owed'[q])
    <3>1. ASSUME NEW q \in Publisher, owed'[q] # Nothing PROVE Given(sent', owed'[q])
      <4>1. CASE q = p
        <5>1. owed'[q] = m0
          BY <2>4, <4>1
        <5> QED
          BY <2>3, <5>1
      <4>2. CASE q # p
        <5>1. owed'[q] = owed[q] /\ Genuine(owed[q])
          BY <2>4, <3>1, <4>2
        <5> QED
          BY <2>1, <5>1
      <4> QED
        BY <4>1, <4>2
    <3> QED
      BY <3>1
  <2>6. UNCHANGED <<buffer, server, pipe, tab>>
    BY <1>1 DEF Number
  <2>7. /\ AllGenuine(buffer)' /\ AllGenuine(server.heard)' /\ AllGenuine(server.todo)'
        /\ AllGenuine(pipe)' /\ AllGenuine(tab.applied)'
    BY <2>1, <2>6 DEF AllGenuine, Genuine
  <2> QED
    BY <2>2, <2>5, <2>7 DEF Genuine
<1>2. ASSUME NEW p \in Publisher, Push(p) PROVE Numbered'
  <2>1. owed[p] \in Messages /\ Genuine(owed[p])
    BY <1>2 DEF Push, TypeOK
  <2>2. UNCHANGED <<sent, seqno, pipe, tab>>
    BY <1>2 DEF Push
  <2>3. AllGenuine(buffer)'
    <3> DEFINE log == Append(buffer, owed[p])
    <3>1. log \in Seq(Messages) /\ Len(log) <= Cap + Slack + 1 /\ AllGenuine(log)
      BY <1>0, <2>1, AppendProperties, Numbers, GenuineLogs DEF TypeOK
    <3>2. buffer' \in Kept(log)
      BY <1>2 DEF Push
    <3> HIDE DEF log
    <3>3. /\ buffer' \in Seq(Messages) /\ Len(buffer') <= Len(log)
          /\ \A i \in 1..Len(buffer') : buffer'[i] = log[i + (Len(log) - Len(buffer'))]
      BY <3>1, <3>2, KeptIsSuffix
    <3>4. \A i \in 1..Len(buffer') : i + (Len(log) - Len(buffer')) \in 1..Len(log)
      BY <3>1, <3>3
    <3>5. \A i \in 1..Len(buffer') : Genuine(buffer'[i])
      BY <3>1, <3>3, <3>4 DEF AllGenuine
    <3> QED
      BY <2>2, <3>5 DEF AllGenuine, Genuine, Given
  <2>4. AllGenuine(server.heard)' /\ AllGenuine(server.todo)'
    <3>1. AllGenuine(Append(server.heard, owed[p]))
      BY <1>0, <2>1, GenuineLogs
    <3>2. server'.heard \in {server.heard, Append(server.heard, owed[p])}
          /\ server'.todo = server.todo
      BY <1>2 DEF Push, TypeOK, Subscription
    <3> QED
      BY <2>2, <3>1, <3>2 DEF AllGenuine, Genuine, Given
  <2>5. \A q \in Publisher : owed'[q] # Nothing => Given(sent', owed'[q])
    <3>1. \A q \in Publisher : owed'[q] \in {owed[q], Nothing}
      BY <1>2 DEF Push, TypeOK
    <3> QED
      BY <2>2, <3>1 DEF Genuine, Given
  <2> QED
    BY <2>2, <2>3, <2>4, <2>5 DEF AllGenuine, Genuine, Given
<1>3. ASSUME NEW p \in Publisher, Lose(p) PROVE Numbered'
  <2>1. \A q \in Publisher : owed'[q] \in {owed[q], Nothing}
    BY <1>3 DEF Lose, TypeOK
  <2> QED
    BY <1>3, <2>1 DEF Lose, AllGenuine, Genuine
<1>4. CASE Forget /\ forgot' < 2
  <2>1. buffer' = <<>> /\ seqno' = seqno
    BY <1>4 DEF Forget, TypeOK
  <2>2. AllGenuine(buffer)'
    BY <2>1, EmptySeq DEF AllGenuine
  <2> QED
    BY <1>4, <2>1, <2>2 DEF Forget, AllGenuine, Genuine
<1>5. ASSUME NEW p \in Publisher, Emit(p) PROVE Numbered'
  BY <1>1, <1>5 DEF Emit, Kinds
<1>6. ASSUME NEW kind \in Terminal, Settle(kind) PROVE Numbered'
  BY <1>1, <1>6 DEF Settle, Kinds, Publisher
<1> QED
  BY <1>2, <1>3, <1>4, <1>5, <1>6 DEF Publish

LEMMA ReplayGenuine == ASSUME TypeOK, AllGenuine(buffer) PROVE AllGenuine(Replay)
<1>1. Len(buffer) \in Nat /\ Len(Replay) \in Nat
  BY ReplayTypes DEF TypeOK
<1> QED
  BY <1>1, ReplayTypes DEF AllGenuine

LEMMA NumberedServer ==
    ASSUME TypeOK, InTurn, Numbered,
           Join \/ PassOn \/ Hear \/ Tick \/ IdleOut \/ Dropped \/ GoUnheard \/ ReplayFails
    PROVE  Numbered'
<1>0. /\ server \in Subscription /\ pipe \in Seq(Messages) /\ tab' = tab
      /\ server.heard \in Seq(Messages) /\ server.todo \in Seq(Messages) /\ <<>> \in Seq(Messages)
      /\ AllGenuine(server.heard) /\ AllGenuine(server.todo) /\ AllGenuine(pipe)
      /\ AllGenuine(<<>>)
  BY ServerBeside, GenuineLogs, EmptySeq DEF TypeOK, Subscription, Numbered
<1>1. ASSUME UNCHANGED source, AllGenuine(pipe'), AllGenuine(server'.heard), AllGenuine(server'.todo)
      PROVE  Numbered'
  BY <1>0, <1>1 DEF source, Numbered, AllGenuine, Genuine, Given
<1>2. ASSUME NEW m \in Messages, Genuine(m), NEW todo \in Seq(Messages), AllGenuine(todo),
             NEW heard \in Seq(Messages), AllGenuine(heard), Relay(m, todo, heard)
      PROVE  Numbered'
  <2>1. AllGenuine(pipe')
    BY <1>0, <1>2, GenuineLogs DEF Relay
  <2>2. AllGenuine(server'.heard) /\ AllGenuine(server'.todo)
    BY <1>0, <1>2 DEF Relay, Silent, Subscription
  <2> QED
    BY <1>1, <1>2, <2>1, <2>2 DEF Relay
<1>3. ASSUME NEW at, Reading(at), UNCHANGED source, UNCHANGED pipe PROVE Numbered'
  <2>1. AllGenuine(Replay)
    BY ReplayGenuine DEF Numbered
  <2>2. server'.heard = server.heard /\ server'.todo = Replay
    BY <1>0, <1>3 DEF Reading, Subscription
  <2> QED
    BY <1>0, <1>1, <1>3, <2>1, <2>2
<1>4. CASE Join
  <2>1. CASE \E at \in {"replay", "unheard"} : server' = [server EXCEPT !.at = at]
    <3>1. server'.heard = server.heard /\ server'.todo = server.todo
      BY <1>0, <2>1 DEF Subscription
    <3> QED
      BY <1>0, <1>1, <1>4, <3>1 DEF Join
  <2> QED
    BY <1>3, <1>4, <2>1 DEF Join
<1>5. CASE PassOn
  <2>1. PICK k \in New(server.todo) :
          Relay(server.todo[k], SubSeq(server.todo, k + 1, Len(server.todo)), server.heard)
    BY <1>5 DEF PassOn
  <2>2. k \in 1..Len(server.todo) /\ Len(server.todo) \in Nat
    BY <1>0, <2>1, NewTypes
  <2>3. server.todo[k] \in Messages /\ Genuine(server.todo[k])
    BY <1>0, <2>2, ElementOfSeq DEF AllGenuine
  <2> DEFINE rest == SubSeq(server.todo, k + 1, Len(server.todo))
  <2>4. rest \in Seq(Messages)
    <3>1. \A i \in k + 1 .. Len(server.todo) : server.todo[i] \in Messages
      BY <1>0, <2>2, ElementOfSeq
    <3> QED
      BY <2>2, <3>1, SubSeqProperties
  <2>5. AllGenuine(rest)
    BY <1>0, <2>2, GenuineLogs
  <2>6. Relay(server.todo[k], rest, server.heard)
    BY <2>1
  <2> HIDE DEF rest
  <2> QED
    BY <1>0, <1>2, <2>3, <2>4, <2>5, <2>6
<1>6. CASE Hear
  <2>1. server.heard # <<>>
    BY <1>6 DEF Hear
  <2> DEFINE m == Head(server.heard)
             rest == Tail(server.heard)
  <2>2. m \in Messages /\ rest \in Seq(Messages) /\ Genuine(m) /\ AllGenuine(rest)
    BY <1>0, <2>1, HeadTailProperties, GenuineLogs
  <2>3. \/ Relay(m, <<>>, rest)
        \/ server' = [server EXCEPT !.heard = rest] /\ UNCHANGED <<source, pipe>>
    BY <1>6 DEF Hear
  <2> HIDE DEF m, rest
  <2>4. CASE server' = [server EXCEPT !.heard = rest] /\ UNCHANGED <<source, pipe>>
    <3>1. server'.heard = rest /\ server'.todo = server.todo
      BY <1>0, <2>4 DEF Subscription
    <3> QED
      BY <1>0, <1>1, <2>2, <2>4, <3>1
  <2> QED
    BY <1>0, <1>2, <2>2, <2>3, <2>4
<1>7. CASE Tick
  BY <1>3, <1>7 DEF Tick
<1>8. CASE IdleOut \/ Dropped
  <2>1. server'.heard = <<>> /\ server'.todo = <<>> /\ UNCHANGED source /\ pipe' = pipe
    BY <1>8 DEF IdleOut, Dropped, Gone, Silent
  <2> QED
    BY <1>0, <1>1, <2>1
<1>9. CASE GoUnheard
  <2>1. AllGenuine(Tail(server.heard))
    BY <1>0, <1>9, GenuineLogs DEF GoUnheard
  <2>2. server'.heard = Tail(server.heard) /\ server'.todo = server.todo
    BY <1>0, <1>9 DEF GoUnheard, Subscription
  <2> QED
    BY <1>0, <1>1, <1>9, <2>1, <2>2 DEF GoUnheard
<1>10. CASE ReplayFails
  <2>1. server'.heard = server.heard /\ server'.todo = server.todo
    BY <1>0, <1>10 DEF ReplayFails, Subscription
  <2> QED
    BY <1>0, <1>1, <1>10, <2>1 DEF ReplayFails
<1> QED
  BY <1>4, <1>5, <1>6, <1>7, <1>8, <1>9, <1>10

LEMMA NumberedTab ==
    ASSUME TypeOK, InTurn, Numbered,
           Receive \/ SeeEnd \/ Break \/ Open \/ Fetch \/ Answer \/ Reload
    PROVE  Numbered'
<1>0. AllGenuine(<<>>)
  BY EmptySeq DEF AllGenuine
<1>1. UNCHANGED <<owed, seqno, buffer, sent>>
  BY DEF Receive, SeeEnd, Break, Open, Fetch, Answer, Reload, world
<1>2. ASSUME AllGenuine(server'.heard), AllGenuine(server'.todo), AllGenuine(pipe'),
             AllGenuine(tab'.applied)
      PROVE  Numbered'
  BY <1>1, <1>2 DEF Numbered, AllGenuine, Genuine, Given
<1>3. HangUp => /\ AllGenuine(server'.heard) /\ AllGenuine(server'.todo) /\ AllGenuine(pipe')
  BY <1>0 DEF HangUp, Silent
<1>4. CASE Receive
  <2>1. PICK m \in Messages :
          /\ m = Head(pipe) /\ pipe # <<>>
          /\ Drops(m) \/ Repairs(m) \/ Applies(m) \/ Finishes(m)
    BY <1>4, ReceiveCases
  <2>2. pipe \in Seq(Messages) /\ tab.applied \in Seq(Messages)
    BY DEF TypeOK, Client
  <2>3. Genuine(m) /\ AllGenuine(Tail(pipe))
    BY <2>1, <2>2, GenuineLogs DEF Numbered
  <2>4. AllGenuine(Append(tab.applied, m))
    BY <2>2, <2>3, GenuineLogs DEF Numbered
  <2>5. CASE Drops(m)
    BY <1>2, <2>3, <2>5 DEF Drops, Numbered
  <2>6. CASE Repairs(m)
    BY <1>2, <1>3, <2>6, RepairedTypes DEF Repairs, Numbered
  <2>7. CASE Applies(m)
    BY <1>2, <2>3, <2>4, <2>7, AppliedNext DEF Applies, Numbered
  <2>8. CASE Finishes(m)
    BY <1>2, <1>3, <2>4, <2>8, AppliedNext DEF Finishes
  <2> QED
    BY <2>1, <2>5, <2>6, <2>7, <2>8
<1>5. CASE SeeEnd \/ Break \/ Open \/ Fetch \/ Answer
  <2>1. Keeps(tab, tab') /\ Carried /\ TypeOK'
    BY <1>5, TabSteps
  <2>2. AllGenuine(server'.heard) /\ AllGenuine(server'.todo) /\ AllGenuine(pipe')
    <3>1. CASE pipe' = pipe /\ server' = server
      BY <3>1 DEF Numbered
    <3>2. CASE pipe' = <<>> /\ server'.at = "off"
      <4>1. server'.heard = <<>> /\ server'.todo = <<>>
        BY <2>1, <3>2 DEF TypeOK
      <4> QED
        BY <1>0, <3>2, <4>1
    <3>3. CASE pipe' = <<>> /\ server' = Opened(tab.last)
      <4>1. server'.heard = <<>> /\ server'.todo = <<>>
        BY <3>3 DEF Opened
      <4> QED
        BY <1>0, <3>3, <4>1
    <3> QED
      BY <2>1, <3>1, <3>2, <3>3 DEF Carried
  <2> QED
    BY <1>2, <2>1, <2>2 DEF Keeps, Numbered
<1>6. CASE Reload
  BY <1>0, <1>2, <1>3, <1>6, ReloadStep
<1> QED
  BY <1>4, <1>5, <1>6

LEMMA NumberedStep ==
    ASSUME TypeOK, InTurn, forgot < 2 => Numbered, [Next]_vars, forgot' < 2
    PROVE  Numbered'
<1>1. forgot \in Nat
  BY Numbers DEF TypeOK
<1>2. CASE Forget
  <2>1. forgot < 2
    BY <1>1, <1>2 DEF Forget
  <2> QED
    BY <1>2, <2>1, NumberedPublish
<1>3. CASE Publish
  <2>1. forgot' = forgot
    BY <1>3 DEF Publish, Emit, Number, Push, Lose, Settle
  <2> QED
    BY <1>3, <2>1, NumberedPublish
<1>4. CASE Join \/ PassOn \/ Hear \/ Tick \/ IdleOut \/ Dropped \/ GoUnheard \/ ReplayFails
  <2>1. forgot' = forgot
    BY <1>4 DEF Join, PassOn, Hear, Relay, Tick, IdleOut, Dropped, Gone, GoUnheard, ReplayFails, source
  <2> QED
    BY <1>4, <2>1, NumberedServer
<1>5. CASE Receive \/ SeeEnd \/ Break \/ Open \/ Fetch \/ Answer \/ Reload
  <2>1. forgot' = forgot
    BY <1>5 DEF Receive, SeeEnd, Break, Open, Fetch, Answer, Reload, world
  <2> QED
    BY <1>5, <2>1, NumberedTab
<1>6. CASE UNCHANGED vars
  BY <1>6 DEF vars, Numbered, AllGenuine, Genuine, Given
<1> QED
  BY <1>2, <1>3, <1>4, <1>5, <1>6 DEF Next

LEMMA NumberedInit == Init => Numbered
<1>1. AllGenuine(<<>>) /\ Len(<<>>) = 0
  BY EmptySeq DEF AllGenuine
<1> QED
  BY <1>1 DEF Init, Numbered, Opened

-----------------------------------------------------------------------------
(* A buffer without a hole holds a stretch of the events in turn.          *)

\* Stretches of events in turn: one more at the end, and fewer at the beginning.
LEMMA RowAppend ==
    ASSUME NEW log \in Seq(Messages), NEW from \in Int, NEW m \in Messages,
           Row(log, from), m.seq = from + Len(log) + 1
    PROVE  Row(Append(log, m), from)
<1>1. /\ Len(log) \in Nat /\ Len(Append(log, m)) = Len(log) + 1
      /\ Append(log, m)[Len(log) + 1] = m
      /\ \A i \in 1..Len(log) : Append(log, m)[i] = log[i]
  BY AppendProperties
<1>2. ASSUME NEW i \in 1..Len(Append(log, m)) PROVE Append(log, m)[i].seq = from + i
  <2>1. CASE i = Len(log) + 1
    <3>1. Append(log, m)[i] = m /\ from + i = from + Len(log) + 1
      BY <1>1, <2>1
    <3> QED
      BY <3>1
  <2>2. CASE i \in 1..Len(log)
    BY <1>1, <2>2 DEF Row
  <2> QED
    BY <1>1, <2>1, <2>2
<1> QED
  BY <1>2 DEF Row

LEMMA RowSuffix ==
    ASSUME NEW log, NEW rest, NEW from \in Int, NEW d \in Nat, Row(log, from),
           Len(log) \in Nat, Len(rest) \in Nat, Len(rest) + d <= Len(log),
           \A i \in 1..Len(rest) : rest[i] = log[i + d]
    PROVE  Row(rest, from + d)
<1>1. ASSUME NEW i \in 1..Len(rest) PROVE rest[i].seq = (from + d) + i
  <2>1. i + d \in 1..Len(log) /\ rest[i] = log[i + d]
    OBVIOUS
  <2>2. log[i + d].seq = from + (i + d)
    BY <2>1 DEF Row
  <2>3. rest[i].seq = from + (i + d)
    BY <2>1, <2>2
  <2>4. from + (i + d) = (from + d) + i
    OBVIOUS
  <2> QED
    BY <2>3, <2>4
<1> QED
  BY <1>1 DEF Row

LEMMA RowFrom ==
    ASSUME NEW log, NEW from \in Int, Row(log, from), Len(log) \in Nat, log # <<>>,
           log \in Seq(Messages)
    PROVE  /\ log[1].seq = from + 1 /\ log[1].seq - 1 = from
           /\ log[Len(log)].seq = from + Len(log)
           /\ Row(log, log[1].seq - 1)
<1>1. 1 \in 1..Len(log) /\ Len(log) \in 1..Len(log)
  BY EmptySeq
<1>2. log[1].seq = from + 1 /\ log[Len(log)].seq = from + Len(log)
  BY <1>1 DEF Row
<1>3. log[1].seq - 1 = from
  BY <1>2
<1> QED
  BY <1>2, <1>3

LEMMA RowTail ==
    ASSUME NEW log \in Seq(Messages), log # <<>>, NEW from \in Int, Row(log, from)
    PROVE  /\ Head(log) = log[1] /\ log[1] \in Messages /\ log[1].seq = from + 1
           /\ Tail(log) \in Seq(Messages) /\ Len(Tail(log)) = Len(log) - 1
           /\ Len(log) \in Nat /\ Row(Tail(log), from + 1)
<1> DEFINE rest == Tail(log)
<1>1. /\ rest \in Seq(Messages) /\ Len(rest) = Len(log) - 1
      /\ \A i \in 1..Len(rest) : rest[i] = log[i + 1]
  BY HeadTailProperties
<1>2. Len(log) \in Nat /\ Len(rest) \in Nat /\ 1 \in 1..Len(log) /\ Head(log) = log[1]
  BY <1>1, EmptySeq
<1>3. log[1] \in Messages /\ log[1].seq = from + 1
  BY <1>2, ElementOfSeq DEF Row
<1>4. Len(rest) + 1 <= Len(log) /\ 1 \in Nat
  BY <1>1, <1>2
<1> HIDE DEF rest
<1>5. Row(rest, from + 1)
  BY <1>1, <1>2, <1>4, RowSuffix, Zenon
<1> QED
  BY <1>1, <1>2, <1>3, <1>5 DEF rest

LEMMA RowBehind ==
    ASSUME NEW log \in Seq(Messages), NEW from \in Int, Row(log, from), NEW k \in 1..Len(log)
    PROVE  LET rest == SubSeq(log, k + 1, Len(log)) IN
           /\ rest \in Seq(Messages) /\ Len(rest) = Len(log) - k
           /\ rest # <<>> => /\ rest[1].seq = from + k + 1 /\ Row(rest, rest[1].seq - 1)
                             /\ rest[Len(rest)].seq = from + Len(log)
<1> DEFINE rest == SubSeq(log, k + 1, Len(log))
<1>1. Len(log) \in Nat /\ k \in Nat
  OBVIOUS
<1>2. /\ rest \in Seq(Messages) /\ Len(rest) = Len(log) - k
      /\ \A i \in 1..Len(rest) : rest[i] = log[i + k]
  <2>1. \A i \in k + 1 .. Len(log) : log[i] \in Messages
    BY <1>1, ElementOfSeq
  <2>2. /\ rest \in Seq(Messages)
        /\ Len(rest) = IF k + 1 <= Len(log) THEN Len(log) - (k + 1) + 1 ELSE 0
        /\ \A i \in 1 .. Len(log) - (k + 1) + 1 : rest[i] = log[k + 1 + i - 1]
    BY <1>1, <2>1, SubSeqProperties
  <2>3. Len(rest) = Len(log) - k
    BY <1>1, <2>2
  <2>4. \A i \in 1..Len(rest) :
           i \in 1 .. Len(log) - (k + 1) + 1 /\ k + 1 + i - 1 = i + k
    BY <1>1, <2>3
  <2> QED
    BY <2>2, <2>3, <2>4
<1> HIDE DEF rest
<1>3. Len(rest) \in Nat /\ Len(rest) + k <= Len(log) /\ from + k \in Int
  BY <1>1, <1>2
<1>4. Row(rest, from + k)
  BY <1>1, <1>2, <1>3, RowSuffix, Zenon
<1>5. ASSUME rest # <<>>
      PROVE  /\ rest[1].seq = from + k + 1 /\ Row(rest, rest[1].seq - 1)
             /\ rest[Len(rest)].seq = from + Len(log)
  <2>1. /\ rest[1].seq = (from + k) + 1 /\ Row(rest, rest[1].seq - 1)
        /\ rest[Len(rest)].seq = (from + k) + Len(rest)
    BY <1>2, <1>3, <1>4, <1>5, RowFrom, Zenon
  <2>2. (from + k) + Len(rest) = from + Len(log)
    BY <1>1, <1>2
  <2> QED
    BY <2>1, <2>2
<1> QED
  BY <1>2, <1>5 DEF rest

LEMMA WholeBuffer ==
    ASSUME TypeOK, BufferInTurn, ~Damaged
    PROVE  /\ Row(buffer, 0) /\ Len(buffer) \in Nat /\ Len(buffer) <= Cap
           /\ Row(Replay, 0) /\ Len(Replay) = Len(buffer) /\ Replay \in Seq(Messages)
           /\ forgot = 0 /\ ~holes
<1>1. /\ buffer \in Seq(Messages) /\ Len(buffer) \in Nat /\ Len(buffer) <= Cap
      /\ forgot = 0 /\ ~holes
  BY Numbers DEF TypeOK, Damaged, Overfull
<1>2. Row(buffer, 0)
  <2>1. CASE buffer = <<>>
    BY <2>1, EmptySeq DEF Row
  <2>2. CASE buffer # <<>>
    <3>1. 1 \in 1..Len(buffer)
      BY <1>1, <2>2, EmptySeq
    <3>2. buffer[1] \in Messages
      BY <1>1, <3>1, ElementOfSeq
    <3>3. buffer[1].seq = 1
      BY <2>2, <3>2 DEF Damaged, Trimmed, Messages
    <3> QED
      BY <1>1, <2>2, <3>3 DEF BufferInTurn
  <2> QED
    BY <2>1, <2>2
<1>3. /\ Replay \in Seq(Messages) /\ Len(Replay) = Len(buffer)
      /\ \A i \in 1..Len(Replay) : Replay[i] = buffer[i]
  BY <1>1, ReplayTypes
<1> QED
  BY <1>1, <1>2, <1>3 DEF Row

\* Appending the next event keeps the buffer in turn.  What trimming takes from it, or
\* leaves over what a replay reads, does not come back.
LEMMA Pushed ==
    ASSUME TypeOK, BufferInTurn, NEW p \in Publisher, Push(p)
    PROVE  /\ BufferInTurn'
           /\ ~Damaged' => /\ ~Damaged /\ owed[p].seq = Len(buffer) + 1
                           /\ buffer' = Append(buffer, owed[p])
<1> DEFINE m == owed[p]
           log == Append(buffer, m)
<1>0. /\ buffer \in Seq(Messages) /\ Len(buffer) \in Nat /\ Len(buffer) <= Cap + Slack
      /\ m \in Messages /\ Cap \in Nat \ {0} /\ Slack \in Nat
  BY Numbers DEF TypeOK, Push
<1>1. /\ log \in Seq(Messages) /\ Len(log) = Len(buffer) + 1 /\ log[Len(buffer) + 1] = m
      /\ \A i \in 1..Len(buffer) : log[i] = buffer[i]
  BY <1>0, AppendProperties
<1>2. buffer' \in Kept(log) /\ forgot' = forgot /\ holes' = (holes \/ m.seq # LastSeq + 1)
  BY DEF Push
<1> HIDE DEF log, m
<1>3. /\ buffer' \in Seq(Messages) /\ Len(buffer') \in Nat /\ Len(buffer') <= Len(log)
      /\ \A i \in 1..Len(buffer') : buffer'[i] = log[i + (Len(log) - Len(buffer'))]
      /\ IF Len(log) <= Cap THEN buffer' = log ELSE Len(buffer') >= Cap
  <2>1. Len(log) <= Cap + Slack + 1
    BY <1>0, <1>1
  <2>2. /\ buffer' \in Seq(Messages) /\ Len(buffer') <= Len(log)
        /\ \A i \in 1..Len(buffer') : buffer'[i] = log[i + (Len(log) - Len(buffer'))]
        /\ IF Len(log) <= Cap THEN buffer' = log ELSE Len(buffer') >= Cap
    BY <1>1, <1>2, <2>1, KeptIsSuffix
  <2> QED
    BY <2>2
<1> DEFINE d == Len(log) - Len(buffer')
<1>4. d \in Nat /\ Len(log) \in Nat /\ Len(buffer') > 0 /\ 1 \in 1..Len(buffer')
      /\ Len(buffer') + d = Len(log) /\ log # <<>> /\ buffer' # <<>>
      /\ \A i \in 1..Len(buffer') : buffer'[i] = log[i + d]
  BY <1>0, <1>1, <1>3, EmptySeq
<1>5. ASSUME ~holes', forgot = 0
      PROVE  /\ m.seq = LastSeq + 1
             /\ log[1].seq \in Nat /\ Row(log, log[1].seq - 1)
             /\ buffer # <<>> => log[1] = buffer[1]
  <2>1. m.seq = LastSeq + 1 /\ ~holes
    BY <1>2, <1>5
  <2>2. CASE buffer = <<>>
    <3>1. Len(buffer) = 0 /\ log[1] = m /\ m.seq \in Nat
      BY <1>0, <1>1, <2>2, EmptySeq DEF Messages
    <3> QED
      BY <1>1, <2>1, <2>2, <3>1 DEF Row
  <2>3. CASE buffer # <<>>
    <3>1. 1 \in 1..Len(buffer)
      BY <1>0, <2>3, EmptySeq
    <3>2. log[1] = buffer[1] /\ buffer[1] \in Messages
      BY <1>0, <1>1, <3>1, ElementOfSeq
    <3> DEFINE from == buffer[1].seq - 1
    <3>3. buffer[1].seq \in Nat /\ from \in Int
      BY <3>2 DEF Messages
    <3>4. Row(buffer, from)
      BY <1>5, <2>1, <2>3 DEF BufferInTurn
    <3> HIDE DEF from
    <3>5. LastSeq = from + Len(buffer)
      BY <1>0, <2>3, <3>3, <3>4, RowFrom DEF LastSeq
    <3>6. m.seq = from + Len(buffer) + 1
      BY <2>1, <3>5
    <3>7. Row(log, from)
      BY <1>0, <3>3, <3>4, <3>6, RowAppend DEF log
    <3> QED
      BY <2>1, <3>2, <3>3, <3>7 DEF from
  <2> QED
    BY <2>2, <2>3
<1>6. ASSUME ~holes', forgot = 0
      PROVE  /\ buffer'[1].seq = log[1].seq + d
             /\ Row(buffer', buffer'[1].seq - 1)
  <2> DEFINE from == log[1].seq - 1
  <2>1. from \in Int /\ Row(log, from)
    BY <1>5, <1>6
  <2> HIDE DEF from, d
  <2>2. Row(buffer', from + d) /\ from + d \in Int
    <3>1. /\ Len(buffer') \in Nat /\ Len(buffer') + d <= Len(log)
          /\ d \in Nat /\ Len(log) \in Nat /\ from + d \in Int
      BY <1>3, <1>4, <2>1
    <3>2. \A i \in 1..Len(buffer') : buffer'[i] = log[i + d]
      BY <1>4
    <3>3. Row(buffer', from + d)
      BY <2>1, <3>1, <3>2, RowSuffix, Zenon
    <3> QED
      BY <3>1, <3>3
  <2>3. /\ buffer'[1].seq = (from + d) + 1
        /\ Row(buffer', buffer'[1].seq - 1)
    BY <1>3, <1>4, <2>2, RowFrom
  <2>4. (from + d) + 1 = log[1].seq + d
    BY <1>4, <1>5, <1>6 DEF from
  <2> QED
    BY <2>3, <2>4
<1> HIDE DEF d
<1>7. BufferInTurn'
  BY <1>2, <1>6 DEF BufferInTurn, Row
<1>8. ASSUME ~Damaged'
      PROVE  ~Damaged /\ m.seq = Len(buffer) + 1 /\ buffer' = log
  <2>1. ~holes' /\ forgot' = 0 /\ buffer'[1].seq <= 1 /\ Len(buffer') <= Cap
    <3>1. buffer' # <<>>
      BY <1>4, EmptySeq
    <3>2. buffer'[1] \in Messages
      BY <1>3, <1>4, ElementOfSeq
    <3>3. forgot' \in Nat /\ buffer'[1].seq \in Nat
      BY <1>2, <3>2, Numbers DEF TypeOK, Messages
    <3> QED
      BY <1>0, <1>3, <1>8, <3>1, <3>3 DEF Damaged, Trimmed, Overfull
  <2>2. forgot = 0 /\ ~holes /\ m.seq = LastSeq + 1
    BY <1>2, <1>5, <2>1
  <2>3. log[1] \in Messages
    BY <1>1, <1>4, <1>0, ElementOfSeq
  <2>4. log[1].seq = 1 /\ d = 0
    <3>1. log[1].seq \in Nat /\ log[1].seq > 0
      BY <2>3 DEF Messages
    <3> QED
      BY <1>4, <1>6, <2>1, <2>2, <3>1
  <2>5. Len(buffer') = Len(log) /\ Len(buffer) <= Cap
    BY <1>0, <1>1, <1>3, <1>4, <2>1, <2>4 DEF d
  <2>6. buffer' = log
    BY <1>0, <1>1, <1>3, <2>1, <2>5
  <2>7. ~Trimmed
    BY <1>5, <2>1, <2>2, <2>4 DEF Trimmed
  <2>8. ~Damaged
    BY <1>0, <2>2, <2>5, <2>7 DEF Damaged, Overfull
  <2>9. Row(buffer, 0) /\ Len(buffer) \in Nat
    BY <2>8, WholeBuffer
  <2>10. LastSeq = Len(buffer)
    <3>1. CASE buffer = <<>>
      BY <3>1, EmptySeq DEF LastSeq
    <3>2. CASE buffer # <<>>
      <4>1. Len(buffer) \in 1..Len(buffer)
        BY <1>0, <3>2, EmptySeq
      <4> QED
        BY <2>9, <3>2, <4>1 DEF LastSeq, Row
    <3> QED
      BY <3>1, <3>2
  <2> QED
    BY <2>2, <2>6, <2>8, <2>10
<1> QED
  BY <1>7, <1>8 DEF m, log
-----------------------------------------------------------------------------
(* What damages the buffer is there to stay, and only publishers do it.    *)

LEMMA BufferBeside ==
    ASSUME TypeOK, [Next]_vars
    PROVE  \/ \E p \in Publisher : Push(p)
           \/ Forget
           \/ UNCHANGED <<buffer, holes, forgot>>
<1>1. CASE Publish
  BY <1>1 DEF Publish, Emit, Number, Lose, Settle
<1>2. CASE Join \/ PassOn \/ Hear \/ Tick \/ IdleOut \/ Dropped \/ GoUnheard \/ ReplayFails
  BY <1>2 DEF Join, PassOn, Hear, Relay, Tick, IdleOut, Dropped, Gone, GoUnheard, ReplayFails, source
<1>3. CASE Receive \/ SeeEnd \/ Break \/ Open \/ Fetch \/ Answer \/ Reload
  BY <1>3 DEF Receive, SeeEnd, Break, Open, Fetch, Answer, Reload, world
<1>4. CASE UNCHANGED vars
  BY <1>4 DEF vars
<1> QED
  BY <1>1, <1>2, <1>3, <1>4 DEF Next

LEMMA BufferStep ==
    ASSUME TypeOK, BufferInTurn, [Next]_vars
    PROVE  /\ BufferInTurn'
           /\ ~Damaged' => ~Damaged
           /\ Forget => Damaged'
<1>1. ASSUME NEW p \in Publisher, Push(p) PROVE BufferInTurn' /\ (~Damaged' => ~Damaged)
  BY <1>1, Pushed
<1>2. CASE Forget
  <2>1. buffer' = <<>> /\ forgot' > 0
    BY <1>2, Numbers DEF Forget, TypeOK
  <2> QED
    BY <2>1 DEF BufferInTurn, Damaged
<1>3. CASE UNCHANGED <<buffer, holes, forgot>>
  <2>1. BufferInTurn' /\ Damaged' = Damaged
    BY <1>3 DEF BufferInTurn, Row, Damaged, Trimmed, Overfull
  <2> QED
    BY <1>2, <2>1
<1>4. ASSUME NEW p \in Publisher, Push(p), Forget PROVE FALSE
  BY <1>4 DEF Push, Forget, Quiet
<1> QED
  BY <1>1, <1>2, <1>3, <1>4, BufferBeside

-----------------------------------------------------------------------------
(* Between what is in the pipe, what was read of the buffer and what was   *)
(* heard of the channel there is no seam.                                  *)

\* A connection that was given up, or is new, starts behind what the tab applied.
LEMMA SeamlessAnew ==
    ASSUME TypeOK', pipe' = <<>>,
           \/ server'.at = "off"
           \/ server' = Opened(tab'.last)
    PROVE  Seamless'
<1>1. Row(pipe, tab.last)'
  BY EmptySeq DEF Row
<1>2. CASE server'.at = "off"
  BY <1>1, <1>2 DEF Seamless
<1>3. CASE server' = Opened(tab'.last)
  <2>1. /\ server'.at = "start" /\ server'.seen = tab'.last
        /\ server'.heard = <<>> /\ server'.todo = <<>>
    BY <1>3 DEF Opened
  <2>2. tab'.last \in Nat /\ Len(pipe') = 0 /\ Len(buffer') \in Nat /\ Len(server'.heard) = 0
    BY <2>1, EmptySeq DEF TypeOK, Client
  <2>3. Joint' >= 0 /\ Row(server.heard, Joint)'
    BY <2>1, <2>2, EmptySeq DEF Joint, Row
  <2>4. server'.seen = tab'.last + Len(pipe')
    BY <2>1, <2>2
  <2> QED
    BY <1>1, <2>1, <2>3, <2>4 DEF Seamless
<1> QED
  BY <1>2, <1>3

\* A publisher appends to the buffer and to what is heard of the channel at once.
LEMMA SeamlessPublish ==
    ASSUME TypeOK, BufferInTurn, Seamless, Publish, ~Damaged'
    PROVE  Seamless'
<1>0. UNCHANGED <<pipe, tab>>
  BY PublishBeside
<1>1. ASSUME UNCHANGED <<buffer, server>> PROVE Seamless'
  BY <1>0, <1>1 DEF Seamless, Joint, Row
<1>2. ASSUME NEW p \in Publisher, Push(p) PROVE Seamless'
  <2> DEFINE m == owed[p]
  <2>1. /\ m.seq = Len(buffer) + 1 /\ buffer' = Append(buffer, m)
        /\ m \in Messages /\ server \in Subscription
        /\ buffer \in Seq(Messages) /\ server.heard \in Seq(Messages)
    BY <1>2, Pushed DEF TypeOK, Push, Subscription
  <2>2. /\ server'.at = server.at /\ server'.seen = server.seen /\ server'.todo = server.todo
        /\ server'.heard = IF Hears THEN Append(server.heard, m) ELSE server.heard
    BY <1>2, <2>1 DEF Push, Subscription
  <2> HIDE DEF m
  <2>3. Len(buffer') = Len(buffer) + 1 /\ Len(buffer) \in Nat /\ Len(server.heard) \in Nat
    BY <2>1, AppendProperties
  <2>4. ASSUME server.at # "off"
        PROVE  /\ Joint' >= 0 /\ Row(server'.heard, Joint')
               /\ server.at = "live" => Joint' = Joint
    <3>0. Joint \in Int /\ Joint >= 0 /\ Joint = Len(buffer) - Len(server.heard)
          /\ Row(server.heard, Joint)
      BY <2>3, <2>4 DEF Seamless, Joint
    <3>1. CASE Hears
      <4>1. server'.heard = Append(server.heard, m) /\ Len(server'.heard) = Len(server.heard) + 1
        BY <2>1, <2>2, <3>1, AppendProperties
      <4>2. Joint' = Joint
        BY <2>3, <4>1 DEF Joint
      <4>3. m.seq = Joint + Len(server.heard) + 1
        BY <2>1, <2>3, <3>0
      <4>4. Row(server'.heard, Joint)
        BY <2>1, <3>0, <4>1, <4>3, RowAppend
      <4> QED
        BY <3>0, <4>2, <4>4
    <3>2. CASE ~Hears
      <4>1. server'.heard = <<>> /\ Len(server'.heard) = 0
        BY <2>2, <3>2, EmptySeq DEF Hears, TypeOK
      <4>2. Joint' >= 0
        BY <2>3, <4>1 DEF Joint
      <4>3. Row(server'.heard, Joint')
        BY <4>1, EmptySeq DEF Row
      <4> QED
        BY <3>2, <4>2, <4>3 DEF Hears
    <3> QED
      BY <3>1, <3>2
  <2> QED
    BY <1>0, <2>2, <2>4 DEF Seamless, Row
<1>3. ASSUME ~(\E p \in Publisher : Push(p)) PROVE UNCHANGED <<buffer, server>>
  BY <1>3, PublishBeside DEF Publish, Emit, Number, Lose, Settle
<1> QED
  BY <1>1, <1>2, <1>3
\* The oldest of what the tab has not been sent is the event after the last it was sent.
LEMMA NextOne ==
    ASSUME NEW log \in Seq(Messages), NEW from \in Nat, Row(log, from),
           server.seen \in Nat, from <= server.seen, NEW k \in New(log),
           \A j \in New(log) : k <= j
    PROVE  k \in 1..Len(log) /\ log[k].seq = server.seen + 1 /\ log[k].seq = from + k
<1>0. /\ Len(log) \in Nat /\ k \in 1..Len(log) /\ log[k].seq > server.seen
      /\ New(log) = {j \in 1..Len(log) : log[j].seq > server.seen}
  BY NewTypes
<1>1. \A j \in 1..Len(log) : log[j].seq = from + j
  BY DEF Row
<1>2. log[k].seq = from + k
  BY <1>0, <1>1
<1>3. k - 1 \notin New(log)
  BY <1>0
<1> DEFINE seen == server.seen
<1>4. k \in Nat \ {0} /\ seen \in Nat /\ from + k > seen
  BY <1>0, <1>2
<1>5. from + (k - 1) <= seen
  <2>1. CASE k = 1
    BY <2>1
  <2>2. CASE k # 1
    <3>1. k - 1 \in 1..Len(log)
      BY <1>0, <2>2
    <3>2. log[k - 1].seq = from + (k - 1)
      BY <1>1, <3>1
    <3>3. ~(from + (k - 1) > seen)
      BY <1>0, <1>3, <3>1, <3>2
    <3> QED
      BY <1>4, <3>3
  <2> QED
    BY <2>1, <2>2
<1> HIDE DEF seen
<1>6. from + k = seen + 1
  BY <1>4, <1>5
<1> QED
  BY <1>0, <1>2, <1>6 DEF seen

\* Passing on the event after the last one sent.
LEMMA SeamlessRelay ==
    ASSUME TypeOK, InTurn, Seamless, server.at \in {"live", "poll"},
           NEW m \in Messages, NEW todo \in Seq(Messages), NEW heard \in Seq(Messages),
           Relay(m, todo, heard), m.seq = server.seen + 1,
           Len(heard) <= Len(server.heard),
           Row(heard, Len(buffer) - Len(heard)),
           todo # <<>> => todo[1].seq <= m.seq + 1 /\ Row(todo, todo[1].seq - 1),
           server.at = "live" =>
              \/ m.seq >= Len(buffer) - Len(heard)
              \/ todo # <<>> /\ todo[Len(todo)].seq >= Len(buffer) - Len(heard)
    PROVE  Seamless'
<1>0. /\ server \in Subscription /\ pipe \in Seq(Messages) /\ Len(pipe) \in Nat
      /\ tab.last \in Nat /\ server.seen = tab.last + Len(pipe) /\ Row(pipe, tab.last)
      /\ server.at # "off" /\ Joint >= 0 /\ Len(buffer) \in Nat /\ Len(heard) \in Nat
      /\ Len(server.heard) \in Nat
  <2>1. /\ server \in Subscription /\ pipe \in Seq(Messages) /\ buffer \in Seq(Messages)
        /\ server.heard \in Seq(Messages) /\ tab.last \in Nat
    BY DEF TypeOK, Client, Subscription
  <2>2. Len(pipe) \in Nat /\ Len(buffer) \in Nat /\ Len(heard) \in Nat /\ Len(server.heard) \in Nat
    BY <2>1
  <2> QED
    BY <2>1, <2>2 DEF Seamless
<1>1. tab' = tab /\ buffer' = buffer /\ pipe' = Append(pipe, m) /\ Len(pipe') = Len(pipe) + 1
  BY <1>0, AppendProperties DEF Relay, source
<1>2. Row(pipe, tab.last)'
  <2>1. Row(Append(pipe, m), tab.last)
    BY <1>0, RowAppend
  <2> QED
    BY <1>1, <2>1
<1>3. CASE m.kind \in Terminal
  BY <1>2, <1>3 DEF Relay, Silent, Seamless
<1>4. CASE m.kind \notin Terminal
  <2>1. /\ server'.at = server.at /\ server'.seen = m.seq /\ server'.todo = todo
        /\ server'.heard = heard
    BY <1>0, <1>4 DEF Relay, Subscription
  <2>2. server'.seen = tab'.last + Len(pipe')
    BY <1>0, <1>1, <2>1
  <2>3. Joint' = Len(buffer) - Len(heard) /\ Joint' >= 0
    BY <1>0, <1>1, <2>1 DEF Joint
  <2>4. Row(server.heard, Joint)'
    BY <2>1, <2>3
  <2> QED
    BY <1>2, <2>1, <2>2, <2>3, <2>4 DEF Seamless
<1> QED
  BY <1>3, <1>4

\* A reading of a whole buffer reaches back to the first event, and up to the channel.
LEMMA SeamlessReading ==
    ASSUME TypeOK, BufferInTurn, Seamless, ~Damaged, server.at # "off",
           NEW at \in {"live", "poll"}, Reading(at), UNCHANGED <<pipe, tab, buffer>>
    PROVE  Seamless'
<1>0. /\ server \in Subscription /\ tab.last \in Nat /\ Len(pipe) \in Nat
      /\ server.seen = tab.last + Len(pipe) /\ Row(pipe, tab.last)
      /\ Joint >= 0 /\ Row(server.heard, Joint) /\ Len(server.heard) \in Nat
  BY DEF TypeOK, Client, Seamless, Subscription
<1>1. /\ server'.at = at /\ server'.seen = server.seen /\ server'.heard = server.heard
      /\ server'.todo = Replay
  BY <1>0 DEF Reading, Subscription
<1>2. /\ Replay \in Seq(Messages) /\ Row(Replay, 0) /\ Len(Replay) = Len(buffer)
      /\ Len(buffer) \in Nat
  BY WholeBuffer
<1>3. Joint' = Joint /\ Joint <= Len(buffer)
  BY <1>0, <1>1, <1>2 DEF Joint
<1>4. ASSUME Replay # <<>>
      PROVE  /\ Replay[1].seq <= server.seen + 1 /\ Row(Replay, Replay[1].seq - 1)
             /\ Replay[Len(Replay)].seq = Len(buffer)
  <2>1. Replay[1].seq = 1 /\ Replay[Len(Replay)].seq = Len(buffer)
        /\ Row(Replay, Replay[1].seq - 1)
    BY <1>2, <1>4, RowFrom
  <2> QED
    BY <1>0, <2>1
<1>5. Replay = <<>> => server.seen >= Joint
  <2>1. ASSUME Replay = <<>> PROVE Len(buffer) = 0
    BY <1>2, <2>1, EmptySeq
  <2> QED
    BY <1>0, <1>2, <1>3, <2>1 DEF Joint
<1>6. Row(pipe, tab.last)' /\ Row(server.heard, Joint)'
  BY <1>0, <1>1, <1>3
<1>7. Replay # <<>> => Replay[Len(Replay)].seq >= Joint
  BY <1>2, <1>3, <1>4 DEF Joint
<1>8. server'.seen = tab'.last + Len(pipe')
  BY <1>0, <1>1
<1> QED
  <2>1. server'.todo # <<>> =>
           server'.todo[1].seq <= server'.seen + 1 /\ Row(server.todo, server.todo[1].seq - 1)'
    BY <1>1, <1>4
  <2>2. \/ server'.seen >= Joint'
        \/ server'.todo # <<>> /\ server'.todo[Len(server'.todo)].seq >= Joint'
    BY <1>1, <1>3, <1>5, <1>7
  <2>3. Joint' >= 0
    BY <1>0, <1>3
  <2> QED
    BY <1>6, <1>8, <2>1, <2>2, <2>3 DEF Seamless
LEMMA SeamlessPassOn ==
    ASSUME TypeOK, InTurn, Seamless, PassOn
    PROVE  Seamless'
<1>1. PICK k \in New(server.todo) :
        /\ \A j \in New(server.todo) : k <= j
        /\ Relay(server.todo[k], SubSeq(server.todo, k + 1, Len(server.todo)), server.heard)
  BY DEF PassOn
<1> DEFINE todo == server.todo
           rest == SubSeq(todo, k + 1, Len(todo))
           from == todo[1].seq - 1
           m == todo[k]
<1>2. /\ todo \in Seq(Messages) /\ server.heard \in Seq(Messages) /\ server.seen \in Nat
      /\ Len(server.heard) \in Nat /\ Len(buffer) \in Nat
  BY DEF TypeOK, Subscription
<1>3. Len(todo) \in Nat /\ k \in 1..Len(todo)
  BY <1>1, <1>2, NewTypes
<1>4. todo # <<>> /\ server.at \in {"live", "poll"} /\ 1 \in 1..Len(todo)
  BY <1>3, EmptySeq DEF TypeOK
<1>5. from \in Nat /\ from <= server.seen /\ Row(todo, from)
  <2>1. todo[1] \in Messages
    BY <1>2, <1>4, ElementOfSeq
  <2>2. todo[1].seq \in Nat /\ todo[1].seq > 0
    BY <2>1 DEF Messages
  <2>3. todo[1].seq <= server.seen + 1 /\ Row(todo, from)
    BY <1>4 DEF Seamless
  <2> QED
    BY <1>2, <2>2, <2>3
<1>6. todo[Len(todo)].seq = from + Len(todo)
  BY <1>2, <1>3, <1>4, <1>5, RowFrom
<1> HIDE DEF from
<1>7. m.seq = server.seen + 1 /\ m.seq = from + k /\ m \in Messages
  BY <1>1, <1>2, <1>3, <1>5, NextOne, ElementOfSeq
<1>8. /\ rest \in Seq(Messages) /\ Len(rest) = Len(todo) - k
      /\ rest # <<>> => /\ rest[1].seq = from + k + 1 /\ Row(rest, rest[1].seq - 1)
                        /\ rest[Len(rest)].seq = from + Len(todo)
  <2>1. from \in Int
    BY <1>5
  <2> HIDE DEF todo
  <2> QED
    BY <1>2, <1>3, <1>5, <2>1, RowBehind, Zenon
<1> HIDE DEF rest
<1>9. from + k + 1 <= m.seq + 1
  BY <1>3, <1>5, <1>7
<1>10. rest # <<>> =>
          /\ rest[1].seq <= m.seq + 1 /\ Row(rest, rest[1].seq - 1)
          /\ rest[Len(rest)].seq = todo[Len(todo)].seq
  BY <1>6, <1>8, <1>9
<1>11. rest = <<>> => m.seq = todo[Len(todo)].seq
  <2>1. ASSUME rest = <<>> PROVE Len(rest) = 0
    BY <2>1, EmptySeq
  <2> QED
    BY <1>3, <1>5, <1>6, <1>7, <1>8, <2>1
<1>12. server.at = "live" =>
          m.seq >= Joint \/ (rest # <<>> /\ rest[Len(rest)].seq >= Joint)
  <2>1. server.at = "live" => server.seen >= Joint \/ todo[Len(todo)].seq >= Joint
    BY <1>4 DEF Seamless
  <2>2. Joint \in Int
    BY <1>2 DEF Joint
  <2>3. server.seen >= Joint => m.seq >= Joint
    BY <1>2, <1>7, <2>2
  <2> QED
    BY <1>10, <1>11, <2>1, <2>3
<1>13. Row(server.heard, Joint)
  BY <1>4 DEF Seamless
<1>14. Relay(m, rest, server.heard)
  BY <1>1 DEF rest
<1> HIDE DEF m, todo
<1>15. Len(server.heard) <= Len(server.heard)
  BY <1>2
<1> QED
  BY <1>2, <1>4, <1>7, <1>8, <1>10, <1>12, <1>13, <1>14, <1>15, SeamlessRelay DEF Joint

\* The oldest message heard of the channel is the next one, or one sent before.
LEMMA SeamlessHear ==
    ASSUME TypeOK, InTurn, Seamless, Hear
    PROVE  Seamless'
<1> DEFINE heard == server.heard
           rest == Tail(heard)
           m == Head(heard)
<1>1. /\ heard \in Seq(Messages) /\ heard # <<>> /\ server.seen \in Nat
      /\ server \in Subscription /\ server.todo \in Seq(Messages)
      /\ server.at = "live" /\ Waiting /\ Len(buffer) \in Nat /\ Len(heard) \in Nat
  BY DEF TypeOK, Subscription, Hear
<1>2. Joint \in Int /\ Joint >= 0 /\ Joint = Len(buffer) - Len(heard) /\ Row(heard, Joint)
  BY <1>1 DEF Seamless, Joint
<1>3. /\ m \in Messages /\ rest \in Seq(Messages) /\ Len(rest) = Len(heard) - 1
      /\ m.seq = Joint + 1 /\ Row(rest, Joint + 1)
  BY <1>1, <1>2, RowTail
<1> HIDE DEF heard, rest, m
<1>4. Joint + 1 = Len(buffer) - Len(rest)
  <2>1. Len(rest) = Len(heard) - 1 /\ Joint = Len(buffer) - Len(heard)
    BY <1>2, <1>3
  <2> HIDE DEF Joint
  <2>2. Len(heard) \in Nat /\ Len(buffer) \in Nat
    BY <1>1
  <2> QED
    BY <2>1, <2>2
<1>6. server.seen >= Joint
  <2>1. CASE server.todo = <<>>
    BY <1>1, <2>1 DEF Seamless
  <2>2. CASE server.todo # <<>>
    <3> DEFINE n == Len(server.todo)
    <3>1. n \in 1..n
      BY <1>1, <2>2, EmptySeq
    <3>2. New(server.todo) = {}
      BY <1>1 DEF Waiting
    <3>3. ~(server.todo[n].seq > server.seen)
      BY <1>1, <3>1, <3>2, NewTypes
    <3>4. server.todo[n].seq \in Nat
      <4>1. server.todo[n] \in Messages
        BY <1>1, <3>1, ElementOfSeq
      <4> QED
        BY <4>1 DEF Messages
    <3>5. server.seen >= Joint \/ server.todo[n].seq >= Joint
      BY <1>1 DEF Seamless
    <3> QED
      BY <1>1, <1>2, <3>3, <3>4, <3>5
  <2> QED
    BY <2>1, <2>2
<1>8. CASE m.seq > server.seen /\ Relay(m, <<>>, rest)
  <2>1. m.seq = server.seen + 1
    BY <1>1, <1>2, <1>3, <1>6, <1>8
  <2>2. Row(rest, Len(buffer) - Len(rest)) /\ m.seq >= Len(buffer) - Len(rest)
    BY <1>2, <1>3, <1>4
  <2>3. Len(rest) <= Len(heard)
    BY <1>1, <1>3
  <2>4. <<>> \in Seq(Messages)
    BY EmptySeq
  <2> QED
    BY <1>1, <1>3, <1>8, <2>1, <2>2, <2>3, <2>4, SeamlessRelay DEF heard
<1>9. CASE /\ m.seq <= server.seen
           /\ server' = [server EXCEPT !.heard = rest] /\ UNCHANGED <<source, pipe>>
  <2>1. /\ server'.at = server.at /\ server'.seen = server.seen /\ server'.todo = server.todo
        /\ server'.heard = rest /\ tab' = tab /\ buffer' = buffer /\ pipe' = pipe
    BY <1>1, <1>9 DEF Subscription, source
  <2>2. Joint' = Joint + 1
    BY <1>4, <2>1 DEF Joint
  <2>3. Joint' >= 0 /\ server.seen >= Joint'
    BY <1>1, <1>2, <1>3, <1>9, <2>2
  <2>4. Row(server.heard, Joint)'
    BY <1>3, <2>1, <2>2
  <2>5. Row(pipe, tab.last)' /\ server'.seen = tab'.last + Len(pipe')
    BY <1>1, <2>1 DEF Seamless
  <2>6. server'.todo # <<>> =>
           server'.todo[1].seq <= server'.seen + 1 /\ Row(server.todo, server.todo[1].seq - 1)'
    BY <1>1, <2>1 DEF Seamless
  <2> QED
    BY <2>1, <2>3, <2>4, <2>5, <2>6 DEF Seamless
<1> QED
  BY <1>8, <1>9 DEF Hear, m, rest, heard

LEMMA SeamlessServer ==
    ASSUME TypeOK, TypeOK', InTurn, BufferInTurn, Seamless, ~Damaged,
           Join \/ PassOn \/ Hear \/ Tick \/ IdleOut \/ Dropped
    PROVE  Seamless'
<1>1. CASE Join
  <2>1. CASE server.at = "start" /\ \E at \in {"replay", "unheard"} : server' = [server EXCEPT !.at = at]
    <3>1. /\ server'.at \in {"replay", "unheard"} /\ server'.seen = server.seen
          /\ server'.heard = server.heard /\ server'.todo = server.todo
      BY <2>1 DEF TypeOK, Subscription
    <3>2. UNCHANGED <<pipe, tab, buffer>>
      BY <1>1 DEF Join, source
    <3> QED
      BY <2>1, <3>1, <3>2 DEF Seamless, Joint, Row
  <2>2. CASE /\ server.at \in {"replay", "unheard"}
             /\ \E at \in {"live", "poll"} : Reading(at)
    <3>1. UNCHANGED <<pipe, tab, buffer>>
      BY <1>1 DEF Join, source
    <3> QED
      BY <2>2, <3>1, SeamlessReading
  <2> QED
    BY <1>1, <2>1, <2>2 DEF Join
<1>2. CASE PassOn \/ Hear
  BY <1>2, SeamlessPassOn, SeamlessHear
<1>3. CASE Tick
  BY <1>3, SeamlessReading DEF Tick, Waiting, source
<1>4. CASE IdleOut \/ Dropped
  <2>1. server'.at = "off" /\ UNCHANGED <<pipe, tab>>
    BY <1>4 DEF IdleOut, Dropped, Gone, Silent, source
  <2> QED
    BY <2>1 DEF Seamless, Row
<1> QED
  BY <1>1, <1>2, <1>3, <1>4
-----------------------------------------------------------------------------
(* A gap has an excuse.                                                    *)

LEMMA ExcusedServer ==
    ASSUME TypeOK, TypeOK', InTurn, BufferInTurn, Excused, ~Damaged,
           Join \/ PassOn \/ Hear \/ Tick \/ IdleOut \/ Dropped \/ GoUnheard \/ ReplayFails
    PROVE  Excused'
<1>0. tab' = tab /\ missed \in Nat /\ tab.repairs \in Nat
  <2>1. tab' = tab
    BY ServerBeside
  <2>2. tab.repairs \in 0..MaxRepairs
    BY DEF TypeOK, Client
  <2>3. missed \in Nat
    BY DEF TypeOK
  <2> QED
    BY <2>1, <2>2, <2>3
<1>1. CASE GoUnheard \/ ReplayFails
  <2>1. missed' = missed + 1
    BY <1>1 DEF GoUnheard, ReplayFails
  <2>2. tab.repairs < missed' /\ (tab.gapped => missed' > 0)
        /\ (tab.why = "expired" => missed' > MaxRepairs)
    BY <1>0, <2>1, Numbers DEF Excused
  <2>3. tab.repairs <= missed'
    BY <1>0, <2>1, <2>2
  <2> QED
    BY <1>0, <2>2, <2>3 DEF Excused
<1>2. CASE Join \/ PassOn \/ Hear \/ Tick \/ IdleOut \/ Dropped
  <2>1. missed' = missed
    BY <1>2 DEF Join, PassOn, Hear, Relay, Tick, IdleOut, Dropped, Gone
  <2>2. Seamless => Seamless'
    BY <1>2, SeamlessServer
  <2> QED
    BY <1>0, <2>1, <2>2 DEF Excused
<1> QED
  BY <1>1, <1>2

\* Without a seam the message that arrives is the next one; with one, something was
\* missed that no repair has been counted against yet.
LEMMA ExcusedReceive ==
    ASSUME TypeOK, TypeOK', InTurn, Excused, ~Damaged, Receive
    PROVE  Excused'
<1>0. /\ pipe \in Seq(Messages) /\ tab.last \in Nat /\ tab.repairs \in Nat /\ missed \in Nat
      /\ UNCHANGED <<buffer, missed>> /\ MaxRepairs \in Nat
  BY Numbers DEF TypeOK, Client, Receive, world
<1>1. PICK m \in Messages :
        /\ m = Head(pipe) /\ tab.conn = "open" /\ pipe # <<>>
        /\ Drops(m) \/ Repairs(m) \/ Applies(m) \/ Finishes(m)
  BY ReceiveCases
<1>2. tab.why = "none" /\ tab.repairs <= missed
  BY <1>1 DEF InTurn, Excused
<1>3. HangUp => Seamless'
  BY SeamlessAnew DEF HangUp, Silent
<1>4. Seamless => /\ Verdict(m.seq) = "apply" /\ m.seq = tab.last + 1
                  /\ Row(Tail(pipe), tab.last + 1) /\ Len(Tail(pipe)) = Len(pipe) - 1
                  /\ Len(pipe) \in Nat
  <2>1. ASSUME Seamless
        PROVE  /\ m.seq = tab.last + 1 /\ Row(Tail(pipe), tab.last + 1)
               /\ Len(Tail(pipe)) = Len(pipe) - 1 /\ Len(pipe) \in Nat
    BY <1>0, <1>1, <2>1, RowTail DEF Seamless
  <2>2. m.seq = tab.last + 1 => Verdict(m.seq) = "apply"
    BY <1>0 DEF Verdict
  <2> QED
    BY <2>1, <2>2
<1>5. CASE Drops(m)
  <2>1. ~Seamless /\ tab' = tab
    BY <1>4, <1>5 DEF Drops
  <2> QED
    BY <1>0, <2>1 DEF Excused
<1>6. CASE Repairs(m)
  <2>1. ~Seamless
    BY <1>4, <1>6 DEF Repairs
  <2>2. tab.repairs < missed
    BY <2>1 DEF Excused
  <2>3. tab'.repairs <= missed
    <3>1. tab'.repairs \in {0, tab.repairs + 1, tab.repairs}
      BY <1>6, RepairedTypes DEF Repairs
    <3> QED
      BY <1>0, <2>2, <3>1
  <2>4. tab'.why = "expired" => missed > MaxRepairs
    <3>1. tab'.why = "expired" => tab.repairs = MaxRepairs
      BY <1>2, <1>6, RepairedTypes DEF Repairs
    <3> QED
      BY <2>2, <3>1
  <2>5. missed > 0
    BY <1>0, <2>2
  <2> QED
    BY <1>0, <1>3, <1>6, <2>3, <2>4, <2>5 DEF Excused, Repairs
<1>7. CASE Applies(m)
  <2>1. /\ tab'.last = m.seq /\ tab'.gapped = tab.gapped /\ tab'.repairs = tab.repairs
        /\ tab'.why = tab.why /\ pipe' = Tail(pipe) /\ server' = server
    BY <1>7, AppliedNext DEF Applies
  <2>2. ASSUME Seamless PROVE Seamless'
    <3>1. Row(pipe, tab.last)'
      BY <1>4, <2>1, <2>2
    <3>2. server.at # "off" => server'.seen = tab'.last + Len(pipe')
      <4>1. server.at # "off" => server.seen = tab.last + Len(pipe)
        BY <2>2 DEF Seamless
      <4>2. tab'.last = tab.last + 1 /\ Len(pipe') = Len(pipe) - 1 /\ Len(pipe) \in Nat
        BY <1>4, <2>1, <2>2
      <4>3. tab'.last + Len(pipe') = tab.last + Len(pipe)
        BY <1>0, <4>2
      <4> QED
        BY <2>1, <4>1, <4>3
    <3> QED
      BY <1>0, <2>1, <2>2, <3>1, <3>2 DEF Seamless, Joint, Row
  <2> QED
    BY <1>0, <1>2, <2>1, <2>2 DEF Excused
<1>8. CASE Finishes(m)
  <2>1. /\ tab'.gapped = tab.gapped /\ tab'.repairs = tab.repairs /\ tab'.why = "complete"
        /\ Seamless'
    BY <1>3, <1>8, AppliedNext DEF Finishes
  <2> QED
    BY <1>0, <1>2, <2>1 DEF Excused
<1> QED
  BY <1>1, <1>5, <1>6, <1>7, <1>8

LEMMA ExcusedTab ==
    ASSUME TypeOK, TypeOK', InTurn, Excused, ~Damaged,
           SeeEnd \/ Break \/ Open \/ Fetch \/ Answer \/ Reload
    PROVE  Excused'
<1>0. missed \in Nat /\ tab.repairs \in Nat /\ UNCHANGED <<buffer, missed>>
  <2>1. UNCHANGED <<buffer, missed>>
    BY DEF SeeEnd, Break, Open, Fetch, Answer, Reload, world
  <2>2. tab.repairs \in 0..MaxRepairs
    BY DEF TypeOK, Client
  <2>3. missed \in Nat
    BY DEF TypeOK
  <2> QED
    BY <2>1, <2>2, <2>3
<1>1. CASE SeeEnd \/ Break \/ Open \/ Fetch \/ Answer
  <2>1. Keeps(tab, tab') /\ Carried
    BY <1>1, TabSteps
  <2>2. tab'.repairs <= tab.repairs
    BY <1>0, <2>1 DEF Keeps
  <2>3. Seamless => Seamless'
    <3>1. CASE pipe' = pipe /\ server' = server
      BY <1>0, <2>1, <3>1 DEF Keeps, Seamless, Joint, Row
    <3>2. CASE pipe' = <<>> /\ (server'.at = "off" \/ server' = Opened(tab.last))
      BY <2>1, <3>2, SeamlessAnew DEF Keeps
    <3> QED
      BY <2>1, <3>1, <3>2 DEF Carried
  <2>4. tab'.gapped = tab.gapped /\ (tab'.why = "expired" => tab.why = "expired")
    BY <2>1 DEF Keeps
  <2>5. tab'.repairs <= missed /\ (tab.repairs < missed => tab'.repairs < missed)
    <3>1. tab.repairs <= missed /\ tab'.repairs \in {0, tab.repairs}
      BY <2>1 DEF Excused, Keeps
    <3> QED
      BY <1>0, <3>1
  <2> QED
    BY <1>0, <2>3, <2>4, <2>5 DEF Excused
<1>2. CASE Reload
  <2>1. /\ tab'.gapped = FALSE /\ tab'.repairs = 0 /\ tab'.why = "none" /\ HangUp
    BY <1>2, ReloadStep
  <2>2. Seamless'
    BY <2>1, SeamlessAnew DEF HangUp, Silent
  <2> QED
    BY <1>0, <2>1, <2>2 DEF Excused
<1> QED
  BY <1>1, <1>2

LEMMA ExcusedStep ==
    ASSUME TypeOK, InTurn, BufferInTurn, Excused, [Next]_vars
    PROVE  Excused'
<1>0. TypeOK'
  BY TypesStep
<1>1. SUFFICES ASSUME ~Damaged' PROVE Excused'
  BY DEF Excused
<1>2. ~Damaged /\ ~Forget
  BY <1>1, BufferStep
<1>3. CASE Publish
  <2>1. UNCHANGED <<tab, missed>>
    BY <1>3, PublishBeside
  <2>2. Seamless => Seamless'
    BY <1>1, <1>3, SeamlessPublish
  <2> QED
    BY <1>2, <2>1, <2>2 DEF Excused
<1>4. CASE Join \/ PassOn \/ Hear \/ Tick \/ IdleOut \/ Dropped \/ GoUnheard \/ ReplayFails
  BY <1>0, <1>2, <1>4, ExcusedServer
<1>5. CASE Receive
  BY <1>0, <1>2, <1>5, ExcusedReceive
<1>6. CASE SeeEnd \/ Break \/ Open \/ Fetch \/ Answer \/ Reload
  BY <1>0, <1>2, <1>6, ExcusedTab
<1>7. CASE UNCHANGED vars
  <2>1. /\ UNCHANGED <<buffer, server, pipe, tab>> /\ UNCHANGED missed
    BY <1>7 DEF vars
  <2>2. Seamless' = Seamless
    BY <2>1 DEF Seamless, Joint, Row
  <2> QED
    BY <1>2, <2>1, <2>2 DEF Excused
<1> QED
  BY <1>2, <1>3, <1>4, <1>5, <1>6, <1>7 DEF Next

LEMMA ExcusedInit == Init => BufferInTurn /\ Excused
<1> SUFFICES ASSUME Init PROVE BufferInTurn /\ Excused
  OBVIOUS
<1>1. TypeOK
  BY TypesInit
<1>2. /\ buffer = <<>> /\ pipe = <<>> /\ server = Opened(0) /\ missed = 0
      /\ tab.last = 0 /\ tab.repairs = 0 /\ tab.gapped = FALSE /\ tab.why = "none"
  BY DEF Init
<1>3. Seamless
  <2>1. /\ server.at = "start" /\ server.seen = 0 /\ server.heard = <<>> /\ server.todo = <<>>
    BY <1>2 DEF Opened
  <2>2. Len(<<>>) = 0
    BY EmptySeq
  <2>3. Joint = 0
    BY <1>2, <2>1, <2>2 DEF Joint
  <2> QED
    BY <1>2, <2>1, <2>2, <2>3 DEF Seamless, Row
<1> QED
  BY <1>2, <1>3 DEF BufferInTurn, Excused

-----------------------------------------------------------------------------
(* The theorems.                                                           *)

LEMMA IInvAlways == Spec => []IInv
<1>1. Init => IInv
  BY TypesInit, InTurnInit, ExcusedInit, NumberedInit DEF IInv
<1>2. IInv /\ [Next]_vars => IInv'
  <2>1. SUFFICES ASSUME IInv, [Next]_vars PROVE IInv'
    OBVIOUS
  <2>2. TypeOK /\ InTurn /\ BufferInTurn /\ Excused /\ (forgot < 2 => Numbered)
    BY <2>1 DEF IInv
  <2>3. TypeOK' /\ InTurn' /\ BufferInTurn' /\ Excused'
    BY <2>1, <2>2, TypesStep, InTurnStep, BufferStep, ExcusedStep
  <2>4. forgot' < 2 => Numbered'
    BY <2>1, <2>2, NumberedStep
  <2> QED
    BY <2>3, <2>4 DEF IInv
<1> QED
  BY <1>1, <1>2, PTL DEF Spec

\* Publishers, subscription, connection and tab keep to the shape of their state.
THEOREM StreamTyped == Spec => []TypeOK
<1>1. IInv => TypeOK
  BY DEF IInv
<1> QED
  BY <1>1, IInvAlways, PTL

\* A stream that closes as complete has applied the events from the first to a
\* run.complete, each as it was numbered, however often the connection broke, the
\* subscription was opened anew or a message came twice, late or not at all
\* (SeqTracker.check, sse.ts).  It says so until the counter itself has expired.
THEOREM StreamCompleteIsWhole == Spec => []CompleteIsWhole
<1>1. IInv => CompleteIsWhole
  <2>1. SUFFICES ASSUME IInv, tab.why = "complete", forgot < 2
                 PROVE  /\ Len(tab.applied) = tab.last /\ tab.last \in 1..Len(sent)
                        /\ \A i \in 1..tab.last : tab.applied[i] = [seq |-> i, kind |-> sent[i]]
                        /\ sent[tab.last] \in Terminal
    BY DEF CompleteIsWhole
  <2>2. /\ TypeOK /\ AllGenuine(tab.applied)
        /\ Len(tab.applied) = tab.last /\ tab.last > 0 /\ tab.last \in Nat
        /\ \A i \in 1..tab.last : tab.applied[i].seq = i
        /\ tab.applied[tab.last].kind \in Terminal
    BY <2>1 DEF IInv, InTurn, Numbered, TypeOK, Client
  <2>3. ASSUME NEW i \in 1..tab.last
        PROVE  i \in 1..Len(sent) /\ tab.applied[i] = [seq |-> i, kind |-> sent[i]]
    <3>1. Given(sent, tab.applied[i]) /\ tab.applied[i].seq = i
      BY <2>2 DEF AllGenuine, Genuine
    <3> QED
      BY <3>1 DEF Given
  <2>4. tab.last \in 1..tab.last
    BY <2>2
  <2>5. tab.applied[tab.last] = [seq |-> tab.last, kind |-> sent[tab.last]]
    BY <2>3, <2>4
  <2>6. sent[tab.last] \in Terminal
    BY <2>2, <2>5
  <2> QED
    BY <2>2, <2>3, <2>4, <2>6
<1> QED
  BY <1>1, IInvAlways, PTL

\* Between a replay and the live channel nothing falls: as long as the buffer is whole
\* and fits one replay, a tab sees a gap only after pub/sub dropped a message or a replay
\* failed, and gives a stream up as expired only after that happened more often than the
\* tab repairs (subscribe before replay, events.py; onGap and openStream, sse.ts).
THEOREM StreamGapNeedsFault == Spec => []GapNeedsFault
<1>1. IInv => GapNeedsFault
  BY DEF IInv, Excused, GapNeedsFault
<1> QED
  BY <1>1, IInvAlways, PTL

=============================================================================
