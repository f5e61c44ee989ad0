---------------------------- MODULE MirrorProofs ---------------------------
(***************************************************************************)
(* No crash, retry, bounded pass or overlap of passes leaves history       *)
(* behind the cursor that the mirror never saw, and the backfill is whole  *)
(* when it says so; for any mailbox, any pages and any number of workers.  *)
(*                                                                         *)
(* The argument: what is covered stays covered, because the mirror never   *)
(* goes back and history only grows.  So each pass may keep to itself what *)
(* it has covered, whatever others do meanwhile, and hand it over with the *)
(* cursor at its end.                                                      *)
(***************************************************************************)
EXTENDS MirrorSync, SequenceTheorems, WellFoundedInduction, TLAPS

\* History up to p reached the mirror, but for what the rest of it deletes.
Covered(p) ==
    \A m \in Msg :
        \A i \in Entries(m, resynced + 1, p) :
            \/ seen[m] >= i
            \/ \E j \in Entries(m, p + 1, Len(log)) : log[j].gone

\* What the page in hand covers once it is committed.
CoversWith(t, p) ==
    \A m \in Msg :
        \A i \in Entries(m, resynced + 1, p) :
            \/ seen[m] >= i
            \/ m \in t.gone \/ (m \in DOMAIN t.batch /\ t.batch[m] >= i)
            \/ \E j \in Entries(m, p + 1, Len(log)) : log[j].gone

\* The mailbox has one of the histories it may have, as far as it has come.
LogGrows ==
    /\ log \in Seq([msg : Msg, gone : BOOLEAN]) /\ Connected <= Len(log)
    /\ \E h \in Histories : Len(log) <= Len(h) /\ \A i \in 1..Len(log) : log[i] = h[i]

States == [history : Nat, page : Nat, failures : Nat, open : BOOLEAN,
           walked : SUBSET Msg, complete : BOOLEAN]

Tasks == [at : {"profile", "list", "walk", "commit", "mark"}, kind : Kind,
          mode : {"profile", "list", "walk"}, latest : Nat, start : Nat, page : Nat,
          walked : SUBSET Msg, whole : BOOLEAN, done : Nat, more : BOOLEAN,
          gone : SUBSET Msg, batch : UNION {[D -> Nat] : D \in SUBSET Msg}]

Shapes ==
    /\ seen \in [Msg -> Nat] /\ \A m \in Msg : seen[m] = 0 \/ seen[m] \in Entries(m, 1, Len(log))
    /\ state \in States /\ resynced \in Nat
    /\ task = [s \in Slot |-> task[s]]
    /\ \A s \in Slot : task[s] = Idle \/ task[s] \in Tasks

\* Positions a task holds are of history that has happened.
Behind(t) ==
    /\ {t.start, t.page, t.latest} \subseteq 0..Len(log)
    /\ \A m \in t.gone : Entries(m, 1, Len(log)) # {}
    /\ \A m \in DOMAIN t.batch : t.batch[m] \in Entries(m, 1, Len(log))

\* A pass that lists has covered what is before its page.
ListCovers(t) ==
    /\ t.at = "list" => t.mode = "list"
    /\ t.at = "walk" => t.mode # "list"
    /\ t.mode = "list" =>
        /\ Covered(t.start)
        /\ t.at \in {"list", "mark"} => Covered(t.page)
        /\ t.at = "mark" /\ t.page = 0 => Covered(t.latest)
        /\ t.at = "commit" => CoversWith(t, IF t.page # 0 THEN t.page ELSE t.latest)

\* A message that was there on connecting and is still there.
Old(m) == m \in InBox /\ Entries(m, 1, Connected) # {}

\* A walk has copied what it walked, and is over when nothing is left.
WalkCovers(t) ==
    /\ t.mode = "walk" <=> t.kind = "backfill"
    /\ t.mode = "walk" =>
        /\ t.at \in {"walk", "commit", "mark"}
        /\ \A m \in t.walked : seen[m] # 0 \/ (t.at = "commit" /\ m \in DOMAIN t.batch)
        /\ t.at # "walk" /\ ~t.more => \A m \in Msg : Old(m) => m \in t.walked

StateCovers ==
    /\ state.history <= Len(log) /\ state.page <= Len(log)
    /\ Covered(state.history) /\ Covered(state.page)
    /\ \A m \in state.walked : seen[m] # 0
    /\ state.complete => \A m \in Msg : Old(m) => seen[m] # 0

TaskCovers(s) == task[s] # Idle => Behind(task[s]) /\ ListCovers(task[s]) /\ WalkCovers(task[s])

IInv == LogGrows /\ Shapes /\ StateCovers /\ \A s \in Slot : TaskCovers(s)

-----------------------------------------------------------------------------
(* Lemmas about positions.                                                 *)

\* Numbers have a least one, and numbers up to n a greatest one.
LEMMA HasLeast ==
    ASSUME NEW T \in SUBSET Nat, T # {}
    PROVE  \E x \in T : \A y \in T : x <= y
<1>1. IsWellFoundedOn(OpToRel(<, Nat), Nat)
  BY NatLessThanWellFounded
<1>2. PICK x \in T : \A y \in T : ~(<<y, x>> \in OpToRel(<, Nat))
  BY <1>1, WFMin
<1>3. ASSUME NEW y \in T PROVE x <= y
  <2>1. ~(<<y, x>> \in OpToRel(<, Nat))
    BY <1>2
  <2>2. x \in Nat /\ y \in Nat
    OBVIOUS
  <2>3. ~(y < x)
    BY <2>1, <2>2 DEF OpToRel
  <2> QED  BY <2>2, <2>3
<1> QED  BY <1>3

LEMMA HasGreatest ==
    ASSUME NEW n \in Nat, NEW T \in SUBSET (0..n), T # {}
    PROVE  Max(T) \in T /\ \A y \in T : Max(T) >= y
<1> DEFINE U == {k \in 0..n : n - k \in T}
<1>1. PICK k \in U : \A j \in U : k <= j
  <2>1. PICK x \in T : TRUE
    OBVIOUS
  <2>2. n - x \in U /\ U \in SUBSET Nat
    BY <2>1
  <2> QED  BY <2>2, HasLeast
<1>2. \A y \in T : n - y \in U
  OBVIOUS
<1>3. n - k \in T /\ \A y \in T : n - k >= y
  BY <1>1, <1>2
<1> QED  BY <1>3 DEF Max

LEMMA OfTwo ==
    ASSUME NEW a \in Nat, NEW b \in Nat
    PROVE  /\ Max({a, b}) = IF a >= b THEN a ELSE b
           /\ Min({a, b}) = IF a <= b THEN a ELSE b
  BY DEF Max, Min

\* A message is in the mailbox at the version of its last entry, unless that deletes it.
LEMMA LastEntry ==
    ASSUME Len(log) \in Nat, NEW m
    PROVE  /\ Entries(m, 1, Len(log)) = {} => Version(m) = 0
           /\ Entries(m, 1, Len(log)) # {} =>
                LET last == Max(Entries(m, 1, Len(log)))
                IN /\ last \in Entries(m, 1, Len(log)) /\ \A i \in Entries(m, 1, Len(log)) : i <= last
                   /\ Version(m) = IF log[last].gone THEN 0 ELSE last
<1> DEFINE E == Entries(m, 1, Len(log))
           last == Max(E \cup {0})
<1>1. E \subseteq 1..Len(log) /\ E \cup {0} \in SUBSET (0..Len(log)) /\ E \cup {0} # {}
  BY DEF Entries
<1>2. last \in E \cup {0} /\ \A y \in E \cup {0} : last >= y
  BY <1>1, HasGreatest
<1>3. Version(m) = IF last = 0 \/ log[last].gone THEN 0 ELSE last
  BY DEF Version
<1> HIDE DEF last
<1>4. CASE E = {}
  BY <1>2, <1>3, <1>4
<1>5. CASE E # {}
  <2>1. Max(E) \in E /\ \A y \in E : Max(E) >= y
    <3>1. E \in SUBSET (0..Len(log))
      BY <1>1
    <3> QED  BY <1>5, <3>1, HasGreatest
  <2>2. Max(E) \in 1..Len(log) /\ last >= Max(E) /\ last \in 0..Len(log)
    BY <1>1, <1>2, <2>1
  <2>3. last # 0 /\ last \in E
    BY <1>2, <2>2
  <2>4. last = Max(E)
    BY <2>1, <2>2, <2>3
  <2> QED  BY <1>1, <1>3, <1>5, <2>1, <2>2, <2>3, <2>4
<1> QED  BY <1>4, <1>5

-----------------------------------------------------------------------------
(* What is covered stays covered.                                          *)

\* The mirror does not go back, history only grows, and nobody old comes back.
Onward ==
    /\ LogGrows /\ LogGrows' /\ Shapes /\ Shapes'
    /\ Len(log) <= Len(log') /\ \A i \in 1..Len(log) : log'[i] = log[i]
    /\ \A m \in Msg : seen'[m] >= seen[m]
    /\ resynced' >= resynced
    /\ \A m \in Msg : Old(m)' => Old(m)

\* Entries that were there are there.
LEMMA EntriesStay ==
    ASSUME Onward, NEW m
    PROVE  /\ \A lo \in Nat \ {0}, p \in 0..Len(log) : Entries(m, lo, p)' = Entries(m, lo, p)
           /\ \A lo \in Nat \ {0} : Entries(m, lo, Len(log)) \subseteq Entries(m, lo, Len(log))'
           /\ \A p \in 0..Len(log) : Entries(m, resynced + 1, p)' \subseteq Entries(m, resynced + 1, p)
<1>1. Len(log) \in Nat /\ Len(log') \in Nat /\ resynced \in Nat /\ resynced' \in Nat
  BY DEF Onward, LogGrows, Shapes
<1>2. \A i \in 1..Len(log) : log'[i].msg = log[i].msg
  BY DEF Onward
<1>3. ASSUME NEW lo \in Nat \ {0}, NEW p \in 0..Len(log) PROVE Entries(m, lo, p)' = Entries(m, lo, p)
  <2>1. lo..p \subseteq 1..Len(log)
    BY <1>1
  <2> QED  BY <1>2, <2>1 DEF Entries
<1>4. ASSUME NEW lo \in Nat \ {0} PROVE Entries(m, lo, Len(log)) \subseteq Entries(m, lo, Len(log))'
  <2>1. lo..Len(log) \subseteq 1..Len(log) /\ lo..Len(log) \subseteq lo..Len(log')
    BY <1>1 DEF Onward
  <2> QED  BY <1>2, <2>1 DEF Entries
<1>5. ASSUME NEW p \in 0..Len(log) PROVE Entries(m, resynced + 1, p)' \subseteq Entries(m, resynced + 1, p)
  <2>1. p \in Nat /\ p <= Len(log) /\ resynced' >= resynced
    BY <1>1 DEF Onward
  <2> DEFINE a == resynced
             b == resynced'
             n == Len(log)
  <2>2. \A k \in (b + 1)..p : k \in (a + 1)..p /\ k \in 1..n
    <3>1. a \in Nat /\ b \in Nat /\ n \in Nat /\ p \in Nat /\ p <= n /\ b >= a
      BY <1>1, <2>1
    <3> HIDE DEF a, b, n
    <3> QED  BY <3>1
  <2> QED  BY <1>2, <2>2 DEF Entries
<1> QED  BY <1>3, <1>4, <1>5

LEMMA CoveredStays ==
    ASSUME Onward, NEW p \in 0..Len(log), Covered(p)
    PROVE  Covered(p)'
<1> SUFFICES ASSUME NEW m \in Msg, NEW i \in Entries(m, resynced + 1, p)'
             PROVE  seen'[m] >= i \/ \E j \in Entries(m, p + 1, Len(log))' : log'[j].gone
  BY DEF Covered
<1>a. i \in Entries(m, resynced + 1, p)
  BY EntriesStay
<1>1. i \in Entries(m, resynced + 1, p) /\ i \in Int
  BY <1>a DEF Entries
<1>2. CASE seen[m] >= i
  BY <1>1, <1>2 DEF Onward, Shapes
<1>3. CASE \E j \in Entries(m, p + 1, Len(log)) : log[j].gone
  <2>1. PICK j \in Entries(m, p + 1, Len(log)) : log[j].gone
    BY <1>3
  <2>2. j \in Entries(m, p + 1, Len(log))' /\ j \in 1..Len(log)
    <3>1. p + 1 \in Nat \ {0} /\ Len(log) \in Nat
      BY DEF Onward, LogGrows
    <3>2. j \in Entries(m, p + 1, Len(log))'
      BY <2>1, <3>1, EntriesStay
    <3>3. j \in 1..Len(log)
      BY <2>1, <3>1 DEF Entries
    <3> QED  BY <3>2, <3>3
  <2> QED  BY <2>1, <2>2 DEF Onward
<1> QED  BY <1>1, <1>2, <1>3 DEF Covered

\* And so is what a task at work relies on, if it is not the one that moves.
LEMMA BehindStays ==
    ASSUME Onward, NEW t, Behind(t)
    PROVE  Behind(t)'
<1>1. Len(log) \in Nat /\ Len(log') \in Nat /\ Len(log) <= Len(log')
  BY DEF Onward, LogGrows
<1>2. ASSUME NEW m PROVE Entries(m, 1, Len(log)) \subseteq Entries(m, 1, Len(log))'
  <2>1. \A lo \in Nat \ {0} : Entries(m, lo, Len(log)) \subseteq Entries(m, lo, Len(log))'
    BY EntriesStay
  <2> QED  BY <2>1
<1>3. 0..Len(log) \subseteq 0..Len(log')
  BY <1>1
<1> QED  BY <1>2, <1>3 DEF Behind

LEMMA CoversWithStays ==
    ASSUME Onward, NEW t \in Tasks, NEW p \in 0..Len(log), CoversWith(t, p)
    PROVE  CoversWith(t, p)'
<1> SUFFICES ASSUME NEW m \in Msg, NEW i \in Entries(m, resynced + 1, p)',
                    m \notin t.gone, ~(m \in DOMAIN t.batch /\ t.batch[m] >= i)
             PROVE  seen'[m] >= i \/ \E j \in Entries(m, p + 1, Len(log))' : log'[j].gone
  BY DEF CoversWith
<1>a. i \in Entries(m, resynced + 1, p)
  BY EntriesStay
<1>1. i \in Entries(m, resynced + 1, p) /\ i \in Int
  BY <1>a DEF Entries
<1>2. CASE seen[m] >= i
  BY <1>1, <1>2 DEF Onward, Shapes
<1>3. CASE \E j \in Entries(m, p + 1, Len(log)) : log[j].gone
  <2>1. PICK j \in Entries(m, p + 1, Len(log)) : log[j].gone
    BY <1>3
  <2>2. j \in Entries(m, p + 1, Len(log))' /\ j \in 1..Len(log)
    <3>1. p + 1 \in Nat \ {0} /\ Len(log) \in Nat
      BY DEF Onward, LogGrows
    <3>2. j \in Entries(m, p + 1, Len(log))'
      BY <2>1, <3>1, EntriesStay
    <3>3. j \in 1..Len(log)
      BY <2>1, <3>1 DEF Entries
    <3> QED  BY <3>2, <3>3
  <2> QED  BY <2>1, <2>2 DEF Onward
<1> QED  BY <1>1, <1>2, <1>3 DEF CoversWith

LEMMA ListCoversStays ==
    ASSUME Onward, NEW t \in Tasks, Behind(t), ListCovers(t)
    PROVE  ListCovers(t)'
<1>1. t.start \in 0..Len(log) /\ t.page \in 0..Len(log) /\ t.latest \in 0..Len(log)
  BY DEF Behind
<1>2. \A p \in 0..Len(log) : Covered(p) => Covered(p)'
  BY CoveredStays
<1>3. \A p \in 0..Len(log) : CoversWith(t, p) => CoversWith(t, p)'
  BY CoversWithStays
<1>4. (IF t.page # 0 THEN t.page ELSE t.latest) \in 0..Len(log)
  BY <1>1
<1> QED  BY <1>1, <1>2, <1>3, <1>4 DEF ListCovers

LEMMA WalkCoversStays ==
    ASSUME Onward, NEW t \in Tasks, WalkCovers(t)
    PROVE  WalkCovers(t)'
<1>1. \A m \in Msg : seen[m] # 0 => seen'[m] # 0
  BY DEF Onward, Shapes
<1>2. t.walked \subseteq Msg
  BY DEF Tasks
<1>3. \A m \in Msg : Old(m)' => Old(m)
  BY DEF Onward
<1> QED  BY <1>1, <1>2, <1>3 DEF WalkCovers

\* So a step that moves one task on has only that one to answer for.
LEMMA OneTask ==
    ASSUME IInv, Onward, StateCovers', NEW s \in Slot, \A r \in Slot \ {s} : task'[r] = task[r],
           TaskCovers(s)'
    PROVE  IInv'
<1>1. ASSUME NEW r \in Slot \ {s} PROVE TaskCovers(r)'
  <2>1. CASE task[r] = Idle
    BY <2>1 DEF TaskCovers
  <2>2. CASE task[r] # Idle
    <3>1. PICK t \in Tasks : t = task[r]
      BY <2>2 DEF IInv, Shapes
    <3>2. Behind(t) /\ ListCovers(t) /\ WalkCovers(t)
      BY <2>2, <3>1 DEF IInv, TaskCovers
    <3>3. Behind(t)' /\ ListCovers(t)' /\ WalkCovers(t)'
      BY <3>2, BehindStays, ListCoversStays, WalkCoversStays
    <3> QED  BY <3>1, <3>3 DEF TaskCovers
  <2> QED  BY <2>1, <2>2
<1> QED  BY <1>1 DEF IInv, Onward

\* When sync_state does not change, what it stands for does not either.
LEMMA StateStays ==
    ASSUME IInv, Onward, state'.history = state.history, state'.page = state.page,
           state'.walked = state.walked, state'.complete = state.complete
    PROVE  StateCovers'
<1>1. /\ state.history \in 0..Len(log) /\ state.page \in 0..Len(log) /\ state.walked \subseteq Msg
      /\ Len(log) \in Nat /\ Len(log') \in Nat /\ Len(log) <= Len(log')
  BY DEF IInv, Shapes, States, StateCovers, Onward, LogGrows
<1>2. Covered(state.history)' /\ Covered(state.page)'
  <2>1. \A p \in 0..Len(log) : Covered(p) => Covered(p)'
    BY CoveredStays
  <2> QED  BY <1>1, <2>1 DEF IInv, StateCovers
<1>3. \A m \in Msg : (seen[m] # 0 => seen'[m] # 0) /\ (Old(m)' => Old(m))
  BY DEF Onward, Shapes
<1> QED  BY <1>1, <1>2, <1>3 DEF IInv, StateCovers

-----------------------------------------------------------------------------
(* Steps that neither commit nor move the cursor.                          *)

Kept == state'.history = state.history /\ state'.page = state.page
        /\ state'.walked = state.walked /\ state'.complete = state.complete

LEMMA QuietIsOnward ==
    ASSUME IInv, Shapes', UNCHANGED <<log, seen, resynced>>
    PROVE  Onward
<1>1. LogGrows /\ LogGrows' /\ Shapes /\ Len(log) \in Nat
  BY DEF IInv, LogGrows
<1>2. \A m \in Msg : Old(m)' => Old(m)
  BY DEF Old, InBox, Version, Entries
<1>3. \A m \in Msg : seen[m] \in Nat
  BY <1>1 DEF Shapes
<1> QED  BY <1>1, <1>2, <1>3 DEF Onward, Shapes

\* A task that goes on must cover what it says.
LEMMA TaskGoes ==
    ASSUME IInv, UNCHANGED <<log, seen, resynced>>, state' \in States, Kept, NEW s \in Slot, NEW u,
           u = Idle \/ (u \in Tasks /\ Behind(u) /\ ListCovers(u) /\ WalkCovers(u)),
           task' = [task EXCEPT ![s] = u]
    PROVE  IInv'
<1>1. task' = [r \in Slot |-> task'[r]] /\ task'[s] = u /\ \A r \in Slot \ {s} : task'[r] = task[r]
  BY DEF IInv, Shapes
<1>2. Shapes'
  <2>1. \A m \in Msg : seen'[m] = 0 \/ seen'[m] \in Entries(m, 1, Len(log))'
    BY DEF IInv, Shapes, Entries
  <2> QED  BY <1>1, <2>1 DEF IInv, Shapes
<1>3. Onward
  BY <1>2, QuietIsOnward
<1>4. StateCovers'
  BY <1>3, StateStays DEF Kept
<1>5. TaskCovers(s)'
  <2>1. CASE u = Idle
    BY <1>1, <2>1 DEF TaskCovers
  <2>2. CASE u # Idle
    <3>1. Behind(u)' /\ ListCovers(u)' /\ WalkCovers(u)'
      BY <1>3, <2>2, BehindStays, ListCoversStays, WalkCoversStays
    <3> QED  BY <1>1, <3>1 DEF TaskCovers
  <2> QED  BY <2>1, <2>2
<1> QED  BY <1>1, <1>3, <1>4, <1>5, OneTask

LEMMA NothingGoes ==
    ASSUME IInv, UNCHANGED <<log, seen, resynced, task>>, state' \in States, Kept
    PROVE  IInv'
<1>1. Shapes'
  <2>1. \A m \in Msg : seen'[m] = 0 \/ seen'[m] \in Entries(m, 1, Len(log))'
    BY DEF IInv, Shapes, Entries
  <2> QED  BY <2>1 DEF IInv, Shapes
<1>2. Onward
  BY <1>1, QuietIsOnward
<1>3. StateCovers'
  BY <1>2, StateStays DEF Kept
<1>4. ASSUME NEW s \in Slot PROVE IInv'
  <2>1. TaskCovers(s)'
    <3>1. CASE task[s] = Idle
      BY <3>1 DEF TaskCovers
    <3>2. CASE task[s] # Idle
      <4>1. PICK t \in Tasks : t = task[s]
        BY <3>2 DEF IInv, Shapes
      <4>2. Behind(t)' /\ ListCovers(t)' /\ WalkCovers(t)'
        BY <1>2, <3>2, <4>1, BehindStays, ListCoversStays, WalkCoversStays DEF IInv, TaskCovers
      <4> QED  BY <4>1, <4>2 DEF TaskCovers
    <3> QED  BY <3>1, <3>2
  <2> QED  BY <1>2, <1>3, <2>1, OneTask
<1> QED  BY <1>1, <1>2, <1>3, <1>4 DEF IInv, Onward

\* A failure is counted and the task is over.
LEMMA FailedKeeps ==
    ASSUME IInv, UNCHANGED <<log, seen, resynced>>, NEW s \in Slot, NEW again, Failed(s, again)
    PROVE  IInv'
<1>1. /\ state' = [state EXCEPT !.failures = Min({state.failures + 1, CircuitAfter}),
                                !.open = state.failures + 1 >= CircuitAfter]
      /\ task' = [task EXCEPT ![s] = Idle]
  BY DEF Failed, Rest
<1>2. state \in States /\ state.failures + 1 \in Nat /\ CircuitAfter \in Nat
  BY SyncAssumption DEF IInv, Shapes, States
<1>3. Min({state.failures + 1, CircuitAfter}) \in Nat
  BY <1>2, OfTwo
<1> DEFINE f == Min({state.failures + 1, CircuitAfter})
           b == state.failures + 1 >= CircuitAfter
<1>4. state' = [state EXCEPT !.failures = f, !.open = b] /\ f \in Nat /\ b \in BOOLEAN
  BY <1>1, <1>3
<1> HIDE DEF f, b
<1>5. state' \in States /\ Kept
  BY <1>2, <1>4 DEF States, Kept
<1> QED  BY <1>1, <1>5, TaskGoes

\* The mailbox forgets, beat and people ask, circuits shut, tasks fail and workers die.
LEMMA AroundKeeps ==
    ASSUME IInv,
           \/ Forget \/ Beat \/ Elapse
           \/ \E k \in Kind : Skip(k) \/ Trigger(k)
           \/ \E s \in Slot : Crash(s) \/ \E again \in BOOLEAN : Fail(s, again)
    PROVE  IInv'
<1>0. state \in States
  BY DEF IInv, Shapes
<1>1. CASE Forget \/ Beat \/ \E k \in Kind : Skip(k) \/ Trigger(k)
  <2>1. UNCHANGED <<log, seen, resynced, task, state>>
    BY <1>1 DEF Forget, Beat, Skip, Trigger, mail
  <2> QED  BY <1>0, <2>1, NothingGoes DEF Kept
<1>2. CASE Elapse
  <2>1. UNCHANGED <<log, seen, resynced, task>> /\ state' = [state EXCEPT !.open = FALSE]
    BY <1>2 DEF Elapse, mail
  <2>2. state' \in States /\ Kept
    BY <1>0, <2>1 DEF States, Kept
  <2> QED  BY <2>1, <2>2, NothingGoes
<1>3. CASE \E s \in Slot : Crash(s)
  <2>1. PICK s \in Slot : Crash(s)
    BY <1>3
  <2>2. UNCHANGED <<log, seen, resynced, state>> /\ task' = [task EXCEPT ![s] = Idle]
    BY <2>1 DEF Crash, Rest, mail
  <2> QED  BY <1>0, <2>2, TaskGoes DEF Kept
<1>4. CASE \E s \in Slot : \E again \in BOOLEAN : Fail(s, again)
  <2>1. PICK s \in Slot, again \in BOOLEAN : Fail(s, again)
    BY <1>4
  <2>2. UNCHANGED <<log, seen, resynced>> /\ Failed(s, again)
    BY <2>1 DEF Fail, mail
  <2> QED  BY <2>2, FailedKeeps
<1> QED  BY <1>1, <1>2, <1>3, <1>4

-----------------------------------------------------------------------------
(* Steps of a task at work.                                                *)

\* A task begins with what sync_state says.
LEMMA StartKeeps ==
    ASSUME IInv, NEW s \in Slot, NEW k \in Kind, Start(s, k)
    PROVE  IInv'
<1> DEFINE listing == Entry(k) = "list"
           u == [at |-> Entry(k), kind |-> k, mode |-> Entry(k), latest |-> 0,
                 start |-> IF listing THEN state.history ELSE 0,
                 page |-> IF listing THEN state.page ELSE 0,
                 walked |-> IF k = "backfill" THEN state.walked ELSE {},
                 whole |-> k = "backfill" \/ state.complete,
                 done |-> 0, more |-> FALSE, gone |-> {}, batch |-> NoBatch]
<1>1. UNCHANGED <<log, seen, resynced, state>> /\ task' = [task EXCEPT ![s] = u]
  BY DEF Start, mail
<1>2. /\ state \in States /\ StateCovers /\ Len(log) \in Nat
      /\ state.history \in 0..Len(log) /\ state.page \in 0..Len(log) /\ state.walked \subseteq Msg
      /\ state.complete \in BOOLEAN
  BY DEF IInv, Shapes, StateCovers, States, LogGrows
<1>3. Entry(k) \in {"walk", "profile", "list"} /\ (Entry(k) = "walk" <=> k = "backfill")
  BY DEF Entry, Kind
<1>4. NoBatch \in UNION {[D -> Nat] : D \in SUBSET Msg} /\ DOMAIN NoBatch = {}
  <2>1. NoBatch \in [{} -> Nat]
    BY DEF NoBatch
  <2> QED  BY <2>1
<1>5. /\ u.at = Entry(k) /\ u.mode = Entry(k) /\ u.kind = k /\ u.latest = 0 /\ u.more = FALSE /\ u.gone = {}
      /\ u.start = (IF listing THEN state.history ELSE 0) /\ u.page = (IF listing THEN state.page ELSE 0)
      /\ u.walked = (IF k = "backfill" THEN state.walked ELSE {}) /\ u.batch = NoBatch
  OBVIOUS
<1>6. u \in Tasks
  <2> DEFINE st == IF listing THEN state.history ELSE 0
             pg == IF listing THEN state.page ELSE 0
             wk == IF k = "backfill" THEN state.walked ELSE {}
             wh == k = "backfill" \/ state.complete
             en == Entry(k)
             no == NoBatch
  <2>1. st \in Nat /\ pg \in Nat /\ wk \in SUBSET Msg /\ wh \in BOOLEAN
    BY <1>2
  <2>2. u = [at |-> en, kind |-> k, mode |-> en, latest |-> 0, start |-> st, page |-> pg,
             walked |-> wk, whole |-> wh, done |-> 0, more |-> FALSE, gone |-> {}, batch |-> no]
    OBVIOUS
  <2>3. en \in {"walk", "profile", "list"} /\ no \in UNION {[D -> Nat] : D \in SUBSET Msg}
    BY <1>3, <1>4
  <2> HIDE DEF st, pg, wk, wh, en, no, u
  <2> QED  BY <2>1, <2>2, <2>3 DEF Tasks
<1> HIDE DEF u
<1>7. Behind(u)
  BY <1>2, <1>4, <1>5 DEF Behind
<1>8. ListCovers(u)
  BY <1>2, <1>3, <1>5 DEF ListCovers, StateCovers
<1>9. WalkCovers(u)
  BY <1>2, <1>3, <1>5 DEF WalkCovers, StateCovers
<1> QED  BY <1>1, <1>2, <1>6, <1>7, <1>8, <1>9, TaskGoes DEF Kept

\* What is fetched is in the mailbox, at its version.
LEMMA FetchedNow ==
    ASSUME Len(log) \in Nat, NEW refs \in SUBSET Msg
    PROVE  /\ Fetched(refs) \in [refs \cap InBox -> Nat]
           /\ \A m \in refs \cap InBox :
                /\ Fetched(refs)[m] \in Entries(m, 1, Len(log))
                /\ \A i \in Entries(m, 1, Len(log)) : i <= Fetched(refs)[m]
<1>1. ASSUME NEW m \in InBox
      PROVE  /\ Version(m) \in Entries(m, 1, Len(log)) /\ Version(m) \in Nat
             /\ \A i \in Entries(m, 1, Len(log)) : i <= Version(m)
  <2>1. Version(m) # 0
    BY DEF InBox
  <2>2. Entries(m, 1, Len(log)) # {}
    BY <2>1, LastEntry
  <2>3. /\ Version(m) \in Entries(m, 1, Len(log))
        /\ \A i \in Entries(m, 1, Len(log)) : i <= Version(m)
    BY <2>1, <2>2, LastEntry
  <2>4. Version(m) \in Nat
    BY <2>3 DEF Entries
  <2> QED  BY <2>3, <2>4
<1> QED  BY <1>1 DEF Fetched

LEMMA WalkingKeeps ==
    ASSUME IInv, NEW s \in Slot, Profile(s) \/ WalkPage(s) \/ WalkEmpty(s)
    PROVE  IInv'
<1>0. /\ state \in States /\ Len(log) \in Nat /\ task[s].at \in {"profile", "walk"}
      /\ UNCHANGED <<log, seen, resynced, state>>
  <2>1. state \in States /\ Len(log) \in Nat
    BY DEF IInv, Shapes, LogGrows
  <2>2. CASE Profile(s)
    BY <2>1, <2>2 DEF Profile, At, mail
  <2>3. CASE WalkPage(s)
    BY <2>1, <2>3 DEF WalkPage, At, mail
  <2>4. CASE WalkEmpty(s)
    BY <2>1, <2>4 DEF WalkEmpty, At, mail
  <2> QED  BY <2>2, <2>3, <2>4
<1>1. PICK t \in Tasks : t = task[s] /\ Behind(t) /\ ListCovers(t) /\ WalkCovers(t)
  <2>1. task[s] # Idle
    BY <1>0 DEF Idle
  <2> QED  BY <2>1 DEF IInv, Shapes, TaskCovers
<1>2. CASE Profile(s)
  <2> DEFINE u == [t EXCEPT !.at = "walk", !.mode = "profile", !.latest = Len(log)]
  <2>1. t.at = "profile" /\ task' = [task EXCEPT ![s] = u]
    BY <1>1, <1>2 DEF Profile, At
  <2>2. /\ u \in Tasks /\ u.at = "walk" /\ u.mode = "profile" /\ u.latest = Len(log) /\ u.kind = t.kind
        /\ u.start = t.start /\ u.page = t.page /\ u.gone = t.gone /\ u.batch = t.batch
    BY <1>0 DEF Tasks
  <2> HIDE DEF u
  <2>3. Behind(u)
    BY <1>0, <1>1, <2>2 DEF Behind
  <2>4. ListCovers(u) /\ WalkCovers(u)
    BY <1>1, <2>1, <2>2 DEF ListCovers, WalkCovers
  <2> QED  BY <1>0, <2>1, <2>2, <2>3, <2>4, TaskGoes DEF Kept
<1>3. CASE WalkPage(s)
  <2>1. PICK m \in InBox \ t.walked :
            task' = [task EXCEPT ![s] = [t EXCEPT
                        !.at = "commit", !.batch = Fetched({m}), !.walked = t.walked \cup {m},
                        !.done = t.done + 1, !.more = (InBox \ t.walked) # {m}]]
    BY <1>1, <1>3 DEF WalkPage
  <2> DEFINE more == (InBox \ t.walked) # {m}
             got == Fetched({m})
             far == t.walked \cup {m}
             next == t.done + 1
             u == [t EXCEPT !.at = "commit", !.batch = got, !.walked = far, !.done = next, !.more = more]
  <2>2. m \in Msg /\ more \in BOOLEAN /\ t.at = "walk"
    BY <1>1, <1>3 DEF InBox, WalkPage, At
  <2>3. /\ Fetched({m}) \in [{m} -> Nat] /\ Fetched({m})[m] \in Entries(m, 1, Len(log))
        /\ Fetched({m}) \in UNION {[D -> Nat] : D \in SUBSET Msg}
    <3>1. {m} \cap InBox = {m}
      OBVIOUS
    <3>2. Fetched({m}) \in [{m} -> Nat] /\ Fetched({m})[m] \in Entries(m, 1, Len(log))
      BY <1>0, <2>2, <3>1, FetchedNow
    <3> QED  BY <2>2, <3>2
  <2>4. task' = [task EXCEPT ![s] = u]
    BY <2>1
  <2>a. got \in UNION {[D -> Nat] : D \in SUBSET Msg} /\ far \in SUBSET Msg /\ next \in Nat
    <3>1. t.walked \in SUBSET Msg /\ t.done \in Nat
      BY DEF Tasks
    <3>2. got \in UNION {[D -> Nat] : D \in SUBSET Msg}
      BY <2>3
    <3>3. far \in SUBSET Msg
      BY <2>2, <3>1
    <3>4. next \in Nat
      BY <3>1
    <3> QED  BY <3>2, <3>3, <3>4
  <2> HIDE DEF more, got, far, next
  <2>b. /\ u \in Tasks /\ u.at = "commit" /\ u.mode = t.mode /\ u.latest = t.latest /\ u.kind = t.kind
        /\ u.start = t.start /\ u.page = t.page /\ u.gone = t.gone /\ u.batch = got
        /\ u.walked = far /\ u.more = more
    BY <2>2, <2>a DEF Tasks
  <2> HIDE DEF u
  <2>5. /\ u \in Tasks /\ u.at = "commit" /\ u.mode = t.mode /\ u.latest = t.latest /\ u.kind = t.kind
        /\ u.start = t.start /\ u.page = t.page /\ u.gone = t.gone /\ u.batch = Fetched({m})
        /\ u.walked = t.walked \cup {m} /\ u.more = more
    BY <2>b DEF got, far
  <2>6. Behind(u)
    BY <1>1, <2>3, <2>5 DEF Behind
  <2>7. ListCovers(u)
    BY <1>1, <2>2, <2>5 DEF ListCovers
  <2>8. WalkCovers(u)
    <3>1. ~more => InBox \subseteq t.walked \cup {m}
      BY DEF more
    <3>2. \A x \in t.walked : t.mode = "walk" => seen[x] # 0
      BY <1>1, <2>2 DEF WalkCovers
    <3> QED  BY <1>1, <2>3, <2>5, <3>1, <3>2 DEF WalkCovers, Old
  <2> QED  BY <1>0, <2>4, <2>5, <2>6, <2>7, <2>8, TaskGoes DEF Kept
<1>4. CASE WalkEmpty(s)
  <2> DEFINE u == [t EXCEPT !.at = "mark", !.more = FALSE]
  <2>1. t.at = "walk" /\ InBox \subseteq t.walked /\ task' = [task EXCEPT ![s] = u]
    BY <1>1, <1>4 DEF WalkEmpty, At
  <2>2. /\ u \in Tasks /\ u.at = "mark" /\ u.mode = t.mode /\ u.latest = t.latest /\ u.kind = t.kind
        /\ u.start = t.start /\ u.page = t.page /\ u.gone = t.gone /\ u.batch = t.batch
        /\ u.walked = t.walked
    BY DEF Tasks
  <2> HIDE DEF u
  <2>3. Behind(u)
    BY <1>1, <2>2 DEF Behind
  <2>4. ListCovers(u) /\ WalkCovers(u)
    BY <1>1, <2>1, <2>2 DEF ListCovers, WalkCovers, Old
  <2> QED  BY <1>0, <2>1, <2>2, <2>3, <2>4, TaskGoes DEF Kept
<1> QED  BY <1>2, <1>3, <1>4

\* A history that is gone is a failure, or makes a full walk of the pass.
LEMMA HistoryGoneKeeps ==
    ASSUME IInv, NEW s \in Slot, NEW status, HistoryGone(s, status)
    PROVE  IInv'
<1>1. UNCHANGED <<log, seen, resynced>> /\ task[s].at = "list" /\ state \in States
  BY DEF HistoryGone, At, mail, IInv, Shapes
<1>2. CASE status # 410
  <2>1. Failed(s, FALSE)
    BY <1>2 DEF HistoryGone
  <2> QED  BY <1>1, <2>1, FailedKeeps
<1>3. CASE status = 410
  <2>1. PICK t \in Tasks : t = task[s] /\ Behind(t) /\ ListCovers(t) /\ WalkCovers(t)
    <3>1. task[s] # Idle
      BY <1>1 DEF Idle
    <3> QED  BY <3>1 DEF IInv, Shapes, TaskCovers
  <2> DEFINE u == [t EXCEPT !.at = "profile"]
  <2>2. task' = [task EXCEPT ![s] = u] /\ UNCHANGED state
    BY <1>3, <2>1 DEF HistoryGone
  <2>3. /\ u \in Tasks /\ u.at = "profile" /\ u.mode = t.mode /\ u.latest = t.latest /\ u.kind = t.kind
        /\ u.start = t.start /\ u.page = t.page /\ u.gone = t.gone /\ u.batch = t.batch
    BY DEF Tasks
  <2> HIDE DEF u
  <2>4. Behind(u)
    BY <2>1, <2>3 DEF Behind
  <2>5. ListCovers(u) /\ WalkCovers(u)
    BY <1>1, <2>1, <2>3 DEF ListCovers, WalkCovers
  <2> QED  BY <1>1, <2>2, <2>3, <2>4, <2>5, TaskGoes DEF Kept
<1> QED  BY <1>2, <1>3

\* With what a page of history touched, what is covered reaches to its end.
LEMMA PageCovers ==
    ASSUME Len(log) \in Nat, resynced \in Nat, NEW from \in 0..Len(log), NEW upto \in from..Len(log),
           Covered(from), NEW u,
           u.gone = {m \in Msg : \E i \in Entries(m, from + 1, upto) : log[i].gone},
           u.batch = Fetched({m \in Msg : Entries(m, from + 1, upto) # {}} \ u.gone)
    PROVE  CoversWith(u, upto)
<1> SUFFICES ASSUME NEW m \in Msg, NEW i \in Entries(m, resynced + 1, upto),
                    m \notin u.gone, ~(m \in DOMAIN u.batch /\ u.batch[m] >= i)
             PROVE  seen[m] >= i \/ \E j \in Entries(m, upto + 1, Len(log)) : log[j].gone
  BY DEF CoversWith
<1>1. i \in (resynced + 1)..upto /\ log[i].msg = m
  BY DEF Entries
<1>2. i \in Nat /\ i <= upto /\ i >= resynced + 1 /\ from \in Nat /\ upto \in Nat /\ from <= upto /\ upto <= Len(log)
  BY <1>1
<1>3. ASSUME NEW j \in 1..Len(log), j >= from + 1, log[j].msg = m, log[j].gone
      PROVE  j \in Entries(m, upto + 1, Len(log))
  <2>1. CASE j <= upto
    <3>1. j \in Entries(m, from + 1, upto)
      BY <1>2, <1>3, <2>1 DEF Entries
    <3> QED  BY <1>3, <3>1
  <2>2. CASE j > upto
    BY <1>2, <1>3, <2>2 DEF Entries
  <2> QED  BY <1>2, <2>1, <2>2
<1>4. CASE i <= from
  <2>1. i \in Entries(m, resynced + 1, from)
    BY <1>1, <1>2, <1>4 DEF Entries
  <2>2. seen[m] >= i \/ \E j \in Entries(m, from + 1, Len(log)) : log[j].gone
    BY <2>1 DEF Covered
  <2>3. ASSUME NEW j \in Entries(m, from + 1, Len(log)), log[j].gone
        PROVE  j \in Entries(m, upto + 1, Len(log))
    <3>1. j \in (from + 1)..Len(log) /\ log[j].msg = m
      BY DEF Entries
    <3>2. j \in 1..Len(log) /\ j >= from + 1
      BY <1>2, <3>1
    <3> QED  BY <1>3, <2>3, <3>1, <3>2
  <2> QED  BY <2>2, <2>3
<1>5. CASE i > from
  <2> DEFINE refs == {x \in Msg : Entries(x, from + 1, upto) # {}} \ u.gone
             last == Max(Entries(m, 1, Len(log)))
  <2>1. i \in Entries(m, from + 1, upto) /\ i \in Entries(m, 1, Len(log))
    BY <1>1, <1>2, <1>5 DEF Entries
  <2>2. m \in refs /\ refs \in SUBSET Msg
    BY <2>1
  <2>3. CASE m \in InBox
    <3>1. /\ Fetched(refs) \in [refs \cap InBox -> Nat]
          /\ \A x \in refs \cap InBox : \A y \in Entries(x, 1, Len(log)) : y <= Fetched(refs)[x]
      <4> HIDE DEF refs
      <4> QED  BY <2>2, FetchedNow
    <3>2. u.batch = Fetched(refs)
      OBVIOUS
    <3> HIDE DEF refs
    <3>3. m \in DOMAIN u.batch /\ i <= u.batch[m] /\ u.batch[m] \in Nat
      BY <2>1, <2>2, <2>3, <3>1, <3>2
    <3> QED  BY <1>2, <3>3
  <2>4. CASE m \notin InBox
    <3>1. Version(m) = 0
      BY <2>4 DEF InBox
    <3>2. /\ last \in Entries(m, 1, Len(log)) /\ i <= last
          /\ Version(m) = IF log[last].gone THEN 0 ELSE last
      BY <2>1, LastEntry
    <3> HIDE DEF last
    <3>3. last \in 1..Len(log) /\ log[last].msg = m
      BY <3>2 DEF Entries
    <3>4. log[last].gone /\ last >= from + 1
      BY <1>2, <1>5, <3>1, <3>2, <3>3
    <3> QED  BY <1>3, <3>3, <3>4
  <2> QED  BY <2>3, <2>4
<1> QED  BY <1>2, <1>4, <1>5

LEMMA ListHistoryKeeps ==
    ASSUME IInv, NEW s \in Slot, ListHistory(s)
    PROVE  IInv'
<1>1. /\ state \in States /\ Len(log) \in Nat /\ resynced \in Nat /\ task[s].at = "list"
      /\ Page \in Nat \ {0} /\ UNCHANGED <<log, seen, resynced, state>>
  BY SyncAssumption DEF ListHistory, At, mail, IInv, Shapes, LogGrows
<1>2. PICK t \in Tasks : t = task[s] /\ Behind(t) /\ ListCovers(t) /\ WalkCovers(t)
  <2>1. task[s] # Idle
    BY <1>1 DEF Idle
  <2> QED  BY <2>1 DEF IInv, Shapes, TaskCovers
<1> DEFINE from == IF t.page = 0 THEN t.start ELSE t.page
           upto == Min({from + Page, Len(log)})
           gone == {m \in Msg : \E i \in Entries(m, from + 1, upto) : log[i].gone}
           changed == {m \in Msg : Entries(m, from + 1, upto) # {}} \ gone
           got == Fetched(changed)
           next == t.done + 1
           newest == Len(log)
           page == IF upto < newest THEN upto ELSE 0
           u == [t EXCEPT !.at = "commit", !.gone = gone, !.batch = got,
                          !.latest = newest, !.done = next, !.page = page]
<1>3. task' = [task EXCEPT ![s] = u]
  BY <1>2 DEF ListHistory
<1>4. t.at = "list" /\ t.mode = "list" /\ Covered(t.start) /\ Covered(t.page)
  BY <1>1, <1>2 DEF ListCovers
<1>5. t.start \in 0..newest /\ t.page \in 0..newest
  BY <1>2 DEF Behind
<1>6. from \in 0..newest /\ Covered(from)
  BY <1>4, <1>5
<1>7. upto \in from..newest /\ upto = IF from + Page <= newest THEN from + Page ELSE newest
  <2> HIDE DEF from
  <2>1. from \in Nat /\ from <= newest /\ from + Page \in Nat
    BY <1>1, <1>6
  <2>2. upto = IF from + Page <= newest THEN from + Page ELSE newest
    BY <1>1, <2>1, OfTwo
  <2> QED  BY <1>1, <2>1, <2>2
<1>8. gone \in SUBSET Msg /\ changed \in SUBSET Msg
  OBVIOUS
<1>9. ASSUME NEW m \in gone PROVE Entries(m, 1, newest) # {}
  <2>1. PICK i \in Entries(m, from + 1, upto) : TRUE
    OBVIOUS
  <2> HIDE DEF from, upto, gone
  <2>2. i \in Entries(m, 1, newest)
    BY <1>1, <1>6, <1>7, <2>1 DEF Entries
  <2> QED  BY <2>2
<1>10. /\ got \in [changed \cap InBox -> Nat]
       /\ \A m \in changed \cap InBox : got[m] \in Entries(m, 1, newest)
  <2> HIDE DEF changed
  <2> QED  BY <1>1, <1>8, FetchedNow
<1>11. /\ got \in UNION {[D -> Nat] : D \in SUBSET Msg}
       /\ \A m \in DOMAIN got : got[m] \in Entries(m, 1, newest)
  <2> HIDE DEF changed, got, gone
  <2>1. changed \cap InBox \in SUBSET Msg
    BY <1>8
  <2> QED  BY <1>10, <2>1
<1>12. next \in Nat /\ page \in Nat /\ newest \in Nat /\ page \in 0..newest
       /\ (IF page # 0 THEN page ELSE newest) = upto
  <2>1. next \in Nat
    BY DEF Tasks
  <2> HIDE DEF upto, from, next
  <2>2. upto \in Nat /\ from \in Nat /\ newest \in Nat /\ from <= upto /\ upto <= newest
    BY <1>1, <1>6, <1>7
  <2>3. upto < newest => upto # 0
    BY <1>1, <1>7, <2>2
  <2> QED  BY <2>1, <2>2, <2>3
<1> HIDE DEF got, next, page, gone
<1>13. /\ u \in Tasks /\ u.at = "commit" /\ u.gone = gone /\ u.batch = got /\ u.latest = newest
       /\ u.page = page /\ u.mode = t.mode /\ u.kind = t.kind /\ u.start = t.start
  <2> HIDE DEF newest
  <2> QED  BY <1>8, <1>11, <1>12 DEF Tasks
<1> HIDE DEF u
<1>14. Behind(u)
  BY <1>5, <1>9, <1>11, <1>12, <1>13 DEF Behind
<1>15. CoversWith(u, upto)
  <2>1. /\ u.gone = {m \in Msg : \E i \in Entries(m, from + 1, upto) : log[i].gone}
        /\ u.batch = Fetched({m \in Msg : Entries(m, from + 1, upto) # {}} \ u.gone)
    BY <1>13 DEF gone, got
  <2> HIDE DEF from, upto
  <2> QED  BY <1>1, <1>6, <1>7, <2>1, PageCovers
<1> HIDE DEF upto
<1>16. ListCovers(u)
  BY <1>4, <1>12, <1>13, <1>15 DEF ListCovers
<1>17. WalkCovers(u)
  BY <1>2, <1>4, <1>13 DEF WalkCovers
<1> QED  BY <1>1, <1>3, <1>13, <1>14, <1>16, <1>17, TaskGoes DEF Kept

\* A commit takes the mirror on to what was fetched and past what was deleted.
LEMMA CommitKeeps ==
    ASSUME IInv, NEW s \in Slot, Commit(s)
    PROVE  IInv'
<1>1. /\ state \in States /\ Len(log) \in Nat /\ resynced \in Nat /\ task[s].at = "commit"
      /\ seen \in [Msg -> Nat] /\ UNCHANGED <<log, resynced, state>>
  BY DEF Commit, At, mail, IInv, Shapes, LogGrows
<1>2. PICK t \in Tasks : t = task[s] /\ Behind(t) /\ ListCovers(t) /\ WalkCovers(t)
  <2>1. task[s] # Idle
    BY <1>1 DEF Idle
  <2> QED  BY <2>1 DEF IInv, Shapes, TaskCovers
<1> DEFINE on == Continues(t)
           at == IF ~on THEN "mark" ELSE IF t.mode = "list" THEN "list" ELSE "walk"
           no == NoBatch
           next == IF on THEN t.done ELSE 0
           far == IF t.kind = "backfill" \/ on THEN t.walked ELSE {}
           u == [t EXCEPT !.at = at, !.gone = {}, !.batch = no, !.done = next, !.walked = far]
<1>3. /\ seen' = [m \in Msg |-> CASE m \in t.gone -> Max(Entries(m, 1, Len(log)))
                                  [] m \in DOMAIN t.batch \ t.gone -> Max({seen[m], t.batch[m]})
                                  [] OTHER -> seen[m]]
      /\ task' = [task EXCEPT ![s] = u]
  BY <1>2 DEF Commit
<1>4. t.at = "commit" /\ t.gone \in SUBSET Msg /\ DOMAIN t.batch \in SUBSET Msg
  <2>1. t.gone \in SUBSET Msg /\ t.batch \in UNION {[D -> Nat] : D \in SUBSET Msg}
    BY DEF Tasks
  <2> QED  BY <1>1, <1>2, <2>1
<1>5. ASSUME NEW m \in Msg
      PROVE  /\ seen'[m] \in Nat /\ seen'[m] >= seen[m]
             /\ seen'[m] = 0 \/ seen'[m] \in Entries(m, 1, Len(log))
             /\ m \in t.gone => \A i \in Entries(m, 1, Len(log)) : seen'[m] >= i
             /\ m \in DOMAIN t.batch => seen'[m] >= t.batch[m] /\ t.batch[m] \in Nat \ {0}
  <2> DEFINE E == Entries(m, 1, Len(log))
  <2>1. E \subseteq 1..Len(log) /\ (seen[m] = 0 \/ seen[m] \in E) /\ seen[m] \in Nat
    BY <1>1 DEF Entries, IInv, Shapes
  <2>0. \A y \in E : y \in Nat \ {0}
    BY DEF Entries
  <2>2. m \in DOMAIN t.batch => t.batch[m] \in E /\ t.batch[m] \in Nat \ {0}
    <3>1. m \in DOMAIN t.batch => t.batch[m] \in E
      BY <1>2 DEF Behind
    <3> HIDE DEF E
    <3> QED  BY <2>0, <3>1
  <2>3. CASE m \in t.gone
    <3>1. E # {}
      BY <1>2, <2>3 DEF Behind
    <3>2. seen'[m] = Max(E)
      BY <1>3, <2>3
    <3> HIDE DEF E
    <3>3. E \in SUBSET (0..Len(log))
      BY <1>1, <2>1
    <3>4. Max(E) \in E /\ \A y \in E : Max(E) >= y
      BY <1>1, <3>1, <3>3, HasGreatest
    <3>5. Max(E) \in Nat
      BY <2>0, <3>4
    <3>6. Max(E) >= seen[m]
      BY <2>1, <3>4, <3>5
    <3> QED  BY <2>2, <2>3, <3>2, <3>4, <3>5, <3>6 DEF E
  <2>4. CASE m \in DOMAIN t.batch \ t.gone
    <3>1. seen'[m] = Max({seen[m], t.batch[m]})
      BY <1>3, <2>4
    <3> HIDE DEF E
    <3>2. seen'[m] = IF seen[m] >= t.batch[m] THEN seen[m] ELSE t.batch[m]
      BY <2>1, <2>2, <2>4, <3>1, OfTwo
    <3> QED  BY <2>1, <2>2, <2>4, <3>2 DEF E
  <2>5. CASE m \notin t.gone /\ m \notin DOMAIN t.batch
    <3>1. seen'[m] = seen[m]
      BY <1>3, <2>5
    <3> QED  BY <2>1, <2>5, <3>1
  <2> QED  BY <2>3, <2>4, <2>5
<1>6. on \in BOOLEAN /\ (on => IF t.mode = "list" THEN t.page # 0 ELSE t.more)
  BY DEF Continues, Tasks
<1>7. no \in UNION {[D -> Nat] : D \in SUBSET Msg} /\ DOMAIN no = {}
  <2>1. NoBatch \in [{} -> Nat]
    BY DEF NoBatch
  <2> QED  BY <2>1
<1> HIDE DEF on, no
<1>8. /\ at \in {"mark", "list", "walk"} /\ next \in Nat /\ far \in SUBSET Msg
      /\ at = "list" => t.mode = "list" /\ t.page # 0
      /\ at = "walk" => t.mode # "list"
      /\ at = "mark" <=> ~on
      /\ t.kind = "backfill" => far = t.walked
  BY <1>6 DEF Tasks
<1> HIDE DEF at, next, far
<1>9. /\ u \in Tasks /\ u.at = at /\ u.gone = {} /\ u.batch = no /\ u.latest = t.latest /\ u.page = t.page
      /\ u.mode = t.mode /\ u.kind = t.kind /\ u.start = t.start /\ u.walked = far /\ u.more = t.more
  BY <1>7, <1>8 DEF Tasks
<1> HIDE DEF u
<1>10. task' = [r \in Slot |-> task'[r]] /\ task'[s] = u /\ \A r \in Slot \ {s} : task'[r] = task[r]
  BY <1>3 DEF IInv, Shapes
<1>11. Shapes' /\ \A m \in Msg : Entries(m, 1, Len(log))' = Entries(m, 1, Len(log))
  <2>1. \A m \in Msg : Entries(m, 1, Len(log))' = Entries(m, 1, Len(log))
    BY <1>1 DEF Entries
  <2>2. seen' \in [Msg -> Nat]
    <3>1. seen' = [m \in Msg |-> seen'[m]]
      BY <1>3
    <3> QED  BY <1>5, <3>1
  <2>3. \A r \in Slot : task'[r] = Idle \/ task'[r] \in Tasks
    BY <1>9, <1>10 DEF IInv, Shapes
  <2> QED  BY <1>1, <1>5, <1>10, <2>1, <2>2, <2>3 DEF Shapes
<1>12. Onward
  <2>1. LogGrows /\ LogGrows' /\ Shapes
    BY <1>1 DEF IInv, LogGrows
  <2>2. \A m \in Msg : Old(m)' => Old(m)
    BY <1>1 DEF Old, InBox, Version, Entries
  <2> QED  BY <1>1, <1>5, <1>11, <2>1, <2>2 DEF Onward
<1>13. StateCovers'
  BY <1>1, <1>12, StateStays
<1>14. Behind(u)'
  <2>1. Behind(u)
    BY <1>2, <1>7, <1>9 DEF Behind
  <2> QED  BY <1>12, <2>1, BehindStays
<1> DEFINE p == IF t.page # 0 THEN t.page ELSE t.latest
<1>15. t.mode = "list" => Covered(t.start)' /\ Covered(p)'
  <2> SUFFICES ASSUME t.mode = "list" PROVE Covered(t.start)' /\ Covered(p)'
    OBVIOUS
  <2>1. Covered(t.start) /\ CoversWith(t, p) /\ t.start \in 0..Len(log) /\ p \in 0..Len(log)
    BY <1>2, <1>4 DEF ListCovers, Behind
  <2>2. Covered(t.start)'
    BY <1>12, <2>1, CoveredStays
  <2> HIDE DEF p
  <2>3. Covered(p)'
    <3> SUFFICES ASSUME NEW m \in Msg, NEW i \in Entries(m, resynced + 1, p)
                 PROVE  seen'[m] >= i \/ \E j \in Entries(m, p + 1, Len(log)) : log[j].gone
      BY <1>1 DEF Covered, Entries
    <3>1. i \in Entries(m, 1, Len(log)) /\ i \in Nat
      BY <1>1, <2>1 DEF Entries
    <3>2. \/ seen[m] >= i
          \/ m \in t.gone \/ (m \in DOMAIN t.batch /\ t.batch[m] >= i)
          \/ \E j \in Entries(m, p + 1, Len(log)) : log[j].gone
      BY <2>1 DEF CoversWith
    <3>3. CASE seen[m] >= i
      <4>1. seen[m] \in Nat /\ seen'[m] \in Nat /\ seen'[m] >= seen[m]
        BY <1>1, <1>5
      <4> QED  BY <3>1, <3>3, <4>1
    <3>4. CASE m \in t.gone
      BY <1>5, <3>1, <3>4
    <3>5. CASE m \in DOMAIN t.batch /\ t.batch[m] >= i
      <4>1. seen'[m] \in Nat /\ seen'[m] >= t.batch[m] /\ t.batch[m] \in Nat
        BY <1>5, <3>5
      <4> QED  BY <3>1, <3>5, <4>1
    <3> QED  BY <3>2, <3>3, <3>4, <3>5
  <2> QED  BY <2>2, <2>3
<1>16. ListCovers(u)'
  <2>1. t.page = 0 => Covered(t.page)'
    BY <1>1 DEF Covered, Entries
  <2>2. t.mode = "list" => Covered(t.page)' /\ (t.page = 0 => Covered(t.latest)')
    BY <1>15, <2>1
  <2> QED  BY <1>8, <1>9, <1>15, <2>2 DEF ListCovers
<1>17. WalkCovers(u)'
  <2>1. t.mode = "walk" <=> t.kind = "backfill"
    BY <1>2 DEF WalkCovers
  <2>2. t.mode = "walk" => \A m \in t.walked : seen'[m] # 0
    <3> SUFFICES ASSUME t.mode = "walk", NEW m \in t.walked PROVE seen'[m] # 0
      OBVIOUS
    <3>1. m \in Msg
      BY DEF Tasks
    <3>2. seen[m] # 0 \/ m \in DOMAIN t.batch
      BY <1>2 DEF WalkCovers
    <3>3. CASE seen[m] # 0
      <4>1. seen[m] \in Nat /\ seen'[m] \in Nat /\ seen'[m] >= seen[m]
        BY <1>1, <1>5, <3>1
      <4> QED  BY <3>3, <4>1
    <3>4. CASE m \in DOMAIN t.batch
      <4>1. seen'[m] \in Nat /\ seen'[m] >= t.batch[m] /\ t.batch[m] \in Nat \ {0}
        BY <1>5, <3>1, <3>4
      <4> QED  BY <4>1
    <3> QED  BY <3>2, <3>3, <3>4
  <2>3. t.mode = "walk" /\ ~t.more => \A m \in Msg : Old(m)' => m \in t.walked
    BY <1>2, <1>4, <1>12 DEF WalkCovers, Onward
  <2> QED  BY <1>8, <1>9, <2>1, <2>2, <2>3 DEF WalkCovers
<1>18. TaskCovers(s)'
  BY <1>10, <1>14, <1>16, <1>17 DEF TaskCovers
<1> QED  BY <1>10, <1>12, <1>13, <1>18, OneTask

\* A task that is over has nothing left to answer for.
LEMMA RestIsOnward ==
    ASSUME IInv, UNCHANGED <<log, seen>>, resynced' \in Nat, resynced' >= resynced, state' \in States,
           NEW s \in Slot, Rest(s)
    PROVE  Onward /\ (StateCovers' => IInv')
<1>1. task' = [r \in Slot |-> task'[r]] /\ task'[s] = Idle /\ \A r \in Slot \ {s} : task'[r] = task[r]
  BY DEF IInv, Shapes, Rest
<1>2. Shapes'
  <2>1. \A m \in Msg : seen'[m] = 0 \/ seen'[m] \in Entries(m, 1, Len(log))'
    BY DEF IInv, Shapes, Entries
  <2> QED  BY <1>1, <2>1 DEF IInv, Shapes
<1>3. Onward
  <2>1. LogGrows /\ LogGrows' /\ Shapes /\ Len(log) \in Nat
    BY DEF IInv, LogGrows
  <2>2. \A m \in Msg : Old(m)' => Old(m)
    BY DEF Old, InBox, Version, Entries
  <2>3. \A m \in Msg : seen[m] \in Nat
    BY <2>1 DEF Shapes
  <2> QED  BY <1>2, <2>1, <2>2, <2>3 DEF Onward
<1>4. TaskCovers(s)'
  BY <1>1 DEF TaskCovers
<1> QED  BY <1>1, <1>3, <1>4, OneTask

\* The cursor moves to what the pass covered.
LEMMA MarkPassKeeps ==
    ASSUME IInv, NEW s \in Slot, MarkPass(s)
    PROVE  IInv'
<1>1. /\ state \in States /\ Len(log) \in Nat /\ resynced \in Nat /\ task[s].at = "mark"
      /\ task[s].mode # "walk" /\ Rest(s) /\ UNCHANGED <<log, seen>>
  BY DEF MarkPass, At, mail, IInv, Shapes, LogGrows
<1>2. PICK t \in Tasks : t = task[s] /\ Behind(t) /\ ListCovers(t) /\ WalkCovers(t)
  <2>1. task[s] # Idle
    BY <1>1 DEF Idle
  <2> QED  BY <2>1 DEF IInv, Shapes, TaskCovers
<1> DEFINE short == t.mode = "list" /\ t.page # 0
           hist == IF short THEN t.start ELSE t.latest
           page == IF short THEN t.page ELSE 0
<1>3. /\ NextCursor(t).history = hist /\ NextCursor(t).page = page
      /\ hist \in 0..Len(log) /\ page \in 0..Len(log)
  BY <1>1, <1>2 DEF NextCursor, Behind
<1>4. /\ state' = [Clean(state) EXCEPT !.history = hist, !.page = page]
      /\ resynced' = IF t.mode = "profile" THEN Max({resynced, t.latest}) ELSE resynced
  BY <1>2, <1>3 DEF MarkPass
<1>5. /\ t.latest \in Nat /\ resynced' \in Nat /\ resynced' >= resynced
      /\ t.mode = "profile" => resynced' >= t.latest
  <2>1. t.latest \in Nat
    BY DEF Tasks
  <2> QED  BY <1>1, <1>4, <2>1, OfTwo
<1>6. t.mode \in {"list", "profile"} /\ (t.mode = "list" => Covered(t.start) /\ Covered(t.page))
      /\ (t.mode = "list" /\ t.page = 0 => Covered(t.latest))
  BY <1>1, <1>2 DEF ListCovers, Tasks
<1>7. t.mode = "list" => Covered(hist) /\ Covered(page)
  BY <1>6
<1>8. t.mode = "profile" => hist = t.latest /\ page = 0
  OBVIOUS
<1> HIDE DEF hist, page
<1>9. /\ state' \in States /\ state'.history = hist /\ state'.page = page
      /\ state'.walked = state.walked /\ state'.complete = state.complete
  <2>1. Clean(state) \in States /\ Clean(state).walked = state.walked /\ Clean(state).complete = state.complete
    BY <1>1 DEF Clean, States
  <2>2. hist \in Nat /\ page \in Nat
    BY <1>3
  <2> QED  BY <1>4, <2>1, <2>2 DEF States
<1>10. Onward /\ (StateCovers' => IInv')
  BY <1>1, <1>5, <1>9, RestIsOnward
<1>11. Covered(hist)' /\ Covered(page)'
  <2>1. CASE t.mode = "list"
    BY <1>3, <1>7, <1>10, <2>1, CoveredStays
  <2>2. CASE t.mode = "profile"
    <3>1. (resynced' + 1)..hist = {} /\ (resynced' + 1)..page = {}
      BY <1>5, <1>8, <2>2
    <3> QED  BY <3>1 DEF Covered, Entries
  <2> QED  BY <1>6, <2>1, <2>2
<1>12. StateCovers'
  <2>1. \A m \in Msg : Old(m)' => Old(m)
    BY <1>10 DEF Onward
  <2>2. state'.history <= Len(log') /\ state'.page <= Len(log')
    BY <1>1, <1>3, <1>9
  <2>3. \A m \in Msg : seen'[m] = seen[m]
    BY <1>1
  <2>4. StateCovers /\ state.walked \subseteq Msg
    BY <1>1 DEF IInv, States
  <2> QED  BY <1>9, <1>11, <2>1, <2>2, <2>3, <2>4 DEF StateCovers
<1> QED  BY <1>10, <1>12

\* A walk that is not over leaves a place, and one that is over a whole backfill.
LEMMA MarkBackfillKeeps ==
    ASSUME IInv, NEW s \in Slot, MarkBackfill(s)
    PROVE  IInv'
<1>1. /\ state \in States /\ Len(log) \in Nat /\ resynced \in Nat /\ task[s].at = "mark"
      /\ task[s].mode = "walk" /\ Rest(s) /\ UNCHANGED <<log, seen, resynced>>
  BY DEF MarkBackfill, At, mail, IInv, Shapes, LogGrows
<1>2. PICK t \in Tasks : t = task[s] /\ Behind(t) /\ ListCovers(t) /\ WalkCovers(t)
  <2>1. task[s] # Idle
    BY <1>1 DEF Idle
  <2> QED  BY <2>1 DEF IInv, Shapes, TaskCovers
<1>3. state' = IF t.more THEN [state EXCEPT !.walked = t.walked]
               ELSE [state EXCEPT !.walked = {}, !.complete = TRUE]
  BY <1>2 DEF MarkBackfill
<1>4. /\ t.walked \in SUBSET Msg /\ \A m \in t.walked : seen[m] # 0
      /\ ~t.more => \A m \in Msg : Old(m) => m \in t.walked
  BY <1>1, <1>2 DEF WalkCovers, Tasks
<1>5. /\ state' \in States /\ state'.history = state.history /\ state'.page = state.page
      /\ state'.walked \in {t.walked, {}}
      /\ state'.complete => state.complete \/ ~t.more
  BY <1>1, <1>3, <1>4 DEF States
<1>6. Onward /\ (StateCovers' => IInv')
  BY <1>1, <1>5, RestIsOnward
<1>7. Covered(state.history)' /\ Covered(state.page)' /\ state.history <= Len(log) /\ state.page <= Len(log)
  <2>1. /\ state.history \in 0..Len(log) /\ state.page \in 0..Len(log)
        /\ Covered(state.history) /\ Covered(state.page)
    <3>1. StateCovers /\ state.history \in Nat /\ state.page \in Nat
      BY <1>1 DEF IInv, States
    <3> QED  BY <1>1, <3>1 DEF StateCovers
  <2>2. \A p \in 0..Len(log) : Covered(p) => Covered(p)'
    BY <1>6, CoveredStays
  <2> QED  BY <1>1, <1>5, <2>1, <2>2
<1>8. state'.complete => \A m \in Msg : Old(m)' => seen'[m] # 0
  <2>1. \A m \in Msg : Old(m)' => Old(m)
    BY <1>6 DEF Onward
  <2> QED  BY <1>1, <1>4, <1>5, <2>1 DEF IInv, StateCovers
<1>9. StateCovers'
  BY <1>1, <1>4, <1>5, <1>7, <1>8 DEF StateCovers
<1> QED  BY <1>6, <1>9

-----------------------------------------------------------------------------
(* The mailbox goes on.                                                    *)

LEMMA IsHistory ==
    ASSUME NEW h \in Histories
    PROVE  h \in Seq([msg : Msg, gone : BOOLEAN]) /\ Len(h) \in Nat
<1> DEFINE R == [msg : Msg, gone : BOOLEAN]
<1>1. Histories \subseteq Seq(R)
  BY SyncAssumption
<1> HIDE DEF R
<1>2. h \in Seq(R)
  BY <1>1
<1>3. Len(h) \in Nat
  BY <1>2
<1> QED  BY <1>2, <1>3 DEF R

LEMMA PartOfHistory ==
    ASSUME NEW h \in Histories, NEW n \in 1..Len(h)
    PROVE  /\ SubSeq(h, 1, n) \in Seq([msg : Msg, gone : BOOLEAN])
           /\ Len(SubSeq(h, 1, n)) = n
           /\ \A i \in 1..n : SubSeq(h, 1, n)[i] = h[i]
<1> DEFINE R == [msg : Msg, gone : BOOLEAN]
<1>1. h \in Seq(R) /\ n \in Nat /\ n <= Len(h) /\ n >= 1
  <2>1. h \in Seq(R) /\ Len(h) \in Nat
    BY IsHistory
  <2>2. n \in Nat /\ n <= Len(h) /\ n >= 1
    BY <2>1
  <2> QED  BY <2>1, <2>2
<1> HIDE DEF R
<1>2. \A i \in 1..n : h[i] \in R
  BY <1>1
<1>3. /\ SubSeq(h, 1, n) \in Seq(R)
      /\ Len(SubSeq(h, 1, n)) = IF 1 <= n THEN n - 1 + 1 ELSE 0
      /\ \A i \in 1..(n - 1 + 1) : SubSeq(h, 1, n)[i] = h[1 + i - 1]
  BY <1>1, <1>2, SubSeqProperties
<1>4. \A i \in 1..n : i \in 1..(n - 1 + 1) /\ 1 + i - 1 = i
  BY <1>1
<1>5. \A i \in 1..n : SubSeq(h, 1, n)[i] = h[i]
  BY <1>3, <1>4
<1> QED  BY <1>1, <1>3, <1>5 DEF R

\* One more entry of the history; what was there stays.
LEMMA ChangeGrows ==
    ASSUME IInv, Change
    PROVE  /\ LogGrows' /\ Len(log') = Len(log) + 1 /\ \A i \in 1..Len(log) : log'[i] = log[i]
           /\ \E h \in Histories : Len(log') <= Len(h) /\ \A i \in 1..Len(log') : log'[i] = h[i]
<1>1. log \in Seq([msg : Msg, gone : BOOLEAN]) /\ Len(log) \in Nat /\ Connected <= Len(log) /\ Connected \in Nat \ {0}
  BY SyncAssumption DEF IInv, LogGrows
<1>2. PICK h \in Histories : IsStrictPrefix(log, h) /\ log' = SubSeq(h, 1, Len(log) + 1)
  BY DEF Change
<1>3. h \in Seq([msg : Msg, gone : BOOLEAN]) /\ Len(h) \in Nat
  BY IsHistory
<1>4. /\ Len(log) <= Len(h) /\ log # h
      /\ SubSeq(log, 1, Len(log)) = SubSeq(h, 1, Len(log))
  BY <1>2 DEF IsStrictPrefix, IsPrefix
<1>5. \A i \in 1..Len(log) : log[i] = h[i]
  <2>1. \A i \in 1..Len(log) : SubSeq(log, 1, Len(log))[i] = log[i]
    BY <1>1
  <2>2. \A i \in 1..Len(log) : SubSeq(h, 1, Len(log))[i] = h[i]
    BY <1>1, <1>3, <1>4
  <2> QED  BY <1>4, <2>1, <2>2
<1>6. Len(log) < Len(h)
  <2>1. Len(log) = Len(h) => log = h
    BY <1>1, <1>3, <1>5
  <2> QED  BY <1>1, <1>3, <1>4, <2>1
<1>7. Len(log) + 1 \in 1..Len(h)
  BY <1>1, <1>3, <1>6
<1>8. /\ log' \in Seq([msg : Msg, gone : BOOLEAN]) /\ Len(log') = Len(log) + 1
      /\ \A i \in 1..(Len(log) + 1) : log'[i] = h[i]
  BY <1>2, <1>7, PartOfHistory
<1>9. \A i \in 1..Len(log) : i \in 1..(Len(log) + 1)
  BY <1>1
<1>10. Len(log') <= Len(h) /\ Connected <= Len(log')
  BY <1>1, <1>3, <1>6, <1>8
<1> QED  BY <1>5, <1>8, <1>9, <1>10 DEF LogGrows

\* A message that is there on connecting and later was there in between.
LEMMA OldStays ==
    ASSUME IInv, Change, NEW m \in Msg, Old(m)'
    PROVE  Old(m)
<1>1. /\ LogGrows' /\ Len(log') = Len(log) + 1 /\ \A i \in 1..Len(log) : log'[i] = log[i]
      /\ Len(log) \in Nat /\ Connected \in Nat \ {0} /\ Connected <= Len(log)
  BY ChangeGrows, SyncAssumption DEF IInv, LogGrows
<1>2. PICK h \in Histories : Len(log') <= Len(h) /\ \A i \in 1..Len(log') : log'[i] = h[i]
  BY ChangeGrows
<1>3. Entries(m, 1, Connected) # {} /\ Entries(m, 1, Len(log)) # {}
  <2>1. PICK i \in Entries(m, 1, Connected)' : TRUE
    BY DEF Old
  <2>2. i \in 1..Connected /\ i \in 1..Len(log) /\ log'[i].msg = m
    BY <1>1, <2>1 DEF Entries
  <2> QED  BY <1>1, <2>2 DEF Entries
<1> DEFINE last == Max(Entries(m, 1, Len(log)))
<1>4. last \in Entries(m, 1, Len(log)) /\ Version(m) = IF log[last].gone THEN 0 ELSE last
  BY <1>1, <1>3, LastEntry
<1> HIDE DEF last
<1>5. last \in 1..Len(log) /\ log[last].msg = m /\ last # 0
  BY <1>4 DEF Entries
<1>6. ASSUME log[last].gone PROVE FALSE
  <2> DEFINE F == {i \in 1..Len(log') : log'[i].msg = m}
             top == Max(F \cup {0})
  <2>1. top # 0 /\ ~log'[top].gone
    BY DEF Old, InBox, Version, Entries
  <2>2. F \cup {0} \in SUBSET (0..Len(log')) /\ F \cup {0} # {} /\ Len(log') \in Nat
    BY <1>1
  <2> HIDE DEF F
  <2>3. top \in F \cup {0} /\ \A y \in F \cup {0} : top >= y
    BY <2>2, HasGreatest
  <2> HIDE DEF top
  <2>4. top \in F
    BY <2>1, <2>3
  <2>5. top \in 1..Len(log') /\ log'[top].msg = m
    BY <2>4 DEF F
  <2>6. last \in 1..Len(log') /\ log'[last] = log[last]
    BY <1>1, <1>5
  <2>7. last \in F
    BY <1>5, <2>6 DEF F
  <2>8. last <= top
    BY <1>5, <2>3, <2>5, <2>7
  <2>9. last # top
    BY <1>6, <2>1, <2>6
  <2>10. last < top
    BY <1>5, <2>5, <2>8, <2>9
  <2>11. h[last].msg = m /\ h[top].msg = m /\ h[last].gone
    BY <1>2, <1>5, <1>6, <2>5, <2>6
  <2>12. last \in 1..Len(h) /\ top \in 1..Len(h)
    <3>1. Len(h) \in Nat
      BY IsHistory
    <3> QED  BY <1>1, <1>2, <2>5, <2>6, <3>1
  <2> QED  BY <2>10, <2>11, <2>12, SyncAssumption
<1>7. Version(m) # 0
  BY <1>4, <1>5, <1>6
<1> QED  BY <1>3, <1>7 DEF Old, InBox

LEMMA ChangeKeeps ==
    ASSUME IInv, Change
    PROVE  IInv'
<1>1. /\ LogGrows' /\ Len(log') = Len(log) + 1 /\ \A i \in 1..Len(log) : log'[i] = log[i]
      /\ LogGrows /\ Len(log) \in Nat
      /\ UNCHANGED <<seen, state, resynced, task>>
  BY ChangeGrows DEF IInv, LogGrows, Change
<1>2. Shapes'
  <2>1. ASSUME NEW m \in Msg PROVE seen[m] = 0 \/ seen[m] \in Entries(m, 1, Len(log))'
    <3>1. \A i \in Entries(m, 1, Len(log)) : i \in Entries(m, 1, Len(log))'
      <4>1. \A i \in 1..Len(log) : i \in 1..Len(log') /\ log'[i].msg = log[i].msg
        BY <1>1
      <4> QED  BY <4>1 DEF Entries
    <3> QED  BY <3>1 DEF IInv, Shapes
  <2> QED  BY <1>1, <2>1 DEF IInv, Shapes
<1>3. Onward
  <2>1. Len(log) <= Len(log')
    BY <1>1
  <2>2. \A m \in Msg : Old(m)' => Old(m)
    BY OldStays
  <2>3. \A m \in Msg : seen'[m] >= seen[m]
    <3>1. \A m \in Msg : seen[m] \in Nat
      BY DEF IInv, Shapes
    <3> QED  BY <1>1, <3>1
  <2>4. resynced' >= resynced
    <3>1. resynced \in Nat
      BY DEF IInv, Shapes
    <3> QED  BY <1>1, <3>1
  <2> QED  BY <1>1, <1>2, <2>1, <2>2, <2>3, <2>4 DEF Onward, IInv
<1>4. StateCovers'
  BY <1>1, <1>3, StateStays
<1>5. ASSUME NEW s \in Slot PROVE TaskCovers(s)'
  <2>1. CASE task[s] = Idle
    BY <1>1, <2>1 DEF TaskCovers
  <2>2. CASE task[s] # Idle
    <3>1. PICK t \in Tasks : t = task[s]
      BY <2>2 DEF IInv, Shapes
    <3>2. Behind(t)' /\ ListCovers(t)' /\ WalkCovers(t)'
      BY <1>3, <2>2, <3>1, BehindStays, ListCoversStays, WalkCoversStays DEF IInv, TaskCovers
    <3> QED  BY <1>1, <3>1, <3>2 DEF TaskCovers
  <2> QED  BY <2>1, <2>2
<1> QED  BY <1>1, <1>2, <1>4, <1>5 DEF IInv

-----------------------------------------------------------------------------
(* The theorems.                                                           *)

LEMMA InitHolds == Init => IInv
<1> SUFFICES ASSUME Init PROVE IInv
  OBVIOUS
<1>1. PICK h \in Histories : log = SubSeq(h, 1, Connected)
  BY DEF Init
<1>2. Connected \in Nat \ {0} /\ Connected <= Len(h) /\ Len(h) \in Nat
  BY SyncAssumption, IsHistory
<1>3. Connected \in 1..Len(h)
  BY <1>2
<1>4. /\ log \in Seq([msg : Msg, gone : BOOLEAN]) /\ Len(log) = Connected
      /\ \A i \in 1..Len(log) : log[i] = h[i]
  BY <1>1, <1>3, PartOfHistory
<1>5. LogGrows
  BY <1>2, <1>4 DEF LogGrows
<1>6. /\ state = [history |-> 0, page |-> 0, failures |-> 0, open |-> FALSE,
                  walked |-> {}, complete |-> FALSE]
      /\ seen = [m \in Msg |-> 0] /\ resynced = Connected /\ task = [s \in Slot |-> Idle]
  BY DEF Init
<1>7. Shapes
  <2>1. state \in States
    BY <1>6 DEF States
  <2> QED  BY <1>2, <1>6, <2>1 DEF Shapes
<1>8. StateCovers
  <2>1. (resynced + 1)..0 = {}
    BY <1>2, <1>6
  <2>2. Covered(0)
    BY <2>1 DEF Covered, Entries
  <2> QED  BY <1>2, <1>4, <1>6, <2>2 DEF StateCovers
<1>9. \A s \in Slot : TaskCovers(s)
  BY <1>6 DEF TaskCovers
<1> QED  BY <1>5, <1>7, <1>8, <1>9 DEF IInv

LEMMA StepHolds == IInv /\ [Next]_vars => IInv'
<1> SUFFICES ASSUME IInv, [Next]_vars PROVE IInv'
  OBVIOUS
<1>1. CASE Change
  BY <1>1, ChangeKeeps
<1>2. CASE Forget \/ Beat \/ Elapse \/ \E k \in Kind : Skip(k)
  BY <1>2, AroundKeeps
<1>3. CASE \E k \in {"full", "backfill"} : Trigger(k)
  BY <1>3, AroundKeeps DEF Kind
<1>4. ASSUME NEW s \in Slot,
             \/ Proceed(s) \/ Crash(s)
             \/ \E k \in Kind : Start(s, k)
             \/ \E again \in BOOLEAN : Fail(s, again)
      PROVE  IInv'
  <2>1. CASE Profile(s) \/ WalkPage(s) \/ WalkEmpty(s)
    BY <2>1, WalkingKeeps
  <2>2. CASE ListHistory(s)
    BY <2>2, ListHistoryKeeps
  <2>3. CASE Commit(s)
    BY <2>3, CommitKeeps
  <2>4. CASE MarkPass(s)
    BY <2>4, MarkPassKeeps
  <2>5. CASE MarkBackfill(s)
    BY <2>5, MarkBackfillKeeps
  <2>6. CASE \E status \in GoneStatus : HistoryGone(s, status)
    BY <2>6, HistoryGoneKeeps
  <2>7. CASE Crash(s) \/ \E again \in BOOLEAN : Fail(s, again)
    BY <2>7, AroundKeeps
  <2>8. CASE \E k \in Kind : Start(s, k)
    BY <2>8, StartKeeps
  <2> QED  BY <1>4, <2>1, <2>2, <2>3, <2>4, <2>5, <2>6, <2>7, <2>8 DEF Proceed
<1>5. CASE UNCHANGED vars
  <2>1. state \in States
    BY DEF IInv, Shapes
  <2> QED  BY <1>5, <2>1, NothingGoes DEF vars, mail, Kept
<1> QED  BY <1>1, <1>2, <1>3, <1>4, <1>5 DEF Next

\* What the passes and the cursor stand for at every moment: the inductive
\* invariant behind the two promises below (sync_gmail.py, sync_state.py).
THEOREM MirrorInvariant == Spec => []IInv
  BY InitHolds, StepHolds, PTL DEF Spec

\* A crash reprocesses a page and never skips one (sync_gmail.py:17-18), for
\* any histories, page sizes, bounds and number of workers, and however many
\* failures, deaths and overlapping passes there are.
THEOREM MirrorNothingSkipped == Spec => []NothingSkipped
<1>1. IInv => NothingSkipped
  BY DEF IInv, StateCovers, Covered, NothingSkipped
<1> QED  BY <1>1, MirrorInvariant, PTL

\* Once backfill_complete is set, every message that was there on connecting
\* and still is has been copied (_backfill, set_backfill).
THEOREM MirrorBackfillIsWhole == Spec => []BackfillIsWhole
<1>1. IInv => BackfillIsWhole
  BY DEF IInv, StateCovers, Old, InBox, BackfillIsWhole
<1> QED  BY <1>1, MirrorInvariant, PTL

\* The rows, the queue and the tasks keep their shape (sync_gmail.py).
THEOREM MirrorTyped == Spec => []TypeOK
<1>1. Init => queue \subseteq Kind
  BY DEF Init, Kind
<1>2. IInv /\ queue \subseteq Kind /\ [Next]_vars => (queue \subseteq Kind)'
  <2> SUFFICES ASSUME IInv, queue \subseteq Kind, [Next]_vars PROVE queue' \subseteq Kind
    OBVIOUS
  <2>1. "pass" \in Kind /\ "full" \in Kind /\ "backfill" \in Kind
    BY DEF Kind
  <2>2. ASSUME NEW s \in Slot, task[s].at # "idle" PROVE task[s].kind \in Kind
    <3>1. task[s] \in Tasks
      BY <2>2 DEF IInv, Shapes, Idle
    <3> QED  BY <3>1 DEF Tasks
  <2>3. CASE Change \/ Forget \/ Beat \/ Elapse
    BY <2>1, <2>3 DEF Change, Forget, Beat, Elapse
  <2>4. CASE (\E k \in Kind : Skip(k)) \/ \E k \in {"full", "backfill"} : Trigger(k)
    BY <2>1, <2>4 DEF Skip, Trigger
  <2>5. ASSUME NEW s \in Slot, Proceed(s) \/ Crash(s) \/ (\E k \in Kind : Start(s, k))
                               \/ \E again \in BOOLEAN : Fail(s, again)
        PROVE  queue' \subseteq Kind
    <3>1. CASE Profile(s) \/ ListHistory(s) \/ WalkPage(s) \/ WalkEmpty(s) \/ Commit(s)
      BY <3>1 DEF Profile, ListHistory, WalkPage, WalkEmpty, Commit
    <3>2. CASE MarkPass(s) \/ MarkBackfill(s)
      BY <2>1, <3>2 DEF MarkPass, MarkBackfill
    <3>3. CASE \E status \in GoneStatus : HistoryGone(s, status)
      BY <3>3 DEF HistoryGone, Failed
    <3>4. CASE Crash(s)
      BY <2>2, <3>4 DEF Crash, At
    <3>5. CASE \E k \in Kind : Start(s, k)
      BY <3>5 DEF Start
    <3>6. CASE \E again \in BOOLEAN : Fail(s, again)
      <4>1. PICK again \in BOOLEAN : Fail(s, again)
        BY <3>6
      <4>2. task[s].kind \in Kind
        BY <2>2, <4>1 DEF Fail
      <4> QED  BY <4>1, <4>2 DEF Fail, Failed
    <3> QED  BY <2>5, <3>1, <3>2, <3>3, <3>4, <3>5, <3>6 DEF Proceed
  <2>6. CASE UNCHANGED vars
    BY <2>6 DEF vars
  <2> QED  BY <2>3, <2>4, <2>5, <2>6 DEF Next
<1>3. IInv /\ queue \subseteq Kind => TypeOK
  <2> SUFFICES ASSUME IInv, queue \subseteq Kind PROVE TypeOK
    OBVIOUS
  <2>1. Len(log) \in Nat /\ state \in States /\ StateCovers
    BY DEF IInv, LogGrows, Shapes
  <2>2. state.history \in Position /\ state.page \in Position /\ state.walked \subseteq Msg
    BY <2>1 DEF StateCovers, States, Position
  <2>3. seen \in [Msg -> Position]
    <3>1. \A m \in Msg : seen[m] \in Position
      <4>1. \A m \in Msg : \A i \in Entries(m, 1, Len(log)) : i \in 0..Len(log)
        BY <2>1 DEF Entries
      <4> QED  BY <2>1, <4>1 DEF IInv, Shapes, Position
    <3> QED  BY <3>1 DEF IInv, Shapes
  <2>4. \A s \in Slot : task[s].at \in {"idle", "profile", "list", "walk", "commit", "mark"}
    BY DEF IInv, Shapes, Tasks, Idle
  <2> QED  BY <2>2, <2>3, <2>4 DEF TypeOK
<1> QED  BY <1>1, <1>2, <1>3, MirrorInvariant, PTL DEF Spec
=============================================================================
