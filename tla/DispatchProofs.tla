--------------------------- MODULE DispatchProofs ---------------------------
(***************************************************************************)
(* One call of the dispatcher, for any plan, any number of steps, any      *)
(* semaphores and any hitches: what its rows, cards and outcomes say of    *)
(* each other, and that it implements PlanRound.                           *)
(*                                                                         *)
(* The argument: where a step stands says what it has left behind in each  *)
(* variable.  That is enough for all but one thing, that the runner and    *)
(* the dispatcher agree on what waits for an answer.  It rests on the lock *)
(* being first in, first out: the hook of a step runs after the hook of    *)
(* the step that broke it, and so knows whether that one was parked.       *)
(***************************************************************************)
EXTENDS Dispatch, TLAPS

Working == {"begin", "slot", "call", "sleep", "asking", "telling", "staging", "emitting"}
Settled == {"report", "end", "telling"}

\* The outcome and the event of a step, by the place where it stands.
OutcomeInv(n) ==
    /\ pc[n] = "wait" => stat[n] = "pending"
    /\ pc[n] \in Working => stat[n] = "running"
    /\ pc[n] = "crashed" => stat[n] \in {"running", "timeout"}
    /\ pc[n] \in {"report", "cut"} => stat[n] \in Ended
    /\ pc[n] = "end" => stat[n] \in Ended \/ (stat[n] = "running" /\ n \in asked)
    /\ pc[n] = "cut" => late = "hard"
    /\ pc[n] \in Settled => n \in done
    /\ n \in done => pc[n] \in Settled \cup {"cut"}

TriesInv(n) ==
    /\ pc[n] \in {"wait", "begin"} => tries[n] = 0
    /\ pc[n] \in {"slot", "sleep"} => tries[n] < MaxTries

\* A row says where its step stands, unless its last write was refused; a parked one
\* was never touched, and none says of an outcome what is not so.
RowInv(n) ==
    /\ pc[n] \in {"wait", "begin"} => row[n] = "pending"
    /\ pc[n] \in Working \ {"begin"} => row[n] = "running" \/ n \in lost
    /\ pc[n] = "crashed" => row[n] = stat[n] \/ n \in lost
    /\ row[n] \in Ended => row[n] = stat[n]
    /\ stat[n] = "skipped" /\ (pc[n] # "end" \/ n \in parked) => row[n] = "pending"
    /\ pc[n] = "end" => row[n] = stat[n] \/ n \in lost \/ (stat[n] = "skipped" /\ n \in parked)

\* Why a step was left out.
SkipInv(n) ==
    stat[n] = "skipped" =>
        /\ pc[n] \in {"report", "end", "cut"} /\ n \notin asked
        /\ \/ why[n] = "run_paused" /\ blame[n] = NoNode /\ stop
           \/ why[n] = "dependency_failed" /\ blame[n] \in done
           \/ why[n] \in {"soft_deadline", "gate_not_met"} /\ blame[n] = NoNode

\* Cards, and what they park.
CardInv(n) ==
    /\ n \in asked => n \in cards /\ n \in parked /\ kind[n] = "ask" /\ pc[n] \in {"telling", "end", "cut"}
    /\ pc[n] = "telling" => n \in asked
    /\ n \in cards /\ kind[n] = "ask" /\ n \notin asked => pc[n] \in {"asking", "cut"}
    /\ pc[n] = "asking" => n \in cards /\ (kind[n] = "ask" => n \in parked)
    /\ n \in parked =>
        \/ n \in asked
        \/ kind[n] = "ask" /\ pc[n] \in {"asking", "cut"} /\ n \notin done
        \/ stat[n] = "skipped" /\ pc[n] = "end"

\* Writes the run holds.
WriteInv(n) ==
    /\ pc[n] = "emitting" => n \in prepared
    /\ n \in staged => n \in prepared
    /\ n \in prepared \ staged => pc[n] = "emitting" \/ (pc[n] = "cut" /\ stat[n] = "timeout")

Local(n) ==
    OutcomeInv(n) /\ TriesInv(n) /\ RowInv(n) /\ SkipInv(n) /\ CardInv(n) /\ WriteInv(n)

\* What was called, or is about to be, has its dependencies done.
Grounded ==
    \A n \in Node : pc[n] \in Working \/ tries[n] > 0 => \A d \in deps[n] : stat[d] = "succeeded"

\* A step is in the queue of the lock once, and after the step that broke it.
LockInv ==
    /\ \A i, j \in DOMAIN lock : lock[i] = lock[j] => i = j
    /\ \A i \in DOMAIN lock : pc[lock[i]] \in {"begin", "report"}
    /\ \A n \in Node : pc[n] = "report" => \E i \in DOMAIN lock : lock[i] = n
    /\ \A i \in DOMAIN lock :
        LET n == lock[i]
        IN stat[n] = "skipped" /\ why[n] = "dependency_failed" /\ pc[blame[n]] = "report" =>
            \E j \in DOMAIN lock : j < i /\ lock[j] = blame[n]

Waits(n) == why[n] = "run_paused" \/ (why[n] = "dependency_failed" /\ blame[n] \in parked)

\* The runner parks what waits, and hears of what broke a step before it hears of it.
ParkInv ==
    \A n \in Node : pc[n] = "end" /\ stat[n] = "skipped" =>
        /\ n \in parked <=> Waits(n)
        /\ why[n] = "dependency_failed" /\ stat[blame[n]] = "skipped" => pc[blame[n]] = "end"

\* What is parked and over is behind a question, however far.
BehindInv ==
    /\ stop <=> asked # {}
    /\ \A S \in SUBSET Node : asked \subseteq S /\ Behind(S) => parked \cap done \subseteq S

\* The end of the call, and the deadline that brings it about for all steps at once.
VerdictInv ==
    /\ verdict # "none" => (\A n \in Node : Over(n)) /\ (verdict = "paused" <=> asked # {})
    /\ \A n, m \in Node : pc[n] = "cut" => Over(m)

IInv ==
    /\ TypeOK
    /\ \A n \in Node : Local(n)
    /\ Grounded /\ LockInv /\ ParkInv /\ BehindInv /\ VerdictInv

-----------------------------------------------------------------------------
(* What does not touch a step leaves what is known of it alone.            *)

\* What a move of another step leaves of m.
Untouched(m) ==
    /\ pc'[m] = pc[m] /\ stat'[m] = stat[m] /\ why'[m] = why[m] /\ blame'[m] = blame[m]
    /\ tries'[m] = tries[m] /\ row'[m] = row[m]
    /\ m \in lost' <=> m \in lost
    /\ m \in asked' <=> m \in asked
    /\ m \in cards' <=> m \in cards
    /\ m \in parked' <=> m \in parked
    /\ m \in prepared' <=> m \in prepared
    /\ m \in staged' <=> m \in staged
    /\ m \in done' <=> m \in done

\* What no move takes back.
Onward ==
    kind' = kind /\ done \subseteq done' /\ (stop => stop') /\ (late = "hard" => late' = "hard")

\* Local is only about a step itself and about what is never taken back.
LEMMA LocalFrame ==
    ASSUME NEW m \in Node, Local(m), Untouched(m), Onward
    PROVE  Local(m)'
<1>1. OutcomeInv(m)'
  BY DEF Local, OutcomeInv, Untouched, Onward
<1>2. TriesInv(m)'
  BY DEF Local, TriesInv, Untouched, Onward
<1>3. RowInv(m)'
  BY DEF Local, RowInv, Untouched, Onward
<1>4. SkipInv(m)'
  BY DEF Local, SkipInv, Untouched, Onward
<1>5. CardInv(m)'
  BY DEF Local, CardInv, Untouched, Onward
<1>6. WriteInv(m)'
  BY DEF Local, WriteInv, Untouched, Onward
<1> QED  BY <1>1, <1>2, <1>3, <1>4, <1>5, <1>6 DEF Local

\* Once a step has its outcome and is in the queue of the lock, or past it, it keeps
\* the reason; so what is behind a question stays behind it.
LEMMA BehindFrame ==
    ASSUME NEW S \in SUBSET Node,
           \A m \in Node : stat[m] = "skipped" =>
               stat'[m] = "skipped" /\ why'[m] = why[m] /\ blame'[m] = blame[m],
           Behind(S)'
    PROVE  Behind(S)
BY DEF Behind

-----------------------------------------------------------------------------
(* A step gets its outcome: before its call, after it, or after its card.  *)

\* What finish is called with.
Verdicts(n, status, reason, cause) ==
    /\ status \in Ended /\ reason \in Reasons /\ cause \in Node \cup {NoNode}
    /\ status = "succeeded" => pc[n] # "wait"
    /\ status = "skipped" =>
        /\ pc[n] = "wait"
        /\ \/ reason = "run_paused" /\ cause = NoNode /\ stop
           \/ reason = "dependency_failed" /\ cause \in done
           \/ reason \in {"soft_deadline", "gate_not_met"} /\ cause = NoNode

\* The move every end of a step is.
Settles(n, status, reason, cause) ==
    /\ pc[n] \in {"wait", "call", "asking", "emitting"}
    /\ pc[n] = "asking" => kind[n] # "ask"
    /\ Verdicts(n, status, reason, cause)
    /\ Finish(n, status, reason, cause)
    /\ UNCHANGED <<deps, kind, tries, stop, late, asked, parked, cards, prepared, rowVars, verdict>>
    /\ staged' = IF pc[n] = "emitting" THEN staged \cup {n} ELSE staged
    /\ replan' \in BOOLEAN /\ after' \in [Node -> SUBSET Node]

LEMMA SettlesTyped ==
    ASSUME TypeOK, NEW n \in Node, NEW status, NEW reason, NEW cause,
           Settles(n, status, reason, cause)
    PROVE  TypeOK'
<1>1. lock' \in Seq(Node)
  BY DEF TypeOK, Settles, Finish
<1>2. stat' \in [Node -> Status] /\ why' \in [Node -> Reasons] /\ blame' \in [Node -> Node \cup {NoNode}]
      /\ done' \subseteq Node /\ pc' \in [Node -> Places]
  BY DEF TypeOK, Settles, Verdicts, Finish, Status, Places
<1>3. staged' \subseteq Node
  BY DEF TypeOK, Settles
<1> QED  BY <1>1, <1>2, <1>3 DEF TypeOK, Settles, rowVars

LEMMA SettlesLocal ==
    ASSUME IInv, NEW n \in Node, NEW status, NEW reason, NEW cause,
           Settles(n, status, reason, cause), NEW m \in Node
    PROVE  Local(m)'
<1>1. TypeOK /\ Local(m)
  BY DEF IInv
<1>2. CASE m # n
  <2>1. Untouched(m) /\ Onward
    BY <1>1, <1>2 DEF Settles, Finish, TypeOK, Untouched, Onward, rowVars
  <2> QED  BY <1>1, <2>1, LocalFrame
<1>3. CASE m = n
  <2>1. /\ pc'[n] = "report" /\ stat'[n] = status /\ why'[n] = reason /\ blame'[n] = cause
        /\ done' = done \cup {n} /\ stop' = stop /\ asked' = asked /\ parked' = parked
        /\ cards' = cards /\ kind' = kind /\ prepared' = prepared /\ row' = row /\ tries' = tries
        /\ lost' = lost
    BY <1>1 DEF Settles, Finish, TypeOK, rowVars
  <2>2. OutcomeInv(n)'
    BY <2>1 DEF OutcomeInv, Settles, Verdicts, Working, Settled
  <2>3. TriesInv(n)'
    BY <2>1 DEF TriesInv
  <2>4. RowInv(n)'
    <3>1. row[n] \notin Ended
      BY <1>1, <1>3 DEF Local, OutcomeInv, RowInv, Settles, Working, Ended
    <3>2. status = "skipped" => row[n] = "pending"
      BY <1>1, <1>3 DEF Local, RowInv, Settles, Verdicts
    <3> QED  BY <2>1, <3>1, <3>2 DEF RowInv, Working
  <2>5. SkipInv(n)'
    <3>1. n \notin asked
      BY <1>1, <1>3 DEF Local, CardInv, Settles
    <3> QED  BY <2>1, <3>1 DEF SkipInv, Settles, Verdicts
  <2>6. CardInv(n)'
    BY <1>1, <1>3, <2>1 DEF Local, CardInv, Settles
  <2>7. WriteInv(n)'
    BY <1>1, <1>3, <2>1 DEF Local, WriteInv, Settles
  <2> QED  BY <1>3, <2>2, <2>3, <2>4, <2>5, <2>6, <2>7 DEF Local
<1> QED  BY <1>2, <1>3

\* The lock grows by the step itself, behind what broke it.
LEMMA SettlesLock ==
    ASSUME IInv, NEW n \in Node, NEW status, NEW reason, NEW cause,
           Settles(n, status, reason, cause)
    PROVE  LockInv'
<1>1. TypeOK /\ LockInv /\ (\A m \in Node : Local(m))
  BY DEF IInv
<1>2. lock \in Seq(Node) /\ lock' = Append(lock, n)
  BY <1>1 DEF TypeOK, Settles, Finish
<1>3. /\ DOMAIN lock = 1 .. Len(lock) /\ DOMAIN lock' = 1 .. Len(lock) + 1 /\ Len(lock) \in Nat
      /\ lock'[Len(lock) + 1] = n /\ \A i \in DOMAIN lock : lock'[i] = lock[i] /\ lock[i] \in Node
  BY <1>2
<1>4. \A i \in DOMAIN lock : lock[i] # n
  BY <1>1 DEF LockInv, Settles
<1>5. n \notin done
  BY <1>1 DEF Local, OutcomeInv, Settles, Settled
<1>6. \A m \in Node \ {n} : pc'[m] = pc[m] /\ stat'[m] = stat[m] /\ why'[m] = why[m] /\ blame'[m] = blame[m]
  BY <1>1 DEF TypeOK, Settles, Finish
<1>7. pc'[n] = "report" /\ stat'[n] = status /\ why'[n] = reason /\ blame'[n] = cause
  BY <1>1 DEF TypeOK, Settles, Finish
<1>8. \A i, j \in DOMAIN lock' : lock'[i] = lock'[j] => i = j
  BY <1>1, <1>3, <1>4 DEF LockInv
<1>9. \A i \in DOMAIN lock' : pc'[lock'[i]] \in {"begin", "report"}
  BY <1>1, <1>3, <1>4, <1>6, <1>7 DEF LockInv
<1>10. \A m \in Node : pc'[m] = "report" => \E i \in DOMAIN lock' : lock'[i] = m
  <2> TAKE m \in Node
  <2>1. CASE m = n
    BY <1>3, <2>1
  <2>2. CASE m # n
    BY <1>1, <1>3, <1>6, <2>2 DEF LockInv
  <2> QED  BY <2>1, <2>2
<1>11. ASSUME NEW i \in DOMAIN lock', stat'[lock'[i]] = "skipped", why'[lock'[i]] = "dependency_failed",
              pc'[blame'[lock'[i]]] = "report"
       PROVE  \E j \in DOMAIN lock' : j < i /\ lock'[j] = blame'[lock'[i]]
  <2>1. CASE i \in DOMAIN lock
    <3>1. lock'[i] = lock[i] /\ lock[i] \in Node \ {n}
      BY <1>3, <1>4, <2>1
    <3>2. stat[lock[i]] = "skipped" /\ why[lock[i]] = "dependency_failed" /\ blame'[lock[i]] = blame[lock[i]]
      BY <1>6, <1>11, <3>1
    <3>3. blame[lock[i]] \in done /\ done \subseteq Node
      BY <1>1, <3>1, <3>2 DEF Local, SkipInv, TypeOK
    <3>4. pc[blame[lock[i]]] = "report"
      BY <1>5, <1>6, <1>11, <3>1, <3>2, <3>3
    <3>5. PICK j \in DOMAIN lock : j < i /\ lock[j] = blame[lock[i]]
      BY <1>1, <2>1, <3>2, <3>4 DEF LockInv
    <3> QED  BY <1>3, <3>1, <3>2, <3>5
  <2>2. CASE i = Len(lock) + 1
    <3>1. cause \in done /\ done \subseteq Node
      BY <1>1, <1>3, <1>7, <1>11, <2>2 DEF Settles, Verdicts, TypeOK
    <3>2. cause \in Node \ {n}
      BY <1>5, <3>1
    <3>3. pc[cause] = "report"
      BY <1>3, <1>6, <1>7, <1>11, <2>2, <3>2
    <3>4. PICK j \in DOMAIN lock : lock[j] = cause
      BY <1>1, <3>2, <3>3 DEF LockInv
    <3> QED  BY <1>3, <1>7, <2>2, <3>4
  <2> QED  BY <1>3, <2>1, <2>2
<1> QED  BY <1>8, <1>9, <1>10, <1>11 DEF LockInv

LEMMA SettlesStep ==
    ASSUME IInv, NEW n \in Node, NEW status, NEW reason, NEW cause,
           Settles(n, status, reason, cause)
    PROVE  IInv'
<1>1. TypeOK /\ Local(n) /\ Grounded /\ ParkInv /\ BehindInv /\ VerdictInv /\ (\A m \in Node : Local(m))
  BY DEF IInv
<1>2. TypeOK'
  BY <1>1, SettlesTyped
<1>3. \A m \in Node : Local(m)'
  BY SettlesLocal
<1>4. LockInv'
  BY SettlesLock
<1>5. \A m \in Node \ {n} : pc'[m] = pc[m] /\ stat'[m] = stat[m] /\ why'[m] = why[m] /\ blame'[m] = blame[m]
  BY <1>1 DEF TypeOK, Settles, Finish
<1>6. /\ pc'[n] = "report" /\ done' = done \cup {n} /\ deps' = deps /\ tries' = tries /\ stop' = stop
      /\ asked' = asked /\ parked' = parked /\ verdict' = verdict
  BY <1>1 DEF TypeOK, Settles, Finish
<1>7. stat[n] \in {"pending", "running"} /\ n \notin done /\ n \notin parked
  BY <1>1 DEF Local, OutcomeInv, CardInv, Settles, Working, Settled
<1>8. Grounded'
  <2> SUFFICES ASSUME NEW m \in Node, pc'[m] \in Working \/ tries'[m] > 0, NEW d \in deps[m]
               PROVE  stat'[d] = "succeeded"
    BY <1>6 DEF Grounded
  <2>1. pc[m] \in Working \/ tries[m] > 0
    BY <1>5, <1>6 DEF Working
  <2>2. d \in Node /\ stat[d] = "succeeded"
    BY <1>1, <2>1 DEF Grounded, TypeOK
  <2> QED  BY <1>5, <1>7, <2>2
<1>9. ParkInv'
  <2> SUFFICES ASSUME NEW m \in Node, pc'[m] = "end", stat'[m] = "skipped"
               PROVE  /\ m \in parked <=> Waits(m)'
                      /\ why'[m] = "dependency_failed" /\ stat'[blame'[m]] = "skipped" => pc'[blame'[m]] = "end"
    BY <1>6 DEF ParkInv
  <2>1. m # n /\ pc[m] = "end" /\ stat[m] = "skipped" /\ why'[m] = why[m] /\ blame'[m] = blame[m]
    BY <1>5, <1>6
  <2>2. why[m] = "dependency_failed" => blame[m] \in Node \ {n}
    BY <1>1, <1>7, <2>1 DEF Local, SkipInv, TypeOK
  <2>3. /\ m \in parked <=> Waits(m)
        /\ why[m] = "dependency_failed" /\ stat[blame[m]] = "skipped" => pc[blame[m]] = "end"
    BY <1>1, <2>1 DEF ParkInv
  <2>4. Waits(m)' <=> Waits(m)
    BY <1>6, <2>1 DEF Waits
  <2> QED  BY <1>5, <2>1, <2>2, <2>3, <2>4
<1>10. BehindInv'
  <2>1. ASSUME NEW S \in SUBSET Node, asked \subseteq S, Behind(S)'
        PROVE  parked \cap done' \subseteq S
    <3>1. Behind(S)
      BY <1>5, <1>7, <2>1, BehindFrame
    <3> QED  BY <1>1, <1>6, <1>7, <2>1, <3>1 DEF BehindInv
  <2> QED  BY <1>1, <1>6, <2>1 DEF BehindInv
<1>11. VerdictInv'
  <2>1. ~Over(n)
    BY <1>1 DEF Settles, Over
  <2> QED  BY <1>1, <1>5, <1>6, <2>1 DEF VerdictInv
<1> QED  BY <1>2, <1>3, <1>4, <1>8, <1>9, <1>10, <1>11 DEF IInv

-----------------------------------------------------------------------------
(* A step that runs moves on, with no outcome yet.                         *)

\* Its place, its calls, its card or its row may change; nothing others see of it does.
Quiet(n) ==
    /\ pc[n] \in Working \ {"telling"} /\ pc' = [pc EXCEPT ![n] = pc'[n]]
    /\ pc'[n] \in (Working \ {"begin", "telling"}) \cup {"crashed"}
    /\ UNCHANGED <<deps, kind, stat, why, blame, done, stop, late, asked, replan, staged, verdict>>
    /\ parked \subseteq parked' /\ parked' \subseteq parked \cup {n}
    /\ \A m \in Node \ {n} :
        /\ tries'[m] = tries[m] /\ row'[m] = row[m]
        /\ m \in lost' <=> m \in lost
        /\ m \in cards' <=> m \in cards
        /\ m \in prepared' <=> m \in prepared

LEMMA QuietOthers ==
    ASSUME IInv, NEW n \in Node, Quiet(n)
    PROVE  /\ Grounded' /\ ParkInv' /\ BehindInv' /\ VerdictInv'
           /\ \A m \in Node \ {n} : Local(m)'
<1>1. TypeOK /\ Local(n) /\ Grounded /\ ParkInv /\ BehindInv /\ VerdictInv /\ (\A m \in Node : Local(m))
  BY DEF IInv
<1>2. \A m \in Node \ {n} : pc'[m] = pc[m] /\ tries'[m] = tries[m]
  BY <1>1 DEF TypeOK, Quiet
<1>3. /\ deps' = deps /\ stat' = stat /\ why' = why /\ blame' = blame /\ done' = done
      /\ stop' = stop /\ asked' = asked /\ verdict' = verdict
      /\ parked \subseteq parked' /\ parked' \subseteq parked \cup {n}
  BY DEF Quiet
<1>4. stat[n] = "running" /\ n \notin done /\ pc[n] \in Working /\ pc'[n] # "end"
  BY <1>1 DEF Local, OutcomeInv, Quiet, Working, Settled
<1>5. Grounded'
  BY <1>1, <1>2, <1>3, <1>4 DEF Grounded
<1>6. ParkInv'
  <2> SUFFICES ASSUME NEW m \in Node, pc'[m] = "end", stat[m] = "skipped"
               PROVE  /\ m \in parked' <=> Waits(m)'
                      /\ why[m] = "dependency_failed" /\ stat[blame[m]] = "skipped" => pc'[blame[m]] = "end"
    BY <1>3 DEF ParkInv
  <2>1. m # n /\ pc[m] = "end"
    BY <1>2, <1>4
  <2>2. why[m] = "dependency_failed" => blame[m] \in Node \ {n}
    BY <1>1, <1>4 DEF Local, SkipInv, TypeOK
  <2>3. /\ m \in parked <=> Waits(m)
        /\ why[m] = "dependency_failed" /\ stat[blame[m]] = "skipped" => pc[blame[m]] = "end"
    BY <1>1, <2>1 DEF ParkInv
  <2>4. Waits(m)' <=> Waits(m)
    BY <1>3, <2>2 DEF Waits
  <2> QED  BY <1>2, <1>3, <2>1, <2>2, <2>3, <2>4
<1>7. BehindInv'
  <2>1. parked' \cap done = parked \cap done
    BY <1>3, <1>4
  <2>2. ASSUME NEW S \in SUBSET Node, asked \subseteq S, Behind(S)'
        PROVE  parked' \cap done \subseteq S
    <3>1. Behind(S)
      BY <1>3, <2>2, BehindFrame
    <3> QED  BY <1>1, <2>1, <2>2, <3>1 DEF BehindInv
  <2> QED  BY <1>1, <1>3, <2>2 DEF BehindInv
<1>8. VerdictInv'
  <2>1. ~Over(n) /\ pc'[n] # "cut"
    BY <1>4 DEF Quiet, Working, Over
  <2> QED  BY <1>1, <1>2, <1>3, <2>1 DEF VerdictInv
<1>9. ASSUME NEW m \in Node \ {n} PROVE Local(m)'
  <2>1. Untouched(m) /\ Onward
    BY <1>1, <1>2, <1>3 DEF Quiet, TypeOK, Untouched, Onward
  <2> QED  BY <1>1, <2>1, LocalFrame
<1> QED  BY <1>5, <1>6, <1>7, <1>8, <1>9

\* The queue stays as it is when the step that moves is not in it.
LEMMA LockKept ==
    ASSUME TypeOK, LockInv, NEW n \in Node, pc[n] \notin {"begin", "report"}, UNCHANGED <<lock, stat, why, blame>>,
           pc' = [pc EXCEPT ![n] = pc'[n]], pc'[n] # "report",
           \A m \in Node : stat[m] = "skipped" /\ why[m] = "dependency_failed" => blame[m] \in Node
    PROVE  LockInv'
<1>1. \A m \in Node \ {n} : pc'[m] = pc[m]
  BY DEF TypeOK
<1>2. \A i \in DOMAIN lock : lock[i] \in Node \ {n}
  BY DEF TypeOK, LockInv
<1>3. \A i \in DOMAIN lock : stat[lock[i]] = "skipped" /\ why[lock[i]] = "dependency_failed" =>
        blame[lock[i]] \in Node
  BY <1>2
<1> QED  BY <1>1, <1>2, <1>3 DEF LockInv

\* Its head leaves the queue; nobody in it was waiting for the hook of another behind it.
LEMMA LockPassed ==
    ASSUME TypeOK, LockInv, NEW n \in Node, Holds(n), lock' = Tail(lock), UNCHANGED <<stat, why, blame>>,
           pc' = [pc EXCEPT ![n] = pc'[n]], pc'[n] \notin {"begin", "report"},
           \A m \in Node : stat[m] = "skipped" /\ why[m] = "dependency_failed" => blame[m] \in Node
    PROVE  LockInv'
<1>1. \A m \in Node \ {n} : pc'[m] = pc[m]
  BY DEF TypeOK
<1>2. lock \in Seq(Node) /\ lock # <<>> /\ lock[1] = n
  BY DEF TypeOK, Holds
<1>3. /\ Len(lock) \in Nat \ {0} /\ DOMAIN lock = 1 .. Len(lock) /\ DOMAIN lock' = 1 .. Len(lock) - 1
      /\ \A i \in DOMAIN lock' : lock'[i] = lock[i + 1]
      /\ \A i \in DOMAIN lock : lock[i] \in Node
  BY <1>2
<1>4. \A i \in DOMAIN lock' : i \in Nat /\ i + 1 \in DOMAIN lock /\ lock'[i] \in Node \ {n}
  BY <1>2, <1>3 DEF LockInv
<1>5. \A m \in Node \ {n} : pc[m] = "report" => \E i \in DOMAIN lock' : lock'[i] = m
  <2> TAKE m \in Node \ {n}
  <2> HAVE pc[m] = "report"
  <2>1. PICK i \in DOMAIN lock : lock[i] = m
    BY DEF LockInv
  <2>2. i - 1 \in DOMAIN lock' /\ lock'[i - 1] = m
    BY <1>2, <1>3, <2>1
  <2> QED  BY <2>2
<1>6. \A i, j \in DOMAIN lock' : lock'[i] = lock'[j] => i = j
  <2> TAKE i, j \in DOMAIN lock'
  <2> HAVE lock'[i] = lock'[j]
  <2>1. i + 1 = j + 1
    BY <1>3, <1>4 DEF LockInv
  <2> QED  BY <1>4, <2>1
<1>7. \A i \in DOMAIN lock' : pc'[lock'[i]] \in {"begin", "report"}
  BY <1>1, <1>3, <1>4 DEF LockInv
<1>8. ASSUME NEW i \in DOMAIN lock', stat[lock'[i]] = "skipped", why[lock'[i]] = "dependency_failed",
             pc'[blame[lock'[i]]] = "report"
      PROVE  \E j \in DOMAIN lock' : j < i /\ lock'[j] = blame[lock'[i]]
  <2>1. blame[lock'[i]] \in Node \ {n} /\ pc[blame[lock'[i]]] = "report"
    BY <1>1, <1>4, <1>8
  <2>2. PICK j \in DOMAIN lock : j < i + 1 /\ lock[j] = blame[lock'[i]]
    BY <1>3, <1>4, <1>8, <2>1 DEF LockInv
  <2>3. j # 1
    BY <1>2, <2>1, <2>2
  <2>4. j - 1 \in DOMAIN lock' /\ j - 1 < i /\ lock'[j - 1] = blame[lock'[i]]
    BY <1>3, <1>4, <2>2, <2>3
  <2> QED  BY <2>4
<1>9. \A m \in Node : pc'[m] = "report" => \E i \in DOMAIN lock' : lock'[i] = m
  BY <1>1, <1>5
<1> QED  BY <1>6, <1>7, <1>8, <1>9 DEF LockInv

\* What broke a step is a step.
LEMMA BlamesNode ==
    ASSUME IInv
    PROVE  \A m \in Node : stat[m] = "skipped" /\ why[m] = "dependency_failed" =>
             blame[m] \in done /\ blame[m] \in Node
BY DEF IInv, Local, SkipInv, TypeOK

\* A quiet move is safe once it is typed and right for the step itself.
LEMMA QuietStep ==
    ASSUME IInv, NEW n \in Node, Quiet(n), TypeOK', Local(n)',
           (lock' = lock /\ pc[n] # "begin") \/ (Holds(n) /\ lock' = Tail(lock))
    PROVE  IInv'
<1>1. TypeOK /\ LockInv
  BY DEF IInv
<1>2. /\ Grounded' /\ ParkInv' /\ BehindInv' /\ VerdictInv'
      /\ \A m \in Node \ {n} : Local(m)'
  BY QuietOthers
<1>3. /\ pc' = [pc EXCEPT ![n] = pc'[n]] /\ pc'[n] \notin {"begin", "report"} /\ pc[n] # "report"
      /\ UNCHANGED <<stat, why, blame>>
  BY DEF Quiet, Working
<1>4. \A m \in Node : stat[m] = "skipped" /\ why[m] = "dependency_failed" => blame[m] \in Node
  BY BlamesNode
<1>5. LockInv'
  <2>1. CASE lock' = lock /\ pc[n] # "begin"
    BY <1>1, <1>3, <1>4, <2>1, LockKept
  <2>2. CASE Holds(n) /\ lock' = Tail(lock)
    BY <1>1, <1>3, <1>4, <2>2, LockPassed
  <2> QED  BY <2>1, <2>2
<1> QED  BY <1>2, <1>5 DEF IInv

\* A row is written, or the refusal is remembered; no other row is touched.
LEMMA PersistFacts ==
    ASSUME TypeOK, NEW n \in Node, NEW status \in Status, Persist(n, status)
    PROVE  /\ row' \in [Node -> Status] /\ lost' \subseteq Node
           /\ \A m \in Node \ {n} : row'[m] = row[m] /\ (m \in lost' <=> m \in lost)
           /\ (row'[n] = status /\ n \notin lost') \/ (row'[n] = row[n] /\ n \in lost')
BY DEF TypeOK, Persist

LEMMA BeginHookSafe ==
    ASSUME IInv, NEW n \in Node, BeginHook(n)
    PROVE  IInv'
<1>1. TypeOK /\ Local(n)
  BY DEF IInv
<1>0. /\ row' \in [Node -> Status] /\ lost' \subseteq Node
      /\ \A m \in Node \ {n} : row'[m] = row[m] /\ (m \in lost' <=> m \in lost)
      /\ (row'[n] = "running" /\ n \notin lost') \/ (row'[n] = row[n] /\ n \in lost')
  <2>1. Persist(n, "running") /\ "running" \in Status
    BY DEF BeginHook, Status
  <2> QED  BY <1>1, <2>1, PersistFacts
<1>2. Quiet(n)
  BY <1>1, <1>0 DEF BeginHook, Quiet, TypeOK, Working, planVars, outcomeVars, cardVars, writeVars
<1>3. lock' \in Seq(Node)
  BY <1>1 DEF BeginHook, Holds, TypeOK
<1>4. TypeOK'
  BY <1>1, <1>0, <1>3 DEF BeginHook, TypeOK, Places, planVars, outcomeVars, cardVars, writeVars
<1>5. /\ pc[n] = "begin" /\ pc'[n] = "slot" /\ n \notin asked /\ n \notin parked
      /\ row[n] = "pending" /\ stat[n] = "running" /\ stat' = stat
  BY <1>1 DEF BeginHook, TypeOK, Local, CardInv, OutcomeInv, RowInv, Working, outcomeVars
<1>6. Local(n)'
  <2>1. OutcomeInv(n)' /\ TriesInv(n)' /\ SkipInv(n)'
    BY <1>1, <1>5, DispatchAssumption DEF BeginHook, Local, OutcomeInv, TriesInv, SkipInv, Working,
       Settled, planVars, outcomeVars, cardVars, writeVars
  <2>3. RowInv(n)'
    BY <1>0, <1>5 DEF RowInv, Working, Ended
  <2>2. CardInv(n)' /\ WriteInv(n)'
    BY <1>1, <1>5 DEF BeginHook, Local, CardInv, WriteInv, planVars, outcomeVars, cardVars, writeVars
  <2> QED  BY <2>1, <2>2, <2>3 DEF Local
<1> QED  BY <1>2, <1>4, <1>6, QuietStep DEF BeginHook

LEMMA TakeSlotSafe ==
    ASSUME IInv, NEW n \in Node, TakeSlot(n)
    PROVE  IInv'
<1>1. TypeOK /\ Local(n)
  BY DEF IInv
<1>2. /\ pc[n] = "slot" /\ pc'[n] = "call" /\ tries[n] \in Nat /\ tries'[n] = tries[n] + 1
      /\ tries[n] < MaxTries /\ MaxTries \in Nat
  BY <1>1, DispatchAssumption DEF TakeSlot, TypeOK, Local, TriesInv
<1>3. Quiet(n)
  BY <1>1, <1>2 DEF TakeSlot, Quiet, TypeOK, Working, planVars, outcomeVars, writeVars, rowVars
<1>4. TypeOK'
  BY <1>1, <1>2 DEF TakeSlot, TypeOK, Places, planVars, outcomeVars, writeVars, rowVars
<1>5. Local(n)'
  <2>1. OutcomeInv(n)' /\ TriesInv(n)' /\ RowInv(n)' /\ SkipInv(n)'
    BY <1>1, <1>2 DEF TakeSlot, Local, OutcomeInv, TriesInv, RowInv, SkipInv, Working,
       Settled, planVars, outcomeVars, writeVars, rowVars, Ended
  <2>2. CardInv(n)' /\ WriteInv(n)'
    BY <1>1, <1>2 DEF TakeSlot, Local, CardInv, WriteInv, planVars, outcomeVars, writeVars
  <2> QED  BY <2>1, <2>2 DEF Local
<1> QED  BY <1>2, <1>3, <1>4, <1>5, QuietStep DEF TakeSlot

LEMMA RetrySafe ==
    ASSUME IInv, NEW n \in Node, FailAndWait(n) \/ TryAgain(n)
    PROVE  IInv'
<1>1. TypeOK /\ Local(n)
  BY DEF IInv
<1>2. \/ pc[n] = "call" /\ pc'[n] = "sleep" /\ tries[n] < MaxTries
      \/ pc[n] = "sleep" /\ pc'[n] = "slot" /\ tries[n] < MaxTries
  <2>1. CASE FailAndWait(n)
    BY <1>1, <2>1 DEF FailAndWait, TypeOK
  <2>2. CASE TryAgain(n)
    BY <1>1, <2>2 DEF TryAgain, TypeOK, Local, TriesInv
  <2> QED  BY <2>1, <2>2
<1>3. /\ pc' = [pc EXCEPT ![n] = pc'[n]]
      /\ CalledOnly /\ UNCHANGED <<outcomeVars, replan, lock, after>>
  <2>1. CASE FailAndWait(n)
    BY <1>1, <2>1 DEF FailAndWait, TypeOK
  <2>2. CASE TryAgain(n)
    BY <1>1, <2>2 DEF TryAgain, TypeOK
  <2> QED  BY <2>1, <2>2
<1>4. Quiet(n)
  BY <1>2, <1>3 DEF Quiet, Working, CalledOnly, outcomeVars, rowVars
<1>5. TypeOK'
  <2>1. pc' \in [Node -> Places]
    BY <1>1, <1>2, <1>3 DEF TypeOK, Places
  <2> QED  BY <1>1, <1>3, <2>1 DEF TypeOK, CalledOnly, outcomeVars, rowVars
<1>6. Local(n)'
  <2>1. OutcomeInv(n)' /\ TriesInv(n)' /\ RowInv(n)' /\ SkipInv(n)'
    BY <1>1, <1>2, <1>3 DEF CalledOnly, Local, OutcomeInv, TriesInv, RowInv, SkipInv, Working, Settled, Ended,
       outcomeVars, rowVars
  <2>2. CardInv(n)' /\ WriteInv(n)'
    BY <1>1, <1>2, <1>3 DEF CalledOnly, Local, CardInv, WriteInv, outcomeVars
  <2> QED  BY <2>1, <2>2 DEF Local
<1> QED  BY <1>2, <1>3, <1>4, <1>5, <1>6, QuietStep

\* The staging of a write, to the point where the run holds it.
LEMMA StageSafe ==
    ASSUME IInv, NEW n \in Node, BeginStage(n) \/ Prepare(n) \/ StageFails(n)
    PROVE  IInv'
<1>1. TypeOK /\ Local(n)
  BY DEF IInv
<1>2. \/ pc[n] = "call" /\ pc'[n] = "staging" /\ prepared' = prepared
      \/ pc[n] = "staging" /\ pc'[n] = "emitting" /\ prepared' = prepared \cup {n}
      \/ pc[n] = "staging" /\ pc'[n] = "crashed" /\ prepared' = prepared
  BY <1>1 DEF BeginStage, Prepare, StageFails, TypeOK, CalledOnly
<1>3. /\ pc' = [pc EXCEPT ![n] = pc'[n]] /\ after' \in [Node -> SUBSET Node]
      /\ UNCHANGED <<planVars, outcomeVars, tries, late, replan, lock, parked, cardVars, staged, rowVars, verdict>>
  <2>1. CASE BeginStage(n)
    <3>1. deps[n] \cap staged \in SUBSET Node
      BY <1>1 DEF TypeOK
    <3> QED  BY <1>1, <2>1, <3>1 DEF BeginStage, TypeOK, CalledOnly, planVars, outcomeVars, cardVars
  <2>2. CASE Prepare(n)
    BY <1>1, <2>2 DEF Prepare, TypeOK
  <2>3. CASE StageFails(n)
    BY <1>1, <2>3 DEF StageFails, TypeOK, CalledOnly, planVars, outcomeVars, cardVars
  <2> QED  BY <2>1, <2>2, <2>3
<1>4. Quiet(n)
  BY <1>2, <1>3 DEF Quiet, Working, planVars, outcomeVars, cardVars, rowVars
<1>5. TypeOK'
  <2>1. pc' \in [Node -> Places] /\ prepared' \subseteq Node
    BY <1>1, <1>2, <1>3 DEF TypeOK, Places
  <2> QED  BY <1>1, <1>3, <2>1 DEF TypeOK, planVars, outcomeVars, cardVars, rowVars
<1>6. Local(n)'
  <2>1. OutcomeInv(n)' /\ TriesInv(n)' /\ RowInv(n)' /\ SkipInv(n)'
    BY <1>1, <1>2, <1>3 DEF Local, OutcomeInv, TriesInv, RowInv, SkipInv, Working, Settled, Ended,
       planVars, outcomeVars, cardVars, rowVars
  <2>2. CardInv(n)' /\ WriteInv(n)'
    BY <1>1, <1>2, <1>3 DEF Local, CardInv, WriteInv, planVars, outcomeVars, cardVars
  <2> QED  BY <2>1, <2>2 DEF Local
<1>7. lock' = lock /\ pc[n] # "begin"
  BY <1>2, <1>3
<1> QED  BY <1>4, <1>5, <1>6, <1>7, QuietStep

\* A card is raised: a blocking one parks the step that asks.
LEMMA RaiseSafe ==
    ASSUME IInv, NEW n \in Node, Raise(n)
    PROVE  IInv'
<1>1. TypeOK /\ Local(n)
  BY DEF IInv
<1>2. /\ pc[n] = "call" /\ pc'[n] = "asking" /\ cards' = cards \cup {n} /\ lock' = lock
      /\ parked' = IF kind[n] = "ask" THEN parked \cup {n} ELSE parked
  BY <1>1 DEF Raise, TypeOK
<1>3. Quiet(n)
  BY <1>1, <1>2 DEF Raise, Quiet, TypeOK, Working, planVars, outcomeVars, writeVars, rowVars
<1>4. TypeOK'
  BY <1>1, <1>2 DEF Raise, TypeOK, Places, planVars, outcomeVars, writeVars, rowVars
<1>5. Local(n)'
  <2>1. OutcomeInv(n)' /\ TriesInv(n)' /\ RowInv(n)' /\ SkipInv(n)'
    BY <1>1, <1>2 DEF Raise, Local, OutcomeInv, TriesInv, RowInv, SkipInv, Working,
       Settled, planVars, outcomeVars, writeVars, rowVars, Ended
  <2>2. CardInv(n)' /\ WriteInv(n)'
    BY <1>1, <1>2 DEF Raise, Local, OutcomeInv, Settled, CardInv, WriteInv, planVars, outcomeVars, writeVars
  <2> QED  BY <2>1, <2>2 DEF Local
<1> QED  BY <1>2, <1>3, <1>4, <1>5, QuietStep

-----------------------------------------------------------------------------
(* The moves others see: a start, a hook, a question.                      *)

LEMMA StartSafe ==
    ASSUME IInv, NEW n \in Node, Start(n)
    PROVE  IInv'
<1>1. TypeOK /\ Local(n) /\ Grounded /\ LockInv /\ ParkInv /\ BehindInv /\ VerdictInv /\ (\A m \in Node : Local(m))
  BY DEF IInv
<1>2. /\ pc[n] = "wait" /\ deps[n] \subseteq done /\ Broken(n) = {} /\ ~stop
      /\ stat' = [stat EXCEPT ![n] = "running"] /\ pc' = [pc EXCEPT ![n] = "begin"]
      /\ lock' = Append(lock, n)
  BY DEF Start, InTime, Clear, Ready
<1>3. UNCHANGED <<deps, kind, why, blame, done, tries, stop, late, asked, replan,
                  parked, cards, prepared, staged, after, row, lost, verdict>>
  BY DEF Start, planVars, writeVars, rowVars
<1>4. /\ pc'[n] = "begin" /\ stat'[n] = "running"
      /\ \A m \in Node \ {n} : pc'[m] = pc[m] /\ stat'[m] = stat[m]
  BY <1>1, <1>2 DEF TypeOK
<1>5. stat[n] = "pending" /\ n \notin done /\ tries[n] = 0
  BY <1>1, <1>2 DEF Local, OutcomeInv, TriesInv, Settled
<1>6. TypeOK'
  <2>1. lock' \in Seq(Node) /\ pc' \in [Node -> Places] /\ stat' \in [Node -> Status]
    BY <1>1, <1>2 DEF TypeOK, Places, Status
  <2> QED  BY <1>1, <1>3, <2>1 DEF TypeOK
<1>7. ASSUME NEW m \in Node PROVE Local(m)'
  <2>1. CASE m # n
    <3>1. Untouched(m) /\ Onward
      BY <1>3, <1>4, <2>1 DEF Untouched, Onward
    <3> QED  BY <1>1, <3>1, LocalFrame
  <2>2. CASE m = n
    <3>1. OutcomeInv(n)' /\ TriesInv(n)' /\ RowInv(n)' /\ SkipInv(n)'
      BY <1>1, <1>2, <1>3, <1>4, <1>5 DEF Local, OutcomeInv, TriesInv, RowInv, SkipInv, Working, Settled, Ended
    <3>2. CardInv(n)' /\ WriteInv(n)'
      BY <1>1, <1>2, <1>3, <1>4, <1>5 DEF Local, CardInv, WriteInv
    <3> QED  BY <2>2, <3>1, <3>2 DEF Local
  <2> QED  BY <2>1, <2>2
<1>8. Grounded'
  <2> SUFFICES ASSUME NEW m \in Node, pc'[m] \in Working \/ tries[m] > 0, NEW d \in deps[m]
               PROVE  stat'[d] = "succeeded"
    BY <1>3 DEF Grounded
  <2>1. d \in Node
    BY <1>1 DEF TypeOK
  <2>2. CASE m = n
    BY <1>2, <1>4, <1>5, <2>1, <2>2 DEF Broken
  <2>3. CASE m # n
    BY <1>1, <1>4, <1>5, <2>1, <2>3 DEF Grounded
  <2> QED  BY <2>2, <2>3
<1>9. LockInv'
  <2>1. /\ DOMAIN lock = 1 .. Len(lock) /\ DOMAIN lock' = 1 .. Len(lock) + 1 /\ Len(lock) \in Nat
        /\ lock'[Len(lock) + 1] = n /\ \A i \in DOMAIN lock : lock'[i] = lock[i] /\ lock[i] \in Node
    BY <1>1, <1>2 DEF TypeOK
  <2>2. \A i \in DOMAIN lock : lock[i] # n
    BY <1>1, <1>2 DEF LockInv
  <2>3. \A i, j \in DOMAIN lock' : lock'[i] = lock'[j] => i = j
    BY <1>1, <2>1, <2>2 DEF LockInv
  <2>4. \A i \in DOMAIN lock' : pc'[lock'[i]] \in {"begin", "report"}
    BY <1>1, <1>4, <2>1, <2>2 DEF LockInv
  <2>5. \A m \in Node : pc'[m] = "report" => \E i \in DOMAIN lock' : lock'[i] = m
    <3> TAKE m \in Node
    <3> HAVE pc'[m] = "report"
    <3>1. pc[m] = "report"
      BY <1>4
    <3> QED  BY <1>1, <2>1, <3>1 DEF LockInv
  <2>6. ASSUME NEW i \in DOMAIN lock', stat'[lock'[i]] = "skipped", why[lock'[i]] = "dependency_failed",
               pc'[blame[lock'[i]]] = "report"
        PROVE  \E j \in DOMAIN lock' : j < i /\ lock'[j] = blame[lock'[i]]
    <3>1. i \in DOMAIN lock /\ lock'[i] = lock[i] /\ stat[lock[i]] = "skipped" /\ lock[i] \in Node
      BY <1>4, <2>1, <2>2, <2>6
    <3>2. blame[lock[i]] \in Node /\ pc[blame[lock[i]]] = "report"
      BY <1>4, <2>6, <3>1, BlamesNode
    <3>3. PICK j \in DOMAIN lock : j < i /\ lock[j] = blame[lock[i]]
      BY <1>1, <2>6, <3>1, <3>2 DEF LockInv
    <3> QED  BY <2>1, <3>1, <3>3
  <2> QED  BY <1>3, <2>3, <2>4, <2>5, <2>6 DEF LockInv
<1>10. ParkInv'
  <2> SUFFICES ASSUME NEW m \in Node, pc'[m] = "end", stat'[m] = "skipped"
               PROVE  /\ m \in parked <=> Waits(m)'
                      /\ why[m] = "dependency_failed" /\ stat'[blame[m]] = "skipped" => pc'[blame[m]] = "end"
    BY <1>3 DEF ParkInv
  <2>1. pc[m] = "end" /\ stat[m] = "skipped" /\ (Waits(m)' <=> Waits(m))
    BY <1>3, <1>4 DEF Waits
  <2>2. why[m] = "dependency_failed" => blame[m] \in Node \ {n}
    BY <1>5, <2>1, BlamesNode
  <2> QED  BY <1>1, <1>4, <2>1, <2>2 DEF ParkInv
<1>11. BehindInv'
  <2>1. ASSUME NEW S \in SUBSET Node, asked \subseteq S, Behind(S)'
        PROVE  parked \cap done \subseteq S
    <3>1. Behind(S)
      BY <1>3, <1>4, <1>5, <2>1, BehindFrame
    <3> QED  BY <1>1, <2>1, <3>1 DEF BehindInv
  <2> QED  BY <1>1, <1>3, <2>1 DEF BehindInv
<1>12. VerdictInv'
  <2>1. ~Over(n)
    BY <1>2 DEF Over
  <2> QED  BY <1>1, <1>3, <1>4, <2>1 DEF VerdictInv
<1> QED  BY <1>6, <1>7, <1>8, <1>9, <1>10, <1>11, <1>12 DEF IInv

\* The hook of a finished step.  What broke it has had its hook, so that IsParked is
\* asked of a set that no longer changes.
LEMMA ReportSafe ==
    ASSUME IInv, NEW n \in Node, Report(n)
    PROVE  IInv'
<1>1. TypeOK /\ Local(n) /\ Grounded /\ LockInv /\ ParkInv /\ BehindInv /\ VerdictInv /\ (\A m \in Node : Local(m))
  BY DEF IInv
<1>2. /\ Holds(n) /\ pc[n] = "report" /\ pc' = [pc EXCEPT ![n] = "end"] /\ lock' = Tail(lock)
      /\ IF IsParked(n)
         THEN parked' = parked \cup {n} /\ row' = row /\ lost' = lost
         ELSE parked' = parked /\ Persist(n, stat[n])
  BY DEF Report, rowVars
<1>3. /\ UNCHANGED <<deps, kind, stat, why, blame, done, tries, stop, late, asked, cards,
                     prepared, staged, after, verdict>>
      /\ replan' = (replan \/ why[n] \in {"unresolved_reference", "invalid"})
  BY DEF Report, planVars, outcomeVars, cardVars, writeVars
<1>0. /\ row' \in [Node -> Status] /\ lost' \subseteq Node
      /\ \A m \in Node \ {n} : row'[m] = row[m] /\ (m \in lost' <=> m \in lost)
      /\ ~IsParked(n) =>
           (row'[n] = stat[n] /\ n \notin lost') \/ (row'[n] = row[n] /\ n \in lost')
  <2>1. CASE IsParked(n)
    BY <1>1, <1>2, <2>1 DEF TypeOK
  <2>2. CASE ~IsParked(n)
    <3>1. Persist(n, stat[n]) /\ stat[n] \in Status
      BY <1>1, <1>2, <2>2 DEF TypeOK
    <3> QED  BY <1>1, <2>2, <3>1, PersistFacts
  <2> QED  BY <2>1, <2>2
<1>4. /\ pc'[n] = "end"
      /\ \A m \in Node \ {n} : pc'[m] = pc[m] /\ row'[m] = row[m] /\ (m \in lost' <=> m \in lost)
  BY <1>1, <1>2, <1>0 DEF TypeOK
<1>5. stat[n] \in Ended /\ n \in done /\ n \notin asked /\ n \notin parked
  BY <1>1, <1>2 DEF Local, OutcomeInv, CardInv, Settled
<1>6. /\ parked \subseteq parked' /\ parked' \subseteq parked \cup {n}
      /\ n \in parked' <=> stat[n] = "skipped" /\ Waits(n)
  BY <1>2, <1>5 DEF IsParked, Waits
<1>7. TypeOK'
  <2>1. lock' \in Seq(Node)
    BY <1>1, <1>2 DEF TypeOK, Holds
  <2>2. pc' \in [Node -> Places] /\ row' \in [Node -> Status] /\ parked' \subseteq Node
    BY <1>1, <1>2, <1>0, <1>6 DEF TypeOK, Places
  <2>3. replan' \in BOOLEAN
    BY <1>3
  <2> QED  BY <1>1, <1>0, <1>3, <2>1, <2>2, <2>3 DEF TypeOK
<1>8. ASSUME NEW m \in Node PROVE Local(m)'
  <2>1. CASE m # n
    <3>1. Untouched(m) /\ Onward
      BY <1>3, <1>4, <1>6, <2>1 DEF Untouched, Onward
    <3> QED  BY <1>1, <3>1, LocalFrame
  <2>2. CASE m = n
    <3>1. OutcomeInv(n)' /\ TriesInv(n)' /\ SkipInv(n)'
      BY <1>1, <1>2, <1>3, <1>4, <1>5 DEF Local, OutcomeInv, TriesInv, SkipInv, Working, Settled
    <3>2. /\ row[n] \in Ended => row[n] = stat[n]
          /\ stat[n] = "skipped" => row[n] = "pending"
      BY <1>1, <1>2 DEF Local, RowInv
    <3>3. RowInv(n)'
      <4>1. CASE IsParked(n)
        BY <1>2, <1>3, <1>4, <3>2, <4>1 DEF RowInv, Working, Ended, IsParked
      <4>2. CASE ~IsParked(n)
        BY <1>2, <1>0, <1>3, <1>4, <1>5, <3>2, <4>2 DEF RowInv, Working, Ended
      <4> QED  BY <4>1, <4>2
    <3>4. CardInv(n)' /\ WriteInv(n)'
      BY <1>1, <1>2, <1>3, <1>4, <1>5, <1>6 DEF Local, CardInv, WriteInv
    <3> QED  BY <2>2, <3>1, <3>3, <3>4 DEF Local
  <2> QED  BY <2>1, <2>2
<1>9. Grounded'
  BY <1>1, <1>3, <1>4 DEF Grounded, Working
<1>10. LockInv'
  <2>1. \A m \in Node : stat[m] = "skipped" /\ why[m] = "dependency_failed" => blame[m] \in Node
    BY BlamesNode
  <2>2. pc' = [pc EXCEPT ![n] = pc'[n]] /\ UNCHANGED <<stat, why, blame>>
    BY <1>2, <1>3, <1>4
  <2> QED  BY <1>1, <1>2, <1>4, <2>1, <2>2, LockPassed
<1>11. why[n] = "dependency_failed" /\ stat[n] = "skipped" => blame[n] \in Node \ {n} /\ pc[blame[n]] # "report"
  <2> HAVE why[n] = "dependency_failed" /\ stat[n] = "skipped"
  <2>1. blame[n] \in Node
    BY BlamesNode
  <2>2. 1 \in DOMAIN lock /\ lock[1] = n /\ DOMAIN lock = 1 .. Len(lock)
    BY <1>1, <1>2 DEF Holds, TypeOK
  <2>3. pc[blame[n]] # "report"
    BY <1>1, <2>2 DEF LockInv
  <2> QED  BY <1>2, <2>1, <2>3
<1>12. ParkInv'
  <2> SUFFICES ASSUME NEW m \in Node, pc'[m] = "end", stat[m] = "skipped"
               PROVE  /\ m \in parked' <=> Waits(m)'
                      /\ why[m] = "dependency_failed" /\ stat[blame[m]] = "skipped" => pc'[blame[m]] = "end"
    BY <1>3 DEF ParkInv
  <2>1. why[m] = "dependency_failed" => blame[m] \in done /\ blame[m] \in Node
    BY BlamesNode
  <2>2. CASE m = n
    <3>1. Waits(n)' <=> Waits(n)
      BY <1>3, <1>6, <1>11, <2>2 DEF Waits
    <3>2. why[n] = "dependency_failed" /\ stat[blame[n]] = "skipped" => pc[blame[n]] \in {"end", "cut"}
      BY <1>1, <1>11, <2>1, <2>2 DEF Local, OutcomeInv, SkipInv
    <3>3. \A b \in Node : pc[b] # "cut"
      BY <1>1, <1>2 DEF VerdictInv, Over
    <3> QED  BY <1>4, <1>6, <1>11, <2>2, <3>1, <3>2, <3>3
  <2>3. CASE m # n
    <3>1. pc[m] = "end" /\ (m \in parked' <=> m \in parked)
      BY <1>4, <1>6, <2>3
    <3>2. /\ m \in parked <=> Waits(m)
          /\ why[m] = "dependency_failed" /\ stat[blame[m]] = "skipped" => pc[blame[m]] = "end"
      BY <1>1, <3>1 DEF ParkInv
    <3>3. Waits(m)' <=> Waits(m)
      <4>1. why[m] = "dependency_failed" /\ blame[m] = n => stat[n] # "skipped"
        BY <1>2, <3>2
      <4> QED  BY <1>3, <1>6, <4>1 DEF Waits
    <3> QED  BY <1>4, <2>1, <3>1, <3>2, <3>3
  <2> QED  BY <2>2, <2>3
<1>13. BehindInv'
  <2>1. ASSUME NEW S \in SUBSET Node, asked \subseteq S, Behind(S)'
        PROVE  parked' \cap done \subseteq S
    <3>1. Behind(S)
      BY <1>3, <2>1, BehindFrame
    <3>2. parked \cap done \subseteq S
      BY <1>1, <2>1, <3>1 DEF BehindInv
    <3>3. n \in parked' => n \in S
      <4> HAVE n \in parked'
      <4>1. stat[n] = "skipped" /\ (why[n] = "run_paused" \/ (why[n] = "dependency_failed" /\ blame[n] \in parked))
        BY <1>6 DEF Waits
      <4>2. why[n] = "run_paused" \/ blame[n] \in S
        BY <3>2, <4>1, BlamesNode
      <4> QED  BY <3>1, <4>1, <4>2 DEF Behind
    <3> QED  BY <1>6, <3>2, <3>3
  <2> QED  BY <1>1, <1>3, <2>1 DEF BehindInv
<1>14. VerdictInv'
  <2>1. ~Over(n)
    BY <1>2 DEF Over
  <2> QED  BY <1>1, <1>3, <1>4, <2>1 DEF VerdictInv
<1> QED  BY <1>7, <1>8, <1>9, <1>10, <1>12, <1>13, <1>14 DEF IInv

\* A question counts as done for whoever waits for it, and as unanswered for the round.
LEMMA AskedSafe ==
    ASSUME IInv, NEW n \in Node, Asked(n)
    PROVE  IInv'
<1>1. TypeOK /\ Local(n) /\ Grounded /\ LockInv /\ ParkInv /\ BehindInv /\ VerdictInv /\ (\A m \in Node : Local(m))
  BY DEF IInv
<1>2. /\ pc[n] = "asking" /\ kind[n] = "ask" /\ stop' = TRUE /\ asked' = asked \cup {n}
      /\ done' = done \cup {n} /\ pc' = [pc EXCEPT ![n] = "telling"]
  BY DEF Asked
<1>3. UNCHANGED <<deps, kind, stat, why, blame, tries, late, replan, lock, parked, cards, prepared,
                  staged, after, row, lost, verdict>>
  BY DEF Asked, planVars, writeVars, rowVars
<1>4. pc'[n] = "telling" /\ \A m \in Node \ {n} : pc'[m] = pc[m]
  BY <1>1, <1>2 DEF TypeOK
<1>5. stat[n] = "running" /\ n \notin done
  BY <1>1, <1>2 DEF Local, OutcomeInv, Working, Settled
<1>6. TypeOK'
  <2>1. pc' \in [Node -> Places] /\ done' \subseteq Node /\ asked' \subseteq Node
    BY <1>1, <1>2 DEF TypeOK, Places
  <2> QED  BY <1>1, <1>2, <1>3, <2>1 DEF TypeOK
<1>7. ASSUME NEW m \in Node PROVE Local(m)'
  <2>1. CASE m # n
    <3>1. Untouched(m) /\ Onward
      BY <1>2, <1>3, <1>4, <2>1 DEF Untouched, Onward
    <3> QED  BY <1>1, <3>1, LocalFrame
  <2>2. CASE m = n
    <3>1. OutcomeInv(n)' /\ TriesInv(n)' /\ RowInv(n)' /\ SkipInv(n)'
      BY <1>1, <1>2, <1>3, <1>4, <1>5 DEF Local, OutcomeInv, TriesInv, RowInv, SkipInv, Working, Settled, Ended
    <3>2. CardInv(n)' /\ WriteInv(n)'
      BY <1>1, <1>2, <1>3, <1>4, <1>5 DEF Local, CardInv, WriteInv
    <3> QED  BY <2>2, <3>1, <3>2 DEF Local
  <2> QED  BY <2>1, <2>2
<1>8. Grounded'
  BY <1>1, <1>2, <1>3, <1>4 DEF Grounded, Working
<1>9. LockInv'
  <2>1. \A m \in Node : stat[m] = "skipped" /\ why[m] = "dependency_failed" => blame[m] \in Node
    BY BlamesNode
  <2>2. pc' = [pc EXCEPT ![n] = pc'[n]] /\ UNCHANGED <<lock, stat, why, blame>>
    BY <1>2, <1>3, <1>4
  <2> QED  BY <1>1, <1>2, <1>4, <2>1, <2>2, LockKept
<1>10. ParkInv'
  <2> SUFFICES ASSUME NEW m \in Node, pc'[m] = "end", stat[m] = "skipped"
               PROVE  /\ m \in parked <=> Waits(m)'
                      /\ why[m] = "dependency_failed" /\ stat[blame[m]] = "skipped" => pc'[blame[m]] = "end"
    BY <1>3 DEF ParkInv
  <2>1. pc[m] = "end" /\ (Waits(m)' <=> Waits(m))
    BY <1>3, <1>4 DEF Waits
  <2>2. why[m] = "dependency_failed" => blame[m] \in Node \ {n}
    BY <1>5, BlamesNode
  <2> QED  BY <1>1, <1>4, <2>1, <2>2 DEF ParkInv
<1>11. BehindInv'
  <2>1. ASSUME NEW S \in SUBSET Node, asked' \subseteq S, Behind(S)'
        PROVE  parked \cap done' \subseteq S
    <3>1. Behind(S)
      BY <1>3, <2>1, BehindFrame
    <3> QED  BY <1>1, <1>2, <2>1, <3>1 DEF BehindInv
  <2> QED  BY <1>2, <1>3, <2>1 DEF BehindInv
<1>12. VerdictInv'
  <2>1. ~Over(n)
    BY <1>2 DEF Over
  <2> QED  BY <1>1, <1>3, <1>4, <2>1 DEF VerdictInv
<1> QED  BY <1>6, <1>7, <1>8, <1>9, <1>10, <1>11, <1>12 DEF IInv

LEMMA TellSafe ==
    ASSUME IInv, NEW n \in Node, Tell(n)
    PROVE  IInv'
<1>1. TypeOK /\ Local(n) /\ Grounded /\ LockInv /\ ParkInv /\ BehindInv /\ VerdictInv /\ (\A m \in Node : Local(m))
  BY DEF IInv
<1>2. pc[n] = "telling" /\ Persist(n, stat[n]) /\ pc' = [pc EXCEPT ![n] = "end"]
  BY DEF Tell
<1>0. /\ row' \in [Node -> Status] /\ lost' \subseteq Node
      /\ \A m \in Node \ {n} : row'[m] = row[m] /\ (m \in lost' <=> m \in lost)
      /\ (row'[n] = stat[n] /\ n \notin lost') \/ (row'[n] = row[n] /\ n \in lost')
  <2>1. stat[n] \in Status
    BY <1>1 DEF TypeOK
  <2> QED  BY <1>1, <1>2, <2>1, PersistFacts
<1>3. UNCHANGED <<deps, kind, stat, why, blame, done, tries, late, replan, lock, parked, stop, asked,
                  cards, prepared, staged, after, verdict>>
  BY DEF Tell, planVars, outcomeVars, cardVars, writeVars
<1>4. /\ pc'[n] = "end" /\ (row'[n] = stat[n] \/ n \in lost')
      /\ \A m \in Node \ {n} : pc'[m] = pc[m] /\ row'[m] = row[m] /\ (m \in lost' <=> m \in lost)
  BY <1>1, <1>2, <1>0 DEF TypeOK
<1>5. stat[n] = "running" /\ n \in done /\ n \in asked
  BY <1>1, <1>2 DEF Local, OutcomeInv, CardInv, Working, Settled
<1>6. TypeOK'
  <2>1. pc' \in [Node -> Places]
    BY <1>1, <1>2 DEF TypeOK, Places
  <2> QED  BY <1>1, <1>0, <1>3, <2>1 DEF TypeOK
<1>7. ASSUME NEW m \in Node PROVE Local(m)'
  <2>1. CASE m # n
    <3>1. Untouched(m) /\ Onward
      BY <1>3, <1>4, <2>1 DEF Untouched, Onward
    <3> QED  BY <1>1, <3>1, LocalFrame
  <2>2. CASE m = n
    <3>1. OutcomeInv(n)' /\ TriesInv(n)' /\ SkipInv(n)'
      BY <1>1, <1>2, <1>3, <1>4, <1>5 DEF Local, OutcomeInv, TriesInv, SkipInv, Working, Settled
    <3>3. RowInv(n)'
      BY <1>1, <1>2, <1>0, <1>3, <1>4, <1>5 DEF Local, RowInv, Working, Ended
    <3>2. CardInv(n)' /\ WriteInv(n)'
      BY <1>1, <1>2, <1>3, <1>4, <1>5 DEF Local, CardInv, WriteInv
    <3> QED  BY <2>2, <3>1, <3>2, <3>3 DEF Local
  <2> QED  BY <2>1, <2>2
<1>8. Grounded'
  BY <1>1, <1>2, <1>3, <1>4 DEF Grounded, Working
<1>9. LockInv'
  <2>1. \A m \in Node : stat[m] = "skipped" /\ why[m] = "dependency_failed" => blame[m] \in Node
    BY BlamesNode
  <2>2. pc' = [pc EXCEPT ![n] = pc'[n]] /\ UNCHANGED <<lock, stat, why, blame>>
    BY <1>2, <1>3, <1>4
  <2> QED  BY <1>1, <1>2, <1>4, <2>1, <2>2, LockKept
<1>10. ParkInv'
  <2> SUFFICES ASSUME NEW m \in Node, pc'[m] = "end", stat[m] = "skipped"
               PROVE  /\ m \in parked <=> Waits(m)'
                      /\ why[m] = "dependency_failed" /\ stat[blame[m]] = "skipped" => pc'[blame[m]] = "end"
    BY <1>3 DEF ParkInv
  <2>1. pc[m] = "end" /\ (Waits(m)' <=> Waits(m))
    BY <1>3, <1>4, <1>5 DEF Waits
  <2>2. why[m] = "dependency_failed" => blame[m] \in Node
    BY BlamesNode
  <2> QED  BY <1>1, <1>4, <2>1, <2>2 DEF ParkInv
<1>11. BehindInv'
  <2>1. ASSUME NEW S \in SUBSET Node, asked \subseteq S, Behind(S)'
        PROVE  parked \cap done \subseteq S
    <3>1. Behind(S)
      BY <1>3, <2>1, BehindFrame
    <3> QED  BY <1>1, <2>1, <3>1 DEF BehindInv
  <2> QED  BY <1>1, <1>3, <2>1 DEF BehindInv
<1>12. VerdictInv'
  <2>1. ~Over(n)
    BY <1>2 DEF Over
  <2> QED  BY <1>1, <1>3, <1>4, <2>1 DEF VerdictInv
<1> QED  BY <1>6, <1>7, <1>8, <1>9, <1>10, <1>11, <1>12 DEF IInv

-----------------------------------------------------------------------------
(* The budget, and the end of the call.                                    *)

LEMMA CancelSafe ==
    ASSUME IInv, Cancel
    PROVE  IInv'
<1>1. TypeOK /\ Grounded /\ ParkInv /\ BehindInv /\ (\A m \in Node : Local(m))
  BY DEF IInv
<1>2. UNCHANGED <<deps, kind, blame, done, tries, late, replan, parked, stop, asked, cards,
                  prepared, staged, after, verdict>>
  BY DEF Cancel, planVars, cardVars, writeVars
<1>3. verdict = "none" /\ late = "hard" /\ lock' = <<>>
  BY DEF Cancel
<1>4. \A m \in Node :
        /\ pc'[m] = IF Over(m) THEN pc[m] ELSE "cut"
        /\ stat'[m] = IF Unsettled(m) THEN "timeout" ELSE stat[m]
        /\ why'[m] = IF Unsettled(m) THEN "hard_deadline" ELSE why[m]
  BY DEF Cancel
<1>0. PICK refused \in SUBSET {n \in Node : Unsettled(n)} :
        /\ lost' = {n \in lost : ~Unsettled(n)} \cup refused
        /\ row' = [n \in Node |-> IF Unsettled(n) /\ n \notin refused THEN "timeout" ELSE row[n]]
  BY DEF Cancel
<1>5. TypeOK'
  <2>1. pc' \in [Node -> Places]
    BY <1>1 DEF Cancel, TypeOK, Places
  <2>2. stat' \in [Node -> Status]
    BY <1>1 DEF Cancel, TypeOK, Status, Ended
  <2>3. why' \in [Node -> Reasons]
    BY <1>1 DEF Cancel, TypeOK, Reasons
  <2>4. row' \in [Node -> Status] /\ lost' \subseteq Node
    BY <1>1, <1>0 DEF TypeOK, Status, Ended
  <2>5. lock' \in Seq(Node)
    BY <1>3
  <2> QED  BY <1>1, <1>2, <2>1, <2>2, <2>3, <2>4, <2>5 DEF TypeOK
<1>6. ASSUME NEW m \in Node PROVE Local(m)'
  <2>1. Local(m) /\ pc[m] \in Places /\ stat[m] \in Status
    BY <1>1 DEF TypeOK
  <2>2. OutcomeInv(m)'
    BY <1>2, <1>3, <1>4, <2>1 DEF Local, OutcomeInv, Over, Unsettled, Working, Settled, Places, Status, Ended
  <2>3. TriesInv(m)'
    BY <1>2, <1>4, <2>1 DEF Local, TriesInv, Over
  <2>4. RowInv(m)'
    <3>1. /\ row'[m] = IF Unsettled(m) /\ m \notin refused THEN "timeout" ELSE row[m]
          /\ m \in lost' <=> (m \in lost /\ ~Unsettled(m)) \/ m \in refused
          /\ m \in refused => Unsettled(m)
      BY <1>0
    <3>2. CASE Unsettled(m)
      BY <1>2, <1>4, <2>1, <3>1, <3>2 DEF Local, RowInv, Over, Unsettled, Working, Ended
    <3>3. CASE ~Unsettled(m)
      <4>1. pc'[m] \in {pc[m], "cut"} /\ pc'[m] \notin Working \cup {"wait"}
        BY <1>4, <2>1 DEF Over, Working, Places
      <4>2. row'[m] = row[m] /\ stat'[m] = stat[m] /\ (m \in lost' <=> m \in lost)
        BY <1>4, <3>1, <3>3
      <4> QED  BY <1>2, <1>4, <2>1, <4>1, <4>2 DEF Local, RowInv, Over, Working
    <3> QED  BY <3>2, <3>3
  <2>5. SkipInv(m)'
    BY <1>2, <1>4, <2>1 DEF Local, SkipInv, Over, Unsettled
  <2>6. CardInv(m)'
    BY <1>2, <1>4, <2>1 DEF Local, CardInv, Over, Unsettled
  <2>7. WriteInv(m)'
    BY <1>2, <1>4, <2>1 DEF Local, OutcomeInv, WriteInv, Over, Unsettled, Working
  <2> QED  BY <2>2, <2>3, <2>4, <2>5, <2>6, <2>7 DEF Local
<1>7. Grounded'
  <2> SUFFICES ASSUME NEW m \in Node, pc'[m] \in Working \/ tries[m] > 0, NEW d \in deps[m]
               PROVE  stat'[d] = "succeeded"
    BY <1>2 DEF Grounded
  <2>1. tries[m] > 0
    BY <1>4 DEF Over, Working
  <2>2. d \in Node /\ stat[d] = "succeeded"
    BY <1>1, <2>1 DEF Grounded, TypeOK
  <2> QED  BY <1>4, <2>2 DEF Unsettled
<1>8. LockInv'
  <2>1. \A m \in Node : pc'[m] # "report"
    BY <1>4 DEF Over
  <2>2. DOMAIN lock' = {}
    BY <1>3
  <2> QED  BY <2>1, <2>2 DEF LockInv
<1>9. ParkInv'
  <2> SUFFICES ASSUME NEW m \in Node, pc'[m] = "end", stat'[m] = "skipped"
               PROVE  /\ m \in parked <=> Waits(m)'
                      /\ why'[m] = "dependency_failed" /\ stat'[blame[m]] = "skipped" => pc'[blame[m]] = "end"
    BY <1>2 DEF ParkInv
  <2>1. pc[m] = "end" /\ stat[m] = "skipped" /\ why'[m] = why[m]
    BY <1>4 DEF Over
  <2>2. why[m] = "dependency_failed" => blame[m] \in Node
    BY <2>1, BlamesNode
  <2>3. Waits(m)' <=> Waits(m)
    BY <1>2, <2>1 DEF Waits
  <2> QED  BY <1>1, <1>4, <2>1, <2>2, <2>3 DEF ParkInv, Over
<1>10. BehindInv'
  <2>1. ASSUME NEW S \in SUBSET Node, asked \subseteq S, Behind(S)'
        PROVE  parked \cap done \subseteq S
    <3>1. Behind(S)
      BY <1>2, <1>4, <2>1, BehindFrame DEF Unsettled
    <3> QED  BY <1>1, <2>1, <3>1 DEF BehindInv
  <2> QED  BY <1>1, <1>2, <2>1 DEF BehindInv
<1>11. VerdictInv'
  BY <1>2, <1>3, <1>4 DEF VerdictInv, Over
<1> QED  BY <1>5, <1>6, <1>7, <1>8, <1>9, <1>10, <1>11 DEF IInv

\* What depends on the steps only.
LEMMA StepsKept ==
    ASSUME IInv, late = "hard" => late' = "hard",
           UNCHANGED <<deps, kind, pc, stat, why, blame, done, tries, stop, asked, lock, parked,
                       cards, prepared, staged, row, lost>>
    PROVE  /\ \A m \in Node : Local(m)'
           /\ Grounded' /\ LockInv' /\ ParkInv' /\ BehindInv'
<1>1. TypeOK /\ Grounded /\ LockInv /\ ParkInv /\ BehindInv /\ (\A m \in Node : Local(m))
  BY DEF IInv
<1>2. ASSUME NEW m \in Node PROVE Local(m)'
  <2>1. Untouched(m) /\ Onward
    BY DEF Untouched, Onward
  <2> QED  BY <1>1, <2>1, LocalFrame
<1>3. Grounded' /\ LockInv'
  BY <1>1 DEF Grounded, LockInv
<1>4. ParkInv'
  BY <1>1 DEF ParkInv, Waits
<1>5. BehindInv'
  BY <1>1 DEF BehindInv, Behind
<1> QED  BY <1>2, <1>3, <1>4, <1>5

LEMMA DeadlineSafe ==
    ASSUME IInv, SoftDeadline \/ HardDeadline
    PROVE  IInv'
<1>1. /\ late' \in {"soft", "hard"} /\ (late = "hard" => late' = "hard")
      /\ UNCHANGED <<deps, kind, pc, stat, why, blame, done, tries, stop, asked, replan, lock, parked,
                     cards, prepared, staged, after, row, lost, verdict>>
  BY DEF SoftDeadline, HardDeadline, planVars, outcomeVars, cardVars, writeVars, rowVars
<1>2. /\ \A m \in Node : Local(m)'
      /\ Grounded' /\ LockInv' /\ ParkInv' /\ BehindInv'
  BY <1>1, StepsKept
<1>3. TypeOK' /\ VerdictInv'
  BY <1>1 DEF IInv, TypeOK, VerdictInv, Over
<1> QED  BY <1>2, <1>3 DEF IInv

LEMMA ConcludeSafe ==
    ASSUME IInv, Conclude
    PROVE  IInv'
<1>1. UNCHANGED <<deps, kind, pc, stat, why, blame, done, tries, stop, late, asked, replan, lock, parked,
                  cards, prepared, staged, after, row, lost>>
  BY DEF Conclude, planVars, outcomeVars, cardVars, writeVars, rowVars
<1>2. /\ \A m \in Node : Local(m)'
      /\ Grounded' /\ LockInv' /\ ParkInv' /\ BehindInv'
  BY <1>1, StepsKept
<1>3. /\ \A n \in Node : Over(n)
      /\ verdict' \in {"paused", "replan", "failed", "complete"}
      /\ verdict' = "paused" <=> asked # {}
  BY DEF Conclude
<1>4. TypeOK' /\ VerdictInv'
  BY <1>1, <1>3 DEF IInv, TypeOK, VerdictInv, Over
<1> QED  BY <1>2, <1>4 DEF IInv

-----------------------------------------------------------------------------
(* The whole call.                                                         *)

\* Before the call of a step: the checks of run_one.
LEMMA CheckSettles ==
    ASSUME IInv, NEW n \in Node,
           SkipBroken(n) \/ SkipPaused(n) \/ UnknownOp(n) \/ TooLate(n) \/ SkipSpare(n)
             \/ BindFails(n) \/ GateNotMet(n)
    PROVE  \E status, reason, cause : Settles(n, status, reason, cause) /\ pc[n] = "wait"
<1>1. TypeOK
  BY DEF IInv
<1>2. ASSUME NEW status \in Ended \ {"succeeded"}, NEW reason \in Reasons, NEW cause \in Node \cup {NoNode},
             pc[n] = "wait", Finish(n, status, reason, cause), KeepOnSettling,
             status = "skipped" =>
               \/ reason = "run_paused" /\ cause = NoNode /\ stop
               \/ reason = "dependency_failed" /\ cause \in done
               \/ reason \in {"soft_deadline", "gate_not_met"} /\ cause = NoNode
      PROVE  Settles(n, status, reason, cause)
  <2>1. Verdicts(n, status, reason, cause)
    BY <1>2 DEF Verdicts
  <2> QED  BY <1>1, <1>2, <2>1 DEF Settles, KeepOnSettling, TypeOK
<1>3. CASE SkipBroken(n)
  <2>1. PICK d \in Broken(n) : Finish(n, "skipped", "dependency_failed", d)
    BY <1>3 DEF SkipBroken
  <2>2. pc[n] = "wait" /\ KeepOnSettling /\ d \in Node /\ d \in done
    BY <1>1, <1>3 DEF SkipBroken, Ready, Broken, TypeOK
  <2>3. Settles(n, "skipped", "dependency_failed", d)
    BY <1>2, <2>1, <2>2 DEF Ended, Reasons
  <2> QED  BY <2>2, <2>3
<1>4. CASE SkipPaused(n)
  <2>1. Settles(n, "skipped", "run_paused", NoNode)
    BY <1>2, <1>4 DEF SkipPaused, Ready, Ended, Reasons
  <2> QED  BY <1>4, <2>1 DEF SkipPaused, Ready
<1>5. CASE UnknownOp(n)
  <2>1. Settles(n, "failed", "unknown_op", NoNode)
    BY <1>2, <1>5 DEF UnknownOp, Clear, Ready, Ended, Reasons
  <2> QED  BY <1>5, <2>1 DEF UnknownOp, Clear, Ready
<1>6. CASE TooLate(n)
  <2>1. Settles(n, "timeout", "hard_deadline", NoNode)
    BY <1>2, <1>6 DEF TooLate, Clear, Ready, Ended, Reasons
  <2> QED  BY <1>6, <2>1 DEF TooLate, Clear, Ready
<1>7. CASE SkipSpare(n)
  <2>1. Settles(n, "skipped", "soft_deadline", NoNode)
    BY <1>2, <1>7 DEF SkipSpare, Clear, Ready, Ended, Reasons
  <2> QED  BY <1>7, <2>1 DEF SkipSpare, Clear, Ready
<1>8. CASE BindFails(n)
  <2>1. Settles(n, "failed", "unresolved_reference", NoNode)
    BY <1>2, <1>8 DEF BindFails, InTime, Clear, Ready, Ended, Reasons
  <2> QED  BY <1>8, <2>1 DEF BindFails, InTime, Clear, Ready
<1>9. CASE GateNotMet(n)
  <2>1. Settles(n, "skipped", "gate_not_met", NoNode)
    BY <1>2, <1>9 DEF GateNotMet, InTime, Clear, Ready, Ended, Reasons
  <2> QED  BY <1>9, <2>1 DEF GateNotMet, InTime, Clear, Ready
<1> QED  BY <1>3, <1>4, <1>5, <1>6, <1>7, <1>8, <1>9

\* At the end of its work: a failure, an answer, a note, a staged write.
LEMMA WorkSettles ==
    ASSUME IInv, NEW n \in Node, FailForGood(n) \/ Answer(n) \/ Noted(n) \/ Staged(n)
    PROVE  \E status, reason, cause :
             Settles(n, status, reason, cause) /\ pc[n] \in {"call", "asking", "emitting"}
<1>1. TypeOK
  BY DEF IInv
<1>2. ASSUME NEW status \in {"succeeded", "failed", "timeout"}, NEW reason \in {"none", "invalid", "service"},
             pc[n] \in {"call", "asking"}, pc[n] = "asking" => kind[n] # "ask",
             Finish(n, status, reason, NoNode), CalledOnly, replan' \in BOOLEAN, UNCHANGED after
      PROVE  Settles(n, status, reason, NoNode)
  <2>1. Verdicts(n, status, reason, NoNode)
    BY <1>2 DEF Verdicts, Ended, Reasons
  <2> QED  BY <1>1, <1>2, <2>1 DEF Settles, CalledOnly, TypeOK
<1>3. CASE FailForGood(n)
  <2>1. /\ pc[n] = "call" /\ CalledOnly /\ UNCHANGED after /\ replan' \in BOOLEAN
        /\ \/ Finish(n, "failed", "invalid", NoNode)
           \/ Finish(n, "failed", "service", NoNode)
           \/ Finish(n, "timeout", "service", NoNode)
    BY <1>1, <1>3 DEF FailForGood, TypeOK
  <2>2. \/ Settles(n, "failed", "invalid", NoNode)
        \/ Settles(n, "failed", "service", NoNode)
        \/ Settles(n, "timeout", "service", NoNode)
    BY <1>2, <2>1
  <2> QED  BY <2>1, <2>2
<1>4. CASE Answer(n)
  <2>1. /\ pc[n] = "call" /\ CalledOnly /\ UNCHANGED after /\ replan' \in BOOLEAN
        /\ Finish(n, "succeeded", "none", NoNode)
    BY <1>1, <1>4 DEF Answer, TypeOK
  <2>2. Settles(n, "succeeded", "none", NoNode)
    BY <1>2, <2>1
  <2> QED  BY <2>1, <2>2
<1>5. CASE Noted(n)
  <2>1. /\ pc[n] = "asking" /\ kind[n] # "ask" /\ CalledOnly /\ UNCHANGED after /\ replan' \in BOOLEAN
        /\ Finish(n, "succeeded", "none", NoNode)
    BY <1>1, <1>5 DEF Noted, TypeOK
  <2>2. Settles(n, "succeeded", "none", NoNode)
    BY <1>2, <2>1
  <2> QED  BY <2>1, <2>2
<1>6. CASE Staged(n)
  <2>1. Verdicts(n, "succeeded", "none", NoNode)
    BY <1>6 DEF Verdicts, Staged, Ended, Reasons
  <2>2. Settles(n, "succeeded", "none", NoNode)
    BY <1>1, <1>6, <2>1 DEF Settles, Staged, TypeOK, planVars
  <2> QED  BY <1>6, <2>2 DEF Staged
<1> QED  BY <1>3, <1>4, <1>5, <1>6

LEMMA InitSafe ==
    ASSUME Init
    PROVE  IInv
<1>1. PICK p \in Plans, carried \in SUBSET Node :
        deps = p.deps /\ kind = p.kind /\ (\A n \in carried : deps[n] \subseteq carried) /\ Open(carried)
  BY DEF Init
<1>2. TypeOK
  <2>1. deps \in [Node -> SUBSET Node] /\ kind \in [Node -> Kinds]
    BY <1>1, DispatchAssumption
  <2>2. pc \in [Node -> Places] /\ stat \in [Node -> Status] /\ why \in [Node -> Reasons]
    BY <1>1 DEF Open, Places, Status, Ended, Reasons
  <2>3. tries \in [Node -> 0 .. MaxTries]
    BY <1>1, DispatchAssumption DEF Open
  <2>4. blame \in [Node -> Node \cup {NoNode}] /\ after \in [Node -> SUBSET Node]
    BY <1>1 DEF Open
  <2>5. lock \in Seq(Node) /\ row \in [Node -> Status]
    BY <1>1, <2>2 DEF Open
  <2>6. /\ done \subseteq Node /\ stop \in BOOLEAN /\ late = "no" /\ asked = {} /\ replan \in BOOLEAN
        /\ parked = {} /\ cards = {} /\ prepared = {} /\ staged = {} /\ lost = {} /\ verdict = "none"
    BY <1>1 DEF Open
  <2> QED  BY <2>1, <2>2, <2>3, <2>4, <2>5, <2>6 DEF TypeOK
<1>3. \A n \in Node : Local(n)
  BY <1>1 DEF Open, Local, OutcomeInv, TriesInv, RowInv, SkipInv, CardInv, WriteInv, Working, Settled, Ended
<1>4. Grounded /\ LockInv /\ ParkInv /\ VerdictInv
  BY <1>1 DEF Open, Grounded, LockInv, ParkInv, VerdictInv, Working
<1>5. BehindInv
  BY <1>1 DEF Open, BehindInv
<1> QED  BY <1>2, <1>3, <1>4, <1>5 DEF IInv

LEMMA StepSafe ==
    ASSUME IInv, NEW n \in Node, Step(n)
    PROVE  IInv'
<1>1. CASE \/ SkipBroken(n) \/ SkipPaused(n) \/ UnknownOp(n) \/ TooLate(n) \/ SkipSpare(n)
           \/ BindFails(n) \/ GateNotMet(n)
  BY <1>1, CheckSettles, SettlesStep
<1>2. CASE FailForGood(n) \/ Answer(n) \/ Noted(n) \/ Staged(n)
  BY <1>2, WorkSettles, SettlesStep
<1>3. CASE Start(n)
  BY <1>3, StartSafe
<1>4. CASE BeginHook(n)
  BY <1>4, BeginHookSafe
<1>5. CASE Report(n)
  BY <1>5, ReportSafe
<1>6. CASE TakeSlot(n)
  BY <1>6, TakeSlotSafe
<1>7. CASE FailAndWait(n) \/ TryAgain(n)
  BY <1>7, RetrySafe
<1>8. CASE Raise(n)
  BY <1>8, RaiseSafe
<1>9. CASE Asked(n)
  BY <1>9, AskedSafe
<1>10. CASE Tell(n)
  BY <1>10, TellSafe
<1>11. CASE BeginStage(n) \/ Prepare(n) \/ StageFails(n)
  BY <1>11, StageSafe
<1> QED  BY <1>1, <1>2, <1>3, <1>4, <1>5, <1>6, <1>7, <1>8, <1>9, <1>10, <1>11 DEF Step

LEMMA StutterSafe ==
    ASSUME IInv, UNCHANGED vars
    PROVE  IInv'
<1>1. UNCHANGED <<deps, kind, pc, stat, why, blame, done, tries, stop, late, asked, replan, lock, parked,
                  cards, prepared, staged, after, row, lost, verdict>>
  BY DEF vars
<1>2. /\ \A m \in Node : Local(m)'
      /\ Grounded' /\ LockInv' /\ ParkInv' /\ BehindInv'
  BY <1>1, StepsKept
<1>3. TypeOK' /\ VerdictInv'
  BY <1>1 DEF IInv, TypeOK, VerdictInv, Over
<1> QED  BY <1>2, <1>3 DEF IInv

\* The invariant of one call of the dispatcher, whatever the plan, the order of the
\* awaits, the hitches and the deadlines.
THEOREM DispatchInvariant == Spec => []IInv
<1>1. Init => IInv
  BY InitSafe
<1>2. IInv /\ [Next]_vars => IInv'
  <2> SUFFICES ASSUME IInv, [Next]_vars PROVE IInv'
    OBVIOUS
  <2> QED  BY StepSafe, CancelSafe, ConcludeSafe, DeadlineSafe, StutterSafe DEF Next, Proceed
<1> QED  BY <1>1, <1>2, PTL DEF Spec

\* Every variable of the dispatcher keeps its type.
THEOREM DispatchTyped == Spec => []TypeOK
<1>1. IInv => TypeOK
  BY DEF IInv
<1> QED  BY <1>1, DispatchInvariant, PTL

\* A step is called on results only: run_one checks its dependencies once, before it
\* starts, and no later failure, question or deadline takes a result back.
THEOREM DispatchCallsOnResults == Spec => []CalledOnResults
<1>1. IInv => CalledOnResults
  BY DEF IInv, Grounded, CalledOnResults
<1> QED  BY <1>1, DispatchInvariant, PTL

\* At the end every step has an outcome, no row names another, and unless the deadline
\* cut the call short every row whose last write the database took tells it.
THEOREM DispatchRowsTell == Spec => []RowsTell
<1>1. ASSUME IInv PROVE RowsTell
  <2> SUFFICES ASSUME verdict # "none" PROVE RowsTell
    BY DEF RowsTell
  <2>1. /\ \A n \in Node : Over(n) /\ Local(n)
        /\ verdict = "paused" <=> asked # {}
        /\ ParkInv /\ BehindInv /\ TypeOK
    BY <1>1 DEF IInv, VerdictInv
  <2>2. ASSUME NEW n \in Node
        PROVE  stat[n] # "pending" /\ (stat[n] = "running" => n \in asked \/ pc[n] = "crashed")
    BY <2>1 DEF Over, Local, OutcomeInv, Ended
  <2>3. ASSUME NEW n \in Node, late # "hard"
        PROVE  row[n] = stat[n] \/ n \in lost \/ (row[n] = "pending" /\ n \in parked /\ verdict = "paused")
    <3>1. pc[n] \in {"end", "crashed"}
      BY <2>1, <2>3 DEF Over, Local, OutcomeInv
    <3>2. CASE row[n] # stat[n] /\ n \notin lost
      <4>1. row[n] = "pending" /\ stat[n] = "skipped" /\ n \in parked /\ pc[n] = "end"
        BY <2>1, <3>1, <3>2 DEF Local, RowInv
      <4>2. n \in done
        BY <2>1, <4>1 DEF Local, OutcomeInv, Settled
      <4>3. asked # {}
        <5> SUFFICES ASSUME asked = {} PROVE FALSE
          OBVIOUS
        <5>1. \A m \in Node : stat[m] = "skipped" => why[m] # "run_paused"
          BY <2>1 DEF BehindInv, Local, SkipInv
        <5>2. {} \in SUBSET Node
          OBVIOUS
        <5>3. Behind({})
          BY <5>1 DEF Behind
        <5>4. parked \cap done \subseteq {}
          BY <2>1, <5>2, <5>3 DEF BehindInv
        <5> QED  BY <4>1, <4>2, <5>4
      <4> QED  BY <2>1, <4>1, <4>3
    <3> QED  BY <3>2
  <2>4. \A n \in Node : row[n] \in Ended => row[n] = stat[n]
    BY <2>1 DEF Local, RowInv
  <2> QED  BY <2>2, <2>3, <2>4 DEF RowsTell
<1> QED  BY <1>1, DispatchInvariant, PTL

\* What the person is shown agrees with the outcomes: the cards of a finished call are
\* its open questions, and a write is held without its step knowing only when the call
\* was cancelled while it was being staged.
THEOREM DispatchShownAgrees == Spec => []ShownAgrees
<1>1. ASSUME IInv PROVE ShownAgrees
  <2> SUFFICES ASSUME verdict # "none" PROVE ShownAgrees
    BY DEF ShownAgrees
  <2>1. /\ \A n \in Node : Over(n) /\ Local(n)
        /\ verdict = "paused" <=> asked # {}
        /\ TypeOK
    BY <1>1 DEF IInv, VerdictInv
  <2>2. asked \subseteq cards
    BY <2>1 DEF Local, CardInv, TypeOK
  <2>3. late # "hard" => {n \in cards : kind[n] = "ask"} = asked
    <3> HAVE late # "hard"
    <3>1. \A n \in Node : pc[n] \in {"end", "crashed"}
      BY <2>1 DEF Over, Local, OutcomeInv
    <3>2. \A n \in cards : kind[n] = "ask" => n \in asked
      BY <2>1, <3>1 DEF Local, CardInv, TypeOK
    <3>3. \A n \in asked : n \in cards /\ kind[n] = "ask"
      BY <2>1 DEF Local, CardInv, TypeOK
    <3> QED  BY <3>2, <3>3
  <2>4. staged \subseteq prepared
    BY <2>1 DEF Local, WriteInv, TypeOK
  <2>5. \A n \in prepared \ staged : stat[n] = "timeout" /\ late = "hard"
    BY <2>1 DEF Local, WriteInv, OutcomeInv, Over, TypeOK
  <2> QED  BY <2>1, <2>2, <2>3, <2>4, <2>5 DEF ShownAgrees
<1> QED  BY <1>1, DispatchInvariant, PTL

\* What the dispatcher counts as waiting for an answer, at the end and from outcomes, is
\* what the runner parked, hook by hook: a resume finds open exactly what it has to run.
THEOREM DispatchAwaitingIsParked == Spec => []AwaitingIsParked
<1>1. ASSUME IInv PROVE AwaitingIsParked
  <2> SUFFICES ASSUME verdict = "paused" PROVE AwaitingIsParked
    BY DEF AwaitingIsParked
  <2>1. /\ \A n \in Node : Over(n) /\ Local(n)
        /\ ParkInv /\ BehindInv /\ TypeOK
    BY <1>1 DEF IInv, VerdictInv
  <2>2. ASSUME NEW n \in Awaiting, stat[n] = "skipped"
        PROVE  row[n] = "pending"
    <3> DEFINE Left(m) == stat[m] = "skipped" /\ (pc[m] = "cut" \/ (pc[m] = "end" /\ m \in parked))
               S == asked \cup {m \in Node : Left(m)}
    <3>1. S \in SUBSET Node /\ asked \subseteq S
      BY <2>1 DEF TypeOK
    <3>2. ASSUME NEW m \in Node, stat[m] = "skipped", why[m] = "run_paused" \/ blame[m] \in S
          PROVE  Left(m)
      <4>1. pc[m] \in {"end", "cut"}
        BY <2>1, <3>2 DEF Local, SkipInv, Over
      <4>2. ASSUME pc[m] = "end" PROVE m \in parked
        <5>1. ASSUME why[m] # "run_paused" PROVE why[m] = "dependency_failed" /\ blame[m] \in parked
          <6>1. blame[m] \in S /\ blame[m] \in Node
            BY <3>1, <3>2, <5>1
          <6>2. why[m] = "dependency_failed"
            BY <2>1, <3>2, <5>1, <6>1, DispatchAssumption DEF Local, SkipInv
          <6>3. blame[m] \in asked => blame[m] \in parked
            BY <2>1, <6>1 DEF Local, CardInv
          <6>4. Left(blame[m]) => blame[m] \in parked
            BY <2>1, <3>2, <4>2, <6>1, <6>2 DEF ParkInv
          <6> QED  BY <6>1, <6>2, <6>3, <6>4
        <5> QED  BY <2>1, <3>2, <4>2, <5>1 DEF ParkInv, Waits
      <4> QED  BY <3>2, <4>1, <4>2
    <3>3. Behind(S)
      BY <3>2 DEF Behind
    <3>4. n \in S
      BY <2>2, <3>1, <3>3 DEF Awaiting
    <3>5. n \notin asked /\ n \in Node
      BY <2>1, <2>2, <3>1, <3>4 DEF Local, SkipInv
    <3>6. Left(n)
      BY <3>4, <3>5
    <3> QED  BY <2>1, <2>2, <3>5, <3>6 DEF Local, RowInv
  <2>3. ASSUME late # "hard", NEW n \in Node, stat[n] = "skipped", row[n] = "pending"
        PROVE  n \in Awaiting \cup lost
    <3>1. pc[n] = "end"
      BY <2>1, <2>3 DEF Local, OutcomeInv, SkipInv, Over
    <3>2. n \in parked \cup lost /\ n \in done
      BY <2>1, <2>3, <3>1 DEF Local, RowInv, OutcomeInv, Settled
    <3> QED  BY <2>1, <3>2 DEF BehindInv, Awaiting
  <2> QED  BY <2>2, <2>3 DEF AwaitingIsParked
<1> QED  BY <1>1, DispatchInvariant, PTL

-----------------------------------------------------------------------------
(* The dispatcher implements the plain round.                              *)

\* A step that only one node takes, and how it shows in the round.
LEMMA OneNodeWorks ==
    ASSUME IInv, NEW n \in Node, pc[n] \in Working \cup {"wait"}, UNCHANGED <<deps, verdict>>,
           NEW s, stat' = [stat EXCEPT ![n] = s],
           \/ stat[n] = "pending" /\ s \in {"skipped", "failed", "timeout"}
           \/ stat[n] = "running" /\ s \in {"succeeded", "failed", "timeout"}
           \/ stat[n] = "pending" /\ s = "running" /\ \A d \in deps[n] : stat[d] = "succeeded"
    PROVE  Round!Work
<1>1. TypeOK /\ VerdictInv
  BY DEF IInv
<1>2. verdict = "none"
  <2>1. ~Over(n)
    BY DEF Over, Working
  <2> QED  BY <1>1, <2>1 DEF VerdictInv
<1>3. stat'[n] = s /\ \A m \in Node \ {n} : stat'[m] = stat[m]
  BY <1>1 DEF TypeOK
<1>4. Round!Begin(n) \/ Round!End(n) \/ Round!LeaveOut(n)
  BY <1>3 DEF Round!Begin, Round!End, Round!LeaveOut
<1>5. \A m \in Node \ {n} : Round!Stay(m)
  BY <1>3 DEF Round!Stay
<1> QED  BY <1>2, <1>4, <1>5 DEF Round!Work

LEMMA RoundStep ==
    ASSUME IInv, [Next]_vars
    PROVE  [Round!Next]_<<deps, stat, verdict # "none">>
<1>1. TypeOK /\ VerdictInv /\ (\A m \in Node : Local(m))
  BY DEF IInv
<1>2. ASSUME NEW n \in Node, Step(n) PROVE Round!Work \/ UNCHANGED <<deps, stat, verdict>>
  <2>1. CASE \/ SkipBroken(n) \/ SkipPaused(n) \/ UnknownOp(n) \/ TooLate(n) \/ SkipSpare(n)
             \/ BindFails(n) \/ GateNotMet(n)
    <3>1. PICK status, reason, cause : Settles(n, status, reason, cause) /\ pc[n] = "wait"
      BY <2>1, CheckSettles
    <3>2. stat[n] = "pending" /\ status \in {"skipped", "failed", "timeout"}
      BY <1>1, <3>1 DEF Local, OutcomeInv, Settles, Verdicts, Ended
    <3> QED  BY <3>1, <3>2, OneNodeWorks DEF Settles, Finish
  <2>2. CASE FailForGood(n) \/ Answer(n) \/ Noted(n) \/ Staged(n)
    <3>1. PICK status, reason, cause :
            Settles(n, status, reason, cause) /\ pc[n] \in {"call", "asking", "emitting"}
      BY <2>2, WorkSettles
    <3>2. stat[n] = "running" /\ status \in {"succeeded", "failed", "timeout"}
      BY <1>1, <3>1 DEF Local, OutcomeInv, Settles, Verdicts, Ended, Working
    <3> QED  BY <3>1, <3>2, OneNodeWorks DEF Settles, Finish, Working
  <2>3. CASE Start(n)
    <3>1. /\ pc[n] = "wait" /\ Broken(n) = {} /\ stat' = [stat EXCEPT ![n] = "running"]
          /\ UNCHANGED <<deps, verdict>>
      BY <2>3 DEF Start, InTime, Clear, Ready, planVars
    <3>2. stat[n] = "pending" /\ \A d \in deps[n] : stat[d] = "succeeded"
      BY <1>1, <3>1 DEF Local, OutcomeInv, Broken
    <3> QED  BY <3>1, <3>2, OneNodeWorks
  <2>4. CASE BeginHook(n) \/ Report(n) \/ TakeSlot(n) \/ Raise(n) \/ Asked(n) \/ Tell(n) \/ Prepare(n)
    BY <2>4 DEF BeginHook, Report, TakeSlot, Raise, Asked, Tell, Prepare, planVars, outcomeVars
  <2>5. CASE FailAndWait(n) \/ TryAgain(n) \/ BeginStage(n) \/ StageFails(n)
    BY <2>5 DEF FailAndWait, TryAgain, BeginStage, StageFails, CalledOnly, outcomeVars
  <2> QED  BY <1>2, <2>1, <2>2, <2>3, <2>4, <2>5 DEF Step
<1>3. ASSUME Cancel PROVE Round!Work
  <2>1. verdict = "none" /\ UNCHANGED <<deps, verdict>>
    BY <1>3 DEF Cancel, planVars
  <2>2. \A m \in Node : stat'[m] = IF Unsettled(m) THEN "timeout" ELSE stat[m]
    BY <1>3 DEF Cancel
  <2>3. \A m \in Node : Round!End(m) \/ Round!LeaveOut(m) \/ Round!Stay(m)
    BY <2>2 DEF Unsettled, Round!End, Round!LeaveOut, Round!Stay
  <2> QED  BY <2>1, <2>3 DEF Round!Work
<1>4. ASSUME Conclude PROVE Round!Close
  <2>1. verdict = "none" /\ verdict' # "none" /\ UNCHANGED <<deps, stat>> /\ \A n \in Node : Over(n)
    BY <1>4 DEF Conclude, planVars, outcomeVars
  <2>2. \A n \in Node : stat[n] # "pending"
    BY <1>1, <2>1 DEF Local, OutcomeInv, Over, Ended
  <2> QED  BY <2>1, <2>2 DEF Round!Close
<1>5. ASSUME SoftDeadline \/ HardDeadline \/ UNCHANGED vars PROVE UNCHANGED <<deps, stat, verdict>>
  BY <1>5 DEF SoftDeadline, HardDeadline, vars, planVars, outcomeVars
<1> QED  BY <1>2, <1>3, <1>4, <1>5 DEF Next, Proceed, Round!Next

\* Tasks, locks, slots, questions and deadlines implement the plain round: every step
\* begins on results, ends once or is left out once, and none is forgotten.
THEOREM DispatchImplementsRound == Spec => ImplementsPlanRound
<1>1. Init => Round!Init
  <2> SUFFICES ASSUME Init PROVE Round!Init
    OBVIOUS
  <2>1. PICK carried \in SUBSET Node : Open(carried)
    BY DEF Init
  <2> QED  BY <2>1 DEF Open, Round!Init
<1>2. IInv /\ [Next]_vars => [Round!Next]_<<deps, stat, verdict # "none">>
  BY RoundStep
<1> QED  BY <1>1, <1>2, DispatchInvariant, PTL DEF Spec, ImplementsPlanRound, Round!Spec
=============================================================================
