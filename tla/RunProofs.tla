------------------------------ MODULE RunProofs ----------------------------
(***************************************************************************)
(* One answer is carried into a plan by one process; and unless one        *)
(* message of a run asked two questions neither of which replaces the      *)
(* other, what succeeded and was recorded is not carried out again and a   *)
(* closed run has no open step; for any number of runs, requests, cards    *)
(* and steps, any plans, and whichever rows the database refuses.          *)
(*                                                                         *)
(* The argument is that of a token.  A run is moved either by the one      *)
(* process that acts on it or by the one pending card that may be          *)
(* answered, never by both: a card that is answered hands the token to the *)
(* process that answered it, a message that asks hands it back to a card,  *)
(* and with the token go the rows.  A message that leaves two cards        *)
(* pending makes two tokens; the run is then Crossed, for good, and what   *)
(* is said of tokens is said of the other runs.                            *)
(***************************************************************************)
EXTENDS RunLifecycle, FiniteSetTheorems, WellFoundedInduction, TLAPS

\* A process has what its place calls for.
InPlace(p) ==
    /\ proc[p].at \in {"idle", "done"} => proc[p].run = NoRun /\ proc[p].held = NoCard
    /\ Working(p) => proc[p].run \in Run
    /\ Working(p) /\ proc[p].held = NoCard => proc[p].run = p
    /\ proc[p].at \in {"answer", "cancel", "rebuild", "mark", "close"} => proc[p].held # NoCard
    /\ At(p, "plan") => proc[p].held = NoCard
    /\ proc[p].at \notin {"dispatch", "write", "failing"} => proc[p].cards = {}
    /\ proc[p].at \in {"write", "settle"} => proc[p].verdict # "none"

\* A card is on screen of one process until it is in the table, and an answer is
\* held by the process that took it.
CardsHeld ==
    /\ \A p \in Proc : InPlace(p)
    /\ \A c \in Card : card[c].state # "unused" => card[c].run \in Run
    /\ \A p \in Proc : \A c \in proc[p].cards :
        card[c].state = "shown" /\ card[c].run = proc[p].run
    /\ \A p, q \in Proc : p # q => proc[p].cards \cap proc[q].cards = {}
    /\ \A p \in Proc : proc[p].held # NoCard =>
        /\ proc[p].held \in Filed /\ card[proc[p].held].run = proc[p].run
        /\ Resuming(p) => card[proc[p].held].state = "answered"
    /\ ResumedOnce

----------------------------------------------------------------------------
(* The token of a run.                                                     *)

\* The runs of which no two questions were open at once.
Single == {r \in Run : ~Crossed(r)}

Moving(p) == proc[p].at \in {"plan", "dispatch", "write", "failing", "rebuild", "mark", "close"}
Pending(c) == card[c].state = "pending"

\* A token of such a run is with a process or with a card.
Acting(p) == Moving(p) /\ proc[p].run \in Single
Asking(c) == Pending(c) /\ card[c].run \in Single

OneToken ==
    /\ \A r \in Run : status[r] = "none" =>
        (\A p \in Proc : proc[p].run # r) /\ (\A c \in Card : card[c].run # r)
    /\ \A p, q \in Proc : Acting(p) /\ Acting(q) /\ p # q => proc[p].run # proc[q].run
    /\ \A p \in Proc : \A c \in Card : Acting(p) /\ Asking(c) => card[c].run # proc[p].run
    /\ \A c, d \in Card : Asking(c) /\ Asking(d) /\ c # d => card[c].run # card[d].run

----------------------------------------------------------------------------
(* The rows of a run.                                                      *)

Fresh(r) == \A n \in Node : row[r][n] = "absent" /\ ran[r][n] = 0

PlaceOfRows == {"dispatch", "mark", "close"}

RanRight ==
    /\ \A r \in Run : status[r] = "none" => Fresh(r)
    /\ \A p \in Proc : Acting(p) /\ At(p, "plan") => Fresh(proc[p].run)
    /\ \A r \in Single : round[r] = 0 =>
        \A n \in Node \ lost[r] : ran[r][n] <= 1 /\ (ran[r][n] = 1 => row[r][n] = "succeeded")
    /\ \A p \in Proc : Acting(p) /\ proc[p].at \in PlaceOfRows /\ round[proc[p].run] = 0 =>
        \A n \in Node : row[proc[p].run][n] = "succeeded" => Out(p, n) = "ok"
    /\ \A p \in Proc : proc[p].at \in {"mark", "close"} /\ proc[p].put # NoNode =>
        Out(p, proc[p].put) = "ok"

----------------------------------------------------------------------------
(* The newest card of a run, and what its status follows.                  *)

IsNewest(c, r) == c \in CardsOf(r) /\ \A d \in CardsOf(r) : Newer(c, d)

InOrder ==
    /\ \A c \in Card : issued[c] \subseteq Filed /\ c \notin issued[c]
    /\ \A c, d \in Card : d \in issued[c] => issued[d] \subseteq issued[c]
    /\ \A r \in Run : CardsOf(r) # {} => \E c \in Card : IsNewest(c, r)
    /\ \A p \in Proc : \A r \in Run : Acting(p) /\ proc[p].run = r =>
        IF proc[p].held = NoCard THEN CardsOf(r) = {}
                                 ELSE \A c \in Card : proc[p].held = c => IsNewest(c, r)
    /\ \A c \in Card : \A r \in Run : Asking(c) /\ card[c].run = r => IsNewest(c, r)

\* A verdict that waits has something to wait for.
Waits(p) ==
    /\ proc[p].paused =>
        /\ proc[p].at \in {"dispatch", "failing", "mark_failed"}
        /\ proc[p].cards # {} \/ At(p, "mark_failed")
    /\ At(p, "write") /\ proc[p].verdict = "awaiting_input" => proc[p].cards # {}
    /\ \A r \in Run :
        At(p, "settle") /\ proc[p].run = r /\ proc[p].verdict = "awaiting_input" => CardsOf(r) # {}

Verdicts ==
    /\ \A p \in Proc : Waits(p)
    /\ \A r \in Run : status[r] = "awaiting_input" => CardsOf(r) # {}

NoToken(r) ==
    /\ \A p \in Proc : Acting(p) => proc[p].run # r
    /\ \A c \in Card : Asking(c) => card[c].run # r

\* The sweeper and a dismissal close a run that nothing can move any more.
Closed ==
    /\ \A r \in Run : sweep[r] # "none" => status[r] # "none"
    /\ \A r \in Run : sweep[r] = "close" => NoToken(r)
    /\ \A r \in Run : status[r] = "cancelled" =>
        NoToken(r) /\ (r \in Single => \A n \in Node : row[r][n] \notin OpenRow)

\* A process carries the answer of c on, or has the run's end in hand.
Takes(p, c, r) ==
    /\ proc[p].held = c /\ proc[p].run = r
    /\ Moving(p) \/ (At(p, "settle") /\ proc[p].verdict \in {"complete", "timeout"})

Failing(p) == proc[p].at \in {"failing", "mark_failed"}

\* The process that took the newest answer is on its way to an end of the run.
AnswerTaken ==
    /\ \A p \in Proc : Failing(p) => faults # 0
    /\ faults = 0 =>
        \A r \in Run : \A c \in Card :
            IsNewest(c, r) /\ card[c].state = "answered" =>
                status[r] \in Terminal \/ \E p \in Proc : Takes(p, c, r)

----------------------------------------------------------------------------
(* Least and greatest of a set of numbers.                                 *)

\* Among numbers there is a least one.
LEMMA HasLeast ==
    ASSUME NEW S, S \subseteq Nat, S # {}
    PROVE  \E c \in S : \A d \in S : c <= d
<1>1. IsWellFoundedOn(OpToRel(<, Nat), Nat)
  BY NatLessThanWellFounded
<1>2. PICK c \in S : \A d \in S : ~(<<d, c>> \in OpToRel(<, Nat))
  BY <1>1, WFMin
<1>3. ASSUME NEW d \in S PROVE c <= d
  <2>1. ~(<<d, c>> \in OpToRel(<, Nat))
    BY <1>2
  <2>2. c \in Nat /\ d \in Nat
    OBVIOUS
  <2>3. ~(d < c)
    BY <2>1, <2>2 DEF OpToRel
  <2> QED
    BY <2>2, <2>3
<1> QED
  BY <1>3

\* Among finitely many there is a greatest.
LEMMA HasGreatest ==
    ASSUME NEW S, S \subseteq Nat, S # {}, IsFiniteSet(S)
    PROVE  \E c \in S : \A d \in S : d <= c
<1> DEFINE Bad == {T \in SUBSET S : T # {} /\ \A c \in T : \E d \in T : ~(d <= c)}
           Sizes == {Cardinality(T) : T \in Bad}
<1>1. SUFFICES ASSUME Bad # {} PROVE FALSE
  BY <1>1
<1>2. \A T \in SUBSET S : IsFiniteSet(T) /\ Cardinality(T) \in Nat
  BY FS_Subset, FS_CardinalityType
<1>3. PICK k \in Sizes : \A j \in Sizes : k <= j
  <2>1. Sizes \subseteq Nat /\ Sizes # {}
    BY <1>1, <1>2
  <2> HIDE DEF Sizes
  <2> QED
    BY <2>1, HasLeast
<1>4. PICK T \in Bad : Cardinality(T) = k
  BY <1>3
<1>5. PICK x \in T : TRUE
  BY <1>4
<1>6. Cardinality(T \ {x}) = Cardinality(T) - 1
  BY <1>2, <1>4, <1>5, FS_RemoveElement
<1>7. T \ {x} \notin Bad
  <2>1. ~(k <= k - 1) /\ k \in Nat
    BY <1>2, <1>4
  <2>2. SUFFICES ASSUME T \ {x} \in Bad PROVE FALSE
    OBVIOUS
  <2>3. Cardinality(T \ {x}) \in Sizes
    BY <2>2
  <2> QED
    BY <1>3, <1>4, <1>6, <2>1, <2>3
<1>8. T \ {x} = {} \/ \E c \in T \ {x} : \A d \in T \ {x} : d <= c
  BY <1>4, <1>7
<1>9. CASE T \ {x} = {}
  <2>1. \A d \in T : d = x
    BY <1>9
  <2> QED
    BY <2>1, <1>4, <1>5
<1>10. CASE \E c \in T \ {x} : \A d \in T \ {x} : d <= c
  <2>1. PICK c \in T \ {x} : \A d \in T \ {x} : d <= c
    BY <1>10
  <2>2. c \in Nat /\ x \in Nat /\ T \subseteq Nat
    BY <1>4, <1>5, <2>1
  <2>3. CASE x <= c
    BY <2>1, <2>2, <2>3, <1>4
  <2>4. CASE c <= x
    <3>1. ASSUME NEW d \in T PROVE d <= x
      <4>1. d = x \/ d <= c
        BY <2>1
      <4> QED
        BY <4>1, <2>2, <2>4
    <3> QED
      BY <3>1, <1>4, <1>5
  <2> QED
    BY <2>2, <2>3, <2>4
<1> QED
  BY <1>8, <1>9, <1>10

----------------------------------------------------------------------------
(* Types.                                                                  *)

LEMMA NextIsUnused ==
    ASSUME Unused # {}
    PROVE  NextCard \in Unused
<1>1. Unused \subseteq Nat
  BY RunAssumption DEF Unused
<1>2. \E c \in Unused : \A d \in Unused : c <= d
  BY <1>1, HasLeast
<1> QED
  BY <1>2 DEF NextCard

LEMMA PlacedIsStep ==
    ASSUME plan \in Plans, NEW r \in Run, NEW c
    PROVE  Placed(r, c) \in plan[r].steps \cup {NoNode}
<1> DEFINE fits == {n \in plan[r].steps :
                    \/ n = card[c].node
                    \/ plan[r].kind[n] = "ask" /\ row[r][n] # "succeeded"}
<1>1. CASE fits = {}
  BY <1>1 DEF Placed
<1>2. CASE fits # {}
  <2>1. fits \subseteq Nat
    BY RunAssumption
  <2>2. \E n \in fits : \A m \in fits : n <= m
    BY <1>2, <2>1, HasLeast
  <2>3. Placed(r, c) = CHOOSE n \in fits : \A m \in fits : n <= m
    BY <1>2 DEF Placed
  <2>4. Placed(r, c) \in fits
    BY <2>2, <2>3
  <2> QED
    BY <2>4
<1> QED
  BY <1>1, <1>2

LEMMA IdleIsMemory == Idle \in Memory
BY DEF Idle, Memory, None, Places

USE DEF At

RowType == row' \in [Run -> [Node -> NodeStatus \cup {"absent"}]]
LostType == lost' \in [Run -> SUBSET Node] /\ faults' \in 0 .. MaxFaults

LEMMA FaultType ==
    ASSUME TypeOK, Fault
    PROVE  faults' \in 0 .. MaxFaults /\ faults' = faults + 1
BY RunAssumption DEF TypeOK, Fault

\* A row that is written, or refused.
LEMMA RowTypes ==
    ASSUME TypeOK, NEW p \in Proc, NEW n \in Node, proc[p].run \in Run,
           NEW s \in NodeStatus, RowSays(p, n, s)
    PROVE  /\ RowType /\ LostType
           /\ faults' \in {faults, faults + 1} /\ \A q \in Run : lost[q] \subseteq lost'[q]
           /\ \/ row' = [row EXCEPT ![proc[p].run][n] = s]
              \/ row' = row /\ (s = "succeeded" => n \in lost'[proc[p].run])
<1> USE DEF TypeOK
<1>1. CASE Store(p, n, s)
  <2>1. row' = [row EXCEPT ![proc[p].run][n] = s] /\ UNCHANGED <<lost, faults>>
    BY <1>1 DEF Store
  <2> QED
    BY <2>1 DEF RowType, LostType
<1>2. CASE Refuse(p, n, s)
  <2>1. row' = row /\ Fault
        /\ lost' = IF s = "succeeded" THEN [lost EXCEPT ![proc[p].run] = lost[proc[p].run] \cup {n}]
                                       ELSE lost
    BY <1>2 DEF Refuse
  <2>2. lost' \in [Run -> SUBSET Node] /\ (\A q \in Run : lost[q] \subseteq lost'[q])
        /\ (s = "succeeded" => n \in lost'[proc[p].run])
    BY <2>1
  <2> QED
    BY <2>1, <2>2, FaultType DEF RowType, LostType
<1> QED
  BY <1>1, <1>2 DEF RowSays

LEMMA NoRowTypes ==
    ASSUME TypeOK, NoRow
    PROVE  RowType /\ LostType
BY DEF TypeOK, NoRow, RowType, LostType

\* The steps of a round that ask nothing.
LEMMA RoundTypes ==
    ASSUME TypeOK, NEW p \in Proc, NEW n \in Node, proc[p].run \in Run,
           Succeed(p, n) \/ Break(p, n) \/ Stage(p, n) \/ Skip(p, n) \/ SkipPaused(p, n)
    PROVE  TypeOK'
<1> USE DEF TypeOK, RowType, LostType
<1> DEFINE r == proc[p].run
<1>0. proc[p] \in Memory /\ r \in Run
  OBVIOUS
<1>1. CASE Succeed(p, n)
  <2>1. PICK more \in BOOLEAN :
          proc' = [proc EXCEPT ![p].out[n] = "ok", ![p].again = @ \/ more]
    BY <1>1 DEF Succeed
  <2> DEFINE b == proc[p].again \/ more
  <2>2. b \in BOOLEAN
    OBVIOUS
  <2>3. proc' = [proc EXCEPT ![p].out[n] = "ok", ![p].again = b]
    BY <2>1
  <2> HIDE DEF b
  <2>4. proc' \in [Proc -> Memory]
    <3> DEFINE m == [proc[p] EXCEPT !.out[n] = "ok", !.again = b]
    <3>1. m \in Memory
      BY <1>0, <2>2 DEF Memory
    <3>2. proc' = [proc EXCEPT ![p] = m]
      BY <1>0, <2>3
    <3> HIDE DEF m
    <3> QED
      BY <3>1, <3>2
  <2>5. RowType /\ LostType
    BY <1>0, <1>1, RowTypes DEF Succeed, NodeStatus
  <2>6. ran' \in [Run -> [Node -> Nat]]
    <3>1. ran[r][n] + 1 \in Nat
      BY <1>0
    <3> QED
      BY <1>0, <1>1, <3>1 DEF Succeed, Ran
  <2> QED
    BY <1>1, <2>4, <2>5, <2>6 DEF Succeed, Stepping
<1>2. CASE Break(p, n)
  <2>1. \/ proc' = [proc EXCEPT ![p].out[n] = "bad"]
        \/ proc' = [proc EXCEPT ![p].out[n] = "bad", ![p].again = TRUE]
        \/ proc' = [proc EXCEPT ![p].out[n] = "bad", ![p].reauth = TRUE]
    BY <1>2 DEF Break
  <2>2. proc' \in [Proc -> Memory]
    <3>1. CASE proc' = [proc EXCEPT ![p].out[n] = "bad"]
      BY <1>0, <3>1 DEF Memory
    <3>2. CASE proc' = [proc EXCEPT ![p].out[n] = "bad", ![p].again = TRUE]
      BY <1>0, <3>2 DEF Memory
    <3>3. CASE proc' = [proc EXCEPT ![p].out[n] = "bad", ![p].reauth = TRUE]
      BY <1>0, <3>3 DEF Memory
    <3> QED
      BY <2>1, <3>1, <3>2, <3>3
  <2>6. RowType /\ LostType
    BY <1>0, <1>2, RowTypes DEF Break, NodeStatus
  <2> QED
    BY <1>2, <2>2, <2>6 DEF Break, Stepping
<1>3. CASE Stage(p, n)
  <2>1. proc' \in [Proc -> Memory]
    <3> DEFINE acts == proc[p].acts \cup {n}
               staged == proc[p].staged \cup {n}
    <3>1. acts \in SUBSET Node /\ staged \in SUBSET Node
      BY <1>0 DEF Memory
    <3>2. proc' = [proc EXCEPT ![p].out[n] = "ok", ![p].acts = acts, ![p].staged = staged]
      BY <1>3 DEF Stage
    <3> HIDE DEF acts, staged
    <3> DEFINE m == [proc[p] EXCEPT !.out[n] = "ok", !.acts = acts, !.staged = staged]
    <3>3. m \in Memory
      BY <1>0, <3>1 DEF Memory
    <3>4. proc' = [proc EXCEPT ![p] = m]
      BY <1>0, <3>2
    <3> HIDE DEF m
    <3> QED
      BY <3>3, <3>4
  <2>2. RowType /\ LostType
    BY <1>0, <1>3, RowTypes DEF Stage, NodeStatus
  <2>3. ran' \in [Run -> [Node -> Nat]]
    BY <1>0, <1>3 DEF Stage, Ran
  <2>4. after' \in [Run -> [Node -> SUBSET Node]]
    <3>1. Deps(p, n) \cap proc[p].staged \in SUBSET Node
      BY <1>0 DEF Memory
    <3> QED
      BY <1>0, <1>3, <3>1 DEF Stage
  <2> QED
    BY <1>3, <2>1, <2>2, <2>3, <2>4 DEF Stage, Stepping
<1>4. CASE Skip(p, n)
  <2>1. \/ proc' = [proc EXCEPT ![p].out[n] = "skip"] /\ RowSays(p, n, "skipped")
        \/ proc' = [proc EXCEPT ![p].out[n] = "parked"] /\ NoRow
    BY <1>4 DEF Skip
  <2>2. CASE proc' = [proc EXCEPT ![p].out[n] = "skip"] /\ RowSays(p, n, "skipped")
    <3>1. proc' \in [Proc -> Memory]
      BY <1>0, <2>2 DEF Memory
    <3>2. RowType /\ LostType
      BY <1>0, <2>2, RowTypes DEF NodeStatus
    <3> QED
      BY <1>4, <3>1, <3>2 DEF Skip, Stepping
  <2>3. CASE proc' = [proc EXCEPT ![p].out[n] = "parked"] /\ NoRow
    <3>1. proc' \in [Proc -> Memory]
      BY <1>0, <2>3 DEF Memory
    <3> QED
      BY <1>4, <2>3, <3>1, NoRowTypes DEF Skip, Stepping
  <2> QED
    BY <2>1, <2>2, <2>3
<1>5. CASE SkipPaused(p, n)
  <2>1. proc' \in [Proc -> Memory]
    BY <1>0, <1>5 DEF SkipPaused, Memory
  <2> QED
    BY <1>5, <2>1, NoRowTypes DEF SkipPaused, Stepping
<1> QED
  BY <1>1, <1>2, <1>3, <1>4, <1>5

LEMMA ShowTypes ==
    ASSUME TypeOK, Unused # {}, NEW r \in Run, NEW n \in Node \cup {NoNode}, Show(r, n)
    PROVE  card' \in [Card -> CardRow]
<1>1. NextCard \in Card
  BY NextIsUnused DEF Unused
<1>2. [state |-> "shown", run |-> r, node |-> n] \in CardRow
  BY DEF CardRow, CardStatus
<1> QED
  BY <1>1, <1>2 DEF Show, TypeOK

LEMMA AskTypes ==
    ASSUME TypeOK, NEW p \in Proc, NEW n \in Node, proc[p].run \in Run, Ask(p, n) \/ AskToo(p, n)
    PROVE  TypeOK'
<1> USE DEF TypeOK, RowType, LostType
<1> DEFINE held == proc[p].cards \cup {NextCard}
<1>0. proc[p] \in Memory
  OBVIOUS
<1>1. Unused # {}
  BY DEF Ask, AskToo
<1>2. held \in SUBSET Card
  <2>1. NextCard \in Card
    BY <1>1, NextIsUnused DEF Unused
  <2> QED
    BY <1>0, <2>1 DEF Memory
<1>3. card' \in [Card -> CardRow]
  BY <1>1, ShowTypes DEF Ask, AskToo
<1>4. RowType /\ LostType
  <2>1. RowSays(p, n, "running")
    BY DEF Ask, AskToo
  <2> QED
    BY <1>0, <2>1, RowTypes DEF NodeStatus, OpenRow
<1>5. CASE Ask(p, n)
  <2>1. proc' = [proc EXCEPT ![p].out[n] = "ask", ![p].paused = TRUE, ![p].cards = held]
    BY <1>5 DEF Ask
  <2> HIDE DEF held
  <2>2. proc' \in [Proc -> Memory]
    BY <1>0, <1>2, <2>1 DEF Memory
  <2> QED
    BY <1>3, <1>4, <1>5, <2>2 DEF Ask
<1>6. CASE AskToo(p, n)
  <2>1. proc' = [proc EXCEPT ![p].out[n] = "ask", ![p].cards = held]
    BY <1>6 DEF AskToo
  <2> HIDE DEF held
  <2>2. proc' \in [Proc -> Memory]
    BY <1>0, <1>2, <2>1 DEF Memory
  <2> QED
    BY <1>3, <1>4, <1>6, <2>2 DEF AskToo
<1> QED
  BY <1>5, <1>6

LEMMA DeadlineTypes ==
    ASSUME TypeOK, NEW p \in Proc, proc[p].run \in Run, Deadline(p)
    PROVE  TypeOK'
<1> USE DEF TypeOK, RowType, LostType
<1>0. proc[p] \in Memory
  OBVIOUS
<1> DEFINE r == proc[p].run
           left == {n \in plan[r].steps : Out(p, n) \in {"none", "ask"}}
           out == [n \in Node |-> IF n \in left THEN "late" ELSE proc[p].out[n]]
           new(missed) == [n \in Node |-> IF n \in left \ missed THEN "timeout" ELSE row[r][n]]
<1>1. out \in [Node -> {"none", "ok", "bad", "skip", "parked", "ask", "late"}]
  BY <1>0 DEF Memory
<1>2. \A missed : new(missed) \in [Node -> NodeStatus \cup {"absent"}]
  BY DEF NodeStatus
<1>3. proc' = [proc EXCEPT ![p].out = out] /\ \E missed : row' = [row EXCEPT ![r] = new(missed)]
  BY DEF Deadline
<1>6. LostType
  BY FaultType DEF Deadline
<1> HIDE DEF out, new
<1>4. proc' \in [Proc -> Memory]
  BY <1>0, <1>1, <1>3 DEF Memory
<1>5. RowType
  BY <1>2, <1>3
<1> QED
  BY <1>4, <1>5, <1>6 DEF Deadline, Stepping

LEMMA ReplanTypes ==
    ASSUME TypeOK, NEW r \in Run, Replan(r)
    PROVE  TypeOK'
<1> USE DEF TypeOK
<1>0. proc[r] \in Memory /\ r \in Proc
  BY DEF Proc
<1> DEFINE out == [n \in Node |-> IF proc[r].out[n] = "ok" THEN "ok" ELSE "none"]
           new == [n \in Node |-> IF n \in plan[r].steps THEN "pending" ELSE row[r][n]]
<1>1. out \in [Node -> {"none", "ok", "bad", "skip", "parked", "ask", "late"}]
  OBVIOUS
<1>2. new \in [Node -> NodeStatus \cup {"absent"}]
  BY DEF NodeStatus, OpenRow
<1>3. /\ proc' = [proc EXCEPT ![r].out = out,
                       ![r].staged = {}, ![r].again = FALSE, ![r].reauth = FALSE]
      /\ row' = [row EXCEPT ![r] = new]
  BY DEF Replan
<1> HIDE DEF out, new
<1>4. proc' \in [Proc -> Memory]
  <2> DEFINE m == [proc[r] EXCEPT !.out = out, !.staged = {}, !.again = FALSE, !.reauth = FALSE]
  <2>1. m \in Memory
    BY <1>0, <1>1 DEF Memory
  <2>2. proc' = [proc EXCEPT ![r] = m]
    BY <1>0, <1>3
  <2> HIDE DEF m
  <2> QED
    BY <2>1, <2>2
<1>5. row' \in [Run -> [Node -> NodeStatus \cup {"absent"}]]
  BY <1>2, <1>3
<1>6. round' \in [Run -> 0 .. MaxRounds]
  <2>1. round[r] + 1 \in 0 .. MaxRounds
    <3>1. round[r] \in 0 .. MaxRounds /\ round[r] < MaxRounds /\ MaxRounds \in Nat
      BY RunAssumption DEF Replan
    <3> QED
      BY <3>1
  <2> QED
    BY <2>1 DEF Replan
<1>7. value' \in [Run -> [Node -> Card \cup {NoCard}]]
  BY DEF Replan, None
<1> QED
  BY <1>4, <1>5, <1>6, <1>7 DEF Replan

LEMMA CloseTypes ==
    ASSUME TypeOK, NEW p \in Proc, Conclude(p) \/ (proc[p].run \in Run /\ ParkOnReconnect(p))
    PROVE  TypeOK'
<1> USE DEF TypeOK
<1>0. proc[p] \in Memory
  OBVIOUS
<1>1. ASSUME NEW verdict \in {"awaiting_input", "complete", "timeout"}, NEW cards \in SUBSET Card,
             CloseRound(p, verdict, cards)
      PROVE  proc' \in [Proc -> Memory]
  <2> DEFINE m == [Idle EXCEPT !.at = "write", !.run = proc[p].run, !.held = proc[p].held,
                               !.acts = proc[p].acts, !.cards = cards, !.verdict = verdict]
  <2>1. m \in Memory
    BY <1>0 DEF Memory, Idle, None, Places
  <2>2. proc' = [proc EXCEPT ![p] = m]
    BY <1>1 DEF CloseRound
  <2> HIDE DEF m
  <2> QED
    BY <2>1, <2>2
<1>2. CASE Conclude(p)
  <2>1. Verdict(p) \in {"awaiting_input", "complete", "timeout"}
    BY DEF Verdict
  <2>2. proc[p].cards \in SUBSET Card
    BY <1>0 DEF Memory
  <2> QED
    BY <1>1, <1>2, <2>1, <2>2 DEF Conclude, tables
<1>3. CASE proc[p].run \in Run /\ ParkOnReconnect(p)
  <2>1. NextCard \in Card
    BY <1>3, NextIsUnused DEF Unused, ParkOnReconnect
  <2>2. proc' \in [Proc -> Memory]
    BY <1>1, <1>3, <2>1 DEF ParkOnReconnect
  <2>3. card' \in [Card -> CardRow]
    BY <1>3, ShowTypes DEF ParkOnReconnect
  <2> QED
    BY <1>3, <2>2, <2>3 DEF ParkOnReconnect
<1> QED
  BY <1>2, <1>3

LEMMA StatusTypes ==
    ASSUME TypeOK, NEW r, NEW s \in RunStatus, SetStatus(r, s)
    PROVE  status' \in [Run -> RunStatus \cup {"none"}]
BY DEF SetStatus, TypeOK

LEMMA CancelTypes ==
    ASSUME TypeOK, NEW r \in Run, CancelPending(r)
    PROVE  row' \in [Run -> [Node -> NodeStatus \cup {"absent"}]]
<1> DEFINE new == [n \in Node |-> IF row[r][n] \in OpenRow THEN "cancelled" ELSE row[r][n]]
<1>1. new \in [Node -> NodeStatus \cup {"absent"}]
  BY DEF TypeOK, NodeStatus
<1>2. row' = [row EXCEPT ![r] = new]
  BY DEF CancelPending
<1> HIDE DEF new
<1> QED
  BY <1>1, <1>2 DEF TypeOK

LEMMA GoTypes ==
    ASSUME TypeOK, NEW p \in Proc, NEW place \in Places, Go(p, place)
    PROVE  proc' \in [Proc -> Memory]
<1> DEFINE m == [proc[p] EXCEPT !.at = place]
<1>1. proc[p] \in Memory
  BY DEF TypeOK
<1>2. m \in Memory
  BY <1>1 DEF Memory
<1>3. proc' = [proc EXCEPT ![p] = m]
  BY DEF Go
<1> HIDE DEF m
<1> QED
  BY <1>2, <1>3 DEF TypeOK

LEMMA EndTypes ==
    ASSUME TypeOK, NEW p \in Proc, End(p)
    PROVE  proc' \in [Proc -> Memory]
<1> DEFINE m == [Idle EXCEPT !.at = "done"]
<1>1. m \in Memory
  BY IdleIsMemory DEF Memory, Places
<1>2. proc' = [proc EXCEPT ![p] = m]
  BY DEF End
<1> HIDE DEF m
<1> QED
  BY <1>1, <1>2 DEF TypeOK

LEMMA TurnTypes ==
    ASSUME TypeOK, NEW r \in Run, StartTurn(r) \/ Say(r) \/ WriteSteps(r)
    PROVE  TypeOK'
<1> USE DEF TypeOK
<1>0. proc[r] \in Memory /\ r \in Proc
  BY DEF Proc
<1>1. CASE StartTurn(r)
  <2>1. proc' \in [Proc -> Memory]
    <3> DEFINE m == [proc[r] EXCEPT !.at = "plan", !.run = r]
    <3>1. m \in Memory
      BY <1>0 DEF Memory, Places
    <3>2. proc' = [proc EXCEPT ![r] = m]
      BY <1>0, <1>1 DEF StartTurn
    <3> HIDE DEF m
    <3> QED
      BY <3>1, <3>2
  <2>2. status' \in [Run -> RunStatus \cup {"none"}]
    BY <1>1 DEF StartTurn, RunStatus, Live
  <2> QED
    BY <1>1, <2>1, <2>2 DEF StartTurn
<1>2. CASE Say(r)
  <2>1. proc' \in [Proc -> Memory]
    <3> DEFINE m == [proc[r] EXCEPT !.at = "settle", !.verdict = "complete"]
    <3>1. m \in Memory
      BY <1>0 DEF Memory, Places
    <3>2. proc' = [proc EXCEPT ![r] = m]
      BY <1>0, <1>2 DEF Say
    <3> HIDE DEF m
    <3> QED
      BY <3>1, <3>2
  <2> QED
    BY <1>2, <2>1 DEF Say, tables
<1>3. CASE WriteSteps(r)
  <2>1. proc' \in [Proc -> Memory]
    BY <1>0, <1>3, GoTypes DEF WriteSteps, Places
  <2> DEFINE new == [n \in Node |-> IF n \in plan[r].steps THEN "pending" ELSE row[r][n]]
  <2>2. new \in [Node -> NodeStatus \cup {"absent"}]
    BY DEF NodeStatus, OpenRow
  <2>3. row' = [row EXCEPT ![r] = new]
    BY <1>3 DEF WriteSteps
  <2> HIDE DEF new
  <2>4. row' \in [Run -> [Node -> NodeStatus \cup {"absent"}]]
    BY <2>2, <2>3
  <2> QED
    BY <1>3, <2>1, <2>4 DEF WriteSteps
<1> QED
  BY <1>1, <1>2, <1>3

LEMMA OpenTypes ==
    ASSUME TypeOK, NEW p \in Proc, NEW c \in Card,
           \/ p \in Run /\ AnswerOpenCard(p, c)
           \/ Open(p, c, "answer")
           \/ Open(p, c, "cancel")
    PROVE  TypeOK'
<1> USE DEF TypeOK
<1>0. proc[p] \in Memory /\ card[c] \in CardRow /\ card[c].run \in Run \cup {NoRun}
  BY DEF CardRow
<1>1. CASE p \in Run /\ AnswerOpenCard(p, c)
  <2>1. proc' \in [Proc -> Memory]
    <3> DEFINE m == [proc[p] EXCEPT !.at = "answer", !.run = card[c].run, !.held = c]
    <3>1. m \in Memory
      BY <1>0 DEF Memory, Places
    <3>2. proc' = [proc EXCEPT ![p] = m]
      BY <1>0, <1>1 DEF AnswerOpenCard
    <3> HIDE DEF m
    <3> QED
      BY <3>1, <3>2
  <2>2. status' \in [Run -> RunStatus \cup {"none"}]
    BY <1>1, StatusTypes DEF AnswerOpenCard, RunStatus, Terminal
  <2> QED
    BY <1>1, <2>1, <2>2 DEF AnswerOpenCard
<1>2. ASSUME NEW place \in {"answer", "cancel"}, Open(p, c, place) PROVE TypeOK'
  <2>1. proc' \in [Proc -> Memory]
    <3> DEFINE m == [proc[p] EXCEPT !.at = place, !.held = c, !.run = card[c].run]
    <3>1. m \in Memory
      BY <1>0 DEF Memory, Places
    <3>2. proc' = [proc EXCEPT ![p] = m]
      BY <1>0, <1>2 DEF Open
    <3> HIDE DEF m
    <3> QED
      BY <3>1, <3>2
  <2> QED
    BY <1>2, <2>1 DEF Open, tables
<1> QED
  BY <1>1, <1>2

LEMMA WriteTypes ==
    ASSUME TypeOK, NEW p \in Proc, WriteMessage(p) \/ FailMessage(p)
    PROVE  TypeOK'
<1> USE DEF TypeOK
<1>0. proc[p] \in Memory /\ Insert(p)
  BY DEF WriteMessage, FailMessage
<1>1. card' \in [Card -> CardRow]
  <2>1. ASSUME NEW d \in Card PROVE card'[d] \in CardRow
    <3>1. card[d] \in CardRow
      OBVIOUS
    <3>2. card'[d] = card[d] \/ card'[d] = [card[d] EXCEPT !.state = "superseded"]
            \/ card'[d] = [card[d] EXCEPT !.state = "pending"]
      BY <1>0 DEF Insert
    <3> QED
      BY <3>1, <3>2 DEF CardRow, CardStatus
  <2>2. card' = [d \in Card |-> card'[d]]
    BY <1>0 DEF Insert
  <2> QED
    BY <2>1, <2>2
<1>2. issued' \in [Card -> SUBSET Card]
  BY <1>0 DEF Insert, Filed
<1>3. act' \in [Run -> [Node -> {"none", "draft", "cancelled"}]]
  <2> DEFINE r == proc[p].run
             new == [n \in Node |-> IF n \in proc[p].acts THEN "draft" ELSE act[r][n]]
  <2>1. r \in Run => new \in [Node -> {"none", "draft", "cancelled"}]
    OBVIOUS
  <2>2. act' = [act EXCEPT ![r] = new]
    BY <1>0 DEF Insert
  <2> HIDE DEF r, new
  <2> QED
    BY <2>1, <2>2
<1>4. proc' \in [Proc -> Memory]
  <2> DEFINE m(at) == [proc[p] EXCEPT !.at = at, !.cards = {}, !.acts = {}]
  <2>1. \A at \in Places : m(at) \in Memory
    BY <1>0 DEF Memory
  <2>2. \E at \in Places : proc' = [proc EXCEPT ![p] = m(at)]
    BY <1>0 DEF WriteMessage, FailMessage, Places
  <2> QED
    BY <2>1, <2>2
<1> QED
  BY <1>1, <1>2, <1>3, <1>4 DEF WriteMessage, FailMessage

LEMMA AnswerTypes ==
    ASSUME TypeOK, NEW p \in Proc, proc[p].run \in Run, proc[p].held \in Card,
           Answer(p) \/ Rebuild(p) \/ MarkResumed(p) \/ CloseQuestion(p) \/ CancelCard(p)
    PROVE  TypeOK'
<1> USE DEF TypeOK
<1> DEFINE r == proc[p].run
           c == proc[p].held
<1>0. proc[p] \in Memory /\ card[c] \in CardRow
  OBVIOUS
<1>1. ASSUME NEW s \in CardStatus, card' = [card EXCEPT ![c].state = s]
      PROVE  card' \in [Card -> CardRow]
  <2>1. [card[c] EXCEPT !.state = s] \in CardRow
    BY <1>0 DEF CardRow
  <2> QED
    BY <1>1, <2>1
<1>2. CASE Answer(p)
  <2>1. proc' \in [Proc -> Memory]
    BY <1>2, GoTypes DEF Answer, Places
  <2>2. card' \in [Card -> CardRow]
    BY <1>1, <1>2 DEF Answer, CardStatus
  <2> QED
    BY <1>2, <2>1, <2>2 DEF Answer
<1>3. CASE Rebuild(p)
  <2> DEFINE n0 == Placed(r, c)
             out == [n \in Node |-> IF row[r][n] = "succeeded" \/ n = n0 THEN "ok" ELSE "none"]
             m == [proc[p] EXCEPT !.at = "mark", !.put = n0, !.out = out]
  <2>1. n0 \in Node \cup {NoNode}
    <3>1. plan[r].steps \subseteq Node
      BY RunAssumption
    <3> QED
      BY <3>1, PlacedIsStep
  <2>2. out \in [Node -> {"none", "ok", "bad", "skip", "parked", "ask", "late"}]
    OBVIOUS
  <2>3. proc' = [proc EXCEPT ![p] = m]
    BY <1>0, <1>3 DEF Rebuild
  <2>4. m \in Memory
    <3> HIDE DEF n0, out
    <3> QED
      BY <1>0, <2>1, <2>2 DEF Memory, Places
  <2>5. proc' \in [Proc -> Memory]
    <3> HIDE DEF m
    <3> QED
      BY <2>3, <2>4
  <2> QED
    BY <1>3, <2>5 DEF Rebuild, tables
<1>4. CASE MarkResumed(p)
  <2>1. proc' \in [Proc -> Memory]
    BY <1>4, GoTypes DEF MarkResumed, Places
  <2>2. status' \in [Run -> RunStatus \cup {"none"}]
    BY <1>4 DEF MarkResumed, RunStatus, Live
  <2> QED
    BY <1>4, <2>1, <2>2 DEF MarkResumed
<1>5. CASE CloseQuestion(p)
  <2>1. proc' \in [Proc -> Memory]
    BY <1>5, GoTypes DEF CloseQuestion, Places
  <2>2. proc[p].put \in Node \cup {NoNode}
    BY <1>0 DEF Memory
  <2>3. RowType /\ LostType
    <3>1. \/ NoRow
          \/ proc[p].put \in Node /\ RowSays(p, proc[p].put, "succeeded")
      BY <1>5, <2>2 DEF CloseQuestion, RowSays
    <3> QED
      BY <3>1, NoRowTypes, RowTypes DEF NodeStatus
  <2>4. value' \in [Run -> [Node -> Card \cup {NoCard}]]
    <3>1. value' = value \/ (proc[p].put \in Node /\ value' = [value EXCEPT ![r][proc[p].put] = c])
      BY <1>5, <2>2 DEF CloseQuestion
    <3>2. [value[r] EXCEPT ![proc[p].put] = c] \in [Node -> Card \cup {NoCard}]
      OBVIOUS
    <3>3. CASE value' = [value EXCEPT ![r][proc[p].put] = c]
      BY <3>2, <3>3
    <3> QED
      BY <3>1, <3>3
  <2> QED
    BY <1>5, <2>1, <2>3, <2>4 DEF CloseQuestion, RowType, LostType
<1>6. CASE CancelCard(p)
  <2>1. proc' \in [Proc -> Memory]
    BY <1>6, EndTypes DEF CancelCard
  <2>2. card' \in [Card -> CardRow]
    BY <1>1, <1>6 DEF CancelCard, CardStatus
  <2>3. row' \in [Run -> [Node -> NodeStatus \cup {"absent"}]]
    BY <1>6, CancelTypes DEF CancelCard
  <2>4. status' \in [Run -> RunStatus \cup {"none"}]
    BY <1>6, StatusTypes DEF CancelCard, RunStatus, Terminal
  <2> QED
    BY <1>6, <2>1, <2>2, <2>3, <2>4 DEF CancelCard
<1> QED
  BY <1>2, <1>3, <1>4, <1>5, <1>6

LEMMA EndingTypes ==
    ASSUME TypeOK, NEW p \in Proc,
           \/ Crashed(p) \/ SettleLost(p) \/ Die(p) \/ Refused(p) \/ MarkFailed(p)
           \/ Settle(p) /\ proc[p].verdict # "none"
    PROVE  TypeOK'
<1> USE DEF TypeOK
<1>0. proc[p] \in Memory
  OBVIOUS
<1>1. Fault => faults' \in 0 .. MaxFaults
  BY RunAssumption DEF Fault
<1>2. CASE Crashed(p)
  BY <1>1, <1>2, GoTypes DEF Crashed, Places, tables
<1>3. CASE SettleLost(p)
  BY <1>1, <1>3, EndTypes DEF SettleLost, tables
<1>4. CASE Die(p)
  <2>1. card' \in [Card -> CardRow]
    <3>1. ASSUME NEW d \in Card PROVE card'[d] \in CardRow
      <4>1. card[d] \in CardRow
        OBVIOUS
      <4>2. card'[d] = card[d] \/ card'[d] = [card[d] EXCEPT !.state = "lost"]
        BY <1>4 DEF Die
      <4> QED
        BY <4>1, <4>2 DEF CardRow, CardStatus
    <3>2. card' = [d \in Card |-> card'[d]]
      BY <1>4 DEF Die
    <3> QED
      BY <3>1, <3>2
  <2> QED
    BY <1>1, <1>4, <2>1, EndTypes DEF Die
<1>5. CASE Refused(p)
  BY <1>5, EndTypes DEF Refused, tables
<1>6. CASE MarkFailed(p)
  BY <1>6, EndTypes, StatusTypes DEF MarkFailed, RunStatus, Terminal
<1>7. CASE Settle(p) /\ proc[p].verdict # "none"
  <2>1. proc[p].verdict \in RunStatus
    <3>1. proc[p].verdict \in {"none", "awaiting_input", "complete", "timeout"}
      BY <1>0 DEF Memory
    <3> QED
      BY <3>1, <1>7 DEF RunStatus, Terminal, Live
  <2> QED
    BY <1>7, <2>1, EndTypes, StatusTypes DEF Settle
<1> QED
  BY <1>2, <1>3, <1>4, <1>5, <1>6, <1>7

LEMMA SweepTypes ==
    ASSUME TypeOK,
           \/ \E c \in Card : Expire(c)
           \/ SweepRead
           \/ \E r \in Run : Age(r) \/ CloseDeadRun(r) \/ SweepLook(r) \/ SweepClose(r)
    PROVE  TypeOK'
<1> USE DEF TypeOK
<1>1. ASSUME NEW c \in Card, Expire(c) PROVE TypeOK'
  <2> DEFINE new == [card[c] EXCEPT !.state = "expired"]
  <2>1. new \in CardRow
    <3>1. card[c] \in CardRow
      OBVIOUS
    <3> QED
      BY <3>1 DEF CardRow, CardStatus
  <2>2. card' = [card EXCEPT ![c] = new]
    BY <1>1 DEF Expire
  <2> HIDE DEF new
  <2>3. card' \in [Card -> CardRow]
    BY <2>1, <2>2
  <2> QED
    BY <1>1, <2>3 DEF Expire
<1>2. CASE SweepRead
  <2>1. sweep' \in [Run -> {"none", "running", "awaiting_input", "close"}]
    BY <1>2 DEF SweepRead, Live
  <2> QED
    BY <1>2, <2>1 DEF SweepRead, tables
<1>3. ASSUME NEW r \in Run, Age(r) PROVE TypeOK'
  BY <1>3 DEF Age, tables
<1>4. ASSUME NEW r \in Run, CloseDeadRun(r) PROVE TypeOK'
  <2> DEFINE new == [n \in Node |-> IF act[r][n] = "draft" THEN "cancelled" ELSE act[r][n]]
  <2>1. new \in [Node -> {"none", "draft", "cancelled"}]
    OBVIOUS
  <2>2. act' = [act EXCEPT ![r] = new]
    BY <1>4 DEF CloseDeadRun
  <2> HIDE DEF new
  <2>3. act' \in [Run -> [Node -> {"none", "draft", "cancelled"}]]
    BY <2>1, <2>2
  <2>4. status' \in [Run -> RunStatus \cup {"none"}]
    BY <1>4, StatusTypes DEF CloseDeadRun, RunStatus, Terminal
  <2>5. row' \in [Run -> [Node -> NodeStatus \cup {"absent"}]]
    BY <1>4, CancelTypes DEF CloseDeadRun
  <2> QED
    BY <1>4, <2>3, <2>4, <2>5 DEF CloseDeadRun
<1>5. ASSUME NEW r \in Run, SweepLook(r) PROVE TypeOK'
  BY <1>5 DEF SweepLook, tables
<1>6. ASSUME NEW r \in Run, SweepClose(r) PROVE TypeOK'
  <2>1. status' \in [Run -> RunStatus \cup {"none"}]
    BY <1>6, StatusTypes DEF SweepClose, RunStatus, Terminal
  <2>2. row' \in [Run -> [Node -> NodeStatus \cup {"absent"}]]
    BY <1>6, CancelTypes DEF SweepClose
  <2> QED
    BY <1>6, <2>1, <2>2 DEF SweepClose
<1> QED
  BY <1>1, <1>2, <1>3, <1>4, <1>5, <1>6

----------------------------------------------------------------------------
(* What a step does with what a process has in hand.                       *)

Others(p) == \A q \in Proc : q # p => proc'[q] = proc[q]

Hands(p, at, run, held, cards) ==
    /\ Others(p)
    /\ proc'[p].at = at /\ proc'[p].run = run /\ proc'[p].held = held /\ proc'[p].cards = cards

\* A process goes on with what it has, or ends; no card changes.
Onward(p) ==
    /\ Others(p) /\ UNCHANGED <<plan, card, issued>>
    /\ \A r \in Run : status'[r] = "none" => status[r] = "none"
    /\ proc'[p].cards \subseteq proc[p].cards
    /\ \/ proc'[p].run = proc[p].run /\ proc'[p].held = proc[p].held
       \/ proc'[p].at = "done" /\ proc'[p].run = NoRun /\ proc'[p].held = NoCard
    /\ Moving(p)' => Moving(p)
    /\ Resuming(p)' => Resuming(p)
    /\ proc'[p].at = "dispatch" => proc[p].at \in {"plan", "close", "dispatch"}
    /\ InPlace(p)'

LEMMA GoHands ==
    ASSUME TypeOK, NEW p \in Proc, NEW place, Go(p, place)
    PROVE  /\ Hands(p, place, proc[p].run, proc[p].held, proc[p].cards)
           /\ proc'[p].out = proc[p].out /\ proc'[p].put = proc[p].put
           /\ proc'[p].paused = proc[p].paused /\ proc'[p].verdict = proc[p].verdict
BY DEF TypeOK, Go, Hands, Others, Memory

LEMMA EndHands ==
    ASSUME TypeOK, NEW p \in Proc, End(p)
    PROVE  Hands(p, "done", NoRun, NoCard, {}) /\ proc'[p].paused = FALSE
BY DEF TypeOK, End, Hands, Others, Idle

\* What a step of a round comes to, at each node.
Outcome(p, n) ==
    \/ /\ proc'[p].out[n] = proc[p].out[n]
       /\ row'[proc[p].run][n] = row[proc[p].run][n] /\ ran'[proc[p].run][n] = ran[proc[p].run][n]
    \/ /\ proc[p].out[n] = "none" /\ proc'[p].out[n] = "ok"
       /\ \/ row'[proc[p].run][n] = "succeeded"
          \/ row'[proc[p].run][n] = row[proc[p].run][n] /\ n \in lost'[proc[p].run]
       /\ ran'[proc[p].run][n] = ran[proc[p].run][n] + 1
    \/ /\ proc[p].out[n] \in {"none", "ask"} /\ proc'[p].out[n] # "ok"
       /\ row'[proc[p].run][n] \in {row[proc[p].run][n], "failed", "running", "skipped", "timeout"}
       /\ ran'[proc[p].run][n] = ran[proc[p].run][n]

\* What the database did not take stays lost.
LostGrows == faults' \in {faults, faults + 1} /\ \A q \in Run : lost[q] \subseteq lost'[q]

OtherRuns(r) == \A s \in Run : s # r => row'[s] = row[s] /\ ran'[s] = ran[s]

\* A step of a round that asks nothing.
RoundStep(p) ==
    /\ At(p, "dispatch")
    /\ Hands(p, "dispatch", proc[p].run, proc[p].held, proc[p].cards)
    /\ proc'[p].paused = proc[p].paused
    /\ UNCHANGED <<plan, status, round, card, issued, sweep>> /\ LostGrows
    /\ OtherRuns(proc[p].run) /\ \A n \in Node : Outcome(p, n)

LEMMA RoundEffect ==
    ASSUME TypeOK, NEW p \in Proc, NEW n \in Node, proc[p].run \in Run,
           Succeed(p, n) \/ Break(p, n) \/ Stage(p, n) \/ Skip(p, n) \/ SkipPaused(p, n)
    PROVE  RoundStep(p)
<1> USE DEF TypeOK
<1> DEFINE r == proc[p].run
<1>0. proc[p] \in Memory /\ r \in Run
  OBVIOUS
<1>1. CASE Succeed(p, n)
  <2>1. PICK more \in BOOLEAN :
          proc' = [proc EXCEPT ![p].out[n] = "ok", ![p].again = @ \/ more]
    BY <1>1 DEF Succeed
  <2> DEFINE b == proc[p].again \/ more
  <2>3. proc' = [proc EXCEPT ![p].out[n] = "ok", ![p].again = b]
    BY <2>1
  <2> HIDE DEF b
  <2>4. Hands(p, "dispatch", r, proc[p].held, proc[p].cards) /\ proc'[p].paused = proc[p].paused
    BY <1>0, <1>1, <2>3 DEF Memory, Hands, Others, Succeed, Clear, Ready
  <2>5. proc'[p].out = [proc[p].out EXCEPT ![n] = "ok"] /\ proc[p].out[n] = "none"
    BY <1>0, <1>1, <2>3 DEF Memory, Succeed, Clear, Ready, Out
  <2>2. RowSays(p, n, "succeeded") /\ Ran(p, n)
    BY <1>1 DEF Succeed
  <2>6. /\ LostGrows
        /\ row' = [row EXCEPT ![r][n] = "succeeded"] \/ (row' = row /\ n \in lost'[r])
        /\ ran' = [ran EXCEPT ![r][n] = ran[r][n] + 1]
    BY <1>0, <2>2, RowTypes DEF Ran, NodeStatus, LostGrows
  <2>7. \A m \in Node : Outcome(p, m)
    BY <1>0, <2>5, <2>6 DEF Outcome, Memory
  <2>8. OtherRuns(r)
    BY <1>0, <2>6 DEF OtherRuns
  <2> QED
    BY <1>1, <2>4, <2>6, <2>7, <2>8 DEF Succeed, Stepping, RoundStep, Clear, Ready
<1>2. CASE Stage(p, n)
  <2>4. Hands(p, "dispatch", r, proc[p].held, proc[p].cards) /\ proc'[p].paused = proc[p].paused
    BY <1>0, <1>2 DEF Memory, Hands, Others, Stage, Clear, Ready
  <2>5. proc'[p].out = [proc[p].out EXCEPT ![n] = "ok"] /\ proc[p].out[n] = "none"
    BY <1>0, <1>2 DEF Memory, Stage, Clear, Ready, Out
  <2>6. /\ LostGrows
        /\ row' = [row EXCEPT ![r][n] = "succeeded"] \/ (row' = row /\ n \in lost'[r])
        /\ ran' = [ran EXCEPT ![r][n] = ran[r][n] + 1]
    BY <1>0, <1>2, RowTypes DEF Stage, Ran, NodeStatus, LostGrows
  <2>7. \A m \in Node : Outcome(p, m)
    BY <1>0, <2>5, <2>6 DEF Outcome, Memory
  <2>8. OtherRuns(r)
    BY <1>0, <2>6 DEF OtherRuns
  <2> QED
    BY <1>2, <2>4, <2>6, <2>7, <2>8 DEF Stage, Stepping, RoundStep, Clear, Ready
<1>3. CASE Break(p, n)
  <2>1. \/ proc' = [proc EXCEPT ![p].out[n] = "bad"]
        \/ proc' = [proc EXCEPT ![p].out[n] = "bad", ![p].again = TRUE]
        \/ proc' = [proc EXCEPT ![p].out[n] = "bad", ![p].reauth = TRUE]
    BY <1>3 DEF Break
  <2>4. /\ Hands(p, "dispatch", r, proc[p].held, proc[p].cards) /\ proc'[p].paused = proc[p].paused
        /\ proc'[p].out = [proc[p].out EXCEPT ![n] = "bad"] /\ proc[p].out[n] = "none"
    <3> USE DEF Memory, Hands, Others, Break, Clear, Ready, Out
    <3>1. CASE proc' = [proc EXCEPT ![p].out[n] = "bad"]
      BY <1>0, <1>3, <3>1
    <3>2. CASE proc' = [proc EXCEPT ![p].out[n] = "bad", ![p].again = TRUE]
      BY <1>0, <1>3, <3>2
    <3>3. CASE proc' = [proc EXCEPT ![p].out[n] = "bad", ![p].reauth = TRUE]
      BY <1>0, <1>3, <3>3
    <3> QED
      BY <2>1, <3>1, <3>2, <3>3
  <2>5. RowSays(p, n, "failed") /\ UNCHANGED ran
    BY <1>3 DEF Break
  <2>6. (row' = [row EXCEPT ![r][n] = "failed"] \/ row' = row) /\ UNCHANGED ran /\ LostGrows
    BY <1>0, <2>5, RowTypes DEF NodeStatus, LostGrows
  <2>7. \A m \in Node : Outcome(p, m)
    BY <1>0, <2>4, <2>6 DEF Outcome, Memory
  <2>8. OtherRuns(r)
    BY <1>0, <2>6 DEF OtherRuns
  <2> QED
    BY <1>3, <2>4, <2>6, <2>7, <2>8 DEF Break, Stepping, RoundStep, Clear, Ready
<1>4. ASSUME NEW o \in {"skip", "parked"}, Ready(p, n), proc' = [proc EXCEPT ![p].out[n] = o],
             RowSays(p, n, "skipped") \/ NoRow, Stepping, UNCHANGED ran
      PROVE  RoundStep(p)
  <2>4. Hands(p, "dispatch", r, proc[p].held, proc[p].cards) /\ proc'[p].paused = proc[p].paused
    BY <1>0, <1>4 DEF Memory, Hands, Others, Ready
  <2>5. proc'[p].out = [proc[p].out EXCEPT ![n] = o] /\ proc[p].out[n] = "none"
    BY <1>0, <1>4 DEF Memory, Ready, Out
  <2>6. (row' = [row EXCEPT ![r][n] = "skipped"] \/ row' = row) /\ LostGrows
    BY <1>0, <1>4, RowTypes DEF NoRow, NodeStatus, LostGrows
  <2>7. \A m \in Node : Outcome(p, m)
    BY <1>0, <1>4, <2>5, <2>6 DEF Outcome, Memory
  <2>8. OtherRuns(r)
    BY <1>0, <1>4, <2>6 DEF OtherRuns
  <2> QED
    BY <1>4, <2>4, <2>6, <2>7, <2>8 DEF Stepping, RoundStep, Ready
<1>5. CASE Skip(p, n)
  BY <1>4, <1>5 DEF Skip
<1>6. CASE SkipPaused(p, n)
  BY <1>4, <1>6 DEF SkipPaused
<1> QED
  BY <1>1, <1>2, <1>3, <1>5, <1>6

LEMMA DeadlineEffect ==
    ASSUME TypeOK, NEW p \in Proc, proc[p].run \in Run, Deadline(p)
    PROVE  RoundStep(p)
<1> USE DEF TypeOK
<1>0. proc[p] \in Memory
  OBVIOUS
<1> DEFINE r == proc[p].run
           left == {n \in plan[r].steps : Out(p, n) \in {"none", "ask"}}
           out == [n \in Node |-> IF n \in left THEN "late" ELSE proc[p].out[n]]
           new(missed) == [n \in Node |-> IF n \in left \ missed THEN "timeout" ELSE row[r][n]]
<1>6. PICK missed : row' = [row EXCEPT ![r] = new(missed)]
  BY DEF Deadline
<1>1. proc' = [proc EXCEPT ![p].out = out] /\ UNCHANGED ran /\ LostGrows
  BY FaultType DEF Deadline, LostGrows
<1>2. Hands(p, "dispatch", r, proc[p].held, proc[p].cards) /\ proc'[p].paused = proc[p].paused
  BY <1>0, <1>1 DEF Memory, Hands, Others, Deadline
<1>3. proc'[p].out = out /\ row'[r] = new(missed)
  BY <1>0, <1>1, <1>6 DEF Memory
<1>4. \A m \in Node : Outcome(p, m)
  BY <1>0, <1>1, <1>3 DEF Outcome, Out
<1>5. OtherRuns(r)
  BY <1>0, <1>1, <1>6 DEF OtherRuns
<1> QED
  BY <1>1, <1>2, <1>4, <1>5 DEF Deadline, Stepping, RoundStep

\* A question comes up on screen.
AskStep(p, n) ==
    /\ At(p, "dispatch") /\ n \in plan[proc[p].run].steps /\ Kind(p, n) = "ask"
    /\ Unused # {} /\ Show(proc[p].run, n)
    /\ Hands(p, "dispatch", proc[p].run, proc[p].held, proc[p].cards \cup {NextCard})
    /\ UNCHANGED <<plan, status, round, issued, sweep>> /\ LostGrows
    /\ OtherRuns(proc[p].run) /\ \A m \in Node : Outcome(p, m)

LEMMA AskEffect ==
    ASSUME TypeOK, NEW p \in Proc, NEW n \in Node, proc[p].run \in Run, Ask(p, n) \/ AskToo(p, n)
    PROVE  AskStep(p, n)
<1> USE DEF TypeOK
<1> DEFINE r == proc[p].run
           cards == proc[p].cards \cup {NextCard}
<1>0. proc[p] \in Memory
  OBVIOUS
<1>1. /\ Hands(p, "dispatch", r, proc[p].held, cards)
      /\ proc'[p].out = [proc[p].out EXCEPT ![n] = "ask"] /\ proc[p].out[n] = "none"
  <2>1. CASE Ask(p, n)
    <3>1. proc' = [proc EXCEPT ![p].out[n] = "ask", ![p].paused = TRUE, ![p].cards = cards]
      BY <2>1 DEF Ask
    <3> HIDE DEF cards
    <3> QED
      BY <1>0, <2>1, <3>1 DEF Memory, Hands, Others, Ask, Clear, Ready, Out
  <2>2. CASE AskToo(p, n)
    <3>1. proc' = [proc EXCEPT ![p].out[n] = "ask", ![p].cards = cards]
      BY <2>2 DEF AskToo
    <3> HIDE DEF cards
    <3> QED
      BY <1>0, <2>2, <3>1 DEF Memory, Hands, Others, AskToo, Ready, Out
  <2> QED
    BY <2>1, <2>2
<1>2. (row' = [row EXCEPT ![r][n] = "running"] \/ row' = row) /\ UNCHANGED ran /\ LostGrows
  <2>1. RowSays(p, n, "running") /\ UNCHANGED ran
    BY DEF Ask, AskToo
  <2> QED
    BY <2>1, RowTypes DEF NodeStatus, OpenRow, LostGrows
<1>3. \A m \in Node : Outcome(p, m)
  BY <1>0, <1>1, <1>2 DEF Outcome, Memory
<1>4. OtherRuns(r)
  BY <1>0, <1>2 DEF OtherRuns
<1>5. Show(r, n) /\ Unused # {} /\ n \in plan[r].steps /\ Kind(p, n) = "ask" /\ At(p, "dispatch")
        /\ UNCHANGED <<plan, status, round, issued, sweep>>
  BY DEF Ask, AskToo, Clear, Ready
<1> QED
  BY <1>1, <1>2, <1>3, <1>4, <1>5 DEF AskStep

LEMMA CloseHands ==
    ASSUME TypeOK, NEW p \in Proc, NEW verdict, NEW cards, CloseRound(p, verdict, cards)
    PROVE  /\ Hands(p, "write", proc[p].run, proc[p].held, cards)
           /\ proc'[p].verdict = verdict /\ proc'[p].paused = FALSE
BY DEF TypeOK, CloseRound, Hands, Others, Idle

LEMMA ReplanHands ==
    ASSUME TypeOK, NEW r \in Run, Replan(r)
    PROVE  /\ Hands(r, "dispatch", proc[r].run, proc[r].held, proc[r].cards)
           /\ proc'[r].paused = proc[r].paused
<1>0. proc[r] \in Memory /\ r \in Proc
  BY DEF Proc, TypeOK
<1> DEFINE out == [n \in Node |-> IF proc[r].out[n] = "ok" THEN "ok" ELSE "none"]
<1>1. proc' = [proc EXCEPT ![r].out = out, ![r].staged = {}, ![r].again = FALSE, ![r].reauth = FALSE]
  BY DEF Replan
<1>2. At(r, "dispatch")
  BY DEF Replan, RoundOver
<1> HIDE DEF out
<1> QED
  BY <1>0, <1>1, <1>2 DEF Memory, Hands, Others, TypeOK

LEMMA RebuildHands ==
    ASSUME TypeOK, NEW p \in Proc, Rebuild(p)
    PROVE  /\ Hands(p, "mark", proc[p].run, proc[p].held, proc[p].cards)
           /\ proc'[p].paused = proc[p].paused
           /\ proc'[p].put = Placed(proc[p].run, proc[p].held)
           /\ proc'[p].out = [n \in Node |->
                IF row[proc[p].run][n] = "succeeded" \/ n = Placed(proc[p].run, proc[p].held)
                THEN "ok" ELSE "none"]
<1>0. proc[p] \in Memory
  BY DEF TypeOK
<1> DEFINE n0 == Placed(proc[p].run, proc[p].held)
           out == [n \in Node |-> IF row[proc[p].run][n] = "succeeded" \/ n = n0 THEN "ok" ELSE "none"]
<1>1. proc' = [proc EXCEPT ![p].at = "mark", ![p].put = n0, ![p].out = out]
  BY DEF Rebuild
<1>2. Hands(p, "mark", proc[p].run, proc[p].held, proc[p].cards) /\ proc'[p].paused = proc[p].paused
        /\ proc'[p].put = n0 /\ proc'[p].out = out
  <2> HIDE DEF n0, out
  <2> QED
    BY <1>0, <1>1 DEF Memory, Hands, Others, TypeOK
<1> QED
  BY <1>2

OnwardStep(p) ==
    \/ RoundStep(p) \/ Conclude(p) \/ Crashed(p) \/ Rebuild(p) \/ MarkResumed(p) \/ CloseQuestion(p)
    \/ Settle(p) \/ SettleLost(p) \/ MarkFailed(p) \/ Refused(p)
    \/ (p \in Run /\ (Replan(p) \/ Say(p) \/ WriteSteps(p)))

LEMMA SetStatusKeeps ==
    ASSUME TypeOK, NEW r, NEW s, s # "none", SetStatus(r, s)
    PROVE  \A q \in Run : status'[q] = "none" => status[q] = "none"
BY DEF TypeOK, SetStatus

LEMMA OnwardSteps ==
    ASSUME TypeOK, NEW p \in Proc, InPlace(p), OnwardStep(p)
    PROVE  Onward(p)
<1> USE DEF TypeOK, Onward
<1>0. proc[p] \in Memory
  OBVIOUS
<1>1. CASE RoundStep(p)
  BY <1>1 DEF RoundStep, Hands, InPlace, Working, Moving, Resuming
<1>2. CASE Conclude(p)
  <2>1. Hands(p, "write", proc[p].run, proc[p].held, proc[p].cards) /\ proc'[p].verdict = Verdict(p)
    BY <1>2, CloseHands DEF Conclude
  <2>2. Verdict(p) # "none"
    BY DEF Verdict
  <2> QED
    BY <1>2, <2>1, <2>2 DEF Hands, InPlace, Working, Moving, Resuming, Conclude, RoundOver, tables
<1>3. CASE Crashed(p)
  <2>1. Hands(p, "failing", proc[p].run, proc[p].held, proc[p].cards)
    BY <1>3, GoHands DEF Crashed
  <2> QED
    BY <1>3, <2>1 DEF Hands, InPlace, Working, Moving, Resuming, Crashed, tables
<1>4. CASE Rebuild(p)
  <2>1. Hands(p, "mark", proc[p].run, proc[p].held, proc[p].cards)
    BY <1>4, RebuildHands
  <2> QED
    BY <1>4, <2>1 DEF Hands, InPlace, Working, Moving, Resuming, Rebuild, tables
<1>5. CASE MarkResumed(p)
  <2>1. Hands(p, "close", proc[p].run, proc[p].held, proc[p].cards)
    BY <1>5, GoHands DEF MarkResumed
  <2> QED
    BY <1>5, <2>1 DEF Hands, InPlace, Working, Moving, Resuming, MarkResumed
<1>6. CASE CloseQuestion(p)
  <2>1. Hands(p, "dispatch", proc[p].run, proc[p].held, proc[p].cards)
    BY <1>6, GoHands DEF CloseQuestion
  <2> QED
    BY <1>6, <2>1 DEF Hands, InPlace, Working, Moving, Resuming, CloseQuestion
<1>7. ASSUME End(p), Working(p), UNCHANGED <<plan, card, issued>>,
             \A r \in Run : status'[r] = "none" => status[r] = "none"
      PROVE  Onward(p)
  <2>1. Hands(p, "done", NoRun, NoCard, {})
    BY <1>7, EndHands
  <2> QED
    BY <1>7, <2>1 DEF Hands, InPlace, Working, Moving, Resuming
<1>8. CASE Settle(p)
  <2>1. proc[p].verdict # "none"
    BY <1>8 DEF Settle, InPlace
  <2> QED
    BY <1>7, <1>8, <2>1, SetStatusKeeps DEF Settle, Working
<1>9. CASE SettleLost(p)
  BY <1>7, <1>9 DEF SettleLost, Working, tables
<1>10. CASE MarkFailed(p)
  BY <1>7, <1>10, SetStatusKeeps DEF MarkFailed, Working
<1>11. CASE Refused(p)
  BY <1>7, <1>11 DEF Refused, Working, tables
<1>12. CASE p \in Run /\ Replan(p)
  <2>1. Hands(p, "dispatch", proc[p].run, proc[p].held, proc[p].cards)
    BY <1>12, ReplanHands
  <2> QED
    BY <1>12, <2>1 DEF Hands, InPlace, Working, Moving, Resuming, Replan, RoundOver
<1>13. CASE p \in Run /\ Say(p)
  <2>1. Hands(p, "settle", proc[p].run, proc[p].held, proc[p].cards) /\ proc'[p].verdict = "complete"
    BY <1>0, <1>13 DEF Say, Memory, Hands, Others
  <2> QED
    BY <1>13, <2>1 DEF Hands, InPlace, Working, Moving, Resuming, Say, tables
<1>14. CASE p \in Run /\ WriteSteps(p)
  <2>1. Hands(p, "dispatch", proc[p].run, proc[p].held, proc[p].cards)
    BY <1>14, GoHands DEF WriteSteps
  <2> QED
    BY <1>14, <2>1 DEF Hands, InPlace, Working, Moving, Resuming, WriteSteps
<1> QED
  BY <1>1, <1>2, <1>3, <1>4, <1>5, <1>6, <1>8, <1>9, <1>10, <1>11, <1>12, <1>13, <1>14 DEF OnwardStep

----------------------------------------------------------------------------
(* A card is held by one.                                                  *)

LEMMA OtherInPlace ==
    ASSUME NEW p \in Proc, NEW q \in Proc, q # p, Others(p), InPlace(q)
    PROVE  InPlace(q)'
BY DEF Others, InPlace, Working

LEMMA CardsOnward ==
    ASSUME TypeOK, TypeOK', CardsHeld, NEW p \in Proc, Onward(p)
    PROVE  CardsHeld'
<1>1. \A q \in Proc : InPlace(q)'
  BY OtherInPlace DEF CardsHeld, Onward
<1>2. \A c \in Card : card'[c].state # "unused" => card'[c].run \in Run
  BY DEF CardsHeld, Onward
<1>3. \A q \in Proc : proc'[q].cards \subseteq proc[q].cards /\ (proc'[q].cards # {} => proc'[q].run = proc[q].run)
  BY DEF Onward, Others, InPlace
<1>4. \A q \in Proc : \A c \in proc'[q].cards : card'[c].state = "shown" /\ card'[c].run = proc'[q].run
  BY <1>3 DEF CardsHeld, Onward
<1>5. \A q, o \in Proc : q # o => proc'[q].cards \cap proc'[o].cards = {}
  BY <1>3 DEF CardsHeld
<1>6. \A q \in Proc : proc'[q].held # NoCard =>
        proc'[q].held = proc[q].held /\ proc'[q].run = proc[q].run /\ (Resuming(q)' => Resuming(q))
  BY DEF Onward, Others, Resuming
<1>7. Filed' = Filed
  BY DEF Onward, Filed
<1>8. \A q \in Proc : proc'[q].held # NoCard =>
        /\ proc'[q].held \in Filed' /\ card'[proc'[q].held].run = proc'[q].run
        /\ Resuming(q)' => card'[proc'[q].held].state = "answered"
  BY <1>6, <1>7 DEF CardsHeld, Onward
<1>9. ResumedOnce'
  <2> SUFFICES ASSUME NEW q \in Proc, NEW o \in Proc, Resuming(q)', Resuming(o)', q # o
               PROVE  proc'[q].held # proc'[o].held
    BY DEF ResumedOnce
  <2>1. proc'[q].held # NoCard /\ proc'[o].held # NoCard
    BY DEF Resuming
  <2> QED
    BY <1>6, <2>1 DEF CardsHeld, ResumedOnce
<1> QED
  BY <1>1, <1>2, <1>4, <1>5, <1>8, <1>9 DEF CardsHeld

LEMMA CardsStart ==
    ASSUME TypeOK, TypeOK', CardsHeld, NEW r \in Run, StartTurn(r)
    PROVE  CardsHeld' /\ Hands(r, "plan", r, NoCard, {})
<1>0. proc[r] \in Memory /\ r \in Proc /\ proc[r].at = "idle" /\ InPlace(r)
  BY DEF TypeOK, Proc, StartTurn, CardsHeld
<1>1. Hands(r, "plan", r, NoCard, {}) /\ UNCHANGED card
  BY <1>0 DEF StartTurn, TypeOK, Memory, Hands, Others, InPlace
<1>2. InPlace(r)'
  BY <1>0, <1>1 DEF Hands, InPlace, Working
<1>3. \A q \in Proc : InPlace(q)'
  BY <1>0, <1>1, <1>2, OtherInPlace DEF Hands, CardsHeld
<1>4. \A q \in Proc : q # r => proc'[q] = proc[q]
  BY <1>1 DEF Hands, Others
<1>5. Filed' = Filed
  BY <1>1 DEF Filed
<1>6. \A q \in Proc : \A c \in proc'[q].cards : card'[c].state = "shown" /\ card'[c].run = proc'[q].run
  BY <1>1, <1>4 DEF CardsHeld, Hands
<1>7. \A q, o \in Proc : q # o => proc'[q].cards \cap proc'[o].cards = {}
  BY <1>1, <1>4 DEF CardsHeld, Hands
<1>8. \A q \in Proc : proc'[q].held # NoCard =>
        /\ proc'[q].held \in Filed' /\ card'[proc'[q].held].run = proc'[q].run
        /\ Resuming(q)' => card'[proc'[q].held].state = "answered"
  BY <1>1, <1>4, <1>5 DEF CardsHeld, Hands, Resuming
<1>9. ResumedOnce'
  BY <1>1, <1>4 DEF CardsHeld, ResumedOnce, Hands, Resuming
<1>10. \A c \in Card : card'[c].state # "unused" => card'[c].run \in Run
  BY <1>1 DEF CardsHeld
<1> QED
  BY <1>1, <1>3, <1>6, <1>7, <1>8, <1>9, <1>10 DEF CardsHeld

\* A card comes up on the screen of the process that raised it.
LEMMA CardsShow ==
    ASSUME TypeOK, TypeOK', CardsHeld, NEW p \in Proc, Unused # {}, At(p, "dispatch"),
           NEW n, Show(proc[p].run, n),
           NEW at \in {"dispatch", "write"},
           NEW cards \in {{NextCard}, proc[p].cards \cup {NextCard}},
           Hands(p, at, proc[p].run, proc[p].held, cards), at = "write" => proc'[p].verdict # "none"
    PROVE  CardsHeld'
<1>0. NextCard \in Card /\ card[NextCard].state = "unused"
  BY NextIsUnused DEF Unused
<1>1. /\ card'[NextCard].state = "shown" /\ card'[NextCard].run = proc[p].run
      /\ \A c \in Card : c # NextCard => card'[c] = card[c]
  BY <1>0 DEF Show, TypeOK
<1>2. InPlace(p)' /\ proc[p].run \in Run
  BY DEF Hands, InPlace, Working, CardsHeld
<1>3. \A q \in Proc : InPlace(q)'
  BY <1>2, OtherInPlace DEF Hands, CardsHeld
<1>4. \A q \in Proc : q # p => proc'[q] = proc[q]
  BY DEF Hands, Others
<1>5. \A q \in Proc : NextCard \notin proc[q].cards
  BY <1>0 DEF CardsHeld
<1>6. \A q \in Proc : \A c \in proc[q].cards : c \in Card
  BY DEF TypeOK, Memory
<1>7. \A q \in Proc : \A c \in proc'[q].cards : card'[c].state = "shown" /\ card'[c].run = proc'[q].run
  <2>1. \A q \in Proc : \A c \in proc[q].cards : card'[c].state = "shown" /\ card'[c].run = proc[q].run
    BY <1>1, <1>5, <1>6 DEF CardsHeld
  <2> QED
    BY <1>1, <1>4, <2>1 DEF Hands
<1>8. \A q, o \in Proc : q # o => proc'[q].cards \cap proc'[o].cards = {}
  BY <1>4, <1>5 DEF CardsHeld, Hands
<1>9. \A q \in Proc : proc'[q].held = proc[q].held /\ proc'[q].run = proc[q].run
                        /\ (Resuming(q)' <=> Resuming(q))
  BY <1>4 DEF Hands, Resuming
<1>10. \A c \in Filed : c \in Filed' /\ card'[c] = card[c]
  BY <1>0, <1>1 DEF Filed
<1>11. \A q \in Proc : proc'[q].held # NoCard =>
        /\ proc'[q].held \in Filed' /\ card'[proc'[q].held].run = proc'[q].run
        /\ Resuming(q)' => card'[proc'[q].held].state = "answered"
  BY <1>9, <1>10 DEF CardsHeld
<1>12. ResumedOnce'
  BY <1>9 DEF CardsHeld, ResumedOnce
<1>13. \A c \in Card : card'[c].state # "unused" => card'[c].run \in Run
  BY <1>1, <1>2 DEF CardsHeld
<1> QED
  BY <1>3, <1>7, <1>8, <1>11, <1>12, <1>13 DEF CardsHeld

LEMMA InsertHands ==
    ASSUME TypeOK, NEW p \in Proc, WriteMessage(p) \/ FailMessage(p)
    PROVE  /\ proc[p].at \in {"write", "failing"}
           /\ Hands(p, IF At(p, "write") THEN "settle" ELSE "mark_failed", proc[p].run, proc[p].held, {})
           /\ proc'[p].verdict = proc[p].verdict /\ proc'[p].paused = proc[p].paused
           /\ Insert(p) /\ UNCHANGED <<plan, status, row, round, ran, lost, sweep, faults>>
BY DEF TypeOK, WriteMessage, FailMessage, Memory, Hands, Others

\* What an insert does with a card.
LEMMA InsertCard ==
    ASSUME TypeOK, NEW p \in Proc, Insert(p), NEW c \in Card
    PROVE  /\ card'[c].run = card[c].run /\ card'[c].node = card[c].node
           /\ c \in proc[p].cards => card'[c].state \in {"superseded", "pending"}
           /\ c \notin proc[p].cards =>
                card'[c].state = card[c].state \/ (Pending(c) /\ card'[c].state = "superseded")
<1>1. card[c] \in CardRow
  BY DEF TypeOK
<1> QED
  BY <1>1 DEF Insert, CardRow, Pending

LEMMA CardsInsert ==
    ASSUME TypeOK, TypeOK', CardsHeld, NEW p \in Proc, WriteMessage(p) \/ FailMessage(p)
    PROVE  CardsHeld'
<1> DEFINE at == IF At(p, "write") THEN "settle" ELSE "mark_failed"
<1>0. /\ proc[p].at \in {"write", "failing"} /\ Hands(p, at, proc[p].run, proc[p].held, {})
      /\ proc'[p].verdict = proc[p].verdict /\ Insert(p)
  BY InsertHands
<1>1. InPlace(p)'
  BY <1>0 DEF Hands, InPlace, Working, CardsHeld
<1>2. \A q \in Proc : InPlace(q)'
  BY <1>0, <1>1, OtherInPlace DEF Hands, CardsHeld
<1>3. \A q \in Proc : q # p => proc'[q] = proc[q]
  BY <1>0 DEF Hands, Others
<1>4. \A q \in Proc : \A c \in proc[q].cards : c \in Card
  BY DEF TypeOK, Memory
<1>5. \A q \in Proc : \A c \in proc'[q].cards : card'[c].state = "shown" /\ card'[c].run = proc'[q].run
  <2> SUFFICES ASSUME NEW q \in Proc, NEW c \in proc'[q].cards
               PROVE  card'[c].state = "shown" /\ card'[c].run = proc'[q].run
    OBVIOUS
  <2>1. q # p /\ c \in proc[q].cards /\ c \in Card
    BY <1>0, <1>3, <1>4 DEF Hands
  <2>2. c \notin proc[p].cards /\ card[c].state = "shown" /\ card[c].run = proc[q].run
    BY <2>1 DEF CardsHeld
  <2> QED
    BY <1>0, <1>3, <2>1, <2>2, InsertCard DEF Pending
<1>6. \A q, o \in Proc : q # o => proc'[q].cards \cap proc'[o].cards = {}
  BY <1>0, <1>3 DEF CardsHeld, Hands
<1>7. \A q \in Proc : proc'[q].held = proc[q].held /\ proc'[q].run = proc[q].run
                        /\ (Resuming(q)' <=> Resuming(q))
  BY <1>0, <1>3 DEF Hands, Resuming
<1>8. \A c \in Filed : c \in Filed' /\ card'[c].run = card[c].run
                        /\ (card[c].state = "answered" => card'[c].state = "answered")
  <2> SUFFICES ASSUME NEW c \in Filed
               PROVE  c \in Filed' /\ card'[c].run = card[c].run
                        /\ (card[c].state = "answered" => card'[c].state = "answered")
    OBVIOUS
  <2>1. c \in Card /\ c \notin proc[p].cards
    BY DEF Filed, CardsHeld
  <2> QED
    BY <1>0, <2>1, InsertCard DEF Filed, Pending
<1>9. \A q \in Proc : proc'[q].held # NoCard =>
        /\ proc'[q].held \in Filed' /\ card'[proc'[q].held].run = proc'[q].run
        /\ Resuming(q)' => card'[proc'[q].held].state = "answered"
  BY <1>7, <1>8 DEF CardsHeld
<1>10. ResumedOnce'
  BY <1>7 DEF CardsHeld, ResumedOnce
<1>11. \A c \in Card : card'[c].state # "unused" => card'[c].run \in Run
  BY <1>0, InsertCard DEF CardsHeld, Pending
<1> QED
  BY <1>2, <1>5, <1>6, <1>9, <1>10, <1>11 DEF CardsHeld

\* A card in the table moves to another state there; one process at most takes it.
FileCard(c, s) ==
    /\ c \in Filed /\ s \in {"answered", "cancelled", "expired"} /\ Pending(c)
    /\ card' = [card EXCEPT ![c].state = s]

LEMMA FileKeeps ==
    ASSUME TypeOK, NEW c \in Card, NEW s, FileCard(c, s)
    PROVE  /\ card'[c].run = card[c].run /\ card'[c].node = card[c].node /\ card'[c].state = s
           /\ \A d \in Card : d # c => card'[d] = card[d]
           /\ Filed' = Filed
<1>1. card[c] \in CardRow
  BY DEF TypeOK
<1>2. /\ card'[c].run = card[c].run /\ card'[c].node = card[c].node /\ card'[c].state = s
      /\ \A d \in Card : d # c => card'[d] = card[d]
  BY <1>1 DEF FileCard, TypeOK, CardRow
<1> QED
  BY <1>2 DEF FileCard, Filed

\* The hands of a process that reads a card, takes it, or lets it go.
LEMMA CardsFile ==
    ASSUME TypeOK, TypeOK', CardsHeld, NEW p \in Proc, NEW c \in Card, proc[p].cards = {},
           \/ UNCHANGED card
           \/ \E s \in {"answered", "cancelled", "expired"} : FileCard(c, s),
           \/ Hands(p, "done", NoRun, NoCard, {})
           \/ UNCHANGED proc
           \/ Hands(p, "answer", card[c].run, c, {}) /\ Pending(c)
           \/ Hands(p, "cancel", card[c].run, c, {}) /\ Pending(c)
           \/ At(p, "answer") /\ Hands(p, "rebuild", proc[p].run, c, {}) /\ FileCard(c, "answered")
                /\ proc[p].held = c
    PROVE  CardsHeld'
<1>1. \A d \in Card : card'[d].run = card[d].run /\ (card[d].state = "answered" => card'[d].state = "answered")
        /\ (card[d].state = "shown" => card'[d].state = "shown")
        /\ (card'[d].state # "unused" => card[d].state # "unused")
  BY FileKeeps DEF FileCard, Pending
<1>2. Filed' = Filed
  <2>1. CASE UNCHANGED card
    BY <2>1 DEF Filed
  <2> QED
    BY <2>1, FileKeeps
<1>3. c \in Card /\ c # NoCard /\ (Pending(c) => c \in Filed /\ card[c].run \in Run)
  BY RunAssumption DEF Pending, Filed, CardsHeld
<1>4. \A q \in Proc : q # p => proc'[q] = proc[q]
  BY DEF Hands, Others
<1>5. InPlace(p)'
  <2>1. InPlace(p) /\ (At(p, "answer") => proc[p].run \in Run)
    BY DEF CardsHeld, InPlace, Working
  <2>2. CASE Hands(p, "done", NoRun, NoCard, {})
    BY <2>2 DEF InPlace, Hands, Working
  <2>3. CASE UNCHANGED proc
    BY <2>1, <2>3 DEF InPlace, Working
  <2>4. CASE Hands(p, "answer", card[c].run, c, {}) /\ Pending(c)
    BY <1>3, <2>4 DEF InPlace, Hands, Working
  <2>5. CASE Hands(p, "cancel", card[c].run, c, {}) /\ Pending(c)
    BY <1>3, <2>5 DEF InPlace, Hands, Working
  <2>6. CASE At(p, "answer") /\ Hands(p, "rebuild", proc[p].run, c, {})
    BY <1>3, <2>1, <2>6 DEF InPlace, Hands, Working
  <2> QED
    BY <2>2, <2>3, <2>4, <2>5, <2>6
<1>6. \A q \in Proc : InPlace(q)'
  BY <1>4, <1>5 DEF CardsHeld, InPlace, Working
<1>7. proc'[p].cards = {}
  BY DEF Hands
<1>8. \A q \in Proc : \A d \in proc[q].cards : d \in Card
  BY DEF TypeOK, Memory
<1>9. \A q \in Proc : \A d \in proc'[q].cards : card'[d].state = "shown" /\ card'[d].run = proc'[q].run
  BY <1>1, <1>4, <1>7, <1>8 DEF CardsHeld
<1>10. \A q, o \in Proc : q # o => proc'[q].cards \cap proc'[o].cards = {}
  BY <1>4, <1>7 DEF CardsHeld
<1>11. \A d \in Card : card'[d].state # "unused" => card'[d].run \in Run
  BY <1>1 DEF CardsHeld
<1>12. \A q \in Proc : q # p /\ proc[q].held # NoCard =>
        /\ proc'[q].held \in Filed' /\ card'[proc'[q].held].run = proc'[q].run
        /\ Resuming(q)' => card'[proc'[q].held].state = "answered"
  <2> SUFFICES ASSUME NEW q \in Proc, q # p, proc[q].held # NoCard
               PROVE  /\ proc'[q].held \in Filed' /\ card'[proc'[q].held].run = proc'[q].run
                      /\ Resuming(q)' => card'[proc'[q].held].state = "answered"
    OBVIOUS
  <2>1. proc'[q] = proc[q] /\ (Resuming(q)' => Resuming(q))
    BY <1>4 DEF Resuming
  <2>2. proc[q].held \in Filed /\ proc[q].held \in Card
    BY DEF CardsHeld, Filed
  <2> QED
    BY <1>1, <1>2, <2>1, <2>2 DEF CardsHeld
<1>13. proc'[p].held # NoCard =>
        /\ proc'[p].held \in Filed' /\ card'[proc'[p].held].run = proc'[p].run
        /\ Resuming(p)' => card'[proc'[p].held].state = "answered"
  <2>1. CASE Hands(p, "done", NoRun, NoCard, {})
    BY <2>1 DEF Hands
  <2>2. CASE UNCHANGED proc
    <3>1. proc'[p] = proc[p] /\ (Resuming(p)' => Resuming(p))
      BY <2>2 DEF Resuming
    <3>2. proc[p].held # NoCard => proc[p].held \in Filed /\ proc[p].held \in Card
      BY DEF CardsHeld, Filed
    <3> QED
      BY <1>1, <1>2, <3>1, <3>2 DEF CardsHeld
  <2>3. CASE (Hands(p, "answer", card[c].run, c, {}) \/ Hands(p, "cancel", card[c].run, c, {})) /\ Pending(c)
    BY <1>1, <1>2, <1>3, <2>3 DEF Hands, Resuming
  <2>4. CASE At(p, "answer") /\ Hands(p, "rebuild", proc[p].run, c, {}) /\ FileCard(c, "answered")
               /\ proc[p].held = c
    <3>1. card[c].run = proc[p].run /\ c \in Filed
      BY <1>3, <2>4 DEF CardsHeld
    <3> QED
      BY <1>1, <1>2, <1>3, <2>4, <3>1, FileKeeps DEF Hands
  <2> QED
    BY <2>1, <2>2, <2>3, <2>4
<1>14. \A q \in Proc : Resuming(q)' => \/ Resuming(q) /\ proc'[q].held = proc[q].held
                                       \/ q = p /\ proc'[q].held = c /\ Pending(c)
  BY <1>4 DEF Hands, Resuming, FileCard
<1>15. \A q \in Proc : Resuming(q) => ~Pending(proc[q].held)
  BY DEF CardsHeld, Pending, Resuming
<1>16. ResumedOnce'
  BY <1>14, <1>15 DEF CardsHeld, ResumedOnce
<1> QED
  BY <1>6, <1>9, <1>10, <1>11, <1>12, <1>13, <1>4, <1>16 DEF CardsHeld

LEMMA CardsDie ==
    ASSUME TypeOK, TypeOK', CardsHeld, NEW p \in Proc, Die(p)
    PROVE  CardsHeld'
<1>1. Hands(p, "done", NoRun, NoCard, {})
  BY EndHands DEF Die
<1>2. \A q \in Proc : \A c \in proc[q].cards : c \in Card
  BY DEF TypeOK, Memory
<1>3. \A c \in Card : c \notin proc[p].cards => card'[c] = card[c]
  BY DEF Die
<1>4. \A c \in Card : card'[c].run = card[c].run /\ (card'[c].state = "unused" <=> card[c].state = "unused")
  <2> SUFFICES ASSUME NEW c \in Card
               PROVE  card'[c].run = card[c].run /\ (card'[c].state = "unused" <=> card[c].state = "unused")
    OBVIOUS
  <2>1. card[c] \in CardRow
    BY DEF TypeOK
  <2>2. c \in proc[p].cards => card[c].state = "shown"
    BY DEF CardsHeld
  <2> QED
    BY <2>1, <2>2 DEF Die, CardRow
<1>5. Filed' = Filed
  <2>1. \A c \in proc[p].cards : card[c].state = "shown" /\ card'[c].state = "lost"
    BY <1>2 DEF CardsHeld, Die, TypeOK, CardRow
  <2> QED
    BY <1>3, <2>1 DEF Filed
<1>6. \A q \in Proc : q # p => proc'[q] = proc[q]
  BY <1>1 DEF Hands, Others
<1>7. \A q \in Proc : InPlace(q)'
  <2>1. InPlace(p)'
    BY <1>1 DEF InPlace, Hands, Working
  <2> QED
    BY <1>6, <2>1 DEF CardsHeld, InPlace, Working
<1>8. \A q \in Proc : \A d \in proc'[q].cards : card'[d].state = "shown" /\ card'[d].run = proc'[q].run
  <2> SUFFICES ASSUME NEW q \in Proc, NEW d \in proc'[q].cards
               PROVE  card'[d].state = "shown" /\ card'[d].run = proc'[q].run
    OBVIOUS
  <2>1. q # p /\ d \in proc[q].cards /\ d \in Card /\ proc'[q] = proc[q]
    BY <1>1, <1>2, <1>6 DEF Hands
  <2>2. d \notin proc[p].cards
    BY <2>1 DEF CardsHeld
  <2> QED
    BY <1>3, <2>1, <2>2 DEF CardsHeld
<1>9. \A q, o \in Proc : q # o => proc'[q].cards \cap proc'[o].cards = {}
  BY <1>1, <1>6 DEF CardsHeld, Hands
<1>10. \A d \in Card : card'[d].state # "unused" => card'[d].run \in Run
  BY <1>4 DEF CardsHeld
<1>11. \A q \in Proc : proc'[q].held # NoCard => q # p /\ proc'[q] = proc[q] /\ (Resuming(q)' => Resuming(q))
  BY <1>1, <1>6 DEF Hands, Resuming
<1>12. \A d \in Filed : d \in Card /\ card'[d] = card[d]
  BY <1>3 DEF CardsHeld, Filed
<1>13. \A q \in Proc : proc'[q].held # NoCard =>
        /\ proc'[q].held \in Filed' /\ card'[proc'[q].held].run = proc'[q].run
        /\ Resuming(q)' => card'[proc'[q].held].state = "answered"
  BY <1>5, <1>11, <1>12 DEF CardsHeld
<1>14. ResumedOnce'
  <2>1. \A q \in Proc : Resuming(q)' => Resuming(q) /\ proc'[q].held = proc[q].held
    BY <1>11 DEF Resuming
  <2> QED
    BY <2>1 DEF CardsHeld, ResumedOnce
<1> QED
  BY <1>7, <1>8, <1>9, <1>10, <1>13, <1>14 DEF CardsHeld

LEMMA CardsStill ==
    ASSUME TypeOK, CardsHeld, UNCHANGED <<proc, card>>
    PROVE  CardsHeld'
BY DEF CardsHeld, InPlace, Working, Filed, Resuming, ResumedOnce

----------------------------------------------------------------------------
(* Every step is of one of these kinds.                                    *)

\* A person opens a card, from a request or from a message.
OpenStep(p, c) ==
    \/ p \in Run /\ AnswerOpenCard(p, c)
    \/ Open(p, c, "answer")
    \/ Open(p, c, "cancel")

StillStep == SweepRead \/ (\E r \in Run : Age(r) \/ SweepStep(r)) \/ UNCHANGED vars

LEMMA StepKinds ==
    ASSUME TypeOK, CardsHeld, [Next]_vars
    PROVE  \/ \E r \in Run : StartTurn(r)
           \/ \E p \in Proc : \/ OnwardStep(p) \/ (\E n \in Node : AskStep(p, n)) \/ ParkOnReconnect(p)
                              \/ WriteMessage(p) \/ FailMessage(p) \/ Answer(p) \/ Die(p)
                              \/ \E c \in Card : OpenStep(p, c)
           \/ \E q \in Request : CancelCard(q)
           \/ \E c \in Card : Expire(c)
           \/ StillStep
<1>1. \A p \in Proc : Working(p) => proc[p].run \in Run
  BY DEF CardsHeld, InPlace
<1>2. ASSUME NEW p \in Proc, NEW n \in Node,
             \/ Succeed(p, n) \/ Break(p, n) \/ Stage(p, n) \/ Skip(p, n) \/ SkipPaused(p, n)
             \/ Deadline(p)
      PROVE  OnwardStep(p)
  <2>1. At(p, "dispatch")
    BY <1>2 DEF Succeed, Break, Stage, Skip, SkipPaused, Clear, Ready, Deadline
  <2> QED
    BY <1>1, <1>2, <2>1, RoundEffect, DeadlineEffect DEF OnwardStep, Working
<1>3. ASSUME NEW p \in Proc, Deadline(p) PROVE OnwardStep(p)
  BY <1>1, <1>3, DeadlineEffect DEF OnwardStep, Working, Deadline
<1>4. ASSUME NEW p \in Proc, NEW n \in Node, Ask(p, n) \/ AskToo(p, n) PROVE AskStep(p, n)
  <2>1. At(p, "dispatch")
    BY <1>4 DEF Ask, AskToo, Clear, Ready
  <2> QED
    BY <1>1, <1>4, <2>1, AskEffect DEF Working
<1>5. ASSUME NEW p \in Proc, WorkStep(p)
      PROVE  \/ OnwardStep(p) \/ (\E n \in Node : AskStep(p, n)) \/ ParkOnReconnect(p)
             \/ WriteMessage(p) \/ FailMessage(p) \/ Answer(p)
  BY <1>2, <1>3, <1>4, <1>5 DEF WorkStep, OnwardStep
<1>6. ASSUME NEW p \in Proc, FaultStep(p) PROVE OnwardStep(p) \/ Die(p)
  BY <1>6 DEF FaultStep, OnwardStep
<1>7. ASSUME NEW r \in Run, TurnStep(r)
      PROVE  OnwardStep(r) \/ \E c \in Card : OpenStep(r, c)
  BY <1>7 DEF TurnStep, OnwardStep, OpenStep
<1>8. \A r \in Run : r \in Proc
  BY DEF Proc
<1>9. \A q \in Request : q \in Proc
  BY DEF Proc
<1>10. CASE \E r \in Run : StartTurn(r) \/ TurnStep(r) \/ Age(r) \/ SweepStep(r)
  BY <1>7, <1>8, <1>10 DEF StillStep
<1>11. CASE \E p \in Proc : WorkStep(p) \/ FaultStep(p)
  BY <1>5, <1>6, <1>11
<1>12. CASE \E q \in Request : CancelCard(q) \/ \E c \in Card : Open(q, c, "answer") \/ Open(q, c, "cancel")
  BY <1>9, <1>12 DEF OpenStep
<1>13. CASE UNCHANGED vars
  BY <1>13 DEF StillStep
<1> QED
  BY <1>10, <1>11, <1>12, <1>13 DEF Next, StillStep

LEMMA OpenHands ==
    ASSUME TypeOK, NEW p \in Proc, NEW c \in Card, InPlace(p), OpenStep(p, c)
    PROVE  /\ proc[p].at \in {"idle", "plan"} /\ proc[p].cards = {} /\ Pending(c)
           /\ Hands(p, "answer", card[c].run, c, {}) \/ Hands(p, "cancel", card[c].run, c, {})
           /\ proc'[p].paused = proc[p].paused
           /\ UNCHANGED <<plan, card, issued, row, round, ran, lost, sweep, faults>>
           /\ \A r \in Run : status'[r] = "none" => status[r] = "none"
<1>0. proc[p] \in Memory
  BY DEF TypeOK
<1>1. CASE p \in Run /\ AnswerOpenCard(p, c)
  <2>1. proc[p].at = "plan" /\ proc[p].cards = {} /\ Pending(c)
    BY <1>1 DEF AnswerOpenCard, InPlace, Pending
  <2>2. Hands(p, "answer", card[c].run, c, {}) /\ proc'[p].paused = proc[p].paused
    BY <1>0, <1>1, <2>1 DEF AnswerOpenCard, Hands, Others, Memory, TypeOK
  <2>3. \A r \in Run : status'[r] = "none" => status[r] = "none"
    BY <1>1, SetStatusKeeps DEF AnswerOpenCard
  <2> QED
    BY <1>1, <2>1, <2>2, <2>3 DEF AnswerOpenCard
<1>2. ASSUME NEW place \in {"answer", "cancel"}, Open(p, c, place)
      PROVE  /\ proc[p].at = "idle" /\ proc[p].cards = {} /\ Pending(c)
             /\ Hands(p, place, card[c].run, c, {}) /\ proc'[p].paused = proc[p].paused
             /\ UNCHANGED <<status, plan, card, issued, row, round, ran, lost, sweep, faults>>
  <2>1. proc[p].at = "idle" /\ proc[p].cards = {} /\ Pending(c)
    BY <1>2 DEF Open, InPlace, Pending
  <2>2. Hands(p, place, card[c].run, c, {}) /\ proc'[p].paused = proc[p].paused
    BY <1>0, <1>2, <2>1 DEF Open, Hands, Others, Memory, TypeOK
  <2> QED
    BY <1>2, <2>1, <2>2 DEF Open, tables
<1>3. CASE Open(p, c, "answer")
  BY <1>2, <1>3
<1>4. CASE Open(p, c, "cancel")
  BY <1>2, <1>4
<1> QED
  BY <1>1, <1>3, <1>4 DEF OpenStep

LEMMA AnswerHands ==
    ASSUME TypeOK, CardsHeld, NEW p \in Proc, Answer(p)
    PROVE  /\ At(p, "answer") /\ proc[p].cards = {} /\ proc[p].held \in Card
           /\ FileCard(proc[p].held, "answered") /\ card[proc[p].held].run = proc[p].run
           /\ Hands(p, "rebuild", proc[p].run, proc[p].held, {})
           /\ proc'[p].paused = proc[p].paused
           /\ UNCHANGED <<plan, status, issued, row, round, ran, lost, sweep, faults>>
<1>1. proc[p].cards = {} /\ proc[p].held # NoCard /\ At(p, "answer")
  BY DEF CardsHeld, InPlace, Answer
<1>2. proc[p].held \in Card /\ proc[p].held \in Filed /\ card[proc[p].held].run = proc[p].run
  BY <1>1 DEF CardsHeld, Filed
<1>3. FileCard(proc[p].held, "answered")
  BY <1>2 DEF FileCard, Pending, Answer
<1>4. Hands(p, "rebuild", proc[p].run, proc[p].held, {}) /\ proc'[p].paused = proc[p].paused
  BY <1>1, GoHands DEF Answer
<1> QED
  BY <1>1, <1>2, <1>3, <1>4 DEF Answer

LEMMA CancelHands ==
    ASSUME TypeOK, CardsHeld, NEW p \in Proc, CancelCard(p)
    PROVE  /\ At(p, "cancel") /\ proc[p].cards = {} /\ proc[p].held \in Card
           /\ FileCard(proc[p].held, "cancelled") /\ card[proc[p].held].run = proc[p].run
           /\ Hands(p, "done", NoRun, NoCard, {}) /\ proc'[p].paused = FALSE
           /\ \A r \in Run : status'[r] = "none" => status[r] = "none"
           /\ UNCHANGED <<plan, issued, round, ran, lost, sweep, faults>>
<1>1. proc[p].cards = {} /\ proc[p].held # NoCard /\ At(p, "cancel")
  BY DEF CardsHeld, InPlace, CancelCard
<1>2. proc[p].held \in Card /\ proc[p].held \in Filed /\ card[proc[p].held].run = proc[p].run
  BY <1>1 DEF CardsHeld, Filed
<1>3. FileCard(proc[p].held, "cancelled")
  BY <1>2 DEF FileCard, Pending, CancelCard
<1>4. Hands(p, "done", NoRun, NoCard, {}) /\ proc'[p].paused = FALSE
  BY EndHands DEF CancelCard
<1>5. \A r \in Run : status'[r] = "none" => status[r] = "none"
  BY SetStatusKeeps DEF CancelCard
<1> QED
  BY <1>1, <1>2, <1>3, <1>4, <1>5 DEF CancelCard

LEMMA ExpireFile ==
    ASSUME NEW c \in Card, Expire(c)
    PROVE  FileCard(c, "expired") /\ UNCHANGED proc
BY DEF Expire, FileCard, Pending, Filed

LEMMA ParkHands ==
    ASSUME TypeOK, NEW p \in Proc, ParkOnReconnect(p)
    PROVE  /\ At(p, "dispatch") /\ Unused # {} /\ Show(proc[p].run, NoNode)
           /\ Hands(p, "write", proc[p].run, proc[p].held, {NextCard})
           /\ proc'[p].verdict = "awaiting_input" /\ proc'[p].paused = FALSE
           /\ UNCHANGED <<plan, status, row, round, issued, ran, lost, sweep, faults>>
BY CloseHands DEF ParkOnReconnect, RoundOver

LEMMA TypeStep ==
    ASSUME TypeOK, CardsHeld, [Next]_vars
    PROVE  TypeOK'
<1>1. \A p \in Proc : Working(p) => proc[p].run \in Run
  BY DEF CardsHeld, InPlace
<1>2. ASSUME NEW p \in Proc, WorkStep(p) PROVE TypeOK'
  <2>1. ASSUME NEW n \in Node,
               Succeed(p, n) \/ Break(p, n) \/ Stage(p, n) \/ Skip(p, n) \/ SkipPaused(p, n)
        PROVE  TypeOK'
    <3>1. At(p, "dispatch")
      BY <2>1 DEF Succeed, Break, Stage, Skip, SkipPaused, Clear, Ready
    <3> QED
      BY <1>1, <2>1, <3>1, RoundTypes DEF Working
  <2>2. ASSUME NEW n \in Node, Ask(p, n) \/ AskToo(p, n) PROVE TypeOK'
    <3>1. At(p, "dispatch")
      BY <2>2 DEF Ask, AskToo, Clear, Ready
    <3> QED
      BY <1>1, <2>2, <3>1, AskTypes DEF Working
  <2>3. CASE Deadline(p)
    BY <1>1, <2>3, DeadlineTypes DEF Working, Deadline
  <2>4. CASE Conclude(p) \/ ParkOnReconnect(p)
    BY <1>1, <2>4, CloseTypes DEF Working, ParkOnReconnect, RoundOver
  <2>5. CASE WriteMessage(p) \/ FailMessage(p)
    BY <2>5, WriteTypes
  <2>6. CASE Settle(p)
    BY <2>6, EndingTypes DEF CardsHeld, InPlace, Settle
  <2>7. CASE MarkFailed(p) \/ Refused(p)
    BY <2>7, EndingTypes
  <2>8. CASE Answer(p) \/ Rebuild(p) \/ MarkResumed(p) \/ CloseQuestion(p)
    <3>1. proc[p].at \in {"answer", "rebuild", "mark", "close"}
      BY <2>8 DEF Answer, Rebuild, MarkResumed, CloseQuestion
    <3>2. proc[p].run \in Run /\ proc[p].held \in Card
      BY <1>1, <3>1 DEF Working, CardsHeld, InPlace, Filed
    <3> QED
      BY <2>8, <3>2, AnswerTypes
  <2> QED
    BY <1>2, <2>1, <2>2, <2>3, <2>4, <2>5, <2>6, <2>7, <2>8 DEF WorkStep
<1>3. ASSUME NEW p \in Proc, FaultStep(p) PROVE TypeOK'
  BY <1>3, EndingTypes DEF FaultStep
<1>4. ASSUME NEW r \in Run, StartTurn(r) \/ TurnStep(r) PROVE TypeOK'
  <2>1. r \in Proc
    BY DEF Proc
  <2> QED
    BY <1>4, <2>1, TurnTypes, ReplanTypes, OpenTypes DEF TurnStep
<1>5. ASSUME NEW q \in Request, CancelCard(q) PROVE TypeOK'
  <2>1. q \in Proc /\ At(q, "cancel")
    BY <1>5 DEF Proc, CancelCard
  <2>2. proc[q].run \in Run /\ proc[q].held \in Card
    BY <1>1, <2>1 DEF Working, CardsHeld, InPlace, Filed
  <2> QED
    BY <1>5, <2>1, <2>2, AnswerTypes
<1>6. ASSUME NEW q \in Request, NEW c \in Card, Open(q, c, "answer") \/ Open(q, c, "cancel")
      PROVE  TypeOK'
  BY <1>6, OpenTypes DEF Proc
<1>7. CASE UNCHANGED vars
  BY <1>7 DEF vars, TypeOK
<1>8. ASSUME \E r \in Run : Age(r) \/ SweepStep(r) PROVE TypeOK'
  BY <1>8, SweepTypes DEF SweepStep
<1>9. CASE SweepRead \/ \E c \in Card : Expire(c)
  BY <1>9, SweepTypes
<1>10. CASE \E r \in Run : StartTurn(r) \/ TurnStep(r) \/ Age(r) \/ SweepStep(r)
  BY <1>4, <1>8, <1>10
<1>11. CASE \E p \in Proc : WorkStep(p) \/ FaultStep(p)
  BY <1>2, <1>3, <1>11
<1>12. CASE \E q \in Request : CancelCard(q) \/ \E c \in Card : Open(q, c, "answer") \/ Open(q, c, "cancel")
  BY <1>5, <1>6, <1>12
<1> QED
  BY <1>7, <1>9, <1>10, <1>11, <1>12 DEF Next

LEMMA CardsStep ==
    ASSUME TypeOK, CardsHeld, [Next]_vars
    PROVE  TypeOK' /\ CardsHeld'
<1>0. TypeOK'
  BY TypeStep
<1>1. ASSUME NEW r \in Run, StartTurn(r) PROVE CardsHeld'
  BY <1>0, <1>1, CardsStart
<1>2. ASSUME NEW p \in Proc, OnwardStep(p) PROVE CardsHeld'
  BY <1>0, <1>2, OnwardSteps, CardsOnward DEF CardsHeld
<1>3. ASSUME NEW p \in Proc, NEW n \in Node, AskStep(p, n) PROVE CardsHeld'
  BY <1>0, <1>3, CardsShow DEF AskStep
<1>4. ASSUME NEW p \in Proc, ParkOnReconnect(p) PROVE CardsHeld'
  BY <1>0, <1>4, CardsShow, ParkHands
<1>5. ASSUME NEW p \in Proc, WriteMessage(p) \/ FailMessage(p) PROVE CardsHeld'
  BY <1>0, <1>5, CardsInsert
<1>6. ASSUME NEW p \in Proc, Answer(p) PROVE CardsHeld'
  <2> DEFINE c == proc[p].held
  <2>1. /\ c \in Card /\ proc[p].cards = {} /\ FileCard(c, "answered") /\ At(p, "answer")
        /\ Hands(p, "rebuild", proc[p].run, c, {})
    BY <1>6, AnswerHands
  <2> QED
    BY <1>0, <2>1, CardsFile
<1>7. ASSUME NEW p \in Proc, Die(p) PROVE CardsHeld'
  BY <1>0, <1>7, CardsDie
<1>8. ASSUME NEW p \in Proc, NEW c \in Card, OpenStep(p, c) PROVE CardsHeld'
  <2>1. InPlace(p)
    BY DEF CardsHeld
  <2>2. /\ proc[p].cards = {} /\ Pending(c) /\ UNCHANGED card
        /\ Hands(p, "answer", card[c].run, c, {}) \/ Hands(p, "cancel", card[c].run, c, {})
    BY <1>8, <2>1, OpenHands
  <2> QED
    BY <1>0, <2>2, CardsFile
<1>9. ASSUME NEW q \in Request, CancelCard(q) PROVE CardsHeld'
  <2>1. q \in Proc
    BY DEF Proc
  <2>2. /\ proc[q].cards = {} /\ proc[q].held \in Card /\ FileCard(proc[q].held, "cancelled")
        /\ Hands(q, "done", NoRun, NoCard, {})
    BY <1>9, <2>1, CancelHands
  <2> QED
    BY <1>0, <2>1, <2>2, CardsFile
<1>10. ASSUME NEW c \in Card, Expire(c) PROVE CardsHeld'
  <2>1. FileCard(c, "expired") /\ UNCHANGED proc
    BY <1>10, ExpireFile
  <2>2. \A d \in Card : card'[d].run = card[d].run /\ (card[d].state = "answered" => card'[d].state = "answered")
          /\ (card[d].state = "shown" => card'[d].state = "shown")
          /\ (card'[d].state # "unused" => card[d].state # "unused")
    BY <2>1, FileKeeps DEF FileCard, Pending
  <2>3. Filed' = Filed
    BY <2>1, FileKeeps
  <2>4. \A p \in Proc : \A d \in proc[p].cards : d \in Card
    BY DEF TypeOK, Memory
  <2>5. \A p \in Proc : proc[p].held # NoCard => proc[p].held \in Card
    BY DEF CardsHeld, Filed
  <2>6. /\ \A p \in Proc : InPlace(p)'
        /\ \A p \in Proc : Resuming(p)' <=> Resuming(p)
        /\ ResumedOnce'
    BY <2>1 DEF CardsHeld, InPlace, Working, Resuming, ResumedOnce
  <2>7. \A p \in Proc : \A d \in proc'[p].cards : card'[d].state = "shown" /\ card'[d].run = proc'[p].run
    BY <2>1, <2>2, <2>4 DEF CardsHeld
  <2>8. \A p \in Proc : proc'[p].held # NoCard =>
          /\ proc'[p].held \in Filed' /\ card'[proc'[p].held].run = proc'[p].run
          /\ Resuming(p)' => card'[proc'[p].held].state = "answered"
    BY <2>1, <2>2, <2>3, <2>5, <2>6 DEF CardsHeld
  <2> QED
    BY <2>1, <2>2, <2>6, <2>7, <2>8 DEF CardsHeld
<1>11. CASE StillStep
  <2>1. UNCHANGED <<proc, card>>
    BY <1>11 DEF StillStep, SweepRead, Age, SweepStep, CloseDeadRun, SweepLook, SweepClose, tables, vars
  <2> QED
    BY <1>0, <2>1, CardsStill
<1> QED
  BY <1>0, <1>1, <1>2, <1>3, <1>4, <1>5, <1>6, <1>7, <1>8, <1>9, <1>10, <1>11, StepKinds

LEMMA CardsInit ==
    ASSUME Init
    PROVE  TypeOK /\ CardsHeld
<1>1. TypeOK
  <2>1. proc \in [Proc -> Memory]
    BY IdleIsMemory DEF Init
  <2>2. card \in [Card -> CardRow]
    BY DEF Init, CardRow, CardStatus
  <2>3. round \in [Run -> 0 .. MaxRounds] /\ faults \in 0 .. MaxFaults
    BY RunAssumption DEF Init
  <2>4. ran \in [Run -> [Node -> Nat]]
    BY DEF Init, None
  <2>5. row \in [Run -> [Node -> NodeStatus \cup {"absent"}]]
    BY DEF Init, None
  <2>6. value \in [Run -> [Node -> Card \cup {NoCard}]]
    BY DEF Init, None
  <2>7. act \in [Run -> [Node -> {"none", "draft", "cancelled"}]] /\ after \in [Run -> [Node -> SUBSET Node]]
    BY DEF Init, None
  <2>8. /\ plan \in Plans /\ status \in [Run -> RunStatus \cup {"none"}] /\ old \subseteq Run
        /\ issued \in [Card -> SUBSET Card] /\ lost \in [Run -> SUBSET Node]
        /\ sweep \in [Run -> {"none", "running", "awaiting_input", "close"}]
    BY DEF Init
  <2> QED
    BY <2>1, <2>2, <2>3, <2>4, <2>5, <2>6, <2>7, <2>8 DEF TypeOK
<1>2. \A p \in Proc : /\ proc[p].at = "idle" /\ proc[p].run = NoRun /\ proc[p].held = NoCard
                      /\ proc[p].cards = {}
  BY DEF Init, Idle
<1>3. \A c \in Card : card[c].state = "unused"
  BY DEF Init
<1>4. \A p \in Proc : InPlace(p) /\ ~Resuming(p)
  BY <1>2 DEF InPlace, Working, Resuming
<1> QED
  BY <1>1, <1>2, <1>3, <1>4 DEF CardsHeld, ResumedOnce

----------------------------------------------------------------------------
(* What holds whatever the plans ask.                                      *)

\* The tables and the memory of processes have their types, and a card is held by the
\* one process that shows it or took its answer: CardRow and Memory of RunLifecycle
\* are what prompts.py and runner.py may ever find.
THEOREM RunTyped == Spec => [](TypeOK /\ CardsHeld)
BY CardsInit, CardsStep, PTL DEF Spec

\* Of all that answer a card, from requests and from messages, one carries the answer
\* into the plan (answer_prompt's WHERE clause in prompts.py).
THEOREM RunResumedOnce == Spec => []ResumedOnce
<1>1. TypeOK /\ CardsHeld => ResumedOnce
  BY DEF CardsHeld
<1> QED
  BY <1>1, RunTyped, PTL

----------------------------------------------------------------------------
(* The questions a run has asked.                                          *)

LEMMA DieCards ==
    ASSUME TypeOK, CardsHeld, NEW p \in Proc, Die(p)
    PROVE  /\ Hands(p, "done", NoRun, NoCard, {}) /\ proc'[p].paused = FALSE
           /\ \A c \in Card : /\ card'[c].run = card[c].run /\ card'[c].node = card[c].node
                              /\ c \notin proc[p].cards => card'[c] = card[c]
                              /\ c \in proc[p].cards => card'[c].state = "lost" /\ card[c].state = "shown"
           /\ Filed' = Filed
<1>1. Hands(p, "done", NoRun, NoCard, {}) /\ proc'[p].paused = FALSE
  BY EndHands DEF Die
<1>2. ASSUME NEW c \in Card
      PROVE  /\ card'[c].run = card[c].run /\ card'[c].node = card[c].node
             /\ c \notin proc[p].cards => card'[c] = card[c]
             /\ c \in proc[p].cards => card'[c].state = "lost" /\ card[c].state = "shown"
  <2>1. card[c] \in CardRow
    BY DEF TypeOK
  <2>2. c \in proc[p].cards => card[c].state = "shown"
    BY DEF CardsHeld
  <2> QED
    BY <2>1, <2>2 DEF Die, CardRow
<1>3. Filed' = Filed
  BY <1>2 DEF Filed
<1> QED
  BY <1>1, <1>2, <1>3

LEMMA StillKeeps ==
    ASSUME TypeOK, StillStep
    PROVE  /\ UNCHANGED <<plan, proc, card, issued, round, ran, lost, faults>>
           /\ \A r \in Run : status'[r] = "none" => status[r] = "none"
<1>1. CASE SweepRead
  BY <1>1 DEF SweepRead, tables
<1>2. ASSUME NEW r \in Run, Age(r)
      PROVE  /\ UNCHANGED <<plan, proc, card, issued, round, ran, lost, faults>>
             /\ \A s \in Run : status'[s] = "none" => status[s] = "none"
  BY <1>2 DEF Age, tables
<1>3. ASSUME NEW r \in Run, SweepStep(r)
      PROVE  /\ UNCHANGED <<plan, proc, card, issued, round, ran, lost, faults>>
             /\ \A s \in Run : status'[s] = "none" => status[s] = "none"
  <2>1. CASE CloseDeadRun(r)
    BY <2>1, SetStatusKeeps DEF CloseDeadRun
  <2>2. CASE SweepLook(r)
    BY <2>2 DEF SweepLook, tables
  <2>3. CASE SweepClose(r)
    BY <2>3, SetStatusKeeps DEF SweepClose
  <2> QED
    BY <1>3, <2>1, <2>2, <2>3 DEF SweepStep
<1>4. CASE UNCHANGED vars
  BY <1>4 DEF vars
<1> QED
  BY <1>1, <1>2, <1>3, <1>4 DEF StillStep

\* Cards and their times as they were.
FiledSame ==
    /\ Filed' = Filed /\ UNCHANGED <<plan, issued>>
    /\ \A c \in Filed : card'[c].run = card[c].run /\ card'[c].node = card[c].node

LEMMA FiledKeeps ==
    ASSUME TypeOK, CardsHeld, [Next]_vars,
           \A p \in Proc : ~WriteMessage(p) /\ ~FailMessage(p)
    PROVE  FiledSame
<1>1. UNCHANGED <<plan, card, issued>> => FiledSame
  BY DEF FiledSame, Filed
<1>2. ASSUME NEW r \in Run, StartTurn(r) PROVE FiledSame
  BY <1>1, <1>2 DEF StartTurn
<1>3. ASSUME NEW p \in Proc, OnwardStep(p) PROVE FiledSame
  BY <1>1, <1>3, OnwardSteps DEF Onward, CardsHeld
<1>4. ASSUME NEW p \in Proc, NEW n \in Node \cup {NoNode}, Unused # {}, Show(proc[p].run, n),
             UNCHANGED <<plan, issued>>
      PROVE  FiledSame
  <2>1. NextCard \in Card /\ card[NextCard].state = "unused"
    BY <1>4, NextIsUnused DEF Unused
  <2>2. /\ card'[NextCard].state = "shown"
        /\ \A c \in Card : c # NextCard => card'[c] = card[c]
    BY <1>4, <2>1 DEF Show, TypeOK
  <2> QED
    BY <1>4, <2>1, <2>2 DEF FiledSame, Filed
<1>5. ASSUME NEW p \in Proc, NEW n \in Node, AskStep(p, n) PROVE FiledSame
  BY <1>4, <1>5 DEF AskStep
<1>6. ASSUME NEW p \in Proc, ParkOnReconnect(p) PROVE FiledSame
  BY <1>4, <1>6, ParkHands
<1>7. ASSUME NEW c \in Card, NEW s, FileCard(c, s), UNCHANGED <<plan, issued>> PROVE FiledSame
  BY <1>7, FileKeeps DEF FiledSame, Filed
<1>8. ASSUME NEW p \in Proc, Answer(p) PROVE FiledSame
  BY <1>7, <1>8, AnswerHands
<1>9. ASSUME NEW p \in Proc, Die(p) PROVE FiledSame
  <2>1. UNCHANGED <<plan, issued>>
    BY <1>9 DEF Die
  <2> QED
    BY <1>9, <2>1, DieCards DEF FiledSame, Filed
<1>10. ASSUME NEW p \in Proc, NEW c \in Card, OpenStep(p, c) PROVE FiledSame
  BY <1>1, <1>10, OpenHands DEF CardsHeld
<1>11. ASSUME NEW q \in Request, CancelCard(q) PROVE FiledSame
  BY <1>7, <1>11, CancelHands DEF Proc
<1>12. ASSUME NEW c \in Card, Expire(c) PROVE FiledSame
  BY <1>7, <1>12, ExpireFile DEF Expire
<1>13. CASE StillStep
  BY <1>1, <1>13, StillKeeps
<1> QED
  BY <1>2, <1>3, <1>5, <1>6, <1>8, <1>9, <1>10, <1>11, <1>12, <1>13, StepKinds

LEMMA InsertFiles ==
    ASSUME TypeOK, CardsHeld, NEW p \in Proc, Insert(p)
    PROVE  /\ Filed' = Filed \cup proc[p].cards /\ Filed \cap proc[p].cards = {}
           /\ \A c \in Card : issued'[c] = IF c \in proc[p].cards THEN Filed ELSE issued[c]
           /\ \A r \in Run : CardsOf(r)' =
                IF r = proc[p].run THEN CardsOf(r) \cup proc[p].cards ELSE CardsOf(r)
<1>0. proc[p].cards \subseteq Card
  BY DEF TypeOK, Memory
<1>1. \A c \in proc[p].cards : card[c].state = "shown" /\ card[c].run = proc[p].run
  BY DEF CardsHeld
<1>2. Filed \cap proc[p].cards = {}
  BY <1>1 DEF Filed
<1>3. Filed' = Filed \cup proc[p].cards
  BY <1>0, <1>1, InsertCard DEF Filed, Pending
<1>4. \A c \in Card : issued'[c] = IF c \in proc[p].cards THEN Filed ELSE issued[c]
  BY DEF Insert
<1>5. \A r \in Run : CardsOf(r)' =
                IF r = proc[p].run THEN CardsOf(r) \cup proc[p].cards ELSE CardsOf(r)
  <2>1. \A c \in Filed' : card'[c].run = card[c].run
    BY InsertCard DEF Filed
  <2> QED
    BY <1>1, <1>3, <2>1 DEF CardsOf
<1> QED
  BY <1>2, <1>3, <1>4, <1>5

\* A run that is Crossed remains so.
LEMMA SingleShrinks ==
    ASSUME TypeOK, CardsHeld, [Next]_vars
    PROVE  Single' \subseteq Single
<1>1. SUFFICES ASSUME NEW r \in Run, Crossed(r) PROVE Crossed(r)'
  BY DEF Single
<1>2. PICK c, d \in CardsOf(r) : c # d /\ issued[c] = issued[d] /\ ~Replaces(c, d)
  BY <1>1 DEF Crossed
<1>3. c \in Filed /\ d \in Filed /\ c \in Card /\ d \in Card
  BY DEF CardsOf, Filed
<1>4. SUFFICES /\ UNCHANGED plan
               /\ \A e \in {c, d} : /\ e \in CardsOf(r)' /\ issued'[e] = issued[e]
                                    /\ card'[e].run = card[e].run /\ card'[e].node = card[e].node
  BY <1>2, <1>3, <1>4 DEF Crossed, Replaces
<1>5. CASE \A p \in Proc : ~WriteMessage(p) /\ ~FailMessage(p)
  <2>1. FiledSame
    BY <1>5, FiledKeeps
  <2> QED
    BY <1>2, <1>3, <2>1 DEF FiledSame, CardsOf
<1>6. ASSUME NEW p \in Proc, WriteMessage(p) \/ FailMessage(p)
      PROVE  /\ UNCHANGED plan
             /\ \A e \in {c, d} : /\ e \in CardsOf(r)' /\ issued'[e] = issued[e]
                                  /\ card'[e].run = card[e].run /\ card'[e].node = card[e].node
  <2>1. Insert(p) /\ UNCHANGED plan
    BY <1>6, InsertHands
  <2>2. c \notin proc[p].cards /\ d \notin proc[p].cards
    BY <1>3, <2>1, InsertFiles
  <2> QED
    BY <1>2, <1>3, <2>1, <2>2, InsertFiles, InsertCard
<1> QED
  BY <1>5, <1>6

----------------------------------------------------------------------------
(* A run has one token.                                                    *)

\* Steps after which nothing moves or is pending that was not.
LEMMA TokenShrinks ==
    ASSUME OneToken, Single' \subseteq Single,
           \A r \in Run : status'[r] = "none" => status[r] = "none",
           \A c \in Card : card'[c].run = card[c].run /\ (Pending(c)' => Pending(c)),
           \A q \in Proc :
             /\ proc'[q].run \in Run =>
                  proc'[q].run = proc[q].run \/ status[proc'[q].run] # "none"
             /\ Moving(q)' => Moving(q) /\ proc'[q].run = proc[q].run
    PROVE  OneToken'
<1>1. \A r \in Run : status'[r] = "none" =>
        (\A p \in Proc : proc'[p].run # r) /\ (\A c \in Card : card'[c].run # r)
  BY DEF OneToken
<1>2. \A q \in Proc : Acting(q)' => Acting(q) /\ proc'[q].run = proc[q].run
  BY DEF Acting
<1>3. \A c \in Card : Asking(c)' => Asking(c)
  BY DEF Asking
<1>4. \A p, q \in Proc : Acting(p)' /\ Acting(q)' /\ p # q => proc'[p].run # proc'[q].run
  BY <1>2 DEF OneToken
<1>5. \A p \in Proc : \A c \in Card : Acting(p)' /\ Asking(c)' => card'[c].run # proc'[p].run
  BY <1>2, <1>3 DEF OneToken
<1>6. \A c, d \in Card : Asking(c)' /\ Asking(d)' /\ c # d => card'[c].run # card'[d].run
  BY <1>3 DEF OneToken
<1> QED
  BY <1>1, <1>4, <1>5, <1>6 DEF OneToken

LEMMA TokenStart ==
    ASSUME TypeOK, CardsHeld, OneToken, Single' \subseteq Single,
           NEW r \in Run, StartTurn(r), Hands(r, "plan", r, NoCard, {})
    PROVE  OneToken'
<1>1. r \in Proc
  BY DEF Proc
<1>2. status[r] = "none" /\ status' = [status EXCEPT ![r] = "running"] /\ UNCHANGED <<plan, card>>
  BY DEF StartTurn
<1>3. \A q \in Proc : q # r => proc'[q] = proc[q] /\ proc[q].run # r /\ (Acting(q)' => Acting(q))
  BY <1>1, <1>2 DEF Hands, Others, OneToken, Acting, Moving
<1>4. \A c \in Card : card[c].run # r
  BY <1>2 DEF OneToken, TypeOK
<1>5. \A c \in Card : Asking(c)' => Asking(c)
  BY <1>2 DEF Asking, Pending
<1>6. \A s \in Run : status'[s] = "none" =>
        (\A p \in Proc : proc'[p].run # s) /\ (\A c \in Card : card'[c].run # s)
  <2> SUFFICES ASSUME NEW s \in Run, status'[s] = "none"
               PROVE  (\A p \in Proc : proc'[p].run # s) /\ (\A c \in Card : card'[c].run # s)
    OBVIOUS
  <2>1. s # r /\ status[s] = "none"
    BY <1>2 DEF TypeOK
  <2>2. proc'[r].run # s
    BY <2>1 DEF Hands
  <2>3. \A p \in Proc : proc[p].run # s
    BY <2>1 DEF OneToken
  <2>4. \A c \in Card : card[c].run # s
    BY <2>1 DEF OneToken
  <2> QED
    BY <1>2, <1>3, <2>2, <2>3, <2>4
<1>7. \A p, q \in Proc : Acting(p)' /\ Acting(q)' /\ p # q => proc'[p].run # proc'[q].run
  BY <1>3 DEF OneToken, Hands
<1>8. \A p \in Proc : \A c \in Card : Acting(p)' /\ Asking(c)' => card'[c].run # proc'[p].run
  BY <1>2, <1>3, <1>4, <1>5 DEF OneToken, Hands
<1>9. \A c, d \in Card : Asking(c)' /\ Asking(d)' /\ c # d => card'[c].run # card'[d].run
  BY <1>2, <1>5 DEF OneToken
<1> QED
  BY <1>6, <1>7, <1>8, <1>9 DEF OneToken

LEMMA TokenShow ==
    ASSUME TypeOK, CardsHeld, OneToken, Single' \subseteq Single,
           NEW p \in Proc, Unused # {}, At(p, "dispatch"),
           NEW n, Show(proc[p].run, n), UNCHANGED status,
           NEW at \in {"dispatch", "write"}, NEW cards,
           Hands(p, at, proc[p].run, proc[p].held, cards)
    PROVE  OneToken'
<1>0. NextCard \in Card /\ card[NextCard].state = "unused"
  BY NextIsUnused DEF Unused
<1>1. /\ card'[NextCard].state = "shown" /\ card'[NextCard].run = proc[p].run
      /\ \A c \in Card : c # NextCard => card'[c] = card[c]
  BY <1>0 DEF Show, TypeOK
<1>2. proc[p].run \in Run /\ status[proc[p].run] # "none"
  BY DEF CardsHeld, InPlace, Working, OneToken
<1>3. \A q \in Proc : q # p => proc'[q] = proc[q]
  BY DEF Hands, Others
<1>4. \A c \in Card : Asking(c)' => Asking(c) /\ card'[c] = card[c]
  BY <1>1 DEF Asking, Pending
<1>5. \A q \in Proc : proc'[q].run = proc[q].run /\ (Acting(q)' => Acting(q))
  BY <1>3 DEF Hands, Acting, Moving
<1>6. \A r \in Run : status'[r] = "none" =>
        (\A q \in Proc : proc'[q].run # r) /\ (\A c \in Card : card'[c].run # r)
  BY <1>1, <1>2, <1>5 DEF OneToken
<1>7. \A q, o \in Proc : Acting(q)' /\ Acting(o)' /\ q # o => proc'[q].run # proc'[o].run
  BY <1>5 DEF OneToken
<1>8. \A q \in Proc : \A c \in Card : Acting(q)' /\ Asking(c)' => card'[c].run # proc'[q].run
  BY <1>4, <1>5 DEF OneToken
<1>9. \A c, d \in Card : Asking(c)' /\ Asking(d)' /\ c # d => card'[c].run # card'[d].run
  BY <1>4 DEF OneToken
<1> QED
  BY <1>6, <1>7, <1>8, <1>9 DEF OneToken

\* Of the cards of one message that does not make its run Crossed the last replaces
\* the others.
LEMMA OneIsLeft ==
    ASSUME TypeOK, CardsHeld, NEW p \in Proc, Working(p), Insert(p), UNCHANGED plan,
           proc[p].run \in Single',
           NEW c \in proc[p].cards, NEW d \in proc[p].cards, card'[d].state = "pending"
    PROVE  d >= c
<1>0. c \in Card /\ d \in Card /\ c \in Nat /\ d \in Nat /\ card[d] \in CardRow
  BY RunAssumption DEF TypeOK, Memory
<1>1. SUFFICES ASSUME c # d PROVE d >= c
  BY <1>0
<1>2. PICK r \in Run : r = proc[p].run /\ ~Crossed(r)'
  BY DEF Single, CardsHeld, InPlace
<1>3. c \in CardsOf(r)' /\ d \in CardsOf(r)' /\ issued'[c] = issued'[d]
  BY <1>0, <1>2, InsertFiles
<1>4. Replaces(c, d)'
  BY <1>1, <1>2, <1>3 DEF Crossed
<1>5. Replaces(c, d)
  BY <1>0, <1>4, InsertCard DEF Replaces
<1>6. c > d => card'[d].state = "superseded"
  BY <1>0, <1>5 DEF Insert, CardRow
<1> QED
  BY <1>0, <1>6

LEMMA TokenInsert ==
    ASSUME TypeOK, CardsHeld, OneToken, Single' \subseteq Single,
           NEW p \in Proc, WriteMessage(p) \/ FailMessage(p)
    PROVE  OneToken'
<1> DEFINE at == IF At(p, "write") THEN "settle" ELSE "mark_failed"
<1>0. /\ proc[p].at \in {"write", "failing"} /\ Hands(p, at, proc[p].run, proc[p].held, {})
      /\ Insert(p) /\ UNCHANGED <<plan, status>>
  BY InsertHands
<1>1. (proc[p].run \in Single => Acting(p)) /\ ~Acting(p)' /\ Working(p)
  BY <1>0 DEF Acting, Moving, Hands, Working
<1>2. \A q \in Proc : q # p => proc'[q] = proc[q] /\ (Acting(q)' => Acting(q))
  BY <1>0 DEF Hands, Others, Acting, Moving
<1>3. \A q \in Proc : proc'[q].run = proc[q].run
  BY <1>0, <1>2 DEF Hands
<1>4. \A c \in Card : card'[c].run = card[c].run
        /\ (Asking(c)' => Asking(c) \/ (c \in proc[p].cards /\ proc[p].run \in Single'))
  <2>1. \A c \in proc[p].cards : card[c].run = proc[p].run
    BY DEF CardsHeld
  <2> QED
    BY <1>0, <2>1, InsertCard DEF Pending, Asking
<1>5. \A c \in proc[p].cards : card[c].run = proc[p].run
  BY DEF CardsHeld
<1>6. \A r \in Run : status'[r] = "none" =>
        (\A q \in Proc : proc'[q].run # r) /\ (\A c \in Card : card'[c].run # r)
  BY <1>0, <1>3, <1>4 DEF OneToken
<1>7. \A q, o \in Proc : Acting(q)' /\ Acting(o)' /\ q # o => proc'[q].run # proc'[o].run
  BY <1>1, <1>2 DEF OneToken
<1>8. \A q \in Proc : \A c \in Card : Acting(q)' /\ Asking(c)' => card'[c].run # proc'[q].run
  BY <1>1, <1>2, <1>4, <1>5 DEF OneToken
<1>9. ASSUME NEW c \in Card, NEW d \in Card, Asking(c)', Asking(d)', c # d
      PROVE  card'[c].run # card'[d].run
  <2>1. CASE c \in proc[p].cards /\ d \in proc[p].cards
    <3>1. proc[p].run \in Single'
      BY <1>4, <1>5, <1>9, <2>1 DEF Asking
    <3>2. c >= d /\ d >= c
      BY <1>0, <1>1, <1>9, <2>1, <3>1, OneIsLeft DEF Asking, Pending
    <3>3. c \in Nat /\ d \in Nat
      BY RunAssumption
    <3> QED
      BY <1>9, <3>2, <3>3
  <2>2. CASE ~(c \in proc[p].cards /\ d \in proc[p].cards)
    BY <1>1, <1>4, <1>5, <1>9, <2>2 DEF OneToken
  <2> QED
    BY <2>1, <2>2
<1> QED
  BY <1>6, <1>7, <1>8, <1>9 DEF OneToken

LEMMA TokenAnswer ==
    ASSUME TypeOK, CardsHeld, OneToken, Single' \subseteq Single, NEW p \in Proc, Answer(p)
    PROVE  OneToken'
<1> DEFINE k == proc[p].held
<1>0. /\ At(p, "answer") /\ k \in Card /\ FileCard(k, "answered") /\ card[k].run = proc[p].run
      /\ Hands(p, "rebuild", proc[p].run, k, {}) /\ UNCHANGED <<plan, status>>
  BY AnswerHands
<1>1. proc[p].run \in Single => Asking(k)
  BY <1>0 DEF FileCard, Asking
<1>2. \A q \in Proc : q # p => proc'[q] = proc[q] /\ (Acting(q)' => Acting(q))
  BY <1>0 DEF Hands, Others, Acting, Moving
<1>3. \A q \in Proc : proc'[q].run = proc[q].run
  BY <1>0, <1>2 DEF Hands
<1>4. \A c \in Card : card'[c].run = card[c].run /\ (Asking(c)' => Asking(c) /\ c # k)
  BY <1>0, FileKeeps DEF Pending, Asking
<1>5. \A r \in Run : status'[r] = "none" =>
        (\A q \in Proc : proc'[q].run # r) /\ (\A c \in Card : card'[c].run # r)
  BY <1>0, <1>3, <1>4 DEF OneToken
<1>6. \A q \in Proc : q # p /\ Acting(q) => proc[q].run # proc[p].run
  BY <1>0, <1>1 DEF OneToken, Acting
<1>7. \A q, o \in Proc : Acting(q)' /\ Acting(o)' /\ q # o => proc'[q].run # proc'[o].run
  BY <1>2, <1>3, <1>6 DEF OneToken
<1>8. ASSUME NEW q \in Proc, NEW c \in Card, Acting(q)', Asking(c)' PROVE card'[c].run # proc'[q].run
  <2>1. CASE q # p
    BY <1>2, <1>3, <1>4, <1>8, <2>1 DEF OneToken
  <2>2. CASE q = p
    <3>1. Asking(k)
      BY <1>1, <1>3, <1>8, <2>2 DEF Acting
    <3> QED
      BY <1>0, <1>3, <1>4, <1>8, <2>2, <3>1 DEF OneToken
  <2> QED
    BY <2>1, <2>2
<1>9. \A c, d \in Card : Asking(c)' /\ Asking(d)' /\ c # d => card'[c].run # card'[d].run
  BY <1>4 DEF OneToken
<1> QED
  BY <1>5, <1>7, <1>8, <1>9 DEF OneToken

\* What a step that moves no run does with the hands of a process.
Idles(q) ==
    /\ proc'[q].run \in Run => proc'[q].run = proc[q].run \/ status[proc'[q].run] # "none"
    /\ Moving(q)' => Moving(q) /\ proc'[q].run = proc[q].run

LEMMA TokenStep ==
    ASSUME TypeOK, CardsHeld, OneToken, [Next]_vars
    PROVE  OneToken'
<1> USE SingleShrinks
<1>0. NoRun \notin Run
  BY RunAssumption
<1>1. ASSUME NEW r \in Run, StartTurn(r) PROVE OneToken'
  <2>1. TypeOK'
    BY TypeStep
  <2> QED
    BY <1>1, <2>1, CardsStart, TokenStart
<1>2. ASSUME NEW p \in Proc, OnwardStep(p) PROVE OneToken'
  <2>1. Onward(p) /\ InPlace(p)
    BY <1>2, OnwardSteps DEF CardsHeld
  <2>2. \A q \in Proc : q # p => Idles(q)
    BY <2>1 DEF Onward, Others, Moving, Idles
  <2>3. Idles(p)
    BY <1>0, <2>1 DEF Onward, Moving, Idles
  <2>4. \A c \in Card : card'[c].run = card[c].run /\ (Pending(c)' => Pending(c))
    BY <2>1 DEF Onward, Pending
  <2> QED
    BY <2>1, <2>2, <2>3, <2>4, TokenShrinks DEF Onward, Idles
<1>3. ASSUME NEW p \in Proc, NEW n \in Node, AskStep(p, n) PROVE OneToken'
  BY <1>3, TokenShow DEF AskStep
<1>4. ASSUME NEW p \in Proc, ParkOnReconnect(p) PROVE OneToken'
  BY <1>4, ParkHands, TokenShow
<1>5. ASSUME NEW p \in Proc, WriteMessage(p) \/ FailMessage(p) PROVE OneToken'
  BY <1>5, TokenInsert
<1>6. ASSUME NEW p \in Proc, Answer(p) PROVE OneToken'
  BY <1>6, TokenAnswer
<1>7. ASSUME NEW p \in Proc, Hands(p, "done", NoRun, NoCard, {}) \/ UNCHANGED proc, NEW q \in Proc
      PROVE  Idles(q)
  BY <1>0, <1>7 DEF Hands, Others, Moving, Idles
<1>8. ASSUME NEW p \in Proc, Die(p) PROVE OneToken'
  <2>1. \A c \in Card : card'[c].run = card[c].run /\ (Pending(c)' => Pending(c))
    BY <1>8, DieCards DEF Pending
  <2>2. UNCHANGED status /\ Hands(p, "done", NoRun, NoCard, {})
    BY <1>8, DieCards DEF Die
  <2> QED
    BY <1>7, <2>1, <2>2, TokenShrinks DEF Idles
<1>9. ASSUME NEW p \in Proc, NEW c \in Card, OpenStep(p, c) PROVE OneToken'
  <2>1. /\ Pending(c) /\ UNCHANGED card /\ \A r \in Run : status'[r] = "none" => status[r] = "none"
        /\ Hands(p, "answer", card[c].run, c, {}) \/ Hands(p, "cancel", card[c].run, c, {})
    BY <1>9, OpenHands DEF CardsHeld
  <2>2. card[c].run \in Run => status[card[c].run] # "none"
    BY DEF OneToken
  <2>3. \A q \in Proc : Idles(q)
    BY <2>1, <2>2 DEF Hands, Others, Moving, Idles
  <2>4. \A d \in Card : card'[d].run = card[d].run /\ (Pending(d)' => Pending(d))
    BY <2>1 DEF Pending
  <2> QED
    BY <2>1, <2>3, <2>4, TokenShrinks DEF Idles
<1>10. ASSUME NEW q \in Request, CancelCard(q) PROVE OneToken'
  <2>1. q \in Proc
    BY DEF Proc
  <2>2. /\ FileCard(proc[q].held, "cancelled") /\ proc[q].held \in Card
        /\ Hands(q, "done", NoRun, NoCard, {})
        /\ \A r \in Run : status'[r] = "none" => status[r] = "none"
    BY <1>10, <2>1, CancelHands
  <2>3. \A c \in Card : card'[c].run = card[c].run /\ (Pending(c)' => Pending(c))
    BY <2>2, FileKeeps DEF Pending
  <2> QED
    BY <1>7, <2>1, <2>2, <2>3, TokenShrinks DEF Idles
<1>11. ASSUME NEW c \in Card, Expire(c) PROVE OneToken'
  <2>1. FileCard(c, "expired") /\ UNCHANGED <<proc, status>>
    BY <1>11, ExpireFile DEF Expire
  <2>2. \A d \in Card : card'[d].run = card[d].run /\ (Pending(d)' => Pending(d))
    BY <2>1, FileKeeps DEF Pending
  <2> QED
    BY <1>7, <2>1, <2>2, TokenShrinks DEF Idles
<1>12. CASE StillStep
  <2>1. /\ UNCHANGED <<proc, card>>
        /\ \A r \in Run : status'[r] = "none" => status[r] = "none"
    BY <1>12, StillKeeps
  <2>2. \A d \in Card : card'[d].run = card[d].run /\ (Pending(d)' => Pending(d))
    BY <2>1 DEF Pending
  <2> QED
    BY <1>7, <2>1, <2>2, TokenShrinks DEF Idles
<1> QED
  BY <1>1, <1>2, <1>3, <1>4, <1>5, <1>6, <1>8, <1>9, <1>10, <1>11, <1>12, StepKinds

LEMMA TokenInit ==
    ASSUME Init
    PROVE  OneToken
<1>1. \A p \in Proc : proc[p].at = "idle" /\ proc[p].run = NoRun
  BY DEF Init, Idle
<1>2. \A c \in Card : card[c].state = "unused" /\ card[c].run = NoRun
  BY DEF Init
<1>3. NoRun \notin Run
  BY RunAssumption
<1> QED
  BY <1>1, <1>2, <1>3 DEF OneToken, Acting, Moving, Asking, Pending

----------------------------------------------------------------------------
(* What succeeded is not done again.                                       *)

\* Steps that leave every row that succeeded, and every row that is not there.
RanKeeps ==
    /\ UNCHANGED <<ran, round>> /\ \A q \in Run : lost[q] \subseteq lost'[q]
    /\ \A r \in Run : status'[r] = "none" => status[r] = "none"
    /\ \A r \in Run : \A n \in Node :
        /\ row'[r][n] = "succeeded" <=> row[r][n] = "succeeded"
        /\ row[r][n] = "absent" => row'[r][n] = "absent"
    /\ \A q \in Proc : proc'[q] = proc[q] \/ proc'[q].at \notin PlaceOfRows \cup {"plan"}

LEMMA RanStays ==
    ASSUME TypeOK, CardsHeld, RanRight, RanKeeps, Single' \subseteq Single
    PROVE  RanRight'
<1>1. \A r \in Run : Fresh(r) => Fresh(r)'
  BY DEF Fresh, RanKeeps
<1>2. \A r \in Run : status'[r] = "none" => Fresh(r)'
  BY <1>1 DEF RanRight, RanKeeps
<1>3. \A p \in Proc : proc'[p].at \in PlaceOfRows \cup {"plan"} => proc'[p] = proc[p] /\ proc[p].run \in Run
  BY DEF RanKeeps, CardsHeld, InPlace, Working, PlaceOfRows
<1>4. \A p \in Proc : Acting(p)' /\ proc'[p].at \in PlaceOfRows \cup {"plan"} => Acting(p)
  BY <1>3 DEF Acting, Moving
<1>5. ASSUME NEW p \in Proc, Acting(p)', At(p, "plan")' PROVE Fresh(proc[p].run)'
  <2>1. proc'[p] = proc[p] /\ Fresh(proc[p].run) /\ proc[p].run \in Run
    BY <1>3, <1>4, <1>5 DEF RanRight
  <2>2. PICK r \in Run : r = proc[p].run
    BY <2>1
  <2> QED
    BY <1>1, <2>1, <2>2
<1>6. \A r \in Single' : round'[r] = 0 =>
        \A n \in Node \ lost'[r] : ran'[r][n] <= 1 /\ (ran'[r][n] = 1 => row'[r][n] = "succeeded")
  <2> SUFFICES ASSUME NEW r \in Single', round'[r] = 0, NEW n \in Node, n \notin lost'[r]
               PROVE  ran'[r][n] <= 1 /\ (ran'[r][n] = 1 => row'[r][n] = "succeeded")
    OBVIOUS
  <2>1. r \in Single /\ r \in Run /\ n \notin lost[r] /\ round[r] = 0
    BY DEF RanKeeps, Single
  <2>2. ran[r][n] <= 1 /\ (ran[r][n] = 1 => row[r][n] = "succeeded")
    BY <2>1 DEF RanRight
  <2> QED
    BY <2>1, <2>2 DEF RanKeeps
<1>7. \A p \in Proc : Acting(p)' /\ proc'[p].at \in PlaceOfRows /\ round'[proc'[p].run] = 0 =>
        \A n \in Node : row'[proc'[p].run][n] = "succeeded" => Out(p, n)' = "ok"
  BY <1>3, <1>4 DEF RanRight, RanKeeps, Out
<1>8. \A p \in Proc : proc'[p].at \in {"mark", "close"} /\ proc'[p].put # NoNode =>
        proc'[p].out[proc'[p].put] = "ok"
  BY <1>3 DEF RanRight, PlaceOfRows, Out
<1> QED
  BY <1>2, <1>5, <1>6, <1>7, <1>8 DEF RanRight, Fresh, Out, PlaceOfRows

\* Steps of a process that moves a run, on the rows of that run.
LEMMA RanActing ==
    ASSUME TypeOK, CardsHeld, OneToken, RanRight, Single' \subseteq Single,
           NEW p \in Proc, Moving(p), Others(p),
           OtherRuns(proc[p].run), proc'[p].run = proc[p].run, ~At(p, "plan")',
           \A s \in Run : status'[s] = "none" => status[s] = "none",
           \A s \in Run : s # proc[p].run => round'[s] = round[s],
           \A s \in Run : lost[s] \subseteq lost'[s],
           proc[p].run \in Single' /\ round'[proc[p].run] = 0 =>
             \A n \in Node :
               /\ n \notin lost'[proc[p].run] =>
                    /\ ran'[proc[p].run][n] <= 1
                    /\ ran'[proc[p].run][n] = 1 => row'[proc[p].run][n] = "succeeded"
               /\ proc'[p].at \in PlaceOfRows =>
                    (row'[proc[p].run][n] = "succeeded" => proc'[p].out[n] = "ok"),
           proc'[p].at \in {"mark", "close"} /\ proc'[p].put # NoNode => proc'[p].out[proc'[p].put] = "ok"
    PROVE  RanRight'
<1>1. PICK r \in Run : r = proc[p].run /\ status[r] # "none"
  BY DEF Moving, CardsHeld, InPlace, Working, OneToken
<1>2. \A s \in Run : s # r /\ Fresh(s) => Fresh(s)'
  BY <1>1 DEF Fresh, OtherRuns
<1>3. \A s \in Run : status'[s] = "none" => Fresh(s)'
  BY <1>1, <1>2 DEF RanRight
<1>4. \A q \in Proc : q # p => proc'[q] = proc[q] /\ (Acting(q)' => Acting(q))
  BY DEF Others, Acting, Moving
<1>5. \A q \in Proc : q # p /\ Acting(q) => proc[q].run \in Run /\ proc[q].run # r
  BY <1>1 DEF OneToken, Acting, Moving, CardsHeld, InPlace, Working
<1>6. ASSUME NEW q \in Proc, Acting(q)', At(q, "plan")' PROVE Fresh(proc[q].run)'
  <2>1. q # p /\ proc'[q] = proc[q] /\ At(q, "plan") /\ Acting(q)
    BY <1>4, <1>6
  <2>2. proc[q].run \in Run /\ proc[q].run # r
    BY <1>5, <2>1
  <2>3. \A n \in Node : row'[proc[q].run][n] = "absent" /\ ran'[proc[q].run][n] = 0
    BY <1>1, <2>1, <2>2 DEF RanRight, Fresh, OtherRuns
  <2> QED
    BY <2>1, <2>3 DEF Fresh
<1>7. ASSUME NEW s \in Single', round'[s] = 0, NEW n \in Node, n \notin lost'[s]
      PROVE  ran'[s][n] <= 1 /\ (ran'[s][n] = 1 => row'[s][n] = "succeeded")
  <2>1. s \in Run /\ s \in Single /\ n \notin lost[s]
    BY <1>7 DEF Single
  <2>2. CASE s = r
    BY <1>1, <1>7, <2>2
  <2>3. CASE s # r
    <3>1. row'[s] = row[s] /\ ran'[s] = ran[s] /\ round'[s] = round[s]
      BY <1>1, <2>1, <2>3 DEF OtherRuns
    <3>2. ran[s][n] <= 1 /\ (ran[s][n] = 1 => row[s][n] = "succeeded")
      BY <1>7, <2>1, <3>1 DEF RanRight
    <3> QED
      BY <3>1, <3>2
  <2> QED
    BY <2>2, <2>3
<1>8. ASSUME NEW q \in Proc, Acting(q)', proc'[q].at \in PlaceOfRows, round'[proc'[q].run] = 0,
             NEW n \in Node, row'[proc'[q].run][n] = "succeeded"
      PROVE  Out(q, n)' = "ok"
  <2>1. CASE q = p
    BY <1>8, <2>1 DEF Out, Acting
  <2>2. CASE q # p
    <3>1. proc'[q] = proc[q] /\ Acting(q)
      BY <1>4, <1>8, <2>2
    <3>2. proc[q].run \in Run /\ proc[q].run # r
      BY <1>5, <2>2, <3>1
    <3>3. row[proc[q].run][n] = "succeeded" /\ round[proc[q].run] = 0
      BY <1>1, <1>8, <3>1, <3>2 DEF OtherRuns
    <3> QED
      BY <1>8, <3>1, <3>3 DEF RanRight, Out
  <2> QED
    BY <2>1, <2>2
<1>9. \A q \in Proc : proc'[q].at \in {"mark", "close"} /\ proc'[q].put # NoNode =>
        proc'[q].out[proc'[q].put] = "ok"
  BY <1>4 DEF RanRight, Out
<1> QED
  BY <1>3, <1>6, <1>7, <1>8, <1>9 DEF RanRight, PlaceOfRows, Fresh, Out

\* A step of a round, with a question or without.
LEMMA RanOutcome ==
    ASSUME TypeOK, CardsHeld, OneToken, RanRight, Single' \subseteq Single,
           NEW p \in Proc, At(p, "dispatch"),
           NEW cards, Hands(p, "dispatch", proc[p].run, proc[p].held, cards),
           UNCHANGED <<status, round>>, LostGrows,
           OtherRuns(proc[p].run), \A n \in Node : Outcome(p, n)
    PROVE  RanRight'
<1> DEFINE r == proc[p].run
<1>1. r \in Run /\ Moving(p) /\ (r \in Single' => Acting(p) /\ r \in Single)
  BY DEF Acting, Moving, CardsHeld, InPlace, Working
<1>2. ASSUME r \in Single', round[r] = 0, NEW n \in Node
      PROVE  /\ n \notin lost'[r] => ran'[r][n] <= 1 /\ (ran'[r][n] = 1 => row'[r][n] = "succeeded")
             /\ row'[r][n] = "succeeded" => proc'[p].out[n] = "ok"
  <2>1. ran[r][n] \in Nat
    BY <1>1 DEF TypeOK
  <2>2. row[r][n] = "succeeded" => proc[p].out[n] = "ok"
    BY <1>1, <1>2 DEF RanRight, Out, PlaceOfRows
  <2>3. n \notin lost'[r] => ran[r][n] <= 1 /\ (ran[r][n] = 1 => row[r][n] = "succeeded")
    <3>1. lost[r] \subseteq lost'[r]
      BY <1>1 DEF LostGrows
    <3> QED
      BY <1>1, <1>2, <3>1 DEF RanRight
  <2>4. Outcome(p, n)
    OBVIOUS
  <2>5. CASE /\ proc'[p].out[n] = proc[p].out[n]
             /\ row'[r][n] = row[r][n] /\ ran'[r][n] = ran[r][n]
    BY <2>2, <2>3, <2>5
  <2>6. CASE /\ proc[p].out[n] = "none" /\ proc'[p].out[n] = "ok"
             /\ row'[r][n] = "succeeded" \/ n \in lost'[r]
             /\ ran'[r][n] = ran[r][n] + 1
    <3>1. n \notin lost'[r] => ran[r][n] = 0
      BY <2>1, <2>2, <2>3, <2>6
    <3> QED
      BY <2>6, <3>1
  <2>7. CASE /\ proc[p].out[n] \in {"none", "ask"} /\ proc'[p].out[n] # "ok"
             /\ row'[r][n] \in {row[r][n], "failed", "running", "skipped", "timeout"}
             /\ ran'[r][n] = ran[r][n]
    <3>1. row[r][n] # "succeeded" /\ (n \notin lost'[r] => ran[r][n] = 0)
      BY <2>1, <2>2, <2>3, <2>7
    <3> QED
      BY <2>7, <3>1
  <2> QED
    BY <2>4, <2>5, <2>6, <2>7 DEF Outcome
<1> QED
  BY <1>1, <1>2, RanActing DEF Hands, LostGrows

LEMMA CancelRows ==
    ASSUME TypeOK, NEW r \in Run, CancelPending(r)
    PROVE  \A s \in Run : \A n \in Node :
             /\ row'[s][n] = IF s = r /\ row[s][n] \in OpenRow THEN "cancelled" ELSE row[s][n]
             /\ row'[s][n] = "succeeded" <=> row[s][n] = "succeeded"
             /\ row[s][n] = "absent" => row'[s][n] = "absent"
<1>1. \A s \in Run : \A n \in Node :
        row'[s][n] = IF s = r /\ row[s][n] \in OpenRow THEN "cancelled" ELSE row[s][n]
  BY DEF CancelPending, TypeOK
<1> QED
  BY <1>1 DEF OpenRow

LEMMA RanStart ==
    ASSUME TypeOK, CardsHeld, RanRight, Single' \subseteq Single,
           NEW r \in Run, StartTurn(r), Hands(r, "plan", r, NoCard, {})
    PROVE  RanRight'
<1>1. r \in Proc /\ status[r] = "none" /\ status' = [status EXCEPT ![r] = "running"]
        /\ UNCHANGED <<row, ran, round, lost>>
  BY DEF Proc, StartTurn
<1>2. \A q \in Proc : q # r => proc'[q] = proc[q] /\ (Acting(q)' => Acting(q))
  BY DEF Hands, Others, Acting, Moving
<1>3. proc'[r].at = "plan" /\ proc'[r].run = r
  BY DEF Hands
<1>4. \A s \in Run : Fresh(s)' <=> Fresh(s)
  BY <1>1 DEF Fresh
<1>5. \A s \in Run : status'[s] = "none" => status[s] = "none"
  BY <1>1 DEF TypeOK
<1>6. \A s \in Run : status'[s] = "none" => Fresh(s)'
  BY <1>4, <1>5 DEF RanRight
<1>7. \A p \in Proc : Acting(p)' /\ At(p, "plan")' => Fresh(proc[p].run)'
  BY <1>1, <1>2, <1>3 DEF RanRight, Fresh
<1>8. \A s \in Single' : round'[s] = 0 =>
        \A n \in Node \ lost'[s] : ran'[s][n] <= 1 /\ (ran'[s][n] = 1 => row'[s][n] = "succeeded")
  BY <1>1 DEF RanRight
<1>9. \A p \in Proc : Acting(p)' /\ proc'[p].at \in PlaceOfRows /\ round'[proc'[p].run] = 0 =>
        \A n \in Node : row'[proc'[p].run][n] = "succeeded" => proc'[p].out[n] = "ok"
  BY <1>1, <1>2, <1>3 DEF RanRight, Out, PlaceOfRows
<1>10. \A p \in Proc : proc'[p].at \in {"mark", "close"} /\ proc'[p].put # NoNode =>
        proc'[p].out[proc'[p].put] = "ok"
  BY <1>2, <1>3 DEF RanRight, Out
<1> QED
  BY <1>6, <1>7, <1>8, <1>9, <1>10 DEF RanRight, Out

LEMMA RanReplan ==
    ASSUME TypeOK, CardsHeld, OneToken, RanRight, Single' \subseteq Single, NEW r \in Run, Replan(r)
    PROVE  RanRight'
<1>1. r \in Proc
  BY DEF Proc
<1>2. Hands(r, "dispatch", proc[r].run, proc[r].held, proc[r].cards)
  BY ReplanHands
<1>3. At(r, "dispatch") /\ proc[r].held = NoCard /\ UNCHANGED <<status, ran, lost>>
        /\ round' = [round EXCEPT ![r] = round[r] + 1]
        /\ row' = [row EXCEPT ![r] = [n \in Node |-> IF n \in plan[r].steps THEN "pending" ELSE row[r][n]]]
  BY DEF Replan, RoundOver
<1>4. proc[r].run = r
  BY <1>1, <1>3 DEF CardsHeld, InPlace, Working
<1>5. Moving(r)
  BY <1>3 DEF Moving
<1>6. OtherRuns(r)
  BY <1>3 DEF OtherRuns, TypeOK
<1>7. round'[r] # 0
  <2>1. round[r] \in 0 .. MaxRounds
    BY DEF TypeOK
  <2>2. round'[r] = round[r] + 1
    BY <1>3 DEF TypeOK
  <2> QED
    BY <2>1, <2>2, RunAssumption
<1>8. \A s \in Run : s # r => round'[s] = round[s]
  BY <1>3 DEF TypeOK
<1>9. proc'[r].at = "dispatch" /\ proc'[r].run = r /\ Others(r)
  BY <1>2, <1>4 DEF Hands
<1> QED
  BY <1>1, <1>3, <1>4, <1>5, <1>6, <1>7, <1>8, <1>9, RanActing

LEMMA RanWriteSteps ==
    ASSUME TypeOK, CardsHeld, OneToken, RanRight, Single' \subseteq Single, NEW r \in Run, WriteSteps(r)
    PROVE  RanRight'
<1>1. r \in Proc
  BY DEF Proc
<1>2. Hands(r, "dispatch", proc[r].run, proc[r].held, proc[r].cards)
  BY <1>1, GoHands DEF WriteSteps
<1>3. At(r, "plan") /\ UNCHANGED <<status, ran, round, lost>>
        /\ row' = [row EXCEPT ![r] = [n \in Node |-> IF n \in plan[r].steps THEN "pending" ELSE row[r][n]]]
  BY DEF WriteSteps
<1>4. proc[r].run = r
  BY <1>1, <1>3 DEF CardsHeld, InPlace, Working
<1>5. Moving(r)
  BY <1>3 DEF Moving
<1>6. OtherRuns(r)
  BY <1>3 DEF OtherRuns, TypeOK
<1>7. r \in Single' => \A n \in Node : ran[r][n] = 0 /\ row'[r][n] \in {"pending", "absent"}
  <2>1. r \in Single' => Fresh(r)
    BY <1>1, <1>3, <1>4, <1>5 DEF RanRight, Acting
  <2> QED
    BY <1>3, <2>1 DEF Fresh, TypeOK
<1>8. r \in Single' => \A n \in Node : ran'[r][n] <= 1 /\ ran'[r][n] # 1 /\ row'[r][n] # "succeeded"
  BY <1>3, <1>7
<1>9. proc'[r].at = "dispatch" /\ proc'[r].run = r /\ Others(r)
  BY <1>2, <1>4 DEF Hands
<1> QED
  BY <1>1, <1>3, <1>4, <1>5, <1>6, <1>8, <1>9, RanActing

\* The row of an answered question, if the database takes it.
LEMMA CloseEffect ==
    ASSUME TypeOK, NEW p \in Proc, proc[p].run \in Run, CloseQuestion(p)
    PROVE  /\ LostGrows /\ OtherRuns(proc[p].run) /\ UNCHANGED ran
           /\ \A n \in Node : \/ row'[proc[p].run][n] = row[proc[p].run][n]
                              \/ n = proc[p].put /\ row'[proc[p].run][n] = "succeeded"
<1> DEFINE r == proc[p].run
<1>0. proc[p].put \in Node \cup {NoNode} /\ UNCHANGED ran
  BY DEF TypeOK, Memory, CloseQuestion
<1>1. CASE NoRow
  BY <1>0, <1>1 DEF NoRow, LostGrows, OtherRuns
<1>2. CASE proc[p].put # NoNode /\ RowSays(p, proc[p].put, "succeeded")
  <2>1. /\ LostGrows
        /\ row' = [row EXCEPT ![r][proc[p].put] = "succeeded"] \/ row' = row
    BY <1>0, <1>2, RowTypes DEF NodeStatus, LostGrows
  <2> QED
    BY <1>0, <2>1 DEF OtherRuns, TypeOK
<1> QED
  BY <1>1, <1>2 DEF CloseQuestion, RowSays

LEMMA RanResume ==
    ASSUME TypeOK, CardsHeld, OneToken, RanRight, Single' \subseteq Single, NEW p \in Proc,
           Rebuild(p) \/ MarkResumed(p) \/ CloseQuestion(p)
    PROVE  RanRight'
<1> DEFINE r == proc[p].run
<1>1. Moving(p) /\ r \in Run /\ proc[p] \in Memory /\ (r \in Single' => Acting(p) /\ r \in Single)
  BY DEF Rebuild, MarkResumed, CloseQuestion, Acting, Moving, CardsHeld, InPlace, Working, TypeOK
<1>2. ASSUME r \in Single', round[r] = 0, NEW n \in Node, n \notin lost[r]
      PROVE  ran[r][n] <= 1 /\ (ran[r][n] = 1 => row[r][n] = "succeeded")
  BY <1>1, <1>2 DEF RanRight
<1>3. CASE Rebuild(p)
  <2>1. /\ Hands(p, "mark", r, proc[p].held, proc[p].cards)
        /\ proc'[p].put = Placed(r, proc[p].held)
        /\ proc'[p].out = [n \in Node |->
              IF row[r][n] = "succeeded" \/ n = Placed(r, proc[p].held) THEN "ok" ELSE "none"]
    BY <1>3, RebuildHands
  <2>2. UNCHANGED <<status, row, ran, round, lost>>
    BY <1>3 DEF Rebuild, tables
  <2>3. Placed(r, proc[p].held) \in Node \cup {NoNode}
    <3>1. plan[r].steps \subseteq Node /\ plan \in Plans
      BY <1>1, RunAssumption DEF TypeOK
    <3> QED
      BY <1>1, <3>1, PlacedIsStep
  <2>4. proc'[p].put # NoNode => proc'[p].out[proc'[p].put] = "ok"
    BY <2>1, <2>3
  <2>5. \A n \in Node : row'[r][n] = "succeeded" => proc'[p].out[n] = "ok"
    BY <2>1, <2>2
  <2>6. OtherRuns(r)
    BY <2>2 DEF OtherRuns
  <2> QED
    BY <1>1, <1>2, <2>1, <2>2, <2>4, <2>5, <2>6, RanActing DEF Hands
<1>4. CASE MarkResumed(p)
  <2>1. Hands(p, "close", r, proc[p].held, proc[p].cards) /\ proc'[p].out = proc[p].out
          /\ proc'[p].put = proc[p].put
    BY <1>4, GoHands DEF MarkResumed
  <2>2. UNCHANGED <<row, ran, round, lost>> /\ At(p, "mark")
    BY <1>4 DEF MarkResumed
  <2>3. \A s \in Run : status'[s] = "none" => status[s] = "none"
    BY <1>4 DEF MarkResumed, TypeOK
  <2>4. proc'[p].put # NoNode => proc'[p].out[proc'[p].put] = "ok"
    BY <2>1, <2>2 DEF RanRight, Out
  <2>5. r \in Single' /\ round[r] = 0 => \A n \in Node : row'[r][n] = "succeeded" => proc'[p].out[n] = "ok"
    BY <1>1, <2>1, <2>2 DEF RanRight, Out, PlaceOfRows
  <2>6. OtherRuns(r)
    BY <2>2 DEF OtherRuns
  <2> QED
    BY <1>1, <1>2, <2>1, <2>2, <2>3, <2>4, <2>5, <2>6, RanActing DEF Hands
<1>5. CASE CloseQuestion(p)
  <2>1. Hands(p, "dispatch", r, proc[p].held, proc[p].cards) /\ proc'[p].out = proc[p].out
    BY <1>5, GoHands DEF CloseQuestion
  <2>2. UNCHANGED <<status, ran, round>> /\ At(p, "close")
    BY <1>5 DEF CloseQuestion
  <2>3. /\ LostGrows /\ OtherRuns(r)
        /\ \A n \in Node : row'[r][n] = row[r][n] \/ (n = proc[p].put /\ row'[r][n] = "succeeded")
    BY <1>1, <1>5, CloseEffect
  <2>4. \A n \in Node : n = proc[p].put => proc[p].out[n] = "ok"
    BY <2>2, RunAssumption DEF RanRight, Out
  <2>5. r \in Single' /\ round[r] = 0 => \A n \in Node : row'[r][n] = "succeeded" => proc'[p].out[n] = "ok"
    BY <1>1, <2>1, <2>2, <2>3, <2>4 DEF RanRight, Out, PlaceOfRows
  <2>6. r \in Single' /\ round[r] = 0 => \A n \in Node : n \notin lost'[r] =>
          ran'[r][n] <= 1 /\ (ran'[r][n] = 1 => row'[r][n] = "succeeded")
    <3>1. lost[r] \subseteq lost'[r]
      BY <1>1, <2>3 DEF LostGrows
    <3> QED
      BY <1>2, <2>2, <2>3, <3>1
  <2> QED
    BY <1>1, <2>1, <2>2, <2>3, <2>5, <2>6, RanActing DEF Hands, LostGrows
<1> QED
  BY <1>3, <1>4, <1>5

LEMMA RanInit ==
    ASSUME Init
    PROVE  RanRight
<1>1. \A r \in Run : Fresh(r)
  BY DEF Init, Fresh, None
<1>2. \A p \in Proc : proc[p].at = "idle"
  BY DEF Init, Idle
<1>3. \A r \in Run : \A n \in Node : ran[r][n] <= 1 /\ ran[r][n] # 1
  BY DEF Init, None
<1> QED
  BY <1>1, <1>2, <1>3 DEF RanRight, Acting, Moving, Single, PlaceOfRows

LEMMA RanStep ==
    ASSUME TypeOK, CardsHeld, OneToken, RanRight, [Next]_vars
    PROVE  RanRight'
<1>0. Single' \subseteq Single
  BY SingleShrinks
<1>1. ASSUME NEW r \in Run, StartTurn(r) PROVE RanRight'
  <2>1. TypeOK'
    BY TypeStep
  <2> QED
    BY <1>0, <1>1, <2>1, CardsStart, RanStart
<1>2. ASSUME NEW p \in Proc, Others(p), proc'[p].at \notin PlaceOfRows \cup {"plan"},
             UNCHANGED <<row, ran, round, lost>>, \A r \in Run : status'[r] = "none" => status[r] = "none"
      PROVE  RanRight'
  BY <1>0, <1>2, RanStays DEF RanKeeps, Others
<1>3. ASSUME NEW p \in Proc, OnwardStep(p) PROVE RanRight'
  <2>1. CASE RoundStep(p)
    BY <1>0, <2>1, RanOutcome DEF RoundStep
  <2>2. CASE Rebuild(p) \/ MarkResumed(p) \/ CloseQuestion(p)
    BY <1>0, <2>2, RanResume
  <2>3. CASE p \in Run /\ (Replan(p) \/ WriteSteps(p))
    BY <1>0, <2>3, RanReplan, RanWriteSteps
  <2>4. Onward(p) /\ InPlace(p)
    BY <1>3, OnwardSteps DEF CardsHeld
  <2>5. CASE \/ Conclude(p) \/ Crashed(p) \/ Settle(p) \/ SettleLost(p) \/ MarkFailed(p) \/ Refused(p)
             \/ p \in Run /\ Say(p)
    <3>1. UNCHANGED <<row, ran, round, lost>>
      BY <2>5 DEF Conclude, Crashed, Settle, SettleLost, MarkFailed, Refused, Say, tables
    <3>2. proc'[p].at \in {"write", "failing", "done", "settle"}
      <4>1. CASE Conclude(p)
        BY <4>1, CloseHands DEF Conclude, Hands
      <4>2. CASE Crashed(p)
        BY <4>2, GoHands DEF Crashed, Hands
      <4>3. CASE Settle(p) \/ SettleLost(p) \/ MarkFailed(p) \/ Refused(p)
        BY <4>3, EndHands DEF Settle, SettleLost, MarkFailed, Refused, Hands
      <4>4. CASE p \in Run /\ Say(p)
        BY <4>4 DEF Say, TypeOK, Memory
      <4> QED
        BY <2>5, <4>1, <4>2, <4>3, <4>4
    <3> QED
      BY <1>2, <2>4, <3>1, <3>2 DEF Onward, PlaceOfRows
  <2> QED
    BY <1>3, <2>1, <2>2, <2>3, <2>5 DEF OnwardStep
<1>4. ASSUME NEW p \in Proc, NEW n \in Node, AskStep(p, n) PROVE RanRight'
  BY <1>0, <1>4, RanOutcome DEF AskStep
<1>5. ASSUME NEW p \in Proc, ParkOnReconnect(p) PROVE RanRight'
  BY <1>2, <1>5, ParkHands DEF Hands, PlaceOfRows
<1>6. ASSUME NEW p \in Proc, WriteMessage(p) \/ FailMessage(p) PROVE RanRight'
  BY <1>2, <1>6, InsertHands DEF Hands, PlaceOfRows
<1>7. ASSUME NEW p \in Proc, Answer(p) PROVE RanRight'
  BY <1>2, <1>7, AnswerHands DEF Hands, PlaceOfRows
<1>8. ASSUME NEW p \in Proc, Die(p) PROVE RanRight'
  <2>1. UNCHANGED <<status, row, ran, round, lost>>
    BY <1>8 DEF Die
  <2> QED
    BY <1>2, <1>8, <2>1, DieCards DEF Hands, PlaceOfRows
<1>9. ASSUME NEW p \in Proc, NEW c \in Card, OpenStep(p, c) PROVE RanRight'
  <2>1. InPlace(p)
    BY DEF CardsHeld
  <2> QED
    BY <1>2, <1>9, <2>1, OpenHands DEF Hands, PlaceOfRows
<1>10. ASSUME NEW q \in Request, CancelCard(q) PROVE RanRight'
  <2>1. q \in Proc
    BY DEF Proc
  <2>2. /\ Hands(q, "done", NoRun, NoCard, {}) /\ UNCHANGED <<ran, round, lost>>
        /\ \A r \in Run : status'[r] = "none" => status[r] = "none"
    BY <1>10, <2>1, CancelHands
  <2>3. proc[q].run \in Run /\ CancelPending(proc[q].run)
    BY <1>10, <2>1 DEF CancelCard, CardsHeld, InPlace, Working
  <2>4. RanKeeps
    BY <2>2, <2>3, CancelRows DEF RanKeeps, Hands, Others, PlaceOfRows
  <2> QED
    BY <1>0, <2>4, RanStays
<1>11. ASSUME NEW c \in Card, Expire(c) PROVE RanRight'
  BY <1>0, <1>11, RanStays DEF RanKeeps, Expire
<1>12. CASE StillStep
  <2>1. /\ UNCHANGED <<proc, ran, round, lost>>
        /\ \A r \in Run : status'[r] = "none" => status[r] = "none"
    BY <1>12, StillKeeps
  <2>2. UNCHANGED row \/ \E r \in Run : CancelPending(r)
    BY <1>12 DEF StillStep, SweepRead, Age, SweepStep, CloseDeadRun, SweepLook, SweepClose, tables, vars
  <2>3. RanKeeps
    BY <2>1, <2>2, CancelRows DEF RanKeeps
  <2> QED
    BY <1>0, <2>3, RanStays
<1> QED
  BY <1>1, <1>3, <1>4, <1>5, <1>6, <1>7, <1>8, <1>9, <1>10, <1>11, <1>12, StepKinds

Worked == TypeOK /\ CardsHeld /\ OneToken /\ RanRight

\* Of a run none of whose messages asked two questions that do not replace each other,
\* one process at most moves it at any time, and none does while a card of it may be
\* answered.  No assumption is made on the plans, nor on which rows the database takes.
THEOREM RunOneToken == Spec => []Worked
<1>1. Init => Worked
  BY CardsInit, TokenInit, RanInit DEF Worked
<1>2. Worked /\ [Next]_vars => Worked'
  BY CardsStep, TokenStep, RanStep DEF Worked
<1> QED
  BY <1>1, <1>2, PTL DEF Spec

\* A step that succeeded, and whose row says so, is carried from its row into every
\* later call of the dispatcher, and done again only when the plan was repaired or two
\* questions of the run were open at once (_resume and _dispatch in runner.py).
THEOREM RunReusedNotRerun == Spec => []ReusedNotRerun
<1>1. Worked => ReusedNotRerun
  <2> SUFFICES ASSUME Worked, NEW r \in Run, NEW n \in Node, ran[r][n] > 1, n \notin lost[r],
                      ~Crossed(r)
               PROVE  round[r] > 0
    BY DEF ReusedNotRerun
  <2>1. round[r] \in Nat /\ ran[r][n] \in Nat
    BY DEF Worked, TypeOK
  <2>2. round[r] = 0 => ran[r][n] <= 1
    BY DEF Worked, RanRight, Single
  <2> QED
    BY <2>1, <2>2
<1> QED
  BY <1>1, RunOneToken, PTL

----------------------------------------------------------------------------
(* The cards of a run have an order.                                       *)

\* The newest card is a matter of the run's own cards.
LEMMA NewestStays ==
    ASSUME NEW r, CardsOf(r)' = CardsOf(r), \A c \in CardsOf(r) : issued'[c] = issued[c], NEW c
    PROVE  IsNewest(c, r)' <=> IsNewest(c, r)
BY DEF IsNewest, Newer

LEMMA SameNewest ==
    ASSUME FiledSame
    PROVE  \A r \in Run : CardsOf(r)' = CardsOf(r) /\ \A c \in Card : IsNewest(c, r)' <=> IsNewest(c, r)
<1>1. \A r \in Run : CardsOf(r)' = CardsOf(r)
  BY DEF FiledSame, CardsOf
<1>2. \A c \in Card : issued'[c] = issued[c]
  BY DEF FiledSame
<1>3. \A r \in Run : CardsOf(r) \subseteq Card
  BY DEF CardsOf, Filed
<1> QED
  BY <1>1, <1>2, <1>3, NewestStays

LEMMA OneNewest ==
    ASSUME InOrder, NEW c \in Card, NEW d \in Card, NEW r \in Run, IsNewest(c, r), IsNewest(d, r)
    PROVE  c = d
<1>1. c \in Nat /\ d \in Nat
  BY RunAssumption
<1>2. Newer(c, d) /\ Newer(d, c)
  BY DEF IsNewest
<1>3. CASE d \in issued[c]
  <2>1. issued[d] \subseteq issued[c] /\ c \notin issued[c] /\ d \notin issued[d]
    BY <1>3 DEF InOrder
  <2> QED
    BY <1>2, <1>3, <2>1 DEF Newer
<1>4. CASE c \in issued[d]
  <2>1. issued[c] \subseteq issued[d] /\ c \notin issued[c] /\ d \notin issued[d]
    BY <1>4 DEF InOrder
  <2> QED
    BY <1>2, <1>4, <2>1 DEF Newer
<1> QED
  BY <1>1, <1>2, <1>3, <1>4 DEF Newer

\* Where a token comes from: the process had it, the run is new, or a card was answered.
Received(q) ==
    \/ Moving(q) /\ proc'[q].run = proc[q].run /\ proc'[q].held = proc[q].held
    \/ status[proc'[q].run] = "none" /\ proc'[q].held = NoCard
    \/ \E c \in Card : Pending(c) /\ proc'[q].held = c /\ proc'[q].run = card[c].run

\* Steps that file no card.
LEMMA OrderSame ==
    ASSUME TypeOK, CardsHeld, OneToken, InOrder, FiledSame, Single' \subseteq Single,
           \A c \in Card : Pending(c)' => Pending(c) /\ card'[c].run = card[c].run,
           \A q \in Proc : Moving(q)' => Received(q)
    PROVE  InOrder'
<1>0. \A r \in Run : CardsOf(r)' = CardsOf(r) /\ \A c \in Card : IsNewest(c, r)' <=> IsNewest(c, r)
  BY SameNewest
<1>1. \A c \in Card : issued'[c] \subseteq Filed' /\ c \notin issued'[c]
  BY DEF FiledSame, InOrder
<1>2. \A c, d \in Card : d \in issued'[c] => issued'[d] \subseteq issued'[c]
  BY DEF FiledSame, InOrder
<1>3. \A r \in Run : CardsOf(r)' # {} => \E c \in Card : IsNewest(c, r)'
  BY <1>0 DEF InOrder
<1>4. ASSUME NEW p \in Proc, NEW r \in Run, Acting(p)', proc'[p].run = r
      PROVE  IF proc'[p].held = NoCard THEN CardsOf(r)' = {}
                                       ELSE \A c \in Card : proc'[p].held = c => IsNewest(c, r)'
  <2>0. Moving(p)' /\ r \in Single
    BY <1>4 DEF Acting
  <2>1. CASE Moving(p) /\ proc'[p].run = proc[p].run /\ proc'[p].held = proc[p].held
    <3>1. Acting(p) /\ proc[p].run = r
      BY <1>4, <2>0, <2>1 DEF Acting
    <3> QED
      BY <1>0, <2>1, <3>1 DEF InOrder
  <2>2. CASE status[proc'[p].run] = "none" /\ proc'[p].held = NoCard
    <3>1. \A c \in Card : card[c].run # r
      BY <1>4, <2>2 DEF OneToken
    <3>2. CardsOf(r) = {}
      BY <3>1 DEF CardsOf, Filed
    <3> QED
      BY <1>0, <2>2, <3>2
  <2>3. CASE \E c \in Card : Pending(c) /\ proc'[p].held = c /\ proc'[p].run = card[c].run
    <3>1. PICK c \in Card : Pending(c) /\ proc'[p].held = c /\ proc'[p].run = card[c].run
      BY <2>3
    <3>2. IsNewest(c, r) /\ c # NoCard
      BY <1>4, <2>0, <3>1, RunAssumption DEF InOrder, Asking
    <3> QED
      BY <1>0, <3>1, <3>2
  <2> QED
    BY <2>0, <2>1, <2>2, <2>3 DEF Received
<1>5. \A c \in Card : \A r \in Run : Asking(c)' /\ card'[c].run = r => IsNewest(c, r)'
  BY <1>0 DEF InOrder, Asking
<1> QED
  BY <1>1, <1>2, <1>3, <1>4, <1>5 DEF InOrder

LEMMA OrderInsert ==
    ASSUME TypeOK, CardsHeld, OneToken, InOrder, Single' \subseteq Single,
           NEW p \in Proc, WriteMessage(p) \/ FailMessage(p)
    PROVE  InOrder'
<1> DEFINE K == proc[p].cards
           at == IF At(p, "write") THEN "settle" ELSE "mark_failed"
<1>0. /\ proc[p].at \in {"write", "failing"} /\ Hands(p, at, proc[p].run, proc[p].held, {})
      /\ Insert(p) /\ UNCHANGED plan
  BY InsertHands
<1>1. /\ Filed' = Filed \cup K /\ Filed \cap K = {} /\ K \subseteq Card
      /\ \A c \in Card : issued'[c] = IF c \in K THEN Filed ELSE issued[c]
      /\ \A r \in Run : CardsOf(r)' = IF r = proc[p].run THEN CardsOf(r) \cup K ELSE CardsOf(r)
  BY <1>0, InsertFiles DEF TypeOK, Memory
<1>2. /\ proc[p].run \in Single => Acting(p)
      /\ ~Acting(p)' /\ Working(p) /\ proc[p].run \in Run
  BY <1>0 DEF Acting, Moving, Hands, Working, CardsHeld, InPlace
<1>3. \A r \in Run : CardsOf(r) \subseteq Filed /\ CardsOf(r) \subseteq Card
  BY DEF CardsOf, Filed
<1>4. \A r \in Run : r # proc[p].run \/ K = {} =>
        CardsOf(r)' = CardsOf(r) /\ \A c \in Card : IsNewest(c, r)' <=> IsNewest(c, r)
  <2> SUFFICES ASSUME NEW r \in Run, r # proc[p].run \/ K = {}
               PROVE  CardsOf(r)' = CardsOf(r) /\ \A c \in Card : IsNewest(c, r)' <=> IsNewest(c, r)
    OBVIOUS
  <2>1. CardsOf(r)' = CardsOf(r)
    BY <1>1
  <2>2. \A c \in CardsOf(r) : issued'[c] = issued[c]
    BY <1>1, <1>3
  <2> QED
    BY <2>1, <2>2, NewestStays
<1>5. ASSUME NEW m \in K, \A d \in K : d <= m, NEW r \in Run, r = proc[p].run PROVE IsNewest(m, r)'
  <2>1. m \in CardsOf(r)'
    BY <1>1, <1>5
  <2>2. ASSUME NEW d \in CardsOf(r)' PROVE d \in issued'[m] \/ (issued'[d] = issued'[m] /\ d <= m)
    <3>1. d \in Filed \/ d \in K
      BY <1>1, <1>3, <1>5
    <3> QED
      BY <1>1, <1>5, <3>1
  <2> QED
    BY <2>1, <2>2 DEF IsNewest, Newer
<1>6. \A c \in Card : issued'[c] \subseteq Filed' /\ c \notin issued'[c]
  BY <1>1 DEF InOrder
<1>7. \A c, d \in Card : d \in issued'[c] => issued'[d] \subseteq issued'[c]
  <2> SUFFICES ASSUME NEW c \in Card, NEW d \in Card, d \in issued'[c]
               PROVE  issued'[d] \subseteq issued'[c]
    OBVIOUS
  <2>1. d \in Filed
    BY <1>1 DEF InOrder
  <2>2. issued'[d] = issued[d] /\ issued[d] \subseteq Filed
    BY <1>1, <2>1 DEF InOrder
  <2> QED
    BY <1>1, <2>2 DEF InOrder
<1>8. ASSUME NEW r \in Run, CardsOf(r)' # {} PROVE \E c \in Card : IsNewest(c, r)'
  <2>1. CASE r # proc[p].run \/ K = {}
    BY <1>4, <1>8, <2>1 DEF InOrder
  <2>2. CASE r = proc[p].run /\ K # {}
    <3>1. K \subseteq Nat /\ IsFiniteSet(K)
      BY <1>1, RunAssumption, FS_Subset
    <3> HIDE DEF K
    <3>2. PICK m \in K : \A d \in K : d <= m
      BY <2>2, <3>1, HasGreatest
    <3> USE DEF K
    <3>3. IsNewest(m, r)'
      BY <1>5, <2>2, <3>2
    <3> QED
      BY <1>1, <3>2, <3>3
  <2> QED
    BY <2>1, <2>2
<1>9. ASSUME NEW q \in Proc, NEW r \in Run, Acting(q)', proc'[q].run = r
      PROVE  IF proc'[q].held = NoCard THEN CardsOf(r)' = {}
                                       ELSE \A c \in Card : proc'[q].held = c => IsNewest(c, r)'
  <2>1. q # p
    BY <1>2, <1>9
  <2>2. proc'[q] = proc[q] /\ Acting(q)
    BY <1>0, <1>9, <2>1 DEF Hands, Others, Acting, Moving
  <2>3. r # proc[p].run
    BY <1>2, <1>9, <2>1, <2>2 DEF OneToken, Acting
  <2> QED
    BY <1>4, <1>9, <2>2, <2>3 DEF InOrder
<1>10. ASSUME NEW c \in Card, NEW r \in Run, Asking(c)', card'[c].run = r PROVE IsNewest(c, r)'
  <2>1. CASE c \in K
    <3>1. r = proc[p].run /\ proc[p].run \in Single'
      BY <1>0, <1>10, <2>1, InsertCard DEF CardsHeld, Asking
    <3>2. ASSUME NEW d \in K PROVE d <= c
      <4>1. c >= d
        BY <1>0, <1>2, <1>10, <2>1, <3>1, OneIsLeft DEF Pending, Asking
      <4>2. c \in Nat /\ d \in Nat
        BY <1>1, RunAssumption
      <4> QED
        BY <4>1, <4>2
    <3> QED
      BY <1>5, <2>1, <3>1, <3>2
  <2>2. CASE c \notin K
    <3>1. Asking(c) /\ card[c].run = r
      BY <1>0, <1>10, <2>2, InsertCard DEF Pending, Asking
    <3>2. r # proc[p].run /\ IsNewest(c, r)
      BY <1>2, <3>1 DEF OneToken, InOrder, Asking
    <3> QED
      BY <1>4, <3>2
  <2> QED
    BY <2>1, <2>2
<1> QED
  BY <1>6, <1>7, <1>8, <1>9, <1>10 DEF InOrder

LEMMA TokenPasses ==
    ASSUME TypeOK, CardsHeld, [Next]_vars,
           \A p \in Proc : ~WriteMessage(p) /\ ~FailMessage(p)
    PROVE  /\ \A c \in Card : Pending(c)' => Pending(c) /\ card'[c].run = card[c].run
           /\ \A q \in Proc : Moving(q)' => Received(q)
<1> DEFINE CardsPass == \A c \in Card : Pending(c)' => Pending(c) /\ card'[c].run = card[c].run
           ProcsPass == \A q \in Proc : Moving(q)' => Received(q)
<1>1. UNCHANGED card => CardsPass
  BY DEF Pending
<1>2. ASSUME NEW p \in Proc, Others(p), Moving(p)' => Received(p) PROVE ProcsPass
  <2>1. \A q \in Proc : q # p => proc'[q] = proc[q]
    BY <1>2 DEF Others
  <2>2. \A q \in Proc : q # p /\ Moving(q)' => Moving(q)
    BY <2>1 DEF Moving
  <2> QED
    BY <1>2, <2>1, <2>2 DEF Received
<1>3. UNCHANGED proc => ProcsPass
  BY DEF Received, Moving
<1>4. ASSUME NEW r \in Run, StartTurn(r) PROVE CardsPass /\ ProcsPass
  <2>1. TypeOK'
    BY TypeStep
  <2>2. Hands(r, "plan", r, NoCard, {}) /\ UNCHANGED card /\ status[r] = "none" /\ r \in Proc
    BY <1>4, <2>1, CardsStart DEF StartTurn, Proc
  <2>3. Received(r) /\ Others(r)
    BY <2>2 DEF Hands, Received
  <2> QED
    BY <1>1, <1>2, <2>2, <2>3
<1>5. ASSUME NEW p \in Proc, OnwardStep(p) PROVE CardsPass /\ ProcsPass
  <2>1. Onward(p)
    BY <1>5, OnwardSteps DEF CardsHeld
  <2>2. Moving(p)' => Received(p)
    BY <2>1 DEF Onward, Received, Moving
  <2> QED
    BY <1>1, <1>2, <2>1, <2>2 DEF Onward
<1>6. ASSUME NEW p \in Proc, NEW n \in Node \cup {NoNode}, Unused # {}, Show(proc[p].run, n)
      PROVE  CardsPass
  <2>1. NextCard \in Card /\ card[NextCard].state = "unused"
    BY <1>6, NextIsUnused DEF Unused
  <2>2. /\ card'[NextCard].state = "shown"
        /\ \A c \in Card : c # NextCard => card'[c] = card[c]
    BY <1>6, <2>1 DEF Show, TypeOK
  <2> QED
    BY <2>2 DEF Pending
<1>7. ASSUME NEW p \in Proc, NEW n \in Node, AskStep(p, n) PROVE CardsPass /\ ProcsPass
  <2>1. Others(p) /\ Received(p)
    BY <1>7 DEF AskStep, Hands, Received, Moving
  <2> QED
    BY <1>2, <1>6, <1>7, <2>1 DEF AskStep
<1>8. ASSUME NEW p \in Proc, ParkOnReconnect(p) PROVE CardsPass /\ ProcsPass
  <2>1. Others(p) /\ Received(p)
    BY <1>8, ParkHands DEF Hands, Received, Moving
  <2> QED
    BY <1>2, <1>6, <1>8, <2>1, ParkHands
<1>9. ASSUME NEW c \in Card, NEW s, FileCard(c, s) PROVE CardsPass
  BY <1>9, FileKeeps DEF FileCard, Pending
<1>10. ASSUME NEW p \in Proc, Answer(p) PROVE CardsPass /\ ProcsPass
  <2>1. /\ proc[p].held \in Card /\ FileCard(proc[p].held, "answered")
        /\ card[proc[p].held].run = proc[p].run /\ Hands(p, "rebuild", proc[p].run, proc[p].held, {})
    BY <1>10, AnswerHands
  <2>2. Others(p) /\ Received(p)
    BY <2>1 DEF Hands, Received, FileCard
  <2> QED
    BY <1>2, <1>9, <2>1, <2>2
<1>11. ASSUME NEW p \in Proc, Hands(p, "done", NoRun, NoCard, {}) PROVE ProcsPass
  BY <1>2, <1>11 DEF Hands, Moving
<1>12. ASSUME NEW p \in Proc, Die(p) PROVE CardsPass /\ ProcsPass
  <2>1. CardsPass
    BY <1>12, DieCards DEF Pending
  <2> QED
    BY <1>11, <1>12, <2>1, DieCards
<1>13. ASSUME NEW p \in Proc, NEW c \in Card, OpenStep(p, c) PROVE CardsPass /\ ProcsPass
  <2>1. /\ UNCHANGED card
        /\ Hands(p, "answer", card[c].run, c, {}) \/ Hands(p, "cancel", card[c].run, c, {})
    BY <1>13, OpenHands DEF CardsHeld
  <2>2. Others(p) /\ ~Moving(p)'
    BY <2>1 DEF Hands, Moving
  <2> QED
    BY <1>1, <1>2, <2>1, <2>2
<1>14. ASSUME NEW q \in Request, CancelCard(q) PROVE CardsPass /\ ProcsPass
  BY <1>9, <1>11, <1>14, CancelHands DEF Proc
<1>15. ASSUME NEW c \in Card, Expire(c) PROVE CardsPass /\ ProcsPass
  BY <1>3, <1>9, <1>15, ExpireFile
<1>16. CASE StillStep
  BY <1>1, <1>3, <1>16, StillKeeps
<1> QED
  BY <1>4, <1>5, <1>7, <1>8, <1>10, <1>12, <1>13, <1>14, <1>15, <1>16, StepKinds

LEMMA OrderStep ==
    ASSUME TypeOK, CardsHeld, OneToken, InOrder, [Next]_vars
    PROVE  InOrder'
<1>1. CASE \E p \in Proc : WriteMessage(p) \/ FailMessage(p)
  BY <1>1, OrderInsert, SingleShrinks
<1>2. CASE \A p \in Proc : ~WriteMessage(p) /\ ~FailMessage(p)
  BY <1>2, FiledKeeps, TokenPasses, OrderSame, SingleShrinks
<1> QED
  BY <1>1, <1>2

LEMMA OrderInit ==
    ASSUME Init
    PROVE  InOrder
<1>1. Filed = {} /\ \A r \in Run : CardsOf(r) = {}
  BY DEF Init, Filed, CardsOf
<1>2. \A p \in Proc : proc[p].at = "idle"
  BY DEF Init, Idle
<1>3. \A c \in Card : issued[c] = {} /\ card[c].state = "unused"
  BY DEF Init
<1> QED
  BY <1>1, <1>2, <1>3 DEF InOrder, Acting, Moving, Asking, Pending

\* A run that nothing can move stays so.
LEMMA NoTokenStays ==
    ASSUME TypeOK, CardsHeld, OneToken, [Next]_vars, NEW r \in Run, status[r] # "none", NoToken(r)
    PROVE  NoToken(r)'
<1>0. Single' \subseteq Single
  BY SingleShrinks
<1>1. CASE \A p \in Proc : ~WriteMessage(p) /\ ~FailMessage(p)
  <2>1. ASSUME NEW q \in Proc, Acting(q)', proc'[q].run = r PROVE FALSE
    <3>1. Received(q) /\ r \in Single
      BY <1>0, <1>1, <2>1, TokenPasses DEF Acting
    <3>2. Moving(q) /\ proc[q].run = r => FALSE
      BY <3>1 DEF NoToken, Acting
    <3>3. \A c \in Card : ~(Pending(c) /\ card[c].run = r)
      BY <3>1 DEF NoToken, Asking
    <3> QED
      BY <2>1, <3>1, <3>2, <3>3 DEF Received
  <2>2. \A c \in Card : Asking(c)' => Asking(c) /\ card'[c].run = card[c].run
    BY <1>0, <1>1, TokenPasses DEF Asking
  <2> QED
    BY <2>1, <2>2 DEF NoToken
<1>2. ASSUME NEW p \in Proc, WriteMessage(p) \/ FailMessage(p) PROVE NoToken(r)'
  <2> DEFINE at == IF At(p, "write") THEN "settle" ELSE "mark_failed"
  <2>1. /\ proc[p].at \in {"write", "failing"} /\ Hands(p, at, proc[p].run, proc[p].held, {})
        /\ Insert(p)
    BY <1>2, InsertHands
  <2>2. ~Acting(p)' /\ (r \in Single => proc[p].run # r)
    BY <2>1 DEF Acting, Moving, Hands, NoToken
  <2>3. \A q \in Proc : q # p => proc'[q] = proc[q] /\ (Acting(q)' => Acting(q))
    BY <1>0, <2>1 DEF Hands, Others, Acting, Moving
  <2>4. \A c \in proc[p].cards : card[c].run = proc[p].run
    BY DEF CardsHeld
  <2>5. \A c \in Card : /\ card'[c].run = card[c].run
                        /\ Asking(c)' => Asking(c) \/ (c \in proc[p].cards /\ card[c].run \in Single)
    BY <1>0, <2>1, InsertCard DEF Pending, Asking
  <2> QED
    BY <2>2, <2>3, <2>4, <2>5 DEF NoToken
<1> QED
  BY <1>1, <1>2

----------------------------------------------------------------------------
(* How the status of a run moves.                                          *)

LEMMA SetStatusMoves ==
    ASSUME TypeOK, NEW r \in Run, NEW s, SetStatus(r, s), NEW q \in Run
    PROVE  status'[q] = IF q = r /\ status[r] \notin Terminal THEN s ELSE status[q]
BY DEF TypeOK, SetStatus

Moves(r) ==
    \/ status'[r] = status[r]
    \/ /\ status[r] \notin Terminal
       /\ \/ status'[r] \in {"running", "complete", "failed", "timeout"}
          \/ /\ status'[r] = "awaiting_input"
             /\ \E p \in Proc : Settle(p) /\ proc[p].run = r /\ proc[p].verdict = "awaiting_input"
          \/ /\ status'[r] = "cancelled"
             /\ (\E q \in Request : CancelCard(q) /\ proc[q].run = r) \/ SweepClose(r)

LEMMA StatusMoves ==
    ASSUME TypeOK, CardsHeld, [Next]_vars, NEW r \in Run
    PROVE  Moves(r)
<1>0. \A p \in Proc : proc[p] \in Memory /\ InPlace(p) /\ (Working(p) => proc[p].run \in Run)
  BY DEF TypeOK, CardsHeld, InPlace
<1>1. UNCHANGED status => Moves(r)
  BY DEF Moves
<1>2. ASSUME NEW q \in Run, StartTurn(q) PROVE Moves(r)
  BY <1>2 DEF StartTurn, Moves, Terminal, TypeOK
<1>3. ASSUME NEW p \in Proc, Settle(p) PROVE Moves(r)
  <2>1. proc[p].verdict \in {"awaiting_input", "complete", "timeout"} /\ proc[p].run \in Run
    BY <1>0, <1>3 DEF Settle, InPlace, Memory, Working
  <2>2. SetStatus(proc[p].run, proc[p].verdict)
    BY <1>3 DEF Settle
  <2> QED
    BY <1>3, <2>1, <2>2, SetStatusMoves DEF Moves
<1>4. ASSUME NEW q \in Run, NEW s \in {"complete", "failed", "timeout"}, SetStatus(q, s) PROVE Moves(r)
  BY <1>4, SetStatusMoves DEF Moves
<1>5. ASSUME NEW p \in Proc, MarkFailed(p) PROVE Moves(r)
  BY <1>0, <1>4, <1>5 DEF MarkFailed, Working
<1>6. ASSUME NEW p \in Proc, MarkResumed(p) PROVE Moves(r)
  BY <1>6 DEF MarkResumed, Moves, Terminal, TypeOK
<1>7. ASSUME NEW p \in Proc, OnwardStep(p) PROVE Moves(r)
  <2>1. CASE Settle(p) \/ MarkFailed(p) \/ MarkResumed(p)
    BY <1>3, <1>5, <1>6, <2>1
  <2>2. CASE RoundStep(p) \/ Conclude(p) \/ Crashed(p) \/ Rebuild(p) \/ CloseQuestion(p) \/ SettleLost(p) \/ Refused(p)
    BY <1>1, <2>2 DEF RoundStep, Conclude, Crashed, Rebuild, CloseQuestion, SettleLost, Refused, tables
  <2>3. CASE p \in Run /\ (Replan(p) \/ Say(p) \/ WriteSteps(p))
    BY <1>1, <2>3 DEF Replan, Say, WriteSteps, tables
  <2> QED
    BY <1>7, <2>1, <2>2, <2>3 DEF OnwardStep
<1>8. ASSUME NEW p \in Proc,
             (\E n \in Node : AskStep(p, n)) \/ ParkOnReconnect(p) \/ WriteMessage(p) \/ FailMessage(p)
             \/ Answer(p) \/ Die(p)
      PROVE  Moves(r)
  BY <1>1, <1>8 DEF AskStep, ParkOnReconnect, WriteMessage, FailMessage, Answer, Die
<1>9. ASSUME NEW p \in Proc, NEW c \in Card, OpenStep(p, c) PROVE Moves(r)
  BY <1>1, <1>4, <1>9 DEF OpenStep, AnswerOpenCard, Open, tables
<1>10. ASSUME NEW q \in Request, CancelCard(q) PROVE Moves(r)
  <2>1. SetStatus(proc[q].run, "cancelled") /\ proc[q].run \in Run
    BY <1>0, <1>10 DEF CancelCard, Proc, Working
  <2> QED
    BY <1>10, <2>1, SetStatusMoves DEF Moves
<1>11. ASSUME NEW c \in Card, Expire(c) PROVE Moves(r)
  BY <1>1, <1>11 DEF Expire
<1>12. ASSUME NEW q \in Run, SweepStep(q) PROVE Moves(r)
  <2>1. CASE CloseDeadRun(q)
    BY <1>4, <2>1 DEF CloseDeadRun
  <2>2. CASE SweepLook(q)
    BY <1>1, <2>2 DEF SweepLook, tables
  <2>3. CASE SweepClose(q)
    <3>1. SetStatus(q, "cancelled")
      BY <2>3 DEF SweepClose
    <3> QED
      BY <2>3, <3>1, SetStatusMoves DEF Moves
  <2> QED
    BY <1>12, <2>1, <2>2, <2>3 DEF SweepStep
<1>13. CASE StillStep
  BY <1>1, <1>12, <1>13 DEF StillStep, SweepRead, Age, tables, vars
<1> QED
  BY <1>2, <1>7, <1>8, <1>9, <1>10, <1>11, <1>13, StepKinds

----------------------------------------------------------------------------
(* Who waits has something to wait for.                                    *)

LEMMA CardsGrow ==
    ASSUME TypeOK, CardsHeld, [Next]_vars
    PROVE  \A r \in Run : CardsOf(r) # {} => CardsOf(r)' # {}
<1>1. CASE \A p \in Proc : ~WriteMessage(p) /\ ~FailMessage(p)
  BY <1>1, FiledKeeps, SameNewest
<1>2. ASSUME NEW p \in Proc, WriteMessage(p) \/ FailMessage(p)
      PROVE  \A r \in Run : CardsOf(r) # {} => CardsOf(r)' # {}
  BY <1>2, InsertHands, InsertFiles
<1> QED
  BY <1>1, <1>2

LEMMA WaitsSame ==
    ASSUME TypeOK, CardsHeld, [Next]_vars, NEW p \in Proc, Waits(p), proc'[p] = proc[p]
    PROVE  Waits(p)'
BY CardsGrow DEF Waits

LEMMA WaitsOnward ==
    ASSUME TypeOK, CardsHeld, NEW p \in Proc, Waits(p), OnwardStep(p)
    PROVE  Waits(p)'
<1> USE DEF TypeOK
<1>0. proc[p] \in Memory /\ InPlace(p)
  BY DEF CardsHeld
<1>1. CASE RoundStep(p)
  BY <1>1 DEF RoundStep, Hands, Waits
<1>2. CASE Conclude(p)
  <2>1. Hands(p, "write", proc[p].run, proc[p].held, proc[p].cards) /\ proc'[p].verdict = Verdict(p)
        /\ proc'[p].paused = FALSE
    BY <1>2, CloseHands DEF Conclude
  <2>2. Verdict(p) = "awaiting_input" => proc[p].paused
    BY DEF Verdict
  <2>3. At(p, "dispatch")
    BY <1>2 DEF Conclude, RoundOver
  <2> QED
    BY <2>1, <2>2, <2>3 DEF Hands, Waits
<1>3. CASE Crashed(p)
  <2>1. Hands(p, "failing", proc[p].run, proc[p].held, proc[p].cards) /\ proc'[p].paused = proc[p].paused
        /\ proc[p].at # "mark_failed"
    BY <1>3, GoHands DEF Crashed
  <2> QED
    BY <2>1 DEF Hands, Waits
<1>4. CASE Rebuild(p)
  <2>1. Hands(p, "mark", proc[p].run, proc[p].held, proc[p].cards) /\ proc'[p].paused = proc[p].paused
        /\ At(p, "rebuild")
    BY <1>4, RebuildHands DEF Rebuild
  <2> QED
    BY <2>1 DEF Hands, Waits
<1>5. ASSUME NEW place \in {"close", "dispatch"}, Go(p, place), proc[p].at \in {"mark", "close", "plan"}
      PROVE  Waits(p)'
  <2>1. Hands(p, place, proc[p].run, proc[p].held, proc[p].cards) /\ proc'[p].paused = proc[p].paused
    BY <1>5, GoHands
  <2> QED
    BY <1>5, <2>1 DEF Hands, Waits
<1>6. CASE MarkResumed(p) \/ CloseQuestion(p) \/ (p \in Run /\ WriteSteps(p))
  BY <1>5, <1>6 DEF MarkResumed, CloseQuestion, WriteSteps
<1>7. CASE End(p)
  <2>1. Hands(p, "done", NoRun, NoCard, {}) /\ proc'[p].paused = FALSE
    BY <1>7, EndHands
  <2> QED
    BY <2>1 DEF Hands, Waits
<1>8. CASE p \in Run /\ Replan(p)
  <2>1. Hands(p, "dispatch", proc[p].run, proc[p].held, proc[p].cards) /\ proc'[p].paused = proc[p].paused
        /\ ~proc[p].paused
    BY <1>8, ReplanHands DEF Replan
  <2> QED
    BY <2>1 DEF Hands, Waits
<1>9. CASE p \in Run /\ Say(p)
  <2>1. proc'[p].at = "settle" /\ proc'[p].paused = proc[p].paused /\ proc'[p].verdict = "complete"
        /\ At(p, "plan")
    BY <1>0, <1>9 DEF Say, Memory
  <2> QED
    BY <2>1 DEF Waits
<1> QED
  BY <1>1, <1>2, <1>3, <1>4, <1>6, <1>7, <1>8, <1>9 DEF OnwardStep, Settle, SettleLost, MarkFailed, Refused

LEMMA WaitsInsert ==
    ASSUME TypeOK, CardsHeld, NEW p \in Proc, Waits(p), WriteMessage(p) \/ FailMessage(p)
    PROVE  Waits(p)'
<1>1. /\ proc[p].at \in {"write", "failing"} /\ Insert(p)
      /\ Hands(p, IF At(p, "write") THEN "settle" ELSE "mark_failed", proc[p].run, proc[p].held, {})
      /\ proc'[p].verdict = proc[p].verdict /\ proc'[p].paused = proc[p].paused
  BY InsertHands
<1>2. \A r \in Run : r = proc[p].run => CardsOf(r)' = CardsOf(r) \cup proc[p].cards
  BY <1>1, InsertFiles
<1>3. CASE At(p, "write")
  BY <1>1, <1>2, <1>3 DEF Hands, Waits
<1>4. CASE At(p, "failing")
  BY <1>1, <1>4 DEF Hands, Waits
<1> QED
  BY <1>1, <1>3, <1>4

LEMMA WaitsStep ==
    ASSUME TypeOK, CardsHeld, [Next]_vars, \A p \in Proc : Waits(p)
    PROVE  \A p \in Proc : Waits(p)'
<1>1. ASSUME NEW p \in Proc, Others(p), Waits(p)' PROVE \A q \in Proc : Waits(q)'
  BY <1>1, WaitsSame DEF Others
<1>2. UNCHANGED proc => \A q \in Proc : Waits(q)'
  BY WaitsSame
<1>3. ASSUME NEW r \in Run, StartTurn(r) PROVE \A q \in Proc : Waits(q)'
  <2>1. r \in Proc /\ proc[r] \in Memory /\ At(r, "idle") /\ Waits(r)
    BY <1>3 DEF Proc, TypeOK, StartTurn
  <2>2. proc'[r].at = "plan" /\ proc'[r].paused = proc[r].paused /\ Others(r)
    BY <1>3, <2>1 DEF StartTurn, TypeOK, Memory, Others
  <2>3. Waits(r)'
    BY <2>1, <2>2 DEF Waits
  <2> QED
    BY <1>1, <2>1, <2>2, <2>3
<1>4. ASSUME NEW p \in Proc, OnwardStep(p) PROVE \A q \in Proc : Waits(q)'
  <2>1. Others(p)
    BY <1>4, OnwardSteps DEF CardsHeld, Onward
  <2> QED
    BY <1>1, <1>4, <2>1, WaitsOnward
<1>5. ASSUME NEW p \in Proc, NEW n \in Node, AskStep(p, n) PROVE \A q \in Proc : Waits(q)'
  <2>1. Others(p) /\ proc'[p].at = "dispatch" /\ proc'[p].cards # {}
    BY <1>5 DEF AskStep, Hands
  <2>2. Waits(p)'
    BY <2>1 DEF Waits
  <2> QED
    BY <1>1, <2>1, <2>2
<1>6. ASSUME NEW p \in Proc, ParkOnReconnect(p) PROVE \A q \in Proc : Waits(q)'
  <2>1. Others(p) /\ proc'[p].at = "write" /\ proc'[p].cards # {} /\ proc'[p].paused = FALSE
    BY <1>6, ParkHands DEF Hands
  <2>2. Waits(p)'
    BY <2>1 DEF Waits
  <2> QED
    BY <1>1, <2>1, <2>2
<1>7. ASSUME NEW p \in Proc, WriteMessage(p) \/ FailMessage(p) PROVE \A q \in Proc : Waits(q)'
  BY <1>1, <1>7, WaitsInsert, InsertHands DEF Hands
<1>8. ASSUME NEW p \in Proc, Others(p), proc'[p].at \in {"answer", "cancel", "rebuild", "done"},
             proc'[p].paused => proc[p].paused, proc[p].at \in {"idle", "plan", "answer"} \/ proc'[p].paused = FALSE
      PROVE  \A q \in Proc : Waits(q)'
  <2>1. Waits(p)'
    BY <1>8 DEF Waits
  <2> QED
    BY <1>1, <1>8, <2>1
<1>9. ASSUME NEW p \in Proc, Answer(p) PROVE \A q \in Proc : Waits(q)'
  <2>1. At(p, "answer") /\ Hands(p, "rebuild", proc[p].run, proc[p].held, {}) /\ proc'[p].paused = proc[p].paused
    BY <1>9, AnswerHands
  <2> QED
    BY <1>8, <2>1 DEF Hands
<1>10. ASSUME NEW p \in Proc, Die(p) PROVE \A q \in Proc : Waits(q)'
  BY <1>8, <1>10, DieCards DEF Hands
<1>11. ASSUME NEW p \in Proc, NEW c \in Card, OpenStep(p, c) PROVE \A q \in Proc : Waits(q)'
  <2>1. /\ proc[p].at \in {"idle", "plan"} /\ proc'[p].paused = proc[p].paused
        /\ Hands(p, "answer", card[c].run, c, {}) \/ Hands(p, "cancel", card[c].run, c, {})
    BY <1>11, OpenHands DEF CardsHeld
  <2> QED
    BY <1>8, <2>1 DEF Hands
<1>12. ASSUME NEW q \in Request, CancelCard(q) PROVE \A s \in Proc : Waits(s)'
  <2>1. q \in Proc
    BY DEF Proc
  <2>2. Hands(q, "done", NoRun, NoCard, {}) /\ proc'[q].paused = FALSE
    BY <1>12, <2>1, CancelHands
  <2> QED
    BY <1>8, <2>1, <2>2 DEF Hands
<1>13. ASSUME NEW c \in Card, Expire(c) PROVE \A q \in Proc : Waits(q)'
  BY <1>2, <1>13, ExpireFile
<1>14. CASE StillStep
  BY <1>2, <1>14, StillKeeps
<1> QED
  BY <1>3, <1>4, <1>5, <1>6, <1>7, <1>9, <1>10, <1>11, <1>12, <1>13, <1>14, StepKinds

LEMMA VerdictsStep ==
    ASSUME TypeOK, CardsHeld, Verdicts, [Next]_vars
    PROVE  Verdicts'
<1>1. \A p \in Proc : Waits(p)
  BY DEF Verdicts
<1>2. \A p \in Proc : Waits(p)'
  BY <1>1, WaitsStep
<1>3. ASSUME NEW r \in Run, status'[r] = "awaiting_input" PROVE CardsOf(r)' # {}
  <2>1. Moves(r)
    BY StatusMoves
  <2>2. CASE status'[r] = status[r]
    BY <1>3, <2>2, CardsGrow DEF Verdicts
  <2>3. ASSUME NEW p \in Proc, Settle(p), proc[p].run = r, proc[p].verdict = "awaiting_input"
        PROVE  CardsOf(r)' # {}
    BY <1>1, <2>3, CardsGrow DEF Settle, Waits
  <2> QED
    BY <1>3, <2>1, <2>2, <2>3 DEF Moves
<1> QED
  BY <1>2, <1>3 DEF Verdicts

LEMMA VerdictsInit ==
    ASSUME Init
    PROVE  Verdicts
BY DEF Init, Idle, Verdicts, Waits

----------------------------------------------------------------------------
(* A closed run stays closed.                                              *)

LEMMA SweepMoves ==
    ASSUME TypeOK, CardsHeld, [Next]_vars, NEW r \in Run
    PROVE  \/ sweep'[r] = sweep[r] \/ sweep'[r] = "none"
           \/ sweep'[r] # "close" /\ status[r] # "none"
           \/ sweep'[r] = "close" /\ SweepLook(r)
<1> DEFINE Said == \/ sweep'[r] = sweep[r] \/ sweep'[r] = "none"
                   \/ sweep'[r] # "close" /\ status[r] # "none"
                   \/ sweep'[r] = "close" /\ SweepLook(r)
<1>1. UNCHANGED sweep => Said
  OBVIOUS
<1>2. ASSUME NEW p \in Proc, OnwardStep(p) PROVE Said
  <2>1. CASE RoundStep(p) \/ Conclude(p) \/ Crashed(p) \/ Rebuild(p) \/ MarkResumed(p) \/ CloseQuestion(p)
    BY <1>1, <2>1 DEF RoundStep, Conclude, Crashed, Rebuild, MarkResumed, CloseQuestion
  <2>2. CASE Settle(p) \/ SettleLost(p) \/ MarkFailed(p) \/ Refused(p)
    BY <1>1, <2>2 DEF Settle, SettleLost, MarkFailed, Refused
  <2>3. CASE p \in Run /\ (Replan(p) \/ Say(p) \/ WriteSteps(p))
    BY <1>1, <2>3 DEF Replan, Say, WriteSteps
  <2> QED
    BY <1>2, <2>1, <2>2, <2>3 DEF OnwardStep
<1>3. ASSUME NEW p \in Proc,
             (\E n \in Node : AskStep(p, n)) \/ ParkOnReconnect(p) \/ WriteMessage(p) \/ FailMessage(p)
             \/ Answer(p) \/ Die(p)
      PROVE  Said
  BY <1>1, <1>3 DEF AskStep, ParkOnReconnect, WriteMessage, FailMessage, Answer, Die
<1>4. ASSUME NEW p \in Proc, NEW c \in Card, OpenStep(p, c) PROVE Said
  BY <1>1, <1>4 DEF OpenStep, AnswerOpenCard, Open
<1>5. ASSUME NEW q \in Request, CancelCard(q) PROVE Said
  BY <1>1, <1>5 DEF CancelCard
<1>6. ASSUME NEW c \in Card, Expire(c) PROVE Said
  BY <1>1, <1>6 DEF Expire
<1>7. ASSUME NEW q \in Run, StartTurn(q) PROVE Said
  BY <1>1, <1>7 DEF StartTurn
<1>8. ASSUME NEW q \in Run, SweepStep(q) PROVE Said
  <2>1. CASE CloseDeadRun(q)
    BY <2>1 DEF CloseDeadRun, TypeOK
  <2>2. CASE SweepClose(q)
    BY <2>2 DEF SweepClose, TypeOK
  <2>3. CASE SweepLook(q) /\ q = r
    BY <2>3 DEF SweepLook, TypeOK
  <2>4. CASE SweepLook(q) /\ q # r
    BY <2>4 DEF SweepLook, TypeOK
  <2> QED
    BY <1>8, <2>1, <2>2, <2>3, <2>4 DEF SweepStep
<1>9. CASE SweepRead
  BY <1>9 DEF SweepRead, Live
<1>10. CASE StillStep
  BY <1>1, <1>8, <1>9, <1>10 DEF StillStep, Age, vars
<1> QED
  BY <1>2, <1>3, <1>4, <1>5, <1>6, <1>7, <1>10, StepKinds

\* The newest card, where there is one.
LEMMA NewestIs ==
    ASSUME InOrder, NEW r \in Run, CardsOf(r) # {}
    PROVE  Newest(r) \in Card /\ IsNewest(Newest(r), r)
<1>1. \E c \in CardsOf(r) : \A d \in CardsOf(r) : Newer(c, d)
  BY DEF InOrder, IsNewest
<1>2. Newest(r) \in CardsOf(r) /\ \A d \in CardsOf(r) : Newer(Newest(r), d)
  BY <1>1 DEF Newest
<1>3. CardsOf(r) \subseteq Card
  BY DEF CardsOf, Filed
<1> QED
  BY <1>2, <1>3 DEF IsNewest

LEMMA LookNoToken ==
    ASSUME TypeOK, CardsHeld, OneToken, InOrder, NEW r \in Run, SweepLook(r), sweep'[r] = "close"
    PROVE  NoToken(r)
<1>1. CardsOf(r) # {} /\ card[Newest(r)].state \notin {"pending", "answered"}
  BY DEF SweepLook, TypeOK
<1>2. Newest(r) \in Card /\ IsNewest(Newest(r), r)
  BY <1>1, NewestIs
<1>3. ASSUME NEW p \in Proc, Acting(p), proc[p].run = r PROVE FALSE
  <2>1. proc[p].held # NoCard
    BY <1>1, <1>3 DEF InOrder
  <2>2. proc[p].held \in Card /\ card[proc[p].held].state = "answered"
    BY <1>3, <2>1 DEF CardsHeld, Filed, Acting, Moving, Resuming
  <2>3. IsNewest(proc[p].held, r)
    BY <1>3, <2>1, <2>2 DEF InOrder
  <2> QED
    BY <1>1, <1>2, <2>2, <2>3, OneNewest
<1>4. ASSUME NEW c \in Card, Asking(c), card[c].run = r PROVE FALSE
  <2>1. IsNewest(c, r)
    BY <1>4 DEF InOrder
  <2> QED
    BY <1>1, <1>2, <1>4, <2>1, OneNewest DEF Asking, Pending
<1> QED
  BY <1>3, <1>4 DEF NoToken

\* Rows are opened by the process that acts on the run.
LEMMA RowsOpen ==
    ASSUME TypeOK, CardsHeld, [Next]_vars, NEW r \in Single,
           \A p \in Proc : Acting(p) => proc[p].run # r
    PROVE  \A n \in Node : row'[r][n] \in OpenRow => row[r][n] \in OpenRow
<1> DEFINE Said == \A n \in Node : row'[r][n] \in OpenRow => row[r][n] \in OpenRow
<1>0. r \in Run /\ \A p \in Proc : Moving(p) => proc[p].run # r
  BY DEF Single, Acting
<1>1. row'[r] = row[r] => Said
  OBVIOUS
<1>2. ASSUME NEW p \in Proc, OnwardStep(p) PROVE Said
  <2>1. CASE RoundStep(p)
    BY <1>0, <1>1, <2>1 DEF RoundStep, OtherRuns, Moving
  <2>2. CASE Conclude(p) \/ Crashed(p) \/ Rebuild(p) \/ MarkResumed(p)
    BY <1>1, <2>2 DEF Conclude, Crashed, Rebuild, MarkResumed, tables
  <2>3. CASE Settle(p) \/ SettleLost(p) \/ MarkFailed(p) \/ Refused(p)
    BY <1>1, <2>3 DEF Settle, SettleLost, MarkFailed, Refused, tables
  <2>4. CASE CloseQuestion(p)
    <3>1. proc[p].run # r /\ proc[p].run \in Run
      BY <1>0, <2>4 DEF CloseQuestion, Moving, CardsHeld, InPlace, Working
    <3>2. row'[r] = row[r]
      BY <1>0, <2>4, <3>1, CloseEffect DEF OtherRuns
    <3> QED
      BY <1>1, <3>2
  <2>5. CASE p \in Run /\ Say(p)
    BY <1>1, <2>5 DEF Say, tables
  <2>6. CASE p \in Run /\ (Replan(p) \/ WriteSteps(p))
    <3>1. proc[p].held = NoCard /\ proc[p].at \in {"plan", "dispatch"}
      BY <2>6 DEF Replan, RoundOver, WriteSteps, CardsHeld, InPlace
    <3>2. proc[p].run = p /\ Moving(p)
      BY <3>1 DEF CardsHeld, InPlace, Working, Moving
    <3>3. row'[r] = row[r]
      BY <1>0, <2>6, <3>2 DEF Replan, WriteSteps, TypeOK
    <3> QED
      BY <1>1, <3>3
  <2> QED
    BY <1>2, <2>1, <2>2, <2>3, <2>4, <2>5, <2>6 DEF OnwardStep
<1>3. ASSUME NEW p \in Proc, NEW n \in Node, AskStep(p, n) PROVE Said
  BY <1>0, <1>1, <1>3 DEF AskStep, OtherRuns, Moving
<1>4. ASSUME NEW p \in Proc, ParkOnReconnect(p) \/ WriteMessage(p) \/ FailMessage(p) \/ Answer(p) \/ Die(p)
      PROVE  Said
  BY <1>1, <1>4 DEF ParkOnReconnect, WriteMessage, FailMessage, Answer, Die
<1>5. ASSUME NEW p \in Proc, NEW c \in Card, OpenStep(p, c) PROVE Said
  BY <1>1, <1>5 DEF OpenStep, AnswerOpenCard, Open, tables
<1>6. ASSUME NEW s \in Run, CancelPending(s) PROVE Said
  BY <1>0, <1>6, CancelRows DEF OpenRow
<1>7. ASSUME NEW q \in Request, CancelCard(q) PROVE Said
  <2>1. proc[q].run \in Run
    BY <1>7 DEF CancelCard, CardsHeld, InPlace, Working, Proc
  <2> QED
    BY <1>6, <1>7, <2>1 DEF CancelCard
<1>8. ASSUME NEW c \in Card, Expire(c) PROVE Said
  BY <1>1, <1>8 DEF Expire
<1>9. ASSUME NEW q \in Run, StartTurn(q) PROVE Said
  BY <1>1, <1>9 DEF StartTurn
<1>10. ASSUME NEW q \in Run, SweepStep(q) PROVE Said
  BY <1>1, <1>6, <1>10 DEF SweepStep, CloseDeadRun, SweepLook, SweepClose, tables
<1>11. CASE StillStep
  BY <1>1, <1>10, <1>11 DEF StillStep, SweepRead, Age, tables, vars
<1> QED
  BY <1>2, <1>3, <1>4, <1>5, <1>7, <1>8, <1>9, <1>11, StepKinds

LEMMA DismissNoToken ==
    ASSUME TypeOK, CardsHeld, OneToken, [Next]_vars,
           NEW q \in Request, CancelCard(q), NEW r \in Run, proc[q].run = r
    PROVE  NoToken(r)'
<1>0. q \in Proc
  BY DEF Proc
<1> DEFINE h == proc[q].held
<1>1. /\ h \in Card /\ FileCard(h, "cancelled") /\ card[h].run = r
      /\ Hands(q, "done", NoRun, NoCard, {})
  BY <1>0, CancelHands
<1>2. Pending(h)
  BY <1>1 DEF FileCard
<1>3. \A p \in Proc : p # q => proc'[p] = proc[p]
  BY <1>1 DEF Hands, Others
<1>4. Single' \subseteq Single
  BY SingleShrinks
<1>5. \A p \in Proc : Acting(p)' => Acting(p) /\ proc'[p].run = proc[p].run
  BY <1>1, <1>3, <1>4 DEF Hands, Acting, Moving
<1>6. \A p \in Proc : Acting(p) => proc[p].run # r
  BY <1>1, <1>2 DEF OneToken, Acting, Asking
<1>7. /\ card'[h].state = "cancelled"
      /\ \A c \in Card : c # h => card'[c] = card[c]
  BY <1>1, FileKeeps
<1>8. \A c \in Card : Asking(c)' => Asking(c) /\ c # h /\ card'[c].run = card[c].run
  BY <1>1, <1>4, <1>7, FileKeeps DEF Asking, Pending
<1>9. \A c \in Card : Asking(c) /\ c # h => card[c].run # r
  BY <1>1, <1>2 DEF OneToken, Asking
<1> QED
  BY <1>5, <1>6, <1>8, <1>9 DEF NoToken

LEMMA ClosedStep ==
    ASSUME TypeOK, CardsHeld, OneToken, InOrder, Closed, [Next]_vars
    PROVE  Closed'
<1>1. ASSUME NEW r \in Run, status[r] # "none" PROVE status'[r] # "none"
  BY <1>1, StatusMoves DEF Moves
<1>2. ASSUME NEW r \in Run, sweep'[r] # "none" PROVE status'[r] # "none"
  <2>1. SweepLook(r) => sweep[r] # "none"
    BY DEF SweepLook
  <2>2. status[r] # "none"
    BY <1>2, <2>1, SweepMoves DEF Closed
  <2> QED
    BY <1>1, <2>2
<1>3. ASSUME NEW r \in Run, sweep'[r] = "close" PROVE NoToken(r)'
  <2>1. sweep[r] # "none" /\ NoToken(r)
    <3>1. CASE sweep'[r] = sweep[r]
      BY <1>3, <3>1 DEF Closed
    <3>2. CASE SweepLook(r)
      BY <1>3, <3>2, LookNoToken DEF SweepLook
    <3> QED
      BY <1>3, <3>1, <3>2, SweepMoves
  <2> QED
    BY <2>1, NoTokenStays DEF Closed
<1>4. ASSUME NEW r \in Run, status'[r] = "cancelled"
      PROVE  NoToken(r)' /\ (r \in Single' => \A n \in Node : row'[r][n] \notin OpenRow)
  <2>1. CASE status'[r] = status[r]
    <3>1. /\ NoToken(r) /\ status[r] # "none"
          /\ r \in Single => \A n \in Node : row[r][n] \notin OpenRow
      BY <1>4, <2>1 DEF Closed
    <3>2. \A p \in Proc : Acting(p) => proc[p].run # r
      BY <3>1 DEF NoToken
    <3>3. r \in Single' => r \in Single
      BY SingleShrinks
    <3> QED
      BY <3>1, <3>2, <3>3, NoTokenStays, RowsOpen
  <2>2. ASSUME NEW q \in Request, CancelCard(q), proc[q].run = r
        PROVE  NoToken(r)' /\ \A n \in Node : row'[r][n] \notin OpenRow
    <3>1. CancelPending(r)
      BY <2>2 DEF CancelCard
    <3> QED
      BY <2>2, <3>1, DismissNoToken, CancelRows DEF OpenRow
  <2>3. CASE SweepClose(r)
    <3>1. CancelPending(r) /\ sweep[r] = "close"
      BY <2>3 DEF SweepClose
    <3>2. NoToken(r) /\ status[r] # "none"
      BY <3>1 DEF Closed
    <3> QED
      BY <3>1, <3>2, NoTokenStays, CancelRows DEF OpenRow
  <2> QED
    BY <1>4, <2>1, <2>2, <2>3, StatusMoves DEF Moves
<1> QED
  BY <1>2, <1>3, <1>4 DEF Closed

LEMMA ClosedInit ==
    ASSUME Init
    PROVE  Closed
BY DEF Init, Closed

----------------------------------------------------------------------------
(* An answer is taken to an end of the run.                                *)

FaultyStep(p) == Crashed(p) \/ SettleLost(p) \/ Die(p)

LEMMA FaultFree ==
    ASSUME TypeOK, CardsHeld, [Next]_vars, faults' = 0
    PROVE  faults = 0 /\ \A p \in Proc : ~FaultyStep(p)
<1>0. faults \in Nat
  BY RunAssumption DEF TypeOK
<1>1. \A p \in Proc : ~FaultyStep(p)
  BY <1>0 DEF FaultyStep, Crashed, SettleLost, Die, Fault
<1> DEFINE Said == faults' \in {faults, faults + 1}
<1>2. ASSUME NEW p \in Proc, OnwardStep(p) PROVE Said
  <2>0. CASE CloseQuestion(p)
    <3>1. proc[p].run \in Run
      BY <2>0 DEF CloseQuestion, CardsHeld, InPlace, Working
    <3> QED
      BY <2>0, <3>1, CloseEffect DEF LostGrows
  <2>1. CASE RoundStep(p) \/ Conclude(p) \/ Rebuild(p) \/ MarkResumed(p)
    BY <2>1 DEF RoundStep, LostGrows, Conclude, Rebuild, MarkResumed
  <2>2. CASE Settle(p) \/ MarkFailed(p) \/ Refused(p)
    BY <2>2 DEF Settle, MarkFailed, Refused
  <2>3. CASE p \in Run /\ (Replan(p) \/ Say(p) \/ WriteSteps(p))
    BY <2>3 DEF Replan, Say, WriteSteps
  <2> QED
    BY <1>1, <1>2, <2>0, <2>1, <2>2, <2>3 DEF OnwardStep, FaultyStep
<1>3. ASSUME NEW p \in Proc,
             (\E n \in Node : AskStep(p, n)) \/ ParkOnReconnect(p) \/ WriteMessage(p) \/ FailMessage(p)
             \/ Answer(p) \/ Die(p)
      PROVE  Said
  BY <1>1, <1>3 DEF AskStep, LostGrows, ParkOnReconnect, WriteMessage, FailMessage, Answer, FaultyStep
<1>4. ASSUME NEW p \in Proc, NEW c \in Card, OpenStep(p, c) PROVE Said
  BY <1>4, OpenHands DEF CardsHeld
<1>5. ASSUME NEW q \in Request, CancelCard(q) PROVE Said
  BY <1>5 DEF CancelCard
<1>6. ASSUME NEW c \in Card, Expire(c) PROVE Said
  BY <1>6 DEF Expire
<1>7. ASSUME NEW q \in Run, StartTurn(q) PROVE Said
  BY <1>7 DEF StartTurn
<1>8. StillStep => Said
  BY StillKeeps
<1>9. Said
  BY <1>2, <1>3, <1>4, <1>5, <1>6, <1>7, <1>8, StepKinds
<1> QED
  BY <1>0, <1>1, <1>9

LEMMA NoFailing ==
    ASSUME TypeOK, CardsHeld, [Next]_vars, faults' = 0, \A p \in Proc : ~Failing(p)
    PROVE  \A p \in Proc : ~Failing(p)'
<1>0. \A p \in Proc : ~FaultyStep(p)
  BY FaultFree
<1>1. UNCHANGED proc => \A p \in Proc : ~Failing(p)'
  BY DEF Failing
<1>2. ASSUME NEW p \in Proc, Others(p), ~Failing(p)' PROVE \A q \in Proc : ~Failing(q)'
  <2>1. \A q \in Proc : q # p => (Failing(q)' <=> Failing(q))
    BY <1>2 DEF Others, Failing
  <2> QED
    BY <1>2, <2>1
<1>3. ASSUME NEW r \in Run, StartTurn(r) PROVE \A q \in Proc : ~Failing(q)'
  <2>1. TypeOK' /\ r \in Proc
    BY TypeStep DEF Proc
  <2>2. Hands(r, "plan", r, NoCard, {})
    BY <1>3, <2>1, CardsStart
  <2> QED
    BY <1>2, <2>1, <2>2 DEF Hands, Failing
<1>4. ASSUME NEW p \in Proc, OnwardStep(p) PROVE \A q \in Proc : ~Failing(q)'
  <2>1. Others(p)
    BY <1>4, OnwardSteps DEF Onward, CardsHeld
  <2>2. CASE RoundStep(p)
    BY <1>2, <2>2 DEF RoundStep, Hands, Failing
  <2>3. CASE Conclude(p)
    BY <1>2, <2>3, CloseHands DEF Conclude, Hands, Failing
  <2>4. CASE Rebuild(p)
    BY <1>2, <2>4, RebuildHands DEF Hands, Failing
  <2>5. CASE MarkResumed(p) \/ CloseQuestion(p) \/ WriteSteps(p)
    BY <1>2, <2>5, GoHands DEF MarkResumed, CloseQuestion, WriteSteps, Hands, Failing
  <2>6. CASE Settle(p) \/ MarkFailed(p) \/ Refused(p)
    BY <1>2, <2>6, EndHands DEF Settle, MarkFailed, Refused, Hands, Failing
  <2>7. CASE p \in Run /\ Replan(p)
    BY <1>2, <2>7, ReplanHands DEF Hands, Failing
  <2>8. CASE Say(p)
    <3>1. proc[p] \in Memory
      BY DEF TypeOK
    <3>2. proc'[p].at = "settle"
      BY <2>8, <3>1 DEF Say, Memory, TypeOK
    <3> QED
      BY <1>2, <2>1, <3>2 DEF Failing
  <2> QED
    BY <1>0, <1>4, <2>2, <2>3, <2>4, <2>5, <2>6, <2>7, <2>8 DEF OnwardStep, FaultyStep
<1>5. ASSUME NEW p \in Proc, NEW n \in Node, AskStep(p, n) PROVE \A q \in Proc : ~Failing(q)'
  BY <1>2, <1>5 DEF AskStep, Hands, Failing
<1>6. ASSUME NEW p \in Proc, ParkOnReconnect(p) PROVE \A q \in Proc : ~Failing(q)'
  BY <1>2, <1>6, ParkHands DEF Hands, Failing
<1>7. ASSUME NEW p \in Proc, WriteMessage(p) \/ FailMessage(p) PROVE \A q \in Proc : ~Failing(q)'
  <2>1. At(p, "write")
    BY <1>7, InsertHands DEF Failing
  <2> QED
    BY <1>2, <1>7, <2>1, InsertHands DEF Hands, Failing
<1>8. ASSUME NEW p \in Proc, Answer(p) PROVE \A q \in Proc : ~Failing(q)'
  BY <1>2, <1>8, AnswerHands DEF Hands, Failing
<1>9. ASSUME NEW p \in Proc, NEW c \in Card, OpenStep(p, c) PROVE \A q \in Proc : ~Failing(q)'
  <2>1. Hands(p, "answer", card[c].run, c, {}) \/ Hands(p, "cancel", card[c].run, c, {})
    BY <1>9, OpenHands DEF CardsHeld
  <2> QED
    BY <1>2, <2>1 DEF Hands, Failing
<1>10. ASSUME NEW q \in Request, CancelCard(q) PROVE \A p \in Proc : ~Failing(p)'
  <2>1. q \in Proc
    BY DEF Proc
  <2> QED
    BY <1>2, <1>10, <2>1, CancelHands DEF Hands, Failing
<1>11. ASSUME NEW c \in Card, Expire(c) PROVE \A q \in Proc : ~Failing(q)'
  BY <1>1, <1>11 DEF Expire
<1>12. CASE StillStep
  BY <1>1, <1>12, StillKeeps
<1> QED
  BY <1>0, <1>3, <1>4, <1>5, <1>6, <1>7, <1>8, <1>9, <1>10, <1>11, <1>12, StepKinds DEF FaultyStep

\* The process that took an answer keeps it until the run has ended.
LEMMA TakesKeeps ==
    ASSUME TypeOK, CardsHeld, [Next]_vars, faults' = 0, \A q \in Proc : ~Failing(q),
           NEW p \in Proc, NEW c \in Card, NEW r \in Run, Takes(p, c, r),
           \A q \in Proc : ~WriteMessage(q) /\ ~FailMessage(q)
    PROVE  status'[r] \in Terminal \/ Takes(p, c, r)'
<1> DEFINE Said == status'[r] \in Terminal \/ Takes(p, c, r)'
<1>0. /\ \A q \in Proc : ~FaultyStep(q)
      /\ proc[p] \in Memory /\ InPlace(p) /\ c # NoCard
  BY FaultFree, RunAssumption DEF TypeOK, CardsHeld
<1>1. proc[p].at \in {"dispatch", "write", "rebuild", "mark", "close", "settle"}
  BY <1>0 DEF Takes, Moving, Failing, InPlace
<1>2. proc'[p] = proc[p] => Said
  BY DEF Takes, Moving
<1>3. ASSUME NEW q \in Proc, Others(q), q # p PROVE Said
  BY <1>2, <1>3 DEF Others
<1>4. ASSUME NEW place \in {"dispatch", "write", "rebuild", "mark", "close"}, NEW cards,
             Hands(p, place, proc[p].run, proc[p].held, cards)
      PROVE  Said
  BY <1>4 DEF Hands, Takes, Moving
<1>5. CASE OnwardStep(p)
  <2>1. CASE RoundStep(p)
    BY <1>4, <2>1 DEF RoundStep
  <2>2. CASE Conclude(p)
    BY <1>4, <2>2, CloseHands DEF Conclude
  <2>3. CASE Rebuild(p)
    BY <1>4, <2>3, RebuildHands
  <2>4. CASE MarkResumed(p) \/ CloseQuestion(p) \/ WriteSteps(p)
    BY <1>4, <2>4, GoHands DEF MarkResumed, CloseQuestion, WriteSteps
  <2>5. CASE Settle(p)
    <3>1. proc[p].verdict \in {"complete", "timeout"} /\ SetStatus(r, proc[p].verdict)
      BY <2>5 DEF Settle, Takes, Moving
    <3> QED
      BY <3>1 DEF SetStatus, TypeOK, Terminal
  <2>6. CASE MarkFailed(p) \/ Refused(p) \/ Say(p)
    BY <1>1, <2>6 DEF MarkFailed, Refused, Say
  <2>7. CASE p \in Run /\ Replan(p)
    BY <1>4, <2>7, ReplanHands
  <2> QED
    BY <1>0, <1>5, <2>1, <2>2, <2>3, <2>4, <2>5, <2>6, <2>7 DEF OnwardStep, FaultyStep
<1>6. ASSUME NEW q \in Run, StartTurn(q) PROVE Said
  <2>1. TypeOK' /\ q \in Proc
    BY TypeStep DEF Proc
  <2>2. Hands(q, "plan", q, NoCard, {}) /\ At(q, "idle")
    BY <1>6, <2>1, CardsStart DEF StartTurn
  <2> QED
    BY <1>1, <1>3, <2>1, <2>2 DEF Hands
<1>7. ASSUME NEW q \in Proc, q # p, OnwardStep(q) PROVE Said
  BY <1>3, <1>7, OnwardSteps DEF Onward, CardsHeld
<1>8. ASSUME NEW q \in Proc, NEW n \in Node, AskStep(q, n) PROVE Said
  BY <1>3, <1>4, <1>8 DEF AskStep, Hands
<1>9. ASSUME NEW q \in Proc, ParkOnReconnect(q) PROVE Said
  BY <1>3, <1>4, <1>9, ParkHands DEF Hands
<1>10. ASSUME NEW q \in Proc, Answer(q) PROVE Said
  BY <1>1, <1>3, <1>10, AnswerHands DEF Hands
<1>11. ASSUME NEW q \in Proc, NEW d \in Card, OpenStep(q, d) PROVE Said
  <2>1. proc[q].at \in {"idle", "plan"} /\ Others(q)
    BY <1>11, OpenHands DEF CardsHeld, Hands
  <2> QED
    BY <1>1, <1>3, <2>1
<1>12. ASSUME NEW q \in Request, CancelCard(q) PROVE Said
  <2>1. q \in Proc
    BY DEF Proc
  <2>2. At(q, "cancel") /\ Others(q)
    BY <1>12, <2>1, CancelHands DEF Hands
  <2> QED
    BY <1>1, <1>3, <2>1, <2>2
<1>13. ASSUME NEW d \in Card, Expire(d) PROVE Said
  BY <1>2, <1>13 DEF Expire
<1>14. CASE StillStep
  BY <1>2, <1>14, StillKeeps
<1> QED
  BY <1>0, <1>5, <1>6, <1>7, <1>8, <1>9, <1>10, <1>11, <1>12, <1>13, <1>14, StepKinds DEF FaultyStep

\* A card is answered by the process that then holds it.
LEMMA AnsweredBy ==
    ASSUME TypeOK, CardsHeld, [Next]_vars, NEW c \in Card,
           card'[c].state = "answered", card[c].state # "answered"
    PROVE  \E p \in Proc : Answer(p) /\ proc[p].held = c
<1>1. card'[c] # card[c]
  OBVIOUS
<1>2. ASSUME NEW n \in Node \cup {NoNode}, NEW r, Unused # {}, Show(r, n) PROVE FALSE
  <2>1. NextCard \in Card
    BY <1>2, NextIsUnused DEF Unused
  <2> QED
    BY <1>1, <1>2, <2>1 DEF Show, TypeOK
<1>3. ASSUME NEW d \in Card, NEW s, FileCard(d, s), d # c \/ s # "answered" PROVE FALSE
  BY <1>1, <1>3, FileKeeps
<1>4. ASSUME NEW r \in Run, StartTurn(r) PROVE FALSE
  BY <1>1, <1>4 DEF StartTurn
<1>5. ASSUME NEW p \in Proc, OnwardStep(p) PROVE FALSE
  BY <1>1, <1>5, OnwardSteps DEF CardsHeld, Onward
<1>6. ASSUME NEW p \in Proc, NEW n \in Node, AskStep(p, n) PROVE FALSE
  BY <1>2, <1>6 DEF AskStep
<1>7. ASSUME NEW p \in Proc, ParkOnReconnect(p) PROVE FALSE
  BY <1>2, <1>7, ParkHands
<1>8. ASSUME NEW p \in Proc, WriteMessage(p) \/ FailMessage(p) PROVE FALSE
  BY <1>8, InsertHands, InsertCard
<1>9. ASSUME NEW p \in Proc, Die(p) PROVE FALSE
  BY <1>1, <1>9, DieCards
<1>10. ASSUME NEW p \in Proc, NEW d \in Card, OpenStep(p, d) PROVE FALSE
  BY <1>1, <1>10, OpenHands DEF CardsHeld
<1>11. ASSUME NEW q \in Request, CancelCard(q) PROVE FALSE
  BY <1>3, <1>11, CancelHands DEF Proc
<1>12. ASSUME NEW d \in Card, Expire(d) PROVE FALSE
  BY <1>3, <1>12, ExpireFile
<1>13. ASSUME StillStep PROVE FALSE
  BY <1>1, <1>13, StillKeeps
<1>14. ASSUME NEW p \in Proc, Answer(p) PROVE proc[p].held = c
  BY <1>3, <1>14, AnswerHands
<1> QED
  BY <1>4, <1>5, <1>6, <1>7, <1>8, <1>9, <1>10, <1>11, <1>12, <1>13, <1>14, StepKinds

\* What a message leaves of an answer that was taken: its own process, about to end
\* the run; and no card newer than the one answered, or the card is not the newest.
LEMMA TakenInsert ==
    ASSUME TypeOK, CardsHeld, InOrder, Verdicts, NEW p \in Proc, WriteMessage(p),
           NEW r \in Run, NEW c \in Card, IsNewest(c, r)', card'[c].state = "answered"
    PROVE  /\ IsNewest(c, r) /\ card[c].state = "answered"
           /\ \A q \in Proc : Takes(q, c, r) => Takes(q, c, r)'
<1> DEFINE K == proc[p].cards
<1>0. /\ At(p, "write") /\ Hands(p, "settle", proc[p].run, proc[p].held, {})
      /\ proc'[p].verdict = proc[p].verdict /\ Insert(p)
  BY InsertHands DEF WriteMessage
<1>1. /\ Filed' = Filed \cup K /\ Filed \cap K = {}
      /\ \A d \in Card : issued'[d] = IF d \in K THEN Filed ELSE issued[d]
      /\ \A s \in Run : CardsOf(s)' = IF s = proc[p].run THEN CardsOf(s) \cup K ELSE CardsOf(s)
  BY <1>0, InsertFiles
<1>2. c \notin K /\ card[c].state = "answered"
  BY <1>0, InsertCard
<1>3. c \in CardsOf(r)' /\ \A d \in CardsOf(r)' : Newer(c, d)'
  BY DEF IsNewest
<1>4. CardsOf(r) \subseteq Filed /\ Filed \subseteq Card /\ c \in Filed
  BY <1>2 DEF CardsOf, Filed
<1>5. r = proc[p].run => K = {}
  <2> SUFFICES ASSUME r = proc[p].run, NEW k \in K PROVE FALSE
    OBVIOUS
  <2>1. k \in issued'[c] \/ issued'[k] = issued'[c]
    BY <1>1, <1>3 DEF Newer
  <2>2. issued'[c] = issued[c] /\ k \in Card
    BY <1>1, <1>2 DEF TypeOK, Memory
  <2>3. issued[c] \subseteq Filed /\ c \notin issued[c]
    BY DEF InOrder
  <2> QED
    BY <1>1, <1>4, <2>1, <2>2, <2>3
<1>6. CardsOf(r)' = CardsOf(r)
  BY <1>1, <1>5
<1>7. \A d \in CardsOf(r) : issued'[d] = issued[d]
  BY <1>1, <1>4
<1>8. IsNewest(c, r)
  BY <1>6, <1>7, NewestStays
<1>9. ASSUME NEW q \in Proc, Takes(q, c, r) PROVE Takes(q, c, r)'
  <2>1. CASE q # p
    BY <1>0, <1>9, <2>1 DEF Hands, Others, Takes, Moving
  <2>2. CASE q = p
    <3>1. proc[p].verdict # "awaiting_input"
      BY <1>0, <1>5, <1>9, <2>2 DEF Takes, Verdicts, Waits
    <3>2. proc[p].verdict \in {"complete", "timeout"}
      BY <1>0, <3>1 DEF CardsHeld, InPlace, TypeOK, Memory
    <3> QED
      BY <1>0, <1>9, <2>2, <3>2 DEF Hands, Takes
  <2> QED
    BY <2>1, <2>2
<1> QED
  BY <1>2, <1>8, <1>9

LEMMA AnswerTakenStep ==
    ASSUME TypeOK, CardsHeld, OneToken, InOrder, Verdicts, AnswerTaken, [Next]_vars
    PROVE  AnswerTaken'
<1>1. faults' = 0 => faults = 0 /\ \A p \in Proc : ~Failing(p) /\ ~Failing(p)'
  BY FaultFree, NoFailing DEF AnswerTaken, Failing
<1>2. ASSUME faults' = 0, NEW r \in Run, NEW c \in Card, IsNewest(c, r)', card'[c].state = "answered"
      PROVE  status'[r] \in Terminal \/ \E p \in Proc : Takes(p, c, r)'
  <2>1. status[r] \in Terminal => status'[r] \in Terminal
    BY StatusMoves DEF Moves
  <2>2. IsNewest(c, r) /\ card[c].state = "answered" =>
          status[r] \in Terminal \/ \E p \in Proc : Takes(p, c, r)
    BY <1>1, <1>2 DEF AnswerTaken
  <2>3. \A p \in Proc : ~FailMessage(p)
    BY <1>1, <1>2 DEF FailMessage, Failing
  <2>4. ASSUME NEW p \in Proc, WriteMessage(p)
        PROVE  status'[r] \in Terminal \/ \E q \in Proc : Takes(q, c, r)'
    BY <1>2, <2>1, <2>2, <2>4, TakenInsert
  <2>5. CASE \A p \in Proc : ~WriteMessage(p)
    <3>1. FiledSame
      BY <2>3, <2>5, FiledKeeps
    <3>2. IsNewest(c, r)
      BY <1>2, <3>1, SameNewest
    <3>3. CASE card[c].state = "answered"
      <4>1. \A p \in Proc : Takes(p, c, r) => status'[r] \in Terminal \/ Takes(p, c, r)'
        BY <1>1, <1>2, <2>3, <2>5, TakesKeeps
      <4> QED
        BY <2>1, <2>2, <3>2, <3>3, <4>1
    <3>4. CASE card[c].state # "answered"
      <4>1. PICK p \in Proc : Answer(p) /\ proc[p].held = c
        BY <1>2, <3>4, AnsweredBy
      <4>2. card[c].run = proc[p].run /\ Hands(p, "rebuild", proc[p].run, proc[p].held, {})
        BY <4>1, AnswerHands
      <4>3. card[c].run = r
        BY <3>2 DEF IsNewest, CardsOf
      <4>4. Takes(p, c, r)'
        BY <4>1, <4>2, <4>3 DEF Hands, Takes, Moving
      <4> QED
        BY <4>4
    <3> QED
      BY <3>3, <3>4
  <2> QED
    BY <2>4, <2>5
<1> QED
  BY <1>1, <1>2 DEF AnswerTaken

LEMMA AnswerTakenInit ==
    ASSUME Init
    PROVE  AnswerTaken
BY DEF Init, Idle, AnswerTaken, Failing, IsNewest, CardsOf, Filed

\* What a run says agrees with its cards and its rows, with what makes it inductive.
Agrees == Worked /\ InOrder /\ Verdicts /\ Closed /\ AnswerTaken

\* A run that waits has a card to wait for, and one whose newest question was answered is
\* being worked on unless something failed; a run that was cancelled has no open step
\* unless two of its questions were open at once (WriteMessage and _settle in runner.py,
\* cancel_prompt in prompts.py and sweep_stuck in maintenance.py).
THEOREM RunStatusAgrees == Spec => []StatusAgrees
<1>1. Init => Agrees
  BY CardsInit, TokenInit, RanInit, OrderInit, VerdictsInit, ClosedInit, AnswerTakenInit DEF Agrees, Worked
<1>2. Agrees /\ [Next]_vars => Agrees'
  <2> SUFFICES ASSUME Agrees, [Next]_vars PROVE Agrees'
    OBVIOUS
  <2> USE DEF Agrees, Worked
  <2>1. TypeOK' /\ CardsHeld' /\ OneToken' /\ RanRight'
    BY CardsStep, TokenStep, RanStep, TypeStep
  <2>2. InOrder' /\ Verdicts'
    BY OrderStep, VerdictsStep
  <2>3. Closed' /\ AnswerTaken'
    BY ClosedStep, AnswerTakenStep
  <2> QED
    BY <2>1, <2>2, <2>3
<1>3. Agrees => StatusAgrees
  <2> SUFFICES ASSUME Agrees, NEW r \in Run
               PROVE  AwaitingHasReason(r) /\ (Crossed(r) \/ ClosedLeavesNothingOpen(r))
    BY DEF StatusAgrees
  <2>1. Crossed(r) \/ ClosedLeavesNothingOpen(r)
    BY DEF Agrees, Closed, ClosedLeavesNothingOpen, Single
  <2>2. ASSUME status[r] = "awaiting_input" PROVE CardsOf(r) # {}
    BY <2>2 DEF Agrees, Verdicts
  <2>3. ASSUME status[r] = "awaiting_input", card[Newest(r)].state = "answered", faults = 0
        PROVE  \E p \in Proc : Working(p) /\ proc[p].run = r
    <3>1. Newest(r) \in Card /\ IsNewest(Newest(r), r)
      BY <2>2, <2>3, NewestIs DEF Agrees
    <3>2. \E p \in Proc : Takes(p, Newest(r), r)
      BY <2>3, <3>1 DEF Agrees, AnswerTaken, Terminal
    <3> QED
      BY <3>2 DEF Takes, Moving, Working
  <2>4. faults = 0 \/ faults > 0
    BY RunAssumption DEF Agrees, Worked, TypeOK
  <2> QED
    BY <2>1, <2>2, <2>3, <2>4 DEF AwaitingHasReason
<1> QED
  BY <1>1, <1>2, <1>3, PTL DEF Spec
============================================================================
