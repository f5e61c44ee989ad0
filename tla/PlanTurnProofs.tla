--------------------------- MODULE PlanTurnProofs ---------------------------
(***************************************************************************)
(* A step of a plan that was let through finds what it refers to, for any  *)
(* plans, any repairs and any order of early runs and rows.                *)
(*                                                                         *)
(* The argument: whatever gave a result had results for all it depends on, *)
(* and the first plan agrees with the results there are.  So, in it and    *)
(* wherever no id was given to another step, the ids with a result are     *)
(* closed under the edges of the plan; a step that may start has its edges *)
(* among them, and with them everything upstream.                          *)
(***************************************************************************)
EXTENDS PlanTurn, FiniteSetTheorems, TLAPS

\* What gave a result is of that id, and what it depends on had given one.
Grounded ==
    \A i \in Id : has[i] # NoStep =>
        /\ has[i] \in Steps /\ has[i].id = i
        /\ \A d \in has[i].deps : has[d] # NoStep

\* An early run is of a step that came, alone; its result is kept when all came.
EarlyStep(i) ==
    /\ early[i] # "none" => by[i] # NoStep
    /\ by[i] # NoStep =>
        /\ by[i] \in Steps /\ by[i].id = i /\ by[i].deps = {}
        /\ \E k \in 1 .. came : k \in DOMAIN plan.steps /\ plan.steps[k] = by[i]

EarlyOfPlan ==
    /\ at = "stream" => came <= Len(plan.steps) /\ \A i \in Id : has[i] = NoStep
    /\ at = "collect" => \A i \in Id : has[i] \in {NoStep, by[i]}
    /\ at \in {"stream", "collect"} => \A i \in Id : EarlyStep(i)

\* The results there are, are of the steps p has under their ids.
Agrees(p) == \A s \in StepsOf(p) : has[s.id] \in {NoStep, s}

\* The first plan that comes to the check has the steps there are results of.
ResultsOfPlan ==
    at = "check" /\ calls = 1 => \A i \in Id : has[i] # NoStep => has[i] \in StepsOf(plan)

InForce == at \in {"sync", "dispatch"} => Accepts(plan) /\ (calls = 1 => Agrees(plan))

\* In a round, done means that there is a result, and what runs has its edges done.
RoundOnResults ==
    at = "dispatch" =>
        /\ \A i \in Id : out[i] = "ok" <=> has[i] # NoStep
        /\ \A s \in StepsOf(plan) : out[s.id] = "on" => \A d \in s.deps : out[d] = "ok"

Shapes ==
    /\ plan \in Plans /\ came \in Nat /\ calls \in Nat \ {0}
    /\ early \in [Id -> EarlyState] /\ by \in [Id -> Steps \cup {NoStep}]
    /\ has \in [Id -> Steps \cup {NoStep}] /\ out \in [Id -> Outcome]

Parts == Shapes /\ Grounded /\ EarlyOfPlan /\ ResultsOfPlan /\ InForce /\ RoundOnResults

IInv == ~resumed => Parts

----------------------------------------------------------------------------
(* Lemmas about plans.                                                     *)

\* The steps of a plan are steps.
LEMMA StepsOfPlan ==
    ASSUME NEW p \in Plans
    PROVE  StepsOf(p) \subseteq Steps /\ IdsOf(p) \subseteq Id
<1>1. p.steps \in Seq(Steps)
  BY DEF Plans
<1>2. \A k \in DOMAIN p.steps : p.steps[k] \in Steps
  BY <1>1
<1>3. StepsOf(p) \subseteq Steps
  BY <1>2 DEF StepsOf
<1> QED
  BY <1>3 DEF IdsOf, Steps

\* A set that holds what i depends on and is closed holds everything upstream of i.
LEMMA UpstreamIsLeast ==
    ASSUME NEW edges, NEW i, NEW S \in SUBSET DOMAIN edges,
           edges[i] \subseteq S, Closed(S, edges)
    PROVE  Upstream(i, edges) \subseteq S
  BY DEF Upstream

\* What is upstream is closed under the edges.
LEMMA UpstreamClosed ==
    ASSUME NEW edges, NEW i, NEW n \in Upstream(i, edges), NEW d \in edges[n], d \in DOMAIN edges
    PROVE  d \in Upstream(i, edges)
  BY DEF Upstream, Closed

\* When the results there are upstream of a step agree with an accepted plan, and its
\* edges have results, each of its references has one.
LEMMA ResultsReachUpstream ==
    ASSUME NEW p \in Plans, Accepts(p), Grounded, NEW s \in StepsOf(p),
           \A t \in StepsOf(p) : t.id \in Upstream(s.id, EdgesOf(p)) => has[t.id] \in {NoStep, t},
           \A d \in s.deps : has[d] # NoStep
    PROVE  \A r \in s.refs : has[r] # NoStep
<1> DEFINE E == EdgesOf(p)
           S == {n \in Upstream(s.id, E) : has[n] # NoStep}
<1>1. StepsOf(p) \subseteq Steps /\ IdsOf(p) \subseteq Id
  BY StepsOfPlan
<1>2. DOMAIN E = IdsOf(p) /\ Upstream(s.id, E) \subseteq IdsOf(p)
  BY DEF EdgesOf, Upstream
<1>3. ASSUME NEW n \in S, NEW d \in E[n]
      PROVE  d \in S
  <2>1. PICK t \in StepsOf(p) : t.id = n /\ d \in t.deps
    BY <1>2, <1>3 DEF EdgesOf
  <2>2. has[n] = t
    BY <2>1
  <2>3. has[d] # NoStep
    BY <1>1, <2>1, <2>2 DEF Grounded, Steps
  <2>4. d \in IdsOf(p)
    BY <2>1 DEF Accepts, EdgesInside
  <2>5. d \in Upstream(s.id, E)
    BY <1>2, <1>3, <2>4, UpstreamClosed
  <2> QED
    BY <2>3, <2>5
<1>4. Closed(S, E)
  BY <1>3 DEF Closed
<1>5. ASSUME NEW d \in E[s.id]
      PROVE  d \in S
  <2>1. s.id \in IdsOf(p)
    BY DEF IdsOf
  <2>2. PICK t \in StepsOf(p) : t.id = s.id /\ d \in t.deps
    BY <1>5, <2>1 DEF EdgesOf
  <2>3. t = s
    BY <2>2 DEF Accepts, DistinctIds, StepsOf
  <2>4. d \in IdsOf(p)
    BY <2>2 DEF Accepts, EdgesInside
  <2>5. d \in Upstream(s.id, E)
    BY <1>2, <1>5, <2>4 DEF Upstream
  <2> QED
    BY <2>2, <2>3, <2>5
<1>6. Upstream(s.id, E) \subseteq S
  <2>1. S \in SUBSET DOMAIN E
    BY <1>2
  <2> QED
    BY <1>4, <1>5, <2>1, UpstreamIsLeast
<1>7. s.refs \subseteq Upstream(s.id, E)
  BY DEF Accepts, RefsUpstream
<1> QED
  BY <1>6, <1>7

----------------------------------------------------------------------------
(* The invariant, one lemma per part of the turn.                          *)

\* At the start nothing has a result.
LEMMA InitHolds == Init => IInv
<1> SUFFICES ASSUME Init PROVE Parts
  BY DEF IInv
<1>1. Shapes
  BY PlanTurnAssumption DEF Init, Shapes, None, EarlyState, Outcome
<1>2. plan.steps \in Seq(Steps)
  BY PlanTurnAssumption DEF Init, Plans
<1>3. EarlyOfPlan
  BY <1>2 DEF Init, EarlyOfPlan, EarlyStep, None
<1> QED
  BY <1>1, <1>3 DEF Init, Parts, Grounded, ResultsOfPlan, InForce, RoundOnResults, None

\* What a round starts with is what has a result.
LEMMA CarriedIsResults ==
    ASSUME NEW held \in [Id -> Steps \cup {NoStep}]
    PROVE  /\ Carried(held) \in [Id -> Outcome]
           /\ \A i \in Id : Carried(held)[i] = "ok" <=> held[i] # NoStep
           /\ \A i \in Id : Carried(held)[i] # "on"
  BY DEF Carried, Outcome

\* While the stream runs there are no results, and what starts early is a step that came.
LEMMA StreamKeeps ==
    ASSUME Parts, Arrive \/ StreamEnds \/ PlannerDies \/ Abandon
    PROVE  Parts'
<1> USE DEF Parts, Go
<1>0. plan.steps \in Seq(Steps)
  BY DEF Shapes, Plans
<1>1. CASE Arrive
  <2> DEFINE s == plan.steps[came + 1]
  <2>1. came + 1 \in DOMAIN plan.steps /\ s \in Steps
    BY <1>0, <1>1 DEF Arrive, Shapes
  <2>2. s.id \in Id
    BY <2>1 DEF Steps
  <2>3. Shapes'
    BY <1>1, <2>1, <2>2 DEF Arrive, Shapes, EarlyState
  <2>4. ASSUME NEW i \in Id PROVE EarlyStep(i)'
    <3>1. EarlyStep(i)
      BY <1>1 DEF Arrive, EarlyOfPlan
    <3>2. CASE StartsEarly(s) /\ i = s.id
      <4>1. by'[i] = s /\ s.deps = {} /\ s \in Steps /\ s.id = i
        BY <1>1, <2>1, <2>2, <3>2 DEF Arrive, StartsEarly, Shapes
      <4>2. came + 1 \in 1 .. came' /\ plan' = plan
        BY <1>1 DEF Arrive, Shapes
      <4>3. \E k \in 1 .. came' : k \in DOMAIN plan'.steps /\ plan'.steps[k] = by'[i]
        BY <2>1, <4>1, <4>2
      <4>4. by'[i] # NoStep
        BY <4>1, PlanTurnAssumption
      <4> QED
        BY <4>1, <4>3, <4>4 DEF EarlyStep
    <3>3. CASE ~(StartsEarly(s) /\ i = s.id)
      <4>1. early'[i] = early[i] /\ by'[i] = by[i] /\ plan' = plan
        BY <1>1, <3>3 DEF Arrive, Shapes
      <4>2. 1 .. came \subseteq 1 .. came'
        BY <1>1 DEF Arrive, Shapes
      <4> QED
        BY <3>1, <4>1, <4>2 DEF EarlyStep
    <3> QED
      BY <3>2, <3>3
  <2>5. EarlyOfPlan'
    BY <1>0, <1>1, <2>4 DEF Arrive, EarlyOfPlan, Shapes
  <2> QED
    BY <1>1, <2>3, <2>5 DEF Arrive, Grounded, ResultsOfPlan, InForce, RoundOnResults
<1>2. CASE StreamEnds
  <2>1. came \in 1 .. Len(plan.steps)
    BY <1>0, <1>2 DEF StreamEnds, EarlyOfPlan, Shapes
  <2>2. /\ plan'.steps = SubSeq(plan.steps, 1, came)
        /\ plan'.steps \in Seq(Steps) /\ DOMAIN plan'.steps = 1 .. came
        /\ \A k \in 1 .. came : plan'.steps[k] = plan.steps[k]
    BY <1>0, <1>2, <2>1 DEF StreamEnds, Shapes, Plans
  <2>3. Shapes'
    BY <1>2, <2>2 DEF StreamEnds, Shapes, Plans
  <2>4. ASSUME NEW i \in Id PROVE EarlyStep(i)'
    BY <1>2, <2>2 DEF StreamEnds, EarlyOfPlan, EarlyStep
  <2> QED
    BY <1>2, <2>3, <2>4
    DEF StreamEnds, EarlyOfPlan, Grounded, ResultsOfPlan, InForce, RoundOnResults
<1>3. CASE PlannerDies
  BY <1>3 DEF PlannerDies, Shapes, Grounded, EarlyOfPlan, ResultsOfPlan, InForce, RoundOnResults
<1>4. CASE Abandon
  BY <1>4 DEF Abandon, Shapes, EarlyState, Grounded, EarlyOfPlan, ResultsOfPlan, InForce,
              RoundOnResults
<1> QED
  BY <1>1, <1>2, <1>3, <1>4

\* Writing rows, and the end of an early run, change no result.
LEMMA BesideKeeps ==
    ASSUME Parts,
           \/ \E s \in writing : WriteRow(s) \/ RowRefused(s)
           \/ \E i \in Id : EarlyEnds(i)
    PROVE  Parts'
<1> USE DEF Parts
<1>1. CASE \E s \in writing : WriteRow(s) \/ RowRefused(s)
  <2>1. UNCHANGED <<at, plan, came, early, by, has, out, calls>>
    BY <1>1 DEF WriteRow, RowRefused
  <2> QED
    BY <2>1 DEF Shapes, Grounded, EarlyOfPlan, EarlyStep, ResultsOfPlan, Agrees, InForce,
                RoundOnResults
<1>2. CASE \E i \in Id : EarlyEnds(i)
  <2>1. PICK i \in Id : EarlyEnds(i)
    BY <1>2
  <2>2. UNCHANGED <<at, plan, came, by, has, out, calls>>
    BY <2>1 DEF EarlyEnds
  <2>3. early' \in [Id -> EarlyState]
    BY <2>1 DEF EarlyEnds, Shapes, EarlyState
  <2>4. \A j \in Id : early'[j] # "none" => early[j] # "none"
    BY <2>1 DEF EarlyEnds, Shapes
  <2> QED
    BY <2>2, <2>3, <2>4 DEF Shapes, Grounded, EarlyOfPlan, EarlyStep, ResultsOfPlan,
                            Agrees, InForce, RoundOnResults
<1> QED
  BY <1>1, <1>2

\* An early result that is kept is of a step that depends on nothing.
LEMMA CollectKeeps ==
    ASSUME Parts, Record \/ \E i \in Id : Collect(i)
    PROVE  Parts'
<1> USE DEF Parts, Go
<1>1. CASE Record
  <2>1. ASSUME NEW i \in Id, has[i] # NoStep PROVE has[i] \in StepsOf(plan)
    <3>1. has[i] = by[i] /\ EarlyStep(i)
      BY <1>1, <2>1 DEF Record, EarlyOfPlan
    <3> QED
      BY <2>1, <3>1 DEF EarlyStep, StepsOf
  <2> QED
    BY <1>1, <2>1 DEF Record, Shapes, Grounded, EarlyOfPlan, ResultsOfPlan, InForce, RoundOnResults
<1>2. CASE \E i \in Id : Collect(i)
  <2>1. PICK i \in Id : Collect(i)
    BY <1>2
  <2>2. at = "collect" /\ UNCHANGED <<at, plan, came, by, out, calls>>
    BY <2>1 DEF Collect
  <2>3. early[i] # "none" /\ EarlyStep(i)
    BY <2>1, <2>2 DEF Collect, EarlyOfPlan
  <2>4. early' \in [Id -> EarlyState] /\ \A j \in Id : early'[j] # "none" => early[j] # "none"
    BY <2>1 DEF Collect, Shapes, EarlyState
  <2>5. has' = has \/ has' = [has EXCEPT ![i] = by[i]]
    BY <2>1 DEF Collect
  <2>6. Shapes'
    BY <2>2, <2>4, <2>5 DEF Shapes
  <2>7. EarlyOfPlan'
    BY <2>2, <2>4, <2>5 DEF EarlyOfPlan, EarlyStep, Shapes
  <2>8. Grounded'
    <3>1. CASE has' = has
      BY <3>1 DEF Grounded
    <3>2. CASE has' = [has EXCEPT ![i] = by[i]]
      <4> SUFFICES ASSUME NEW j \in Id, has'[j] # NoStep
                   PROVE  /\ has'[j] \in Steps /\ has'[j].id = j
                          /\ \A d \in has'[j].deps : has'[d] # NoStep
        BY DEF Grounded
      <4>1. CASE j = i
        BY <2>3, <3>2, <4>1 DEF EarlyStep, Shapes
      <4>2. CASE j # i
        <5>1. has'[j] = has[j] /\ has[j].deps \subseteq Id
          BY <3>2, <4>2 DEF Grounded, Shapes, Steps
        <5>2. \A d \in Id : has[d] # NoStep => has'[d] # NoStep
          BY <2>3, <3>2 DEF EarlyStep, Shapes
        <5> QED
          BY <5>1, <5>2 DEF Grounded
      <4> QED
        BY <4>1, <4>2
    <3> QED
      BY <2>5, <3>1, <3>2
  <2> QED
    BY <2>2, <2>6, <2>7, <2>8 DEF ResultsOfPlan, InForce, RoundOnResults
<1> QED
  BY <1>1, <1>2

\* The check lets the first plan through with the results of its own steps.
LEMMA CheckKeeps ==
    ASSUME Parts, Accept \/ Refuse \/ Repair \/ RepairFails \/ Degrade \/ Finish
    PROVE  Parts'
<1> USE DEF Parts, Go
<1>1. CASE Accept
  <2>1. ASSUME calls = 1 PROVE Agrees(plan)
    <3> SUFFICES ASSUME NEW s \in StepsOf(plan), has[s.id] # NoStep PROVE has[s.id] = s
      BY DEF Agrees
    <3>0. s.id \in Id
      BY StepsOfPlan DEF Shapes, Steps
    <3>1. has[s.id] \in StepsOf(plan) /\ has[s.id].id = s.id
      BY <1>1, <2>1, <3>0 DEF Grounded, Accept, ResultsOfPlan
    <3> QED
      BY <1>1, <3>1 DEF Accept, Accepts, DistinctIds, StepsOf
  <2> QED
    BY <1>1, <2>1 DEF Accept, Shapes, Grounded, EarlyOfPlan, ResultsOfPlan, Agrees, InForce,
                      RoundOnResults
<1>2. CASE Refuse \/ RepairFails \/ Degrade \/ Finish
  <2>1. /\ UNCHANGED <<plan, came, early, by, has, out>> /\ at' \in {"repair", "degrade", "over"}
        /\ calls' \in Nat \ {0}
    BY <1>2 DEF Refuse, RepairFails, Degrade, Finish, Shapes
  <2> QED
    BY <2>1 DEF Shapes, Grounded, EarlyOfPlan, ResultsOfPlan, InForce, RoundOnResults
<1>3. CASE Repair
  <2>1. plan' \in Plans /\ calls' \in Nat \ {0} /\ calls' # 1
    BY <1>3, PlanTurnAssumption DEF Repair, Shapes
  <2> QED
    BY <1>3, <2>1 DEF Repair, Shapes, Grounded, EarlyOfPlan, ResultsOfPlan, InForce, RoundOnResults
<1> QED
  BY <1>1, <1>2, <1>3

\* A round starts from what has a result, with the plan that was let through.
LEMMA RoundsKeep ==
    ASSUME Parts, SyncRows \/ Replan
    PROVE  Parts'
<1> USE DEF Parts, Go
<1>1. /\ Carried(has) \in [Id -> Outcome]
      /\ \A i \in Id : Carried(has)[i] = "ok" <=> has[i] # NoStep
      /\ \A i \in Id : Carried(has)[i] # "on"
  BY CarriedIsResults DEF Shapes
<1>2. /\ UNCHANGED <<came, early, by, has>> /\ out' = Carried(has) /\ at' = "dispatch"
      /\ plan' \in Plans /\ Accepts(plan') /\ calls' \in Nat \ {0}
      /\ calls' = 1 => plan' = plan /\ Agrees(plan)
  <2>1. CASE SyncRows
    BY <2>1 DEF SyncRows, Shapes, InForce
  <2>2. CASE Replan
    BY <2>2, PlanTurnAssumption DEF Replan, RoundOver, Shapes
  <2> QED
    BY <2>1, <2>2
<1>3. Shapes'
  BY <1>1, <1>2 DEF Shapes
<1>4. InForce' /\ Grounded'
  BY <1>2 DEF InForce, Grounded, Agrees
<1>5. RoundOnResults'
  <2>1. \A s \in StepsOf(plan') : s.id \in Id
    BY <1>2, StepsOfPlan DEF Steps
  <2> QED
    BY <1>1, <1>2, <2>1 DEF RoundOnResults
<1> QED
  BY <1>2, <1>3, <1>4, <1>5 DEF EarlyOfPlan, ResultsOfPlan

\* What runs in a round has what it depends on, so its result is grounded.
LEMMA RoundStepKeeps ==
    ASSUME Parts, NEW s \in StepsOf(plan), RoundStep(s)
    PROVE  Parts'
<1> USE DEF Parts
<1>1. at = "dispatch" /\ UNCHANGED <<at, plan, came, early, by, calls>>
  BY DEF RoundStep, Start, Succeed, Break, Unbound, Ask, Skip, Park, Clear, Ready, Running, Stepping
<1>2. Accepts(plan) /\ (calls = 1 => Agrees(plan)) /\ plan \in Plans
  BY <1>1 DEF InForce, Shapes
<1>3. StepsOf(plan) \subseteq Steps /\ IdsOf(plan) \subseteq Id
  BY <1>2, StepsOfPlan
<1>4. s \in Steps /\ s.id \in Id /\ s.deps \subseteq Id
  BY <1>3 DEF Steps
<1>5. \A t \in StepsOf(plan) : t.id = s.id => t = s
  BY <1>2 DEF Accepts, DistinctIds, StepsOf
<1>6. \A t \in StepsOf(plan) : t.id \in Id /\ t.deps \subseteq Id /\ Waits(t) = t.deps
  BY <1>2, <1>3 DEF Accepts, EdgesInside, Waits, Steps
<1>7. CASE Succeed(s)
  <2>1. /\ out[s.id] = "on" /\ out' = [out EXCEPT ![s.id] = "ok"]
        /\ has' = [has EXCEPT ![s.id] = s]
    BY <1>7 DEF Succeed, Running
  <2>2. s # NoStep
    BY <1>4, PlanTurnAssumption
  <2>3. \A d \in Id : has'[d] # NoStep <=> has[d] # NoStep \/ d = s.id
    BY <1>4, <2>1, <2>2 DEF Shapes
  <2>4. \A d \in s.deps : has[d] # NoStep
    BY <1>1, <1>4, <2>1 DEF RoundOnResults
  <2>5. Shapes'
    BY <1>1, <1>4, <2>1 DEF Shapes, Outcome
  <2>6. Grounded'
    <3> SUFFICES ASSUME NEW j \in Id, has'[j] # NoStep
                 PROVE  /\ has'[j] \in Steps /\ has'[j].id = j
                        /\ \A d \in has'[j].deps : has'[d] # NoStep
      BY DEF Grounded
    <3>1. CASE j = s.id
      BY <1>4, <2>1, <2>3, <2>4, <3>1 DEF Shapes
    <3>2. CASE j # s.id
      <4>1. has'[j] = has[j] /\ has[j].deps \subseteq Id
        BY <2>1, <3>2 DEF Grounded, Shapes, Steps
      <4> QED
        BY <2>3, <4>1 DEF Grounded
    <3> QED
      BY <3>1, <3>2
  <2>7. ASSUME calls = 1 PROVE Agrees(plan)'
    <3> SUFFICES ASSUME NEW t \in StepsOf(plan) PROVE has'[t.id] \in {NoStep, t}
      BY <1>1 DEF Agrees
    <3>1. CASE t.id = s.id
      BY <1>4, <1>5, <2>1, <3>1 DEF Shapes
    <3>2. CASE t.id # s.id
      BY <1>2, <1>6, <2>1, <2>7, <3>2 DEF Agrees, Shapes
    <3> QED
      BY <3>1, <3>2
  <2>8. RoundOnResults'
    <3>1. \A i \in Id : out'[i] = "ok" <=> out[i] = "ok" \/ i = s.id
      BY <1>4, <2>1 DEF Shapes
    <3>2. \A i \in Id : out'[i] = "on" => out[i] = "on"
      BY <1>4, <2>1 DEF Shapes
    <3> QED
      BY <1>1, <1>6, <2>3, <3>1, <3>2 DEF RoundOnResults
  <2> QED
    BY <1>1, <1>2, <2>5, <2>6, <2>7, <2>8 DEF EarlyOfPlan, ResultsOfPlan, InForce
<1>8. CASE ~Succeed(s)
  <2>1. has' = has /\ out[s.id] # "ok"
    BY <1>8 DEF RoundStep, Start, Break, Unbound, Ask, Skip, Park, Clear, Ready, Running
  <2>2. \E o \in Outcome \ {"ok"} :
            /\ out' = [out EXCEPT ![s.id] = o]
            /\ o = "on" => Start(s)
    BY <1>8 DEF RoundStep, Start, Break, Unbound, Ask, Skip, Park, Outcome
  <2>3. PICK o \in Outcome \ {"ok"} : out' = [out EXCEPT ![s.id] = o] /\ (o = "on" => Start(s))
    BY <2>2
  <2>4. Shapes'
    BY <1>1, <1>4, <2>1, <2>3 DEF Shapes
  <2>5. \A i \in Id : out'[i] = "ok" <=> out[i] = "ok"
    BY <1>4, <2>1, <2>3 DEF Shapes
  <2>6. ASSUME NEW t \in StepsOf(plan), out'[t.id] = "on", NEW d \in t.deps
        PROVE  out'[d] = "ok"
    <3>1. d \in Id
      BY <1>6
    <3>2. CASE t.id = s.id
      <4>1. t = s /\ Start(s)
        BY <1>4, <1>5, <2>3, <2>6, <3>2 DEF Shapes
      <4>2. out[d] = "ok"
        BY <1>6, <4>1 DEF Start, Clear
      <4> QED
        BY <2>5, <3>1, <4>2
    <3>3. CASE t.id # s.id
      <4>1. out[t.id] = "on"
        BY <1>6, <2>3, <2>6, <3>3 DEF Shapes
      <4> QED
        BY <1>1, <2>5, <3>1, <4>1 DEF RoundOnResults
    <3> QED
      BY <3>2, <3>3
  <2>7. RoundOnResults'
    BY <1>1, <2>1, <2>5, <2>6 DEF RoundOnResults
  <2> QED
    BY <1>1, <1>2, <2>1, <2>4, <2>7
    DEF Grounded, EarlyOfPlan, ResultsOfPlan, Agrees, InForce
<1> QED
  BY <1>7, <1>8

\* Every step of the turn keeps the invariant; after an answer it says nothing.
LEMMA StepHolds == IInv /\ [Next]_vars => IInv'
<1> SUFFICES ASSUME IInv, [Next]_vars, ~resumed' PROVE Parts'
  BY DEF IInv
<1>1. CASE UNCHANGED vars
  BY <1>1 DEF vars, trace, questions, IInv, Parts, Shapes, Grounded, EarlyOfPlan, EarlyStep,
              ResultsOfPlan, Agrees, InForce, RoundOnResults
<1>2. CASE \E i \in Id : Resume(i)
  BY <1>2 DEF Resume
<1>3. CASE Arrive \/ StreamEnds \/ PlannerDies \/ Abandon
  BY <1>3, StreamKeeps DEF IInv, Arrive, StreamEnds, PlannerDies, Abandon
<1>4. CASE (\E s \in writing : WriteRow(s) \/ RowRefused(s)) \/ \E i \in Id : EarlyEnds(i)
  BY <1>4, BesideKeeps DEF IInv, WriteRow, RowRefused, EarlyEnds
<1>5. CASE Record \/ \E i \in Id : Collect(i)
  BY <1>5, CollectKeeps DEF IInv, Record, Collect
<1>6. CASE Accept \/ Refuse \/ Repair \/ RepairFails \/ Degrade \/ Finish
  BY <1>6, CheckKeeps DEF IInv, Accept, Refuse, Repair, RepairFails, Degrade, Finish
<1>7. CASE SyncRows \/ Replan
  BY <1>7, RoundsKeep DEF IInv, SyncRows, Replan
<1>8. CASE \E s \in StepsOf(plan) : RoundStep(s)
  <2>1. PICK s \in StepsOf(plan) : RoundStep(s)
    BY <1>8
  <2>2. resumed' = resumed
    BY <2>1 DEF RoundStep, Start, Succeed, Break, Unbound, Ask, Skip, Park, Stepping
  <2> QED
    BY <2>1, <2>2, RoundStepKeeps DEF IInv
<1> QED
  BY <1>1, <1>2, <1>3, <1>4, <1>5, <1>6, <1>7, <1>8 DEF Next, Proceed

\* Under the invariant a step that may start has all it refers to.
LEMMA InvariantBinds == IInv => NothingMissing
<1> SUFFICES ASSUME Parts, NEW s \in StepsOf(plan), Clear(s), calls = 1 \/ ~Reassigned(s)
             PROVE  Bound(s)
  BY DEF IInv, NothingMissing, Parts, Shapes
<1>1. plan \in Plans /\ Accepts(plan) /\ (calls = 1 => Agrees(plan)) /\ Grounded
  BY DEF Parts, Shapes, InForce, Clear, Ready
<1>2. s.deps \subseteq Id
  BY <1>1, StepsOfPlan DEF Steps
<1>3. \A d \in s.deps : has[d] # NoStep
  BY <1>1, <1>2 DEF Accepts, EdgesInside, Waits, Clear, Ready, Parts, RoundOnResults
<1>4. \A t \in StepsOf(plan) : t.id \in Upstream(s.id, EdgesOf(plan)) => has[t.id] \in {NoStep, t}
  BY <1>1 DEF Agrees, Reassigned
<1> QED
  BY <1>1, <1>3, <1>4, ResultsReachUpstream DEF Bound

\* In the plan that came first no reference is empty when its step starts; nor in a
\* repaired one, whatever it is, where nothing upstream has a result under an id that now
\* names another step (runner._route to _finish, _collect_early, validate_plan).
THEOREM PlanTurnBinds == Spec => []NothingMissing
<1>1. Init => IInv
  BY InitHolds
<1>2. IInv /\ [Next]_vars => IInv'
  BY StepHolds
<1>3. IInv => NothingMissing
  BY InvariantBinds
<1> QED
  BY <1>1, <1>2, <1>3, PTL DEF Spec

----------------------------------------------------------------------------
(* Results, questions and rows are counted once, whatever plan comes and   *)
(* whatever ids its steps have.                                            *)

IsRow(r) == r = [step |-> r.step, status |-> r.status]

Rows == row = [i \in Id |-> row[i]] /\ \A i \in Id : IsRow(row[i])

Settled == at \notin {"stream", "abandon", "collect"}

\* A result, and a card, is counted when it is got, and none is there before.
Counts ==
    /\ ran \in [Id -> Nat] /\ asked \in [Id -> Nat] /\ round \in Nat
    /\ \A i \in Id : ran[i] = IF has[i] = NoStep THEN 0 ELSE 1
    /\ \A i \in Id : asked[i] = IF i \in told THEN 1 ELSE 0

\* Until the early results are collected there are none; then those kept; in a round
\* what is there is done.
Standing ==
    /\ \A i \in Id : early[i] # "none" => by[i] # NoStep /\ i \in claimed
    /\ at \in {"stream", "abandon"} => \A i \in Id : has[i] = NoStep
    /\ at = "stream" => came <= Len(plan.steps) /\ \A i \in Id : early[i] # "kept"
    /\ at = "collect" => \A i \in Id : has[i] # NoStep <=> early[i] = "kept"
    /\ at \in {"stream", "abandon", "collect"} => \A i \in Id : row[i].status # "succeeded"
    /\ at \in {"check", "repair", "sync"} => \A i \in Id : has[i] # NoStep => i \in claimed
    /\ at = "dispatch" => \A i \in Id : out[i] = "ok" <=> has[i] # NoStep

\* The row of a result says so, unless that write was refused; no other says so.
RowTells(i) ==
    /\ has[i] # NoStep /\ row[i] # NoRow => row[i].status = "succeeded" \/ i \in lost
    /\ row[i].status = "succeeded" => has[i] # NoStep

\* In the first round the rows tell, and none is still being written.
Told ==
    Settled =>
        /\ writing = {}
        /\ round = 0 => \A i \in Id : RowTells(i)

Once == Shapes /\ Rows /\ Counts /\ Standing /\ Told

OnceInv == ~resumed => Once

\* What a row says when its write goes through.
LEMMA SaidOne ==
    ASSUME Rows, NEW i \in Id, NEW s
    PROVE  /\ Said(i, s) = [j \in Id |-> Said(i, s)[j]]
           /\ \A j \in Id : IsRow(Said(i, s)[j])
           /\ \A j \in Id \ {i} : Said(i, s)[j] = row[j]
           /\ Said(i, s)[i] = [step |-> row[i].step, status |-> s]
<1>1. /\ DOMAIN row = Id /\ row[i] = [step |-> row[i].step, status |-> row[i].status]
      /\ \A j \in Id : row[j] = [step |-> row[j].step, status |-> row[j].status]
  BY DEF Rows, IsRow
<1>2. Said(i, s) = [row EXCEPT ![i] = [step |-> row[i].step, status |-> s]]
  <2>1. [row[i] EXCEPT !.status = s] = [step |-> row[i].step, status |-> s]
    BY <1>1
  <2>2. Said(i, s) = [row EXCEPT ![i] = [row[i] EXCEPT !.status = s]]
    BY DEF Said
  <2> QED  BY <2>1, <2>2
<1>4. Said(i, s)[i] = [step |-> row[i].step, status |-> s]
  BY <1>1, <1>2
<1>5. \A j \in Id \ {i} : Said(i, s)[j] = row[j]
  BY <1>1, <1>2
<1>6. DOMAIN Said(i, s) = Id /\ Said(i, s) = [j \in DOMAIN Said(i, s) |-> Said(i, s)[j]]
  BY <1>1, <1>2
<1>7. \A j \in Id : IsRow(Said(i, s)[j])
  <2> TAKE j \in Id
  <2>1. CASE j = i
    BY <1>4, <2>1 DEF IsRow
  <2>2. CASE j # i
    BY <1>1, <1>5, <2>2 DEF IsRow
  <2> QED  BY <2>1, <2>2
<1> QED  BY <1>4, <1>5, <1>6, <1>7

\* What the rows say after a step of a round, and which of them missed it.
LEMMA SaysOne ==
    ASSUME Rows, NEW i \in Id, NEW s, Says(i, s)
    PROVE  /\ Rows'
           /\ \A j \in Id \ {i} : row'[j] = row[j] /\ (j \in lost' <=> j \in lost)
           /\ row'[i] = row[i] \/ row'[i] = [step |-> row[i].step, status |-> s]
           /\ row'[i] # NoRow => row'[i].status = s \/ i \in lost'
<1>1. CASE row[i] = NoRow /\ UNCHANGED <<row, lost>>
  BY <1>1 DEF Rows
<1>2. CASE row' = Said(i, s) /\ lost' = lost \ {i}
  <2>1. /\ Said(i, s) = [j \in Id |-> Said(i, s)[j]]
        /\ \A j \in Id : IsRow(Said(i, s)[j])
        /\ \A j \in Id \ {i} : Said(i, s)[j] = row[j]
        /\ Said(i, s)[i] = [step |-> row[i].step, status |-> s]
    BY SaidOne
  <2>2. Rows'
    BY <1>2, <2>1 DEF Rows
  <2> QED  BY <1>2, <2>1, <2>2
<1>3. CASE row' = row /\ lost' = lost \cup {i}
  BY <1>3 DEF Rows
<1> QED  BY <1>1, <1>2, <1>3 DEF Says

LEMMA OnceInit == Init => OnceInv
<1> SUFFICES ASSUME Init PROVE Once
  BY DEF OnceInv
<1>1. Shapes
  BY PlanTurnAssumption DEF Init, Shapes, None, EarlyState, Outcome
<1>2. Rows
  BY DEF Init, Rows, None, NoRow, IsRow
<1>3. Counts
  BY DEF Init, Counts, None
<1>4. Standing /\ Told
  BY DEF Init, Standing, Told, Settled, None, NoRow
<1> QED  BY <1>1, <1>2, <1>3, <1>4 DEF Once

LEMMA OnceStream ==
    ASSUME Once, Arrive \/ StreamEnds \/ PlannerDies \/ Abandon
    PROVE  Once'
<1>0. plan.steps \in Seq(Steps)
  BY DEF Once, Shapes, Plans
<1>1. CASE Arrive
  <2> DEFINE s == plan.steps[came + 1]
  <2>1. came + 1 \in DOMAIN plan.steps /\ s \in Steps /\ s.id \in Id /\ s # NoStep
    <3>1. came + 1 \in DOMAIN plan.steps /\ s \in Steps
      BY <1>0, <1>1 DEF Arrive, Once, Shapes
    <3>2. s.id \in Id
      BY <3>1 DEF Steps
    <3> QED  BY <3>1, <3>2, PlanTurnAssumption
  <2>2. /\ at = "stream" /\ came' = came + 1 /\ claimed' = claimed \cup {s.id}
        /\ IF StartsEarly(s)
           THEN early' = [early EXCEPT ![s.id] = "running"] /\ by' = [by EXCEPT ![s.id] = s]
           ELSE UNCHANGED <<early, by>>
        /\ UNCHANGED <<at, plan, row, has, told, card, asked, out, again, round, calls, ran>>
    BY <1>1 DEF Arrive, questions
  <2>3. Shapes'
    BY <2>1, <2>2 DEF Once, Shapes, EarlyState
  <2>4. Standing'
    BY <2>1, <2>2 DEF Once, Shapes, Standing
  <2>5. Rows' /\ Counts' /\ Told'
    BY <2>2 DEF Once, Rows, Counts, Told, Settled
  <2> QED  BY <2>3, <2>4, <2>5 DEF Once
<1>2. CASE StreamEnds
  <2>1. /\ at = "stream" /\ at' = "collect" /\ plan' = [plan EXCEPT !.steps = SubSeq(plan.steps, 1, came)]
        /\ UNCHANGED <<came, early, by, claimed, row, has, told, asked, out, round, calls, ran>>
    BY <1>2 DEF StreamEnds, trace, questions, Go
  <2>2. came \in 1 .. Len(plan.steps)
    BY <1>0, <1>2 DEF StreamEnds, Once, Shapes, Standing
  <2>3. plan' \in Plans
    <3>1. SubSeq(plan.steps, 1, came) \in Seq(Steps)
      BY <1>0, <2>2
    <3> QED  BY <2>1, <3>1 DEF Once, Shapes, Plans
  <2> QED
    BY <2>1, <2>3 DEF Once, Shapes, Rows, Counts, Standing, Told, Settled
<1>3. CASE PlannerDies
  <2>1. /\ at = "stream" /\ at' = "abandon"
        /\ UNCHANGED <<plan, came, early, by, claimed, row, has, told, asked, out, round, calls, ran>>
    BY <1>3 DEF PlannerDies, trace, questions, Go
  <2> QED
    BY <2>1 DEF Once, Shapes, Rows, Counts, Standing, Told, Settled
<1>4. CASE Abandon
  <2>1. /\ at = "abandon" /\ at' = "degrade" /\ writing = {}
        /\ early' = [i \in Id |-> IF early[i] = "none" THEN "none" ELSE "gone"]
        /\ row' = [i \in Id |-> Cancelled(row[i])] \/ row' = row
        /\ UNCHANGED <<plan, came, by, claimed, writing, has, told, asked, out, round, calls, ran>>
    BY <1>4 DEF Abandon, RowsGathered, questions, Go
  <2>2. \A i \in Id : IsRow(row'[i]) /\ row'[i].status # "succeeded"
    <3> TAKE i \in Id
    <3>1. row[i] = [step |-> row[i].step, status |-> row[i].status]
      BY DEF Once, Rows, IsRow
    <3>2. [row[i] EXCEPT !.status = "cancelled"] = [step |-> row[i].step, status |-> "cancelled"]
      BY <3>1
    <3>3. row'[i] = row[i] \/ row'[i] = [step |-> row[i].step, status |-> "cancelled"]
      BY <2>1, <3>2 DEF Cancelled
    <3>4. row[i].status # "succeeded"
      BY <2>1 DEF Once, Standing
    <3> QED  BY <3>1, <3>3, <3>4 DEF IsRow
  <2>3. Rows'
    BY <2>1, <2>2 DEF Once, Rows
  <2>4. Shapes'
    BY <2>1 DEF Once, Shapes, EarlyState
  <2>5. Counts' /\ Standing' /\ Told'
    BY <2>1, <2>2 DEF Once, Counts, Standing, Told, Settled, RowTells
  <2> QED  BY <2>3, <2>4, <2>5 DEF Once
<1> QED
  BY <1>1, <1>2, <1>3, <1>4

LEMMA OnceBeside ==
    ASSUME Once,
           \/ \E s \in writing : WriteRow(s) \/ RowRefused(s)
           \/ \E i \in Id : EarlyEnds(i)
    PROVE  Once'
<1>1. CASE \E s \in writing : WriteRow(s) \/ RowRefused(s)
  <2>1. PICK s \in writing : WriteRow(s) \/ RowRefused(s)
    BY <1>1
  <2>2. /\ UNCHANGED <<at, plan, came, early, by, claimed, has, told, asked, out, round, calls, ran>>
        /\ row' = row \/ row' = [row EXCEPT ![s.id] = [step |-> s, status |-> "pending"]]
    BY <2>1 DEF WriteRow, RowRefused, questions
  <2>3. ~Settled
    BY <2>1 DEF Once, Told
  <2>4. Rows'
    BY <2>2 DEF Once, Rows, IsRow
  <2>5. \A i \in Id : row[i].status # "succeeded" => row'[i].status # "succeeded"
    BY <2>2 DEF Once, Rows, IsRow
  <2>6. Standing'
    BY <2>2, <2>5 DEF Once, Standing
  <2> QED
    BY <2>2, <2>3, <2>4, <2>6 DEF Once, Shapes, Counts, Told, Settled
<1>2. CASE \E i \in Id : EarlyEnds(i)
  <2>1. PICK i \in Id : EarlyEnds(i)
    BY <1>2
  <2>2. UNCHANGED <<at, plan, came, by, claimed, writing, row, lost, has, told, asked, out, round,
                    calls, ran>>
    BY <2>1 DEF EarlyEnds, trace, questions
  <2>3. PICK end \in {"asks", "bad", "ok", "again"} : early' = [early EXCEPT ![i] = end]
    BY <2>1 DEF EarlyEnds
  <2>4. Shapes'
    BY <2>2, <2>3 DEF Once, Shapes, EarlyState
  <2>5. early[i] = "running"
    BY <2>1 DEF EarlyEnds
  <2>6. Standing'
    BY <2>2, <2>3, <2>5 DEF Once, Shapes, Standing
  <2> QED
    BY <2>2, <2>4, <2>6 DEF Once, Rows, Counts, Told, Settled, RowTells
<1> QED
  BY <1>1, <1>2

\* A card is counted with its first raise.
LEMMA RaiseCounts ==
    ASSUME asked \in [Id -> Nat], \A j \in Id : asked[j] = IF j \in told THEN 1 ELSE 0,
           NEW i \in Id, Raise(i)
    PROVE  asked' \in [Id -> Nat] /\ \A j \in Id : asked'[j] = IF j \in told' THEN 1 ELSE 0
<1>1. CASE i \in told
  BY <1>1 DEF Raise
<1>2. CASE i \notin told
  BY <1>2 DEF Raise
<1> QED  BY <1>1, <1>2

LEMMA OnceCollect ==
    ASSUME Once, Record \/ \E i \in Id : Collect(i)
    PROVE  Once'
<1>1. CASE Record
  <2> DEFINE kept == {i \in Id : early[i] = "kept" /\ row[i] # NoRow}
  <2>1. /\ at = "collect" /\ at' = "check" /\ writing = {}
        /\ UNCHANGED <<plan, came, early, by, claimed, writing, has, told, asked, out, round, calls, ran>>
    BY <1>1 DEF Record, RowsGathered, questions, Go
  <2>2. PICK missed \in SUBSET kept :
          /\ lost' = lost \cup missed
          /\ row' = [i \in Id |->
               IF i \in kept \ missed THEN [row[i] EXCEPT !.status = "succeeded"] ELSE row[i]]
    BY <1>1 DEF Record
  <2>3. \A i \in Id : row'[i] = IF i \in kept \ missed
                                THEN [step |-> row[i].step, status |-> "succeeded"] ELSE row[i]
    <3> TAKE i \in Id
    <3>1. row[i] = [step |-> row[i].step, status |-> row[i].status]
      BY DEF Once, Rows, IsRow
    <3>2. [row[i] EXCEPT !.status = "succeeded"] = [step |-> row[i].step, status |-> "succeeded"]
      BY <3>1
    <3> QED  BY <2>2, <3>2
  <2>4. Rows'
    BY <2>2, <2>3 DEF Once, Rows, IsRow
  <2>5. Standing'
    BY <2>1 DEF Once, Standing
  <2>6. Told'
    <3>1. ASSUME NEW i \in Id PROVE RowTells(i)'
      <4>1. early[i] = "kept" <=> has[i] # NoStep
        BY <2>1 DEF Once, Standing
      <4>2. row[i].status # "succeeded"
        BY <2>1 DEF Once, Standing
      <4>3. CASE i \in kept \ missed
        <5>1. row'[i] = [step |-> row[i].step, status |-> "succeeded"]
          BY <2>3, <4>3
        <5>2. row'[i].status = "succeeded"
          BY <5>1
        <5> QED  BY <2>1, <4>1, <4>3, <5>2 DEF RowTells
      <4>4. CASE i \notin kept \ missed
        <5>1. row'[i] = row[i]
          BY <2>3, <4>4
        <5> QED  BY <2>1, <2>2, <4>1, <4>2, <4>4, <5>1 DEF RowTells
      <4> QED  BY <4>3, <4>4
    <3> QED  BY <2>1, <3>1 DEF Told
  <2> QED  BY <2>1, <2>4, <2>5, <2>6 DEF Once, Shapes, Counts
<1>2. CASE \E i \in Id : Collect(i)
  <2>1. PICK i \in Id : Collect(i)
    BY <1>2
  <2> DEFINE keep == StillAsked(i) /\ early[i] = "ok"
  <2>2. /\ at = "collect" /\ early[i] \in {"ok", "bad", "again", "asks"}
        /\ early' = [early EXCEPT ![i] = IF keep THEN "kept" ELSE "gone"]
        /\ UNCHANGED <<at, plan, came, by, claimed, writing, row, lost, out, round, calls>>
        /\ IF keep
           THEN has' = [has EXCEPT ![i] = by[i]] /\ ran' = [ran EXCEPT ![i] = @ + 1]
           ELSE UNCHANGED <<has, ran>>
        /\ Raise(i) \/ UNCHANGED <<told, asked>>
    BY <2>1 DEF Collect, trace, questions
  <2>3. by[i] # NoStep /\ by[i] \in Steps /\ has[i] = NoStep /\ i \in claimed /\ ran[i] = 0
    BY <2>2 DEF Once, Shapes, Standing, Counts
  <2>4. early' \in [Id -> EarlyState]
    BY <2>2 DEF Once, Shapes, EarlyState
  <2>5. asked' \in [Id -> Nat] /\ \A j \in Id : asked'[j] = IF j \in told' THEN 1 ELSE 0
    <3>1. CASE Raise(i)
      BY <3>1, RaiseCounts DEF Once, Counts
    <3>2. CASE UNCHANGED <<told, asked>>
      BY <3>2 DEF Once, Counts
    <3> QED  BY <2>2, <3>1, <3>2
  <2>6. CASE keep
    <3>1. Shapes'
      BY <2>2, <2>3, <2>4, <2>6 DEF Once, Shapes
    <3>2. Counts'
      <4>1. /\ ran' = [ran EXCEPT ![i] = ran[i] + 1] /\ has' = [has EXCEPT ![i] = by[i]]
            /\ ran \in [Id -> Nat] /\ has \in [Id -> Steps \cup {NoStep}]
        BY <2>2, <2>6 DEF Once, Shapes, Counts
      <4>2. ran' \in [Id -> Nat] /\ ran'[i] = 1 /\ has'[i] # NoStep
        BY <2>3, <4>1
      <4>3. \A j \in Id \ {i} : ran'[j] = ran[j] /\ has'[j] = has[j]
        BY <4>1
      <4>4. \A j \in Id : ran'[j] = IF has'[j] = NoStep THEN 0 ELSE 1
        BY <4>2, <4>3 DEF Once, Counts
      <4> QED  BY <2>2, <2>5, <4>2, <4>4 DEF Once, Counts
    <3>3. Standing'
      BY <2>2, <2>3, <2>6 DEF Once, Shapes, Standing
    <3> QED  BY <2>2, <3>1, <3>2, <3>3 DEF Once, Rows, Told, Settled
  <2>7. CASE ~keep
    <3>1. Shapes'
      BY <2>2, <2>4, <2>7 DEF Once, Shapes
    <3>2. Counts'
      BY <2>2, <2>5, <2>7 DEF Once, Counts
    <3>3. Standing'
      BY <2>2, <2>3, <2>7 DEF Once, Shapes, Standing
    <3> QED  BY <2>2, <3>1, <3>2, <3>3 DEF Once, Rows, Told, Settled
  <2> QED  BY <2>6, <2>7
<1> QED
  BY <1>1, <1>2

LEMMA OnceCheck ==
    ASSUME Once, Accept \/ Refuse \/ Repair \/ RepairFails \/ Degrade \/ Finish
    PROVE  Once'
<1>1. /\ UNCHANGED <<came, early, by, claimed, writing, row, lost, has, told, asked, out, round, ran>>
      /\ calls' = calls \/ calls' = calls + 1
  BY DEF Accept, Refuse, Repair, RepairFails, Degrade, Finish, trace, questions
<1>2. plan' \in Plans
  <2>1. CASE Repair
    BY <2>1, PlanTurnAssumption DEF Repair
  <2>2. CASE ~Repair
    BY <2>2 DEF Accept, Refuse, RepairFails, Degrade, Finish, Once, Shapes
  <2> QED  BY <2>1, <2>2
<1>3. \/ at = "check" /\ at' \in {"sync", "repair", "degrade"}
      \/ at = "repair" /\ at' \in {"check", "degrade"}
      \/ at \in {"degrade", "dispatch"} /\ at' = "over"
  BY DEF Accept, Refuse, Repair, RepairFails, Degrade, Finish, RoundOver, Go
<1>4. Standing'
  BY <1>1, <1>3 DEF Once, Standing
<1>5. Told'
  BY <1>1, <1>3 DEF Once, Told, Settled, RowTells
<1> QED  BY <1>1, <1>2, <1>4, <1>5 DEF Once, Shapes, Rows, Counts

LEMMA OnceRounds ==
    ASSUME Once, SyncRows \/ Replan
    PROVE  Once'
<1>1. /\ Carried(has) \in [Id -> Outcome]
      /\ \A i \in Id : Carried(has)[i] = "ok" <=> has[i] # NoStep
  BY CarriedIsResults DEF Once, Shapes
<1>2. CASE SyncRows
  <2>1. /\ at = "sync" /\ at' = "dispatch" /\ out' = Carried(has)
        /\ UNCHANGED <<plan, came, early, by, writing, lost, has, told, asked, round, calls, ran>>
        /\ claimed \subseteq claimed'
    BY <1>2 DEF SyncRows, questions, Go
  <2>2. /\ row' = [i \in Id |-> row'[i]]
        /\ \A i \in Id :
            \/ row'[i] = row[i]
            \/ row'[i] = [step |-> Final(i), status |-> "pending"] /\ i \notin claimed
            \/ row[i] # NoRow /\ row'[i] = [row[i] EXCEPT !.step.refs = Final(i).refs]
    <3>1. PICK missed \in SUBSET {i \in IdsOf(plan) : i \notin claimed \/ row[i] # NoRow} :
            row' = [i \in Id |->
              IF i \notin IdsOf(plan) \ missed THEN row[i]
              ELSE IF i \notin claimed THEN [step |-> Final(i), status |-> "pending"]
              ELSE IF row[i] = NoRow THEN NoRow
              ELSE [row[i] EXCEPT !.step.refs = Final(i).refs]]
      BY <1>2 DEF SyncRows
    <3>2. row' = [i \in Id |-> row'[i]]
      BY <3>1
    <3>3. ASSUME NEW i \in Id
          PROVE  \/ row'[i] = row[i]
                 \/ row'[i] = [step |-> Final(i), status |-> "pending"] /\ i \notin claimed
                 \/ row[i] # NoRow /\ row'[i] = [row[i] EXCEPT !.step.refs = Final(i).refs]
      <4>1. CASE i \notin IdsOf(plan) \ missed
        BY <3>1, <4>1
      <4>2. CASE i \in IdsOf(plan) \ missed /\ i \notin claimed
        BY <3>1, <4>2
      <4>3. CASE i \in IdsOf(plan) \ missed /\ i \in claimed /\ row[i] = NoRow
        BY <3>1, <4>3
      <4>4. CASE i \in IdsOf(plan) \ missed /\ i \in claimed /\ row[i] # NoRow
        BY <3>1, <4>4
      <4> QED  BY <4>1, <4>2, <4>3, <4>4
    <3> QED  BY <3>2, <3>3
  <2>3. ASSUME NEW i \in Id
        PROVE  IsRow(row'[i]) /\ (round = 0 => RowTells(i)')
    <3>1. /\ row[i] = [step |-> row[i].step, status |-> row[i].status]
          /\ round = 0 => RowTells(i)
          /\ has[i] # NoStep => i \in claimed
      BY <2>1 DEF Once, Rows, IsRow, Standing, Told, Settled
    <3> DEFINE t == [row[i].step EXCEPT !.refs = Final(i).refs]
               new == [row[i] EXCEPT !.step.refs = Final(i).refs]
    <3>2. new = [step |-> t, status |-> row[i].status]
      BY <3>1
    <3>3. \/ row'[i] = row[i]
          \/ row'[i] = [step |-> Final(i), status |-> "pending"] /\ i \notin claimed
          \/ row[i] # NoRow /\ row'[i] = new
      BY <2>2
    <3> HIDE DEF new, t
    <3>4. CASE row'[i] = row[i]
      BY <2>1, <3>1, <3>4 DEF IsRow, RowTells
    <3>5. CASE row'[i] = [step |-> Final(i), status |-> "pending"] /\ i \notin claimed
      BY <2>1, <3>1, <3>5 DEF IsRow, RowTells
    <3>6. CASE row[i] # NoRow /\ row'[i] = new
      BY <2>1, <3>1, <3>2, <3>6 DEF IsRow, RowTells
    <3> QED  BY <3>3, <3>4, <3>5, <3>6
  <2> QED  BY <1>1, <2>1, <2>2, <2>3 DEF Once, Shapes, Rows, Counts, Standing, Told, Settled
<1>3. CASE Replan
  <2>1. /\ at = "dispatch" /\ at' = "dispatch" /\ out' = Carried(has) /\ round' = round + 1
        /\ UNCHANGED <<came, early, by, claimed, writing, has, told, asked, ran>>
        /\ calls' = calls + 1
    BY <1>3 DEF Replan, RoundOver, questions
  <2>2. PICK fix \in Fixes, missed \in SUBSET IdsOf(plan') :
          /\ plan' = fix
          /\ row' = [i \in Id |->
                IF i \in IdsOf(fix) \ missed
                THEN [step |-> CHOOSE s \in StepsOf(fix) : s.id = i, status |-> "pending"] ELSE row[i]]
    BY <1>3, Zenon DEF Replan
  <2>3. Rows'
    BY <2>2 DEF Once, Rows, IsRow
  <2>4. plan' \in Plans
    BY <2>2, PlanTurnAssumption
  <2>5. round' # 0
    BY <2>1 DEF Once, Counts
  <2> QED  BY <1>1, <2>1, <2>3, <2>4, <2>5 DEF Once, Shapes, Counts, Standing, Told, Settled
<1> QED  BY <1>2, <1>3

\* A step of a round changes its own outcome and its own row, and what has a result is
\* not run again.
LEMMA OnceRoundStep ==
    ASSUME Once, NEW s \in StepsOf(plan), RoundStep(s)
    PROVE  Once'
<1>1. /\ at = "dispatch" /\ out[s.id] \in {"none", "on"}
      /\ UNCHANGED <<at, plan, came, early, by, claimed, writing, round, calls>>
  BY DEF RoundStep, Start, Succeed, Break, Unbound, Ask, Skip, Park, Clear, Ready, Running, Stepping
<1>2. s \in Steps /\ s.id \in Id /\ s # NoStep
  <2>1. s \in Steps
    BY StepsOfPlan DEF Once, Shapes
  <2>2. s.id \in Id
    BY <2>1 DEF Steps
  <2> QED  BY <2>1, <2>2, PlanTurnAssumption
<1>3. has[s.id] = NoStep /\ ran[s.id] = 0
  BY <1>1, <1>2 DEF Once, Standing, Counts
<1>4. asked' \in [Id -> Nat] /\ \A j \in Id : asked'[j] = IF j \in told' THEN 1 ELSE 0
  <2>1. CASE Ask(s)
    BY <1>2, <2>1, RaiseCounts DEF Ask, Once, Counts
  <2>2. CASE ~Ask(s)
    BY <2>2 DEF RoundStep, Start, Succeed, Break, Unbound, Skip, Park, questions, Once, Counts
  <2> QED  BY <2>1, <2>2
<1>7. ASSUME NEW t, Says(s.id, t)
      PROVE  /\ Rows'
             /\ \A j \in Id \ {s.id} : row'[j] = row[j] /\ (j \in lost' <=> j \in lost)
             /\ row'[s.id] = row[s.id] \/ row'[s.id] = [step |-> row[s.id].step, status |-> t]
             /\ row'[s.id] # NoRow => row'[s.id].status = t \/ s.id \in lost'
  <2>1. Rows
    BY DEF Once
  <2> QED  BY <1>2, <1>7, <2>1, SaysOne
<1>5. CASE Succeed(s)
  <2>1. /\ out' = [out EXCEPT ![s.id] = "ok"] /\ Says(s.id, "succeeded")
        /\ has' = [has EXCEPT ![s.id] = s] /\ ran' = [ran EXCEPT ![s.id] = ran[s.id] + 1]
    BY <1>5 DEF Succeed
  <2>2. has'[s.id] = s /\ \A j \in Id \ {s.id} : has'[j] = has[j] /\ ran'[j] = ran[j] /\ out'[j] = out[j]
    BY <1>2, <2>1 DEF Once, Shapes, Counts
  <2>3. ran'[s.id] = 1 /\ out'[s.id] = "ok" /\ ran' \in [Id -> Nat]
    BY <1>2, <1>3, <2>1 DEF Once, Shapes, Counts
  <2>4. Shapes'
    BY <1>1, <1>2, <2>1 DEF Once, Shapes, Outcome
  <2>5. Counts'
    BY <1>1, <1>2, <1>4, <2>2, <2>3 DEF Once, Counts
  <2>6. Standing'
    BY <1>1, <1>2, <2>2, <2>3 DEF Once, Standing
  <2>7. Rows'
    BY <1>7, <2>1
  <2>8. Told'
    <3>1. ASSUME round = 0, NEW i \in Id PROVE RowTells(i)'
      <4>1. CASE i = s.id
        BY <1>7, <1>2, <2>1, <2>2, <4>1 DEF RowTells
      <4>2. CASE i # s.id
        <5>1. row'[i] = row[i] /\ has'[i] = has[i] /\ (i \in lost => i \in lost')
          BY <1>7, <2>1, <2>2, <4>2
        <5> QED  BY <1>1, <3>1, <5>1 DEF Once, Told, Settled, RowTells
      <4> QED  BY <4>1, <4>2
    <3> QED  BY <1>1, <3>1 DEF Once, Told, Settled
  <2> QED  BY <2>4, <2>5, <2>6, <2>7, <2>8 DEF Once
<1>6. CASE ~Succeed(s)
  <2>1. has' = has /\ ran' = ran
    BY <1>6 DEF RoundStep, Start, Break, Unbound, Ask, Skip, Park
  <2>2. \E o \in Outcome \ {"ok"} : out' = [out EXCEPT ![s.id] = o]
    BY <1>6 DEF RoundStep, Start, Break, Unbound, Ask, Skip, Park, Outcome
  <2>3. PICK o \in Outcome \ {"ok"} : out' = [out EXCEPT ![s.id] = o]
    BY <2>2
  <2>4. \/ row' = row /\ lost' = lost
        \/ \E t \in {"running", "failed", "skipped"} : Says(s.id, t)
    BY <1>6 DEF RoundStep, Start, Break, Unbound, Ask, Skip, Park
  <2>5. Shapes'
    BY <1>1, <1>2, <2>1, <2>3 DEF Once, Shapes
  <2>6. Standing'
    BY <1>1, <1>2, <1>3, <2>1, <2>3 DEF Once, Standing, Shapes
  <2>7. Rows'
    BY <1>7, <2>4 DEF Once, Rows
  <2>8. ASSUME round = 0, NEW i \in Id PROVE RowTells(i)'
    <3>1. RowTells(i)
      BY <1>1, <2>8 DEF Once, Told, Settled
    <3>2. CASE row' = row /\ lost' = lost
      BY <2>1, <3>1, <3>2 DEF RowTells
    <3>3. CASE ~(row' = row /\ lost' = lost)
      <4>1. PICK t \in {"running", "failed", "skipped"} : Says(s.id, t)
        BY <2>4, <3>3
      <4>2. CASE i = s.id
        <5>1. has[i] = NoStep /\ has'[i] = NoStep
          BY <1>3, <2>1, <4>2
        <5>2. row'[i] = row[i] \/ row'[i] = [step |-> row[i].step, status |-> t]
          BY <1>7, <4>1, <4>2
        <5>3. CASE row'[i] = row[i]
          BY <3>1, <5>1, <5>3 DEF RowTells
        <5>4. CASE row'[i] = [step |-> row[i].step, status |-> t]
          <6>1. row'[i].status = t
            BY <5>4
          <6> QED  BY <4>1, <5>1, <6>1 DEF RowTells
        <5> QED  BY <5>2, <5>3, <5>4
      <4>3. CASE i # s.id
        BY <1>7, <2>1, <3>1, <4>1, <4>3 DEF RowTells
      <4> QED  BY <4>2, <4>3
    <3> QED  BY <3>2, <3>3
  <2>9. Told'
    BY <1>1, <2>8 DEF Once, Told, Settled
  <2> QED  BY <1>1, <1>4, <2>1, <2>5, <2>6, <2>7, <2>9 DEF Once, Counts
<1> QED  BY <1>5, <1>6

LEMMA OnceStep == OnceInv /\ [Next]_vars => OnceInv'
<1> SUFFICES ASSUME OnceInv, [Next]_vars, ~resumed' PROVE Once'
  BY DEF OnceInv
<1>1. CASE UNCHANGED vars
  BY <1>1 DEF vars, trace, questions, OnceInv, Once, Shapes, Rows, Counts, Standing, Told, Settled, RowTells
<1>2. CASE \E i \in Id : Resume(i)
  BY <1>2 DEF Resume
<1>3. CASE Arrive \/ StreamEnds \/ PlannerDies \/ Abandon
  BY <1>3, OnceStream DEF OnceInv, Arrive, StreamEnds, PlannerDies, Abandon
<1>4. CASE (\E s \in writing : WriteRow(s) \/ RowRefused(s)) \/ \E i \in Id : EarlyEnds(i)
  BY <1>4, OnceBeside DEF OnceInv, WriteRow, RowRefused, EarlyEnds
<1>5. CASE Record \/ \E i \in Id : Collect(i)
  BY <1>5, OnceCollect DEF OnceInv, Record, Collect
<1>6. CASE Accept \/ Refuse \/ Repair \/ RepairFails \/ Degrade \/ Finish
  BY <1>6, OnceCheck DEF OnceInv, Accept, Refuse, Repair, RepairFails, Degrade, Finish
<1>7. CASE SyncRows \/ Replan
  BY <1>7, OnceRounds DEF OnceInv, SyncRows, Replan
<1>8. CASE \E s \in StepsOf(plan) : RoundStep(s)
  <2>1. PICK s \in StepsOf(plan) : RoundStep(s)
    BY <1>8
  <2>2. resumed' = resumed
    BY <2>1 DEF RoundStep, Start, Succeed, Break, Unbound, Ask, Skip, Park, Stepping
  <2> QED  BY <2>1, <2>2, OnceRoundStep DEF OnceInv
<1> QED
  BY <1>1, <1>2, <1>3, <1>4, <1>5, <1>6, <1>7, <1>8 DEF Next, Proceed

LEMMA OnceAlways == Spec => []OnceInv
  BY OnceInit, OnceStep, PTL DEF Spec

\* No result is got twice and nobody is asked twice, by the early run and the round, in
\* every round and after a repair, whatever ids a repair gives its steps.
THEOREM PlanTurnDoneOnce == Spec => []DoneOnce
<1>1. ASSUME OnceInv PROVE DoneOnce
  BY <1>1 DEF OnceInv, Once, Counts, DoneOnce
<1> QED  BY <1>1, OnceAlways, PTL

\* A planner that died left no card and no open row, but for a refused update; a round
\* has an accepted plan.
DiedInv ==
    /\ calls \in Nat \ {0}
    /\ at \in {"stream", "abandon", "collect", "check", "repair"} => ~resumed
    /\ at \in {"stream", "abandon"} => \A i \in Id : card[i] = "none"
    /\ at \in {"sync", "dispatch"} => accepted # {} \/ calls # 1
    /\ PlannerDied => writing = {} /\ \A i \in Id : (OpenRow(i) => i \in lost) /\ card[i] = "none"

\* What no round, answer or early run does to a dead planner's turn.
LEMMA DiedElsewhere ==
    ASSUME calls' \in Nat \ {0}, at' \notin {"stream", "abandon", "degrade", "over"},
           at' \in {"collect", "check", "repair"} => ~resumed',
           at' \in {"sync", "dispatch"} => accepted' # {} \/ calls' # 1
    PROVE  DiedInv'
  BY DEF DiedInv, PlannerDied

LEMMA DiedStep ==
    ASSUME MaxCalls > 1, OnceInv, DiedInv, [Next]_vars
    PROVE  DiedInv'
<1>1. CASE UNCHANGED vars
  BY <1>1 DEF vars, trace, questions, DiedInv, PlannerDied, OpenRow
<1>2. CASE \E i \in Id : Resume(i)
  <2>1. PICK i \in Id : Resume(i)
    BY <1>2
  <2>2. at = "over" /\ card[i] = "pending" /\ at' = "dispatch" /\ UNCHANGED <<calls, accepted>>
    BY <2>1 DEF Resume, Go
  <2>3. accepted # {} \/ calls # 1
    BY <2>2 DEF DiedInv, PlannerDied
  <2> QED  BY <2>2, <2>3, DiedElsewhere DEF DiedInv
<1>3. CASE Arrive \/ (\E i \in Id : EarlyEnds(i)) \/ \E s \in writing : RowRefused(s)
  <2>1. UNCHANGED <<at, row, lost, card, calls, accepted, resumed>>
    BY <1>3 DEF Arrive, EarlyEnds, RowRefused, trace, questions
  <2>2. writing = {} /\ at # "stream" => writing' = {}
    BY <1>3 DEF Arrive, EarlyEnds, RowRefused, trace
  <2> QED  BY <2>1, <2>2 DEF DiedInv, PlannerDied, OpenRow
<1>4. CASE \E s \in writing : WriteRow(s)
  <2>1. writing # {} /\ UNCHANGED <<at, card, calls, accepted, resumed>>
    BY <1>4 DEF WriteRow, questions
  <2> QED  BY <2>1 DEF DiedInv, PlannerDied
<1>5. CASE StreamEnds \/ Record \/ \E i \in Id : Collect(i)
  <2>1. at' \in {"collect", "check"} /\ UNCHANGED <<calls, resumed>> /\ at \in {"stream", "collect"}
    BY <1>5 DEF StreamEnds, Record, Collect, Go
  <2> QED  BY <2>1, DiedElsewhere DEF DiedInv
<1>6. CASE PlannerDies
  BY <1>6 DEF PlannerDies, DiedInv, PlannerDied, trace, questions, Go
<1>7. CASE Abandon
  <2>1. /\ at = "abandon" /\ at' = "degrade" /\ writing = {} /\ writing' = {}
        /\ UNCHANGED <<card, calls, accepted, resumed>>
        /\ \/ row' = [i \in Id |-> Cancelled(row[i])]
           \/ row' = row /\ lost' = lost \cup {i \in Id : OpenRow(i)}
    BY <1>7 DEF Abandon, RowsGathered, questions, Go
  <2>2. CASE row' = [i \in Id |-> Cancelled(row[i])]
    <3>1. ASSUME NEW i \in Id PROVE row'[i].status \notin {"pending", "running"}
      <4>1. row[i] = [step |-> row[i].step, status |-> row[i].status]
        BY <2>1 DEF DiedInv, OnceInv, Once, Rows, IsRow
      <4>2. [row[i] EXCEPT !.status = "cancelled"] = [step |-> row[i].step, status |-> "cancelled"]
        BY <4>1
      <4>3. row'[i] = IF row[i].status \in {"pending", "running"}
                      THEN [step |-> row[i].step, status |-> "cancelled"] ELSE row[i]
        BY <2>2, <4>2 DEF Cancelled
      <4> QED  BY <4>3
    <3> QED  BY <2>1, <3>1 DEF DiedInv, PlannerDied, OpenRow
  <2>3. CASE row' = row /\ lost' = lost \cup {i \in Id : OpenRow(i)}
    BY <2>1, <2>3 DEF DiedInv, PlannerDied, OpenRow
  <2> QED  BY <2>1, <2>2, <2>3
<1>8. CASE Accept
  <2>1. accepted' # {}
    <3>1. plan.steps # <<>> /\ plan.steps \in Seq(Steps)
      BY <1>8 DEF Accept, Accepts, DiedInv, OnceInv, Once, Shapes, Plans
    <3>2. plan.steps[1] \in StepsOf(plan)
      BY <3>1 DEF StepsOf
    <3> QED  BY <1>8, <3>2 DEF Accept
  <2> QED  BY <1>8, <2>1, DiedElsewhere DEF Accept, DiedInv, Go
<1>9. CASE Refuse
  <2>1. /\ at' \in {"repair", "degrade"} /\ (calls = 1 => at' = "repair") /\ UNCHANGED <<calls, resumed>>
        /\ at = "check"
    BY <1>9 DEF Refuse, Go
  <2> QED  BY <2>1 DEF DiedInv, PlannerDied
<1>10. CASE Repair \/ RepairFails
  BY <1>10 DEF Repair, RepairFails, DiedInv, PlannerDied, Go
<1>11. CASE Degrade
  <2>1. /\ at = "degrade" /\ at' = "over" /\ card' = [i \in Id |-> IF card[i] = "shown" THEN "pending" ELSE card[i]]
        /\ UNCHANGED <<writing, row, lost, calls, accepted, resumed>>
    BY <1>11 DEF Degrade, trace, Go
  <2> QED  BY <2>1 DEF DiedInv, PlannerDied, OpenRow
<1>12. CASE SyncRows \/ Finish
  <2>1. at \in {"sync", "dispatch"} /\ at' \in {"dispatch", "over"} /\ UNCHANGED <<calls, accepted>>
    BY <1>12 DEF SyncRows, Finish, RoundOver, Go
  <2> QED  BY <2>1 DEF DiedInv, PlannerDied
<1>13. CASE Replan
  <2>1. at' = "dispatch" /\ calls' = calls + 1
    BY <1>13 DEF Replan, RoundOver
  <2> QED  BY <2>1, DiedElsewhere DEF DiedInv
<1>14. CASE \E s \in StepsOf(plan) : RoundStep(s)
  <2>1. at = "dispatch" /\ UNCHANGED <<at, calls, accepted>>
    BY <1>14 DEF RoundStep, Start, Succeed, Break, Unbound, Ask, Skip, Park, Clear, Ready, Running, Stepping
  <2> QED  BY <2>1, DiedElsewhere DEF DiedInv
<1> QED
  BY <1>1, <1>2, <1>3, <1>4, <1>5, <1>6, <1>7, <1>8, <1>9, <1>10, <1>11, <1>12, <1>13, <1>14 DEF Next, Proceed

\* With a repair allowed, a turn that has only its planning call when it is over either
\* had its plan accepted or lost its planner; then no row is open and none is written
\* later.  And the rows of the first round tell which results are there, whichever came
\* first.  The rows whose last write the database refused are the only exceptions.
THEOREM PlanTurnTraceTells == MaxCalls > 1 => (Spec => []TraceTells)
<1> SUFFICES ASSUME MaxCalls > 1 PROVE Spec => []TraceTells
  OBVIOUS
<1>1. Init => DiedInv
  BY DEF Init, DiedInv, PlannerDied, None
<1>2. OnceInv /\ DiedInv /\ [Next]_vars => DiedInv'
  BY DiedStep
<1>3. OnceInv /\ DiedInv => TraceTells
  <2>1. ASSUME OnceInv, at = "over", round = 0, ~resumed, NEW i \in Id PROVE RowTells(i)
    BY <2>1 DEF OnceInv, Once, Told, Settled
  <2>2. ASSUME DiedInv, PlannerDied PROVE writing = {} /\ \A i \in Id : OpenRow(i) => i \in lost
    BY <2>2 DEF DiedInv
  <2> QED  BY <2>1, <2>2 DEF TraceTells, RowTells
<1> QED
  BY <1>1, <1>2, <1>3, OnceAlways, PTL DEF Spec

----------------------------------------------------------------------------
(* The write below the floor: through the pause, the rows and the resume.  *)
(*                                                                         *)
(* The plan of a resume is put together from rows, and the answer may be   *)
(* taken for another question than the one that was asked.  What survives  *)
(* is the shape of the plan, and that whatever has a result had results    *)
(* for its edges unless it is a question itself.                           *)

Like(t, s) == t \in Steps /\ s \in Steps /\ t.id = s.id /\ t.op = s.op /\ t.deps = s.deps

OneEach(S) == \A s, t \in S : s.id = t.id => s = t

\* The steps that came.
Came == {plan.steps[k] : k \in 1 .. came}

\* Before the check: rows and early runs are of the steps that came.
Arriving ==
    /\ 1 .. came \subseteq DOMAIN plan.steps
    /\ claimed = {s.id : s \in Came} /\ writing \subseteq Came
    /\ \A i \in claimed : row[i] # NoRow \/ \E s \in writing : s.id = i
    /\ \A i \in Id : row[i] # NoRow => row[i].step \in Came /\ row[i].step.id = i
    /\ at # "check" => \A i \in Id : row[i].status \in {"none", "pending"}
    /\ \A i \in Id : early[i] # "none" =>
        by[i] \in Came /\ by[i].id = i /\ by[i].op \in {"read", "ask"} /\ by[i].deps = {}
    /\ \A i \in Id : early[i] = "asks" => by[i].op = "ask"
    /\ \A i \in Id : early[i] \in {"ok", "kept"} => by[i].op = "read"
    /\ \A i \in Id : card[i] # "none" => early[i] # "none" /\ by[i].op = "ask"

Collected ==
    /\ Came = StepsOf(plan)
    /\ \A i \in Id : has[i] # NoStep <=> early[i] = "kept"
    /\ at = "check" => \A i \in Id : has[i] # NoStep <=> row[i].status = "succeeded"

\* From the check on: plan, rows, results and cards are of the same steps.
PlanShape ==
    /\ StepsOf(plan) \subseteq Steps /\ OneEach(StepsOf(plan)) /\ IsFiniteSet(IdsOf(plan))
    /\ EdgesInside(plan) /\ FloorHeld(plan) /\ DOMAIN plan = {"steps", "write", "sure"}

RowsOfPlan ==
    /\ \A i \in Id : row[i] # NoRow <=> i \in IdsOf(plan)
    /\ \A s \in StepsOf(plan) : Like(row[s.id].step, s)
    /\ \A i \in Id : has[i] # NoStep <=> row[i].status = "succeeded"

AskedOfPlan ==
    \A i \in Id : card[i] # "none" => \E s \in StepsOf(plan) : s.id = i /\ s.op = "ask"

GroundedButAsked ==
    \A s \in StepsOf(plan) : s.op # "ask" /\ has[s.id] # NoStep => \A d \in s.deps : has[d] # NoStep

Typed == Rows /\ card \in [Id -> CardState] /\ has \in [Id -> Steps \cup {NoStep}] /\ out \in [Id -> Outcome]

\* One planning call, and no row has been refused.
FirstTry == calls = 1 /\ faults = 0

OnFirstTry ==
    /\ Typed /\ at \in {"stream", "collect", "check", "repair", "sync", "dispatch", "over"}
    /\ at \in {"stream", "collect", "check", "repair"} => ~resumed /\ accepted = {}
    /\ at \in {"stream", "collect", "check"} => Arriving
    /\ at \in {"collect", "check"} => Collected
    /\ at \notin {"stream", "collect"} => writing = {}
    /\ at \in {"sync", "dispatch", "over"} => PlanShape /\ RowsOfPlan /\ AskedOfPlan /\ GroundedButAsked
    /\ at = "sync" => ~resumed /\ claimed = IdsOf(plan) /\ DistinctIds(plan)
    /\ at = "dispatch" => RoundOnResults

\* The planning call broke off: then no plan is accepted, and no card brings it back.
Broken == accepted = {} /\ at \in {"abandon", "degrade", "over"}

UnsureInv == faults \in Nat /\ (FirstTry => OnFirstTry \/ Broken)

\* When no id comes twice, the edges of an id are those of its step.
LEMMA EdgesOfOne ==
    ASSUME NEW p, OneEach(StepsOf(p)), NEW s \in StepsOf(p)
    PROVE  s.id \in IdsOf(p) /\ EdgesOf(p)[s.id] = s.deps
<1>1. s.id \in IdsOf(p)
  BY DEF IdsOf
<1>2. {t \in StepsOf(p) : t.id = s.id} = {s}
  BY DEF OneEach
<1>3. EdgesOf(p)[s.id] = UNION {t.deps : t \in {u \in StepsOf(p) : u.id = s.id}}
  BY <1>1 DEF EdgesOf
<1>4. {t.deps : t \in {u \in StepsOf(p) : u.id = s.id}} = {s.deps}
  BY <1>2
<1> QED  BY <1>1, <1>3, <1>4

\* Edges and questions decide what the floor says, not the order of the steps.
LEMMA FloorOfLike ==
    ASSUME NEW p, NEW q, p.sure = q.sure, OneEach(StepsOf(p)), OneEach(StepsOf(q)),
           \A s \in StepsOf(p) : \E t \in StepsOf(q) : Like(t, s),
           \A t \in StepsOf(q) : \E s \in StepsOf(p) : Like(t, s),
           FloorHeld(p)
    PROVE  FloorHeld(q)
<1>1. IdsOf(p) = IdsOf(q)
  BY DEF IdsOf, Like
<1>2. EdgesOf(p) = EdgesOf(q)
  <2>1. ASSUME NEW i \in IdsOf(p) PROVE EdgesOf(p)[i] = EdgesOf(q)[i]
    <3>1. PICK s \in StepsOf(p) : s.id = i
      BY DEF IdsOf
    <3>2. PICK t \in StepsOf(q) : Like(t, s)
      BY <3>1
    <3> QED  BY <3>1, <3>2, EdgesOfOne DEF Like
  <2>2. EdgesOf(p) = [i \in IdsOf(p) |-> EdgesOf(p)[i]] /\ EdgesOf(q) = [i \in IdsOf(q) |-> EdgesOf(q)[i]]
    BY DEF EdgesOf
  <2> QED  BY <1>1, <2>1, <2>2
<1> SUFFICES ASSUME ~q.sure, NEW w \in Writes(q)
             PROVE  \E r \in Questions(q) : r.id \in Upstream(w.id, EdgesOf(q))
  BY DEF FloorHeld
<1>3. PICK v \in StepsOf(p) : Like(w, v)
  BY DEF Writes
<1>4. v \in Writes(p)
  BY <1>3 DEF Writes, Like
<1>5. PICK r \in Questions(p) : r.id \in Upstream(v.id, EdgesOf(p))
  BY <1>4 DEF FloorHeld
<1>6. PICK t \in StepsOf(q) : Like(t, r)
  BY <1>5 DEF Questions
<1>7. t \in Questions(q)
  BY <1>5, <1>6 DEF Questions, Like
<1> QED  BY <1>2, <1>3, <1>5, <1>6, <1>7 DEF Like

\* Rows picked up one by one in order are all picked up.
LEMMA InOrderIsAll ==
    ASSUME NEW T, IsFiniteSet(T), T \subseteq Nat, NEW order \in [1 .. Cardinality(T) -> T],
           \A j, k \in DOMAIN order : j < k => order[j] < order[k]
    PROVE  \A i \in T : \E k \in DOMAIN order : order[k] = i
<1> DEFINE S == 1 .. Cardinality(T)
<1>1. Cardinality(T) \in Nat
  BY FS_CardinalityType
<1>2. IsFiniteSet(S) /\ Cardinality(S) = Cardinality(T)
  BY <1>1, FS_Interval
<1>3. ASSUME NEW j \in S, NEW k \in S, order[j] = order[k] PROVE j = k
  <2>1. S \subseteq Nat /\ S = DOMAIN order
    BY <1>1
  <2>2. order[j] \in Nat /\ order[k] \in Nat
    OBVIOUS
  <2>3. ~(j < k) /\ ~(k < j)
    BY <1>3, <2>1, <2>2
  <2> QED  BY <2>1, <2>3
<1>4. order \in Injection(S, T)
  BY <1>3 DEF Injection, IsInjective
<1>5. order \in Surjection(S, T)
  BY <1>2, <1>4, FS_Injection
<1> QED  BY <1>5 DEF Surjection

\* What the invariant says of a write that has a result.
LEMMA AskedInFront ==
    ASSUME PlanShape, GroundedButAsked, ~plan.sure, NEW w \in Writes(plan), has[w.id] # NoStep
    PROVE  \E q \in Questions(plan) : q.id \in Upstream(w.id, EdgesOf(plan)) /\ has[q.id] # NoStep
<1> DEFINE E == EdgesOf(plan)
           U == Upstream(w.id, E)
           S == {n \in U : has[n] # NoStep}
<1> SUFFICES ASSUME \A q \in Questions(plan) : q.id \in U => has[q.id] = NoStep
             PROVE  FALSE
  OBVIOUS
<1>1. DOMAIN E = IdsOf(plan) /\ U \subseteq IdsOf(plan)
  BY DEF EdgesOf, Upstream
<1>2. w \in StepsOf(plan) /\ w.op # "ask"
  BY DEF Writes
<1>3. E[w.id] \subseteq U /\ \A n \in U : E[n] \subseteq U
  <2>1. \A s \in StepsOf(plan) : E[s.id] \subseteq IdsOf(plan)
    BY EdgesOfOne DEF PlanShape, EdgesInside
  <2>2. \A n \in IdsOf(plan) : E[n] \subseteq IdsOf(plan)
    BY <2>1 DEF IdsOf
  <2>3. E[w.id] \subseteq U
    BY <1>1, <1>2, <2>1 DEF Upstream
  <2>4. ASSUME NEW n \in U, NEW m \in E[n] PROVE m \in U
    <3>1. m \in DOMAIN E
      BY <1>1, <2>2, <2>4
    <3>2. \A V \in SUBSET DOMAIN E : E[w.id] \subseteq V /\ Closed(V, E) => m \in V
      BY <2>4 DEF Upstream, Closed
    <3> QED  BY <3>1, <3>2 DEF Upstream
  <2> QED  BY <2>3, <2>4
<1>4. E[w.id] \subseteq S
  BY <1>2, <1>3, EdgesOfOne DEF PlanShape, GroundedButAsked
<1>5. Closed(S, E)
  <2> SUFFICES ASSUME NEW n \in S, NEW m \in E[n] PROVE m \in S
    BY DEF Closed
  <2>1. PICK s \in StepsOf(plan) : s.id = n
    BY <1>1 DEF IdsOf
  <2>2. s.op # "ask"
    BY <2>1 DEF Questions
  <2>3. E[n] = s.deps
    BY <2>1, EdgesOfOne DEF PlanShape
  <2> QED  BY <1>3, <2>1, <2>2, <2>3 DEF GroundedButAsked
<1>6. U \subseteq S
  BY <1>1, <1>4, <1>5, UpstreamIsLeast
<1>7. PICK q \in Questions(plan) : q.id \in U
  BY DEF PlanShape, FloorHeld
<1> QED  BY <1>6, <1>7

\* As the plan comes in, rows and early runs are of what came.
LEMMA UnsureArrive ==
    ASSUME OnceInv, DiedInv, OnFirstTry, Arrive, FirstTry
    PROVE  OnFirstTry'
<1> DEFINE s == plan.steps[came + 1]
<1>0. /\ at = "stream" /\ ~resumed /\ accepted = {} /\ Typed /\ Arriving
      /\ Once /\ plan.steps \in Seq(Steps) /\ came \in Nat /\ \A i \in Id : card[i] = "none"
  BY DEF Arrive, OnFirstTry, OnceInv, Once, Shapes, Plans, DiedInv
<1>1. /\ came' = came + 1 /\ claimed' = claimed \cup {s.id}
      /\ writing' = IF s.id \in claimed THEN writing ELSE writing \cup {s}
      /\ IF StartsEarly(s)
         THEN early' = [early EXCEPT ![s.id] = "running"] /\ by' = [by EXCEPT ![s.id] = s]
         ELSE UNCHANGED <<early, by>>
      /\ UNCHANGED <<at, plan, row, has, card, out, resumed, accepted>>
  BY DEF Arrive, questions
<1>2. /\ came + 1 \in DOMAIN plan.steps /\ 1 .. came' = (1 .. came) \cup {came + 1}
      /\ 1 .. came' \subseteq DOMAIN plan.steps
  BY <1>0, <1>1 DEF Arrive
<1>3. s \in Steps /\ s.id \in Id
  <2>1. s \in Steps
    BY <1>0, <1>2
  <2> QED  BY <2>1 DEF Steps
<1> HIDE DEF s
<1>4. Came' = Came \cup {s}
  BY <1>1, <1>2 DEF Came, s
<1>5. claimed' = {t.id : t \in Came'} /\ writing' \subseteq Came'
  BY <1>0, <1>1, <1>4 DEF Arriving
<1>6. \A i \in claimed' : row'[i] # NoRow \/ \E t \in writing' : t.id = i
  <2> SUFFICES ASSUME NEW i \in claimed' PROVE row[i] # NoRow \/ \E t \in writing' : t.id = i
    BY <1>1
  <2>1. CASE i \in claimed
    BY <1>0, <1>1, <2>1 DEF Arriving
  <2>2. CASE i \notin claimed
    BY <1>1, <2>2
  <2> QED  BY <2>1, <2>2
<1>7. ASSUME NEW i \in Id
      PROVE  /\ early'[i] # "none" =>
                    by'[i] \in Came' /\ by'[i].id = i /\ by'[i].op \in {"read", "ask"} /\ by'[i].deps = {}
             /\ early'[i] = "asks" => by'[i].op = "ask"
             /\ early'[i] \in {"ok", "kept"} => by'[i].op = "read"
  <2>1. early \in [Id -> EarlyState] /\ by \in [Id -> Steps \cup {NoStep}]
    BY <1>0 DEF Once, Shapes
  <2>2. CASE StartsEarly(s) /\ i = s.id
    <3>1. early'[i] = "running" /\ by'[i] = s
      BY <1>1, <2>1, <2>2
    <3> QED  BY <1>4, <2>2, <3>1 DEF StartsEarly
  <2>3. CASE ~(StartsEarly(s) /\ i = s.id)
    <3>1. early'[i] = early[i] /\ by'[i] = by[i]
      BY <1>1, <2>1, <2>3
    <3> QED  BY <1>0, <1>4, <3>1 DEF Arriving
  <2> QED  BY <2>2, <2>3
<1>8. Arriving'
  BY <1>0, <1>1, <1>2, <1>4, <1>5, <1>6, <1>7 DEF Arriving
<1> QED  BY <1>0, <1>1, <1>8 DEF OnFirstTry, Typed, Rows, IsRow

LEMMA UnsureStreamEnds ==
    ASSUME OnceInv, DiedInv, OnFirstTry, StreamEnds, FirstTry
    PROVE  OnFirstTry'
<1>0. /\ at = "stream" /\ ~resumed /\ accepted = {} /\ Typed /\ Arriving
      /\ Once /\ plan.steps \in Seq(Steps) /\ came \in Nat /\ plan \in Plans
  BY DEF StreamEnds, OnFirstTry, OnceInv, Once, Shapes, Plans
<1>1. /\ at' = "collect" /\ plan' = [plan EXCEPT !.steps = SubSeq(plan.steps, 1, came)] /\ came > 0
      /\ UNCHANGED <<came, early, by, claimed, writing, row, has, card, out, resumed, accepted>>
  BY DEF StreamEnds, trace, questions, Go
<1>2. came <= Len(plan.steps)
  BY <1>0 DEF Once, Standing
<1>3. plan'.steps = SubSeq(plan.steps, 1, came)
  BY <1>0, <1>1 DEF Plans
<1>4. DOMAIN plan'.steps = 1 .. came /\ \A k \in 1 .. came : plan'.steps[k] = plan.steps[k]
  BY <1>0, <1>1, <1>2, <1>3
<1>5. Came' = Came /\ StepsOf(plan') = Came
  BY <1>1, <1>4 DEF Came, StepsOf
<1>6. Arriving'
  BY <1>0, <1>1, <1>4, <1>5 DEF Arriving
<1>7. Collected'
  <2>1. \A i \in Id : has[i] = NoStep /\ early[i] # "kept"
    BY <1>0 DEF Once, Standing
  <2> QED  BY <1>1, <1>5, <2>1 DEF Collected
<1> QED  BY <1>0, <1>1, <1>6, <1>7 DEF OnFirstTry, Typed, Rows, IsRow

\* What came are steps.
LEMMA CameSteps ==
    ASSUME plan \in Plans, Arriving
    PROVE  Came \subseteq Steps /\ \A s \in Came : s.id \in Id /\ s # NoStep
<1>1. plan.steps \in Seq(Steps)
  BY DEF Plans
<1>2. Came \subseteq Steps
  BY <1>1 DEF Came, Arriving
<1>3. \A s \in Came : s.id \in Id
  BY <1>2 DEF Steps
<1> QED  BY <1>2, <1>3, PlanTurnAssumption

\* Before the check the step of a row that is written is one that came.
LEMMA UnsureWriteRow ==
    ASSUME OnceInv, OnFirstTry, NEW s \in writing, WriteRow(s), FirstTry
    PROVE  OnFirstTry'
<1>0. /\ at \in {"stream", "collect"} /\ ~resumed /\ accepted = {} /\ Typed /\ Arriving
      /\ at = "collect" => Collected
      /\ plan \in Plans /\ s \in Came
  BY DEF OnFirstTry, OnceInv, Once, Shapes, Arriving
<1>1. /\ row' = [row EXCEPT ![s.id] = [step |-> s, status |-> "pending"]]
      /\ writing' = writing \ {s}
      /\ UNCHANGED <<at, plan, came, early, by, claimed, has, card, out, resumed, accepted>>
  BY DEF WriteRow, questions
<1>2. s \in Steps /\ s.id \in Id /\ s # NoStep
  BY <1>0, CameSteps
<1>3. row'[s.id] = [step |-> s, status |-> "pending"] /\ \A i \in Id \ {s.id} : row'[i] = row[i]
  BY <1>0, <1>1, <1>2 DEF Typed, Rows
<1>4. row'[s.id] # NoRow /\ row'[s.id].step = s /\ row'[s.id].status = "pending"
  BY <1>2, <1>3 DEF NoRow
<1>5. Typed'
  <2>1. row' = [i \in Id |-> row'[i]]
    BY <1>0, <1>1 DEF Typed, Rows
  <2>2. ASSUME NEW i \in Id PROVE IsRow(row'[i])
    <3>1. CASE i = s.id
      BY <1>3, <3>1 DEF IsRow
    <3>2. CASE i # s.id
      BY <1>0, <1>3, <3>2 DEF Typed, Rows, IsRow
    <3> QED  BY <3>1, <3>2
  <2> QED  BY <1>0, <1>1, <2>1, <2>2 DEF Typed, Rows
<1>6. \A i \in claimed : row'[i] # NoRow \/ \E t \in writing' : t.id = i
  <2> SUFFICES ASSUME NEW i \in claimed, row'[i] = NoRow PROVE \E t \in writing' : t.id = i
    OBVIOUS
  <2>1. i # s.id
    BY <1>4
  <2>2. i \in Id
    BY <1>0, CameSteps DEF Arriving
  <2>3. PICK t \in writing : t.id = i
    BY <1>0, <1>3, <2>1, <2>2 DEF Arriving
  <2> QED  BY <1>1, <2>1, <2>3
<1>7. ASSUME NEW i \in Id
      PROVE  /\ row'[i] # NoRow => row'[i].step \in Came /\ row'[i].step.id = i
             /\ row'[i].status \in {"none", "pending"}
  <2>1. CASE i = s.id
    BY <1>0, <1>4, <2>1
  <2>2. CASE i # s.id
    BY <1>0, <1>3, <2>2 DEF Arriving
  <2> QED  BY <2>1, <2>2
<1>8. Came' = Came
  BY <1>1 DEF Came
<1>9. Arriving'
  BY <1>0, <1>1, <1>6, <1>7, <1>8 DEF Arriving
<1>10. at = "collect" => Collected'
  BY <1>0, <1>1, <1>8 DEF Collected, StepsOf
<1> QED  BY <1>0, <1>1, <1>5, <1>9, <1>10 DEF OnFirstTry

\* An early run ends; later than the collection nobody reads how.
LEMMA UnsureEarlyEnds ==
    ASSUME OnceInv, OnFirstTry, NEW i \in Id, EarlyEnds(i), FirstTry
    PROVE  OnFirstTry'
<1>0. OnFirstTry /\ early[i] = "running"
  BY DEF EarlyEnds
<1>1. UNCHANGED <<at, plan, came, by, claimed, writing, row, has, card, out, resumed, accepted>>
  BY DEF EarlyEnds, trace, questions
<1>2. PICK end \in IF by[i].op = "ask" THEN {"asks", "bad"} ELSE {"ok", "bad", "again"} :
            early' = [early EXCEPT ![i] = end]
  BY DEF EarlyEnds
<1>3. CASE at \in {"stream", "collect", "check"}
  <2>1. Arriving /\ early \in [Id -> EarlyState] /\ Came' = Came
    BY <1>0, <1>1, <1>3 DEF OnFirstTry, OnceInv, Once, Shapes, Came
  <2>2. early'[i] = end /\ \A j \in Id \ {i} : early'[j] = early[j]
    BY <1>2, <2>1
  <2>3. by[i].op \in {"read", "ask"}
    BY <1>0, <2>1 DEF Arriving
  <2>4. Arriving'
    <3>1. ASSUME NEW j \in Id
          PROVE  /\ early'[j] # "none" <=> early[j] # "none"
                 /\ early'[j] = "asks" => by[j].op = "ask"
                 /\ early'[j] \in {"ok", "kept"} => by[j].op = "read"
      <4>1. CASE j = i
        BY <1>0, <1>2, <2>2, <2>3, <4>1
      <4>2. CASE j # i
        BY <2>1, <2>2, <4>2 DEF Arriving
      <4> QED  BY <4>1, <4>2
    <3> QED  BY <1>1, <2>1, <3>1 DEF Arriving
  <2>5. Collected => Collected'
    <3>1. \A j \in Id : early'[j] = "kept" <=> early[j] = "kept"
      BY <1>0, <1>2, <2>2
    <3> QED  BY <1>1, <2>1, <3>1 DEF Collected, StepsOf
  <2> QED  BY <1>0, <1>1, <1>3, <2>4, <2>5 DEF OnFirstTry, Typed, Rows, IsRow
<1>4. CASE at \notin {"stream", "collect", "check"}
  <2>1. Typed' /\ (RoundOnResults => RoundOnResults')
    BY <1>0, <1>1 DEF OnFirstTry, Typed, Rows, IsRow, RoundOnResults
  <2>2. PlanShape /\ RowsOfPlan /\ AskedOfPlan /\ GroundedButAsked =>
            PlanShape' /\ RowsOfPlan' /\ AskedOfPlan' /\ GroundedButAsked'
    BY <1>1 DEF PlanShape, RowsOfPlan, AskedOfPlan, GroundedButAsked
  <2>3. IdsOf(plan') = IdsOf(plan) /\ (DistinctIds(plan) => DistinctIds(plan'))
    BY <1>1
  <2> QED  BY <1>0, <1>1, <1>4, <2>1, <2>2, <2>3 DEF OnFirstTry
<1> QED  BY <1>3, <1>4

\* A result is there when an early run was kept; a card is a question that came.
LEMMA UnsureCollect ==
    ASSUME OnceInv, OnFirstTry, NEW i \in Id, Collect(i), FirstTry
    PROVE  OnFirstTry'
<1> DEFINE keep == StillAsked(i) /\ early[i] = "ok"
<1>0. /\ at = "collect" /\ ~resumed /\ accepted = {} /\ Typed /\ Arriving /\ Collected
      /\ plan \in Plans /\ early \in [Id -> EarlyState] /\ early[i] \in {"ok", "bad", "again", "asks"}
      /\ has \in [Id -> Steps \cup {NoStep}] /\ card \in [Id -> CardState]
  BY DEF Collect, OnFirstTry, OnceInv, Once, Shapes, Typed
<1>1. /\ early' = [early EXCEPT ![i] = IF keep THEN "kept" ELSE "gone"]
      /\ has' = IF keep THEN [has EXCEPT ![i] = by[i]] ELSE has
      /\ UNCHANGED <<at, plan, came, by, claimed, writing, row, out, resumed, accepted>>
  BY DEF Collect, trace
<1>2. card' = card \/ (early[i] = "asks" /\ card' = [card EXCEPT ![i] = "shown"])
  BY DEF Collect, Raise, questions
<1>3. /\ by[i] \in Steps /\ by[i] # NoStep /\ by[i].id = i /\ has[i] = NoStep
      /\ early[i] = "asks" => by[i].op = "ask"
      /\ early[i] = "ok" => by[i].op = "read"
  BY <1>0, CameSteps DEF Arriving, Collected
<1>4. /\ early'[i] = IF keep THEN "kept" ELSE "gone"
      /\ has'[i] = IF keep THEN by[i] ELSE NoStep
      /\ \A j \in Id \ {i} : early'[j] = early[j] /\ has'[j] = has[j] /\ card'[j] = card[j]
  BY <1>0, <1>1, <1>2, <1>3
<1> HIDE DEF keep
<1>5. has' \in [Id -> Steps \cup {NoStep}] /\ card' \in [Id -> CardState]
  BY <1>0, <1>1, <1>2, <1>3 DEF CardState
<1>6. Came' = Came
  BY <1>1 DEF Came
<1>7. ASSUME NEW j \in Id
      PROVE  /\ early'[j] # "none" <=> early[j] # "none"
             /\ early'[j] = "asks" => by[j].op = "ask"
             /\ early'[j] \in {"ok", "kept"} => by[j].op = "read"
             /\ card'[j] # "none" => early[j] # "none" /\ by[j].op = "ask"
             /\ has'[j] # NoStep <=> early'[j] = "kept"
  <2>1. CASE j = i
    <3>1. keep => early[i] = "ok"
      BY DEF keep
    <3>2. card'[i] # "none" => by[i].op = "ask"
      BY <1>0, <1>2, <1>3 DEF Arriving
    <3> QED  BY <1>0, <1>3, <1>4, <2>1, <3>1, <3>2
  <2>2. CASE j # i
    BY <1>0, <1>4, <2>2 DEF Arriving, Collected
  <2> QED  BY <2>1, <2>2
<1>8. Arriving'
  BY <1>0, <1>1, <1>6, <1>7 DEF Arriving
<1>9. Collected'
  BY <1>0, <1>1, <1>6, <1>7 DEF Collected, StepsOf
<1> QED  BY <1>0, <1>1, <1>5, <1>8, <1>9 DEF OnFirstTry, Typed, Rows, IsRow

\* What was kept has a row, and the row says so.
LEMMA UnsureRecord ==
    ASSUME OnceInv, OnFirstTry, Record, FirstTry, faults' = faults
    PROVE  OnFirstTry'
<1>0. /\ at = "collect" /\ ~resumed /\ accepted = {} /\ Typed /\ Arriving /\ Collected
      /\ writing = {} /\ plan \in Plans
  BY DEF Record, RowsGathered, OnFirstTry, OnceInv, Once, Shapes
<1>1. /\ at' = "check"
      /\ UNCHANGED <<plan, came, early, by, claimed, writing, has, card, out, resumed, accepted>>
  BY DEF Record, questions, Go
<1> DEFINE kept == {i \in Id : early[i] = "kept" /\ row[i] # NoRow}
<1>8. row' = [i \in Id |-> IF i \in kept THEN [row[i] EXCEPT !.status = "succeeded"] ELSE row[i]]
  <2>1. PICK missed \in SUBSET kept :
          /\ row' = [i \in Id |->
               IF i \in kept \ missed THEN [row[i] EXCEPT !.status = "succeeded"] ELSE row[i]]
          /\ Misses(missed)
    BY DEF Record
  <2>2. missed = {}
    BY <2>1 DEF Misses, Fault, FirstTry
  <2> QED  BY <2>1, <2>2
<1>2. \A i \in Id : row'[i] = IF early[i] = "kept" /\ row[i] # NoRow
                              THEN [step |-> row[i].step, status |-> "succeeded"] ELSE row[i]
  <2> TAKE i \in Id
  <2>1. row[i] = [step |-> row[i].step, status |-> row[i].status]
    BY <1>0 DEF Typed, Rows, IsRow
  <2>2. [row[i] EXCEPT !.status = "succeeded"] = [step |-> row[i].step, status |-> "succeeded"]
    BY <2>1
  <2> QED  BY <1>8, <2>2
<1>3. Came' = Came /\ StepsOf(plan') = StepsOf(plan)
  BY <1>1 DEF Came
<1>4. ASSUME NEW i \in Id
      PROVE  /\ IsRow(row'[i])
             /\ row'[i] # NoRow <=> row[i] # NoRow
             /\ row'[i] # NoRow => row'[i].step = row[i].step
             /\ early[i] = "kept" <=> row'[i].status = "succeeded"
  <2>1. CASE early[i] = "kept"
    <3>1. by[i] \in Came /\ by[i].id = i
      BY <1>0, <2>1 DEF Arriving
    <3>2. row[i] # NoRow
      BY <1>0, <3>1 DEF Arriving
    <3>3. row'[i] = [step |-> row[i].step, status |-> "succeeded"]
      BY <1>2, <2>1, <3>2
    <3>4. row'[i].step = row[i].step /\ row'[i].status = "succeeded" /\ row'[i] # NoRow
      BY <3>3 DEF NoRow
    <3> QED  BY <2>1, <3>2, <3>3, <3>4 DEF IsRow
  <2>2. CASE early[i] # "kept"
    <3>1. row'[i] = row[i]
      BY <1>2, <2>2
    <3>2. row[i].status # "succeeded" /\ IsRow(row[i])
      BY <1>0 DEF Arriving, Typed, Rows
    <3> QED  BY <2>2, <3>1, <3>2 DEF IsRow
  <2> QED  BY <2>1, <2>2
<1>5. Typed'
  BY <1>0, <1>1, <1>4, <1>8 DEF Typed, Rows
<1>6. Arriving'
  <2>1. claimed \subseteq Id
    BY <1>0, CameSteps DEF Arriving
  <2>2. \A i \in claimed : row'[i] # NoRow \/ \E s \in writing : s.id = i
    BY <1>0, <1>4, <2>1 DEF Arriving
  <2>3. \A i \in Id : row'[i] # NoRow => row'[i].step \in Came /\ row'[i].step.id = i
    BY <1>0, <1>4 DEF Arriving
  <2>4. UNCHANGED <<plan, came, early, by, claimed, writing, card, Came>> /\ at' = "check"
    BY <1>1, <1>3
  <2> QED  BY <1>0, <2>2, <2>3, <2>4 DEF Arriving
<1>7. Collected'
  BY <1>0, <1>1, <1>3, <1>4 DEF Collected
<1> QED  BY <1>0, <1>1, <1>5, <1>6, <1>7 DEF OnFirstTry

\* A plan has finitely many ids, and of distinct ones each is of one step.
LEMMA IdsAreFew ==
    ASSUME NEW p \in Plans
    PROVE  IsFiniteSet(IdsOf(p)) /\ (DistinctIds(p) => OneEach(StepsOf(p)))
<1> DEFINE f == [k \in 1 .. Len(p.steps) |-> p.steps[k].id]
<1>1. DOMAIN p.steps = 1 .. Len(p.steps) /\ Len(p.steps) \in Nat
  <2>1. p.steps \in Seq(Steps)
    BY DEF Plans
  <2> QED  BY <2>1
<1>2. IdsOf(p) = {f[k] : k \in 1 .. Len(p.steps)}
  BY <1>1 DEF IdsOf, StepsOf
<1>3. f \in Surjection(1 .. Len(p.steps), IdsOf(p))
  BY <1>2 DEF Surjection
<1>4. IsFiniteSet(1 .. Len(p.steps))
  BY <1>1, FS_Interval
<1>5. IsFiniteSet(IdsOf(p))
  BY <1>3, <1>4, FS_Surjection
<1>6. DistinctIds(p) => OneEach(StepsOf(p))
  BY DEF DistinctIds, OneEach, StepsOf
<1> QED  BY <1>5, <1>6

\* The plan that was let through: its rows, results and cards are of its own steps.
LEMMA UnsureAccept ==
    ASSUME OnceInv, OnFirstTry, Accept, FirstTry
    PROVE  OnFirstTry'
<1>0. /\ at = "check" /\ ~resumed /\ Typed /\ Arriving /\ Collected
      /\ writing = {} /\ plan \in Plans /\ Accepts(plan)
  BY DEF Accept, OnFirstTry, OnceInv, Once, Shapes
<1>1. at' = "sync" /\ UNCHANGED <<plan, came, early, by, claimed, writing, row, has, card, out, resumed>>
  BY DEF Accept, trace, questions, Go
<1>2. /\ IsFiniteSet(IdsOf(plan)) /\ OneEach(StepsOf(plan)) /\ StepsOf(plan) \subseteq Steps
      /\ IdsOf(plan) \subseteq Id
  BY <1>0, IdsAreFew, StepsOfPlan DEF Accepts
<1>3. PlanShape
  BY <1>0, <1>2 DEF PlanShape, Accepts, Plans
<1>4. claimed = IdsOf(plan)
  BY <1>0 DEF Arriving, Collected, IdsOf
<1>5. \A i \in Id : row[i] # NoRow <=> i \in IdsOf(plan)
  BY <1>0, <1>4 DEF Arriving, Collected, IdsOf
<1>6. \A s \in StepsOf(plan) : Like(row[s.id].step, s)
  <2> TAKE s \in StepsOf(plan)
  <2>1. s.id \in IdsOf(plan) /\ s.id \in Id
    BY <1>2 DEF IdsOf
  <2>2. row[s.id].step \in StepsOf(plan) /\ row[s.id].step.id = s.id
    BY <1>0, <1>5, <2>1 DEF Arriving, Collected
  <2>3. row[s.id].step = s
    BY <1>2, <2>2 DEF OneEach
  <2> QED  BY <1>2, <2>3 DEF Like
<1>7. RowsOfPlan
  BY <1>0, <1>5, <1>6 DEF RowsOfPlan, Collected
<1>8. AskedOfPlan
  BY <1>0 DEF AskedOfPlan, Arriving, Collected
<1>9. GroundedButAsked
  <2> SUFFICES ASSUME NEW s \in StepsOf(plan), has[s.id] # NoStep PROVE s.deps = {}
    BY DEF GroundedButAsked
  <2>1. s.id \in Id
    BY <1>2 DEF Steps
  <2>2. by[s.id] \in StepsOf(plan) /\ by[s.id].id = s.id /\ by[s.id].deps = {}
    BY <1>0, <2>1 DEF Arriving, Collected
  <2> QED  BY <1>2, <2>2 DEF OneEach
<1>10. /\ PlanShape' /\ RowsOfPlan' /\ AskedOfPlan' /\ GroundedButAsked' /\ IdsOf(plan') = IdsOf(plan)
       /\ DistinctIds(plan')
  BY <1>0, <1>1, <1>3, <1>7, <1>8, <1>9 DEF PlanShape, RowsOfPlan, AskedOfPlan, GroundedButAsked, Accepts
<1> QED  BY <1>0, <1>1, <1>4, <1>10 DEF OnFirstTry, Typed, Rows, IsRow

\* A first plan that is refused is repaired, and that is a second call.
LEMMA UnsureRefuse ==
    ASSUME MaxCalls > 1, OnFirstTry, Refuse, FirstTry
    PROVE  OnFirstTry'
<1>0. at = "check" /\ OnFirstTry
  BY DEF Refuse
<1>1. at' = "repair" /\ UNCHANGED <<plan, writing, row, has, card, out, accepted, resumed>>
  BY DEF Refuse, FirstTry, trace, questions, Go
<1> QED  BY <1>0, <1>1 DEF OnFirstTry, Typed, Rows, IsRow

\* The rows get the arguments of the plan; they were all there.
LEMMA UnsureSyncRows ==
    ASSUME OnceInv, OnFirstTry, SyncRows, FirstTry, faults' = faults
    PROVE  OnFirstTry'
<1>0. /\ at = "sync" /\ Typed /\ PlanShape /\ RowsOfPlan /\ AskedOfPlan /\ GroundedButAsked
      /\ claimed = IdsOf(plan) /\ DistinctIds(plan) /\ writing = {} /\ plan \in Plans
  BY DEF SyncRows, OnFirstTry, OnceInv, Once, Shapes
<1>1. /\ at' = "dispatch" /\ out' = Carried(has) /\ UNCHANGED <<plan, writing, has, card>>
      /\ row' = [i \in Id |-> row'[i]]
      /\ \A i \in Id : row'[i] =
            IF i \notin IdsOf(plan) THEN row[i]
            ELSE IF i \notin claimed THEN [step |-> Final(i), status |-> "pending"]
            ELSE IF row[i] = NoRow THEN NoRow
            ELSE [row[i] EXCEPT !.step.refs = Final(i).refs]
  <2>1. PICK missed \in SUBSET {i \in IdsOf(plan) : i \notin claimed \/ row[i] # NoRow} :
          /\ row' = [i \in Id |->
            IF i \notin IdsOf(plan) \ missed THEN row[i]
            ELSE IF i \notin claimed THEN [step |-> Final(i), status |-> "pending"]
            ELSE IF row[i] = NoRow THEN NoRow
            ELSE [row[i] EXCEPT !.step.refs = Final(i).refs]]
          /\ Misses(missed)
    BY DEF SyncRows
  <2>2. missed = {}
    BY <2>1 DEF Misses, Fault, FirstTry
  <2>3. IdsOf(plan) \ missed = IdsOf(plan)
    BY <2>2
  <2>4. row' = [i \in Id |-> row'[i]]
    BY <2>1
  <2> QED  BY <2>1, <2>3, <2>4 DEF SyncRows, questions, Go
<1>2. plan.steps \in Seq(Steps) /\ IdsOf(plan) \subseteq Id
  BY <1>0, StepsOfPlan DEF Plans
<1>3. ASSUME NEW s \in StepsOf(plan) PROVE Final(s.id) = s
  <2>1. PICK k \in DOMAIN plan.steps : plan.steps[k] = s
    BY DEF StepsOf
  <2>2. \A j \in k + 1 .. Len(plan.steps) : plan.steps[j].id # s.id
    BY <1>0, <1>2, <2>1 DEF DistinctIds
  <2>3. \A j \in DOMAIN plan.steps : plan.steps[j].id = s.id => j = k
    BY <1>0, <2>1 DEF DistinctIds
  <2>4. k = CHOOSE j \in DOMAIN plan.steps :
                plan.steps[j].id = s.id /\ \A m \in j + 1 .. Len(plan.steps) : plan.steps[m].id # s.id
    BY <2>1, <2>2, <2>3
  <2> QED  BY <2>1, <2>4 DEF Final
<1>4. ASSUME NEW s \in StepsOf(plan)
      PROVE  /\ Like(row'[s.id].step, s) /\ row'[s.id] # NoRow
             /\ row'[s.id] = [step |-> row'[s.id].step, status |-> row[s.id].status]
  <2> DEFINE old == row[s.id]
             new == [old.step EXCEPT !.refs = s.refs]
  <2>1. s.id \in IdsOf(plan) /\ s.id \in Id /\ s \in Steps
    BY <1>0, <1>2 DEF IdsOf, PlanShape
  <2>2. old # NoRow /\ Like(old.step, s) /\ old = [step |-> old.step, status |-> old.status]
    BY <1>0, <2>1 DEF RowsOfPlan, Typed, Rows, IsRow
  <2>3. row'[s.id] = [old EXCEPT !.step.refs = s.refs]
    BY <1>0, <1>1, <1>3, <2>1, <2>2
  <2>4. [old EXCEPT !.step.refs = s.refs] = [step |-> new, status |-> old.status]
    BY <2>2
  <2>5. new \in Steps /\ new.id = s.id /\ new.op = s.op /\ new.deps = s.deps
    <3>1. old.step \in Steps /\ s.refs \in SUBSET Id
      BY <2>1, <2>2 DEF Like, Steps
    <3>2. new \in Steps
      BY <3>1 DEF Steps
    <3>3. new.id = old.step.id /\ new.op = old.step.op /\ new.deps = old.step.deps
      BY <3>1 DEF Steps
    <3> QED  BY <2>2, <3>2, <3>3 DEF Like
  <2> HIDE DEF new
  <2>6. row'[s.id] = [step |-> new, status |-> old.status]
    BY <2>3, <2>4
  <2>7. new # NoStep
    BY <2>5, PlanTurnAssumption
  <2> QED  BY <2>1, <2>5, <2>6, <2>7 DEF Like, NoRow
<1>5. ASSUME NEW i \in Id
      PROVE  /\ IsRow(row'[i]) /\ row'[i].status = row[i].status
             /\ row'[i] # NoRow <=> i \in IdsOf(plan)
  <2>1. CASE i \in IdsOf(plan)
    <3>1. PICK s \in StepsOf(plan) : s.id = i
      BY <2>1 DEF IdsOf
    <3>2. row'[i] # NoRow /\ row'[i] = [step |-> row'[i].step, status |-> row[i].status]
      BY <1>4, <3>1
    <3>3. row'[i].status = row[i].status
      BY <3>2
    <3> QED  BY <2>1, <3>2, <3>3 DEF IsRow
  <2>2. CASE i \notin IdsOf(plan)
    <3>1. row'[i] = row[i]
      BY <1>1, <2>2
    <3> QED  BY <1>0, <2>2, <3>1 DEF RowsOfPlan, Typed, Rows
  <2> QED  BY <2>1, <2>2
<1>6. /\ Carried(has) \in [Id -> Outcome]
      /\ \A i \in Id : Carried(has)[i] = "ok" <=> has[i] # NoStep
      /\ \A i \in Id : Carried(has)[i] # "on"
  BY <1>0, CarriedIsResults DEF Typed
<1>7. Typed'
  BY <1>0, <1>1, <1>5, <1>6 DEF Typed, Rows
<1>8. RowsOfPlan'
  BY <1>0, <1>1, <1>4, <1>5 DEF RowsOfPlan
<1>9. RoundOnResults'
  <2>1. \A s \in StepsOf(plan) : s.id \in Id
    BY <1>2 DEF IdsOf
  <2> QED  BY <1>1, <1>6, <2>1 DEF RoundOnResults
<1>10. PlanShape' /\ AskedOfPlan' /\ GroundedButAsked'
  BY <1>0, <1>1 DEF PlanShape, AskedOfPlan, GroundedButAsked
<1> QED  BY <1>0, <1>1, <1>7, <1>8, <1>9, <1>10 DEF OnFirstTry

\* A step of a round gets its result with all its edges done, and its row tells.
LEMMA UnsureRoundStep ==
    ASSUME OnFirstTry, NEW s \in StepsOf(plan), RoundStep(s), FirstTry, faults' = faults
    PROVE  OnFirstTry'
<1>1. /\ at = "dispatch" /\ out[s.id] \in {"none", "on"}
      /\ UNCHANGED <<at, plan, came, early, by, claimed, writing, accepted, resumed>>
  BY DEF RoundStep, Start, Succeed, Break, Unbound, Ask, Skip, Park, Clear, Ready, Running, Stepping
<1>2. /\ Typed /\ PlanShape /\ RowsOfPlan /\ AskedOfPlan /\ GroundedButAsked /\ RoundOnResults
      /\ writing = {} /\ has \in [Id -> Steps \cup {NoStep}] /\ out \in [Id -> Outcome]
      /\ card \in [Id -> CardState] /\ Rows
  BY <1>1 DEF OnFirstTry, Typed
<1>3. \A t \in StepsOf(plan) : t \in Steps /\ t.id \in Id /\ t.deps \subseteq Id /\ Waits(t) = t.deps
  BY <1>2 DEF PlanShape, EdgesInside, Waits, Steps
<1>4. \A t \in StepsOf(plan) : t.id = s.id => t = s
  BY <1>2 DEF PlanShape, OneEach
<1>5. /\ s \in Steps /\ s.id \in Id /\ s # NoStep /\ row[s.id] # NoRow /\ row[s.id].step \in Steps
      /\ has[s.id] = NoStep /\ row[s.id].status # "succeeded"
  <2>1. s \in Steps /\ s.id \in Id /\ s.id \in IdsOf(plan) /\ Like(row[s.id].step, s)
    BY <1>2, <1>3 DEF RowsOfPlan, IdsOf
  <2>2. has[s.id] = NoStep
    BY <1>1, <1>2, <2>1 DEF RoundOnResults
  <2> QED  BY <1>2, <2>1, <2>2, PlanTurnAssumption DEF RowsOfPlan, Like
<1>6. ASSUME NEW t, Says(s.id, t)
      PROVE  /\ Rows' /\ \A j \in Id \ {s.id} : row'[j] = row[j]
             /\ row'[s.id].step = row[s.id].step /\ row'[s.id].status = t /\ row'[s.id] # NoRow
  <2>0. row' = Said(s.id, t)
    BY <1>5, <1>6 DEF Says, Fault, FirstTry
  <2>1. /\ row' = [j \in Id |-> row'[j]] /\ \A j \in Id : IsRow(row'[j])
        /\ \A j \in Id \ {s.id} : row'[j] = row[j]
        /\ row'[s.id] = [step |-> row[s.id].step, status |-> t]
    BY <1>2, <1>5, <2>0, SaidOne
  <2>2. row'[s.id] = [step |-> row[s.id].step, status |-> t]
    BY <2>1
  <2>3. row'[s.id].step = row[s.id].step /\ row'[s.id].status = t
    BY <2>2
  <2>4. row'[s.id] # NoRow
    BY <1>5, <2>3, PlanTurnAssumption DEF NoRow
  <2> QED  BY <2>1, <2>3, <2>4 DEF Rows
<1>7. /\ Rows' /\ \A j \in Id \ {s.id} : row'[j] = row[j]
      /\ row'[s.id].step = row[s.id].step /\ row'[s.id] # NoRow
      /\ row'[s.id].status = "succeeded" <=> Succeed(s)
  <2>1. CASE Succeed(s)
    BY <1>6, <2>1 DEF Succeed
  <2>2. CASE ~Succeed(s) /\ row' = row
    BY <1>2, <1>5, <2>2 DEF Rows, IsRow
  <2>3. CASE ~Succeed(s) /\ row' # row
    <3>1. PICK t \in {"running", "failed", "skipped"} : Says(s.id, t)
      BY <2>3 DEF RoundStep, Start, Break, Unbound, Ask, Skip, Park
    <3> QED  BY <1>6, <2>3, <3>1
  <2> QED  BY <2>1, <2>2, <2>3
<1>8. card' \in [Id -> CardState] /\ \A i \in Id : card'[i] # "none" => card[i] # "none" \/ (i = s.id /\ s.op = "ask")
  BY <1>2, <1>5 DEF RoundStep, Start, Succeed, Break, Unbound, Ask, Skip, Park, Raise, questions, CardState
<1>9. AskedOfPlan'
  BY <1>1, <1>2, <1>8 DEF AskedOfPlan
<1>10. PlanShape'
  BY <1>1, <1>2 DEF PlanShape
<1>11. /\ \A i \in Id : row'[i] # NoRow <=> row[i] # NoRow
       /\ \A t \in StepsOf(plan) : Like(row'[t.id].step, t)
  <2>1. ASSUME NEW i \in Id
        PROVE  (row'[i] # NoRow <=> row[i] # NoRow) /\ row'[i].step = row[i].step
    <3>1. CASE i = s.id
      BY <1>5, <1>7, <3>1
    <3>2. CASE i # s.id
      BY <1>7, <3>2
    <3> QED  BY <3>1, <3>2
  <2> QED  BY <1>2, <1>3, <2>1 DEF RowsOfPlan
<1>12. CASE Succeed(s)
  <2>1. out[s.id] = "on" /\ out' = [out EXCEPT ![s.id] = "ok"] /\ has' = [has EXCEPT ![s.id] = s]
    BY <1>12 DEF Succeed, Running
  <2>2. has'[s.id] = s /\ out'[s.id] = "ok" /\ \A i \in Id \ {s.id} : has'[i] = has[i] /\ out'[i] = out[i]
    BY <1>2, <1>5, <2>1
  <2>3. \A d \in s.deps : has[d] # NoStep
    BY <1>1, <1>2, <1>3, <2>1 DEF RoundOnResults
  <2>4. \A i \in Id : (out'[i] = "ok" <=> out[i] = "ok" \/ i = s.id) /\ (out'[i] = "on" => out[i] = "on")
    BY <2>2
  <2>5. \A i \in Id : has'[i] # NoStep <=> has[i] # NoStep \/ i = s.id
    BY <1>5, <2>2
  <2>6. RoundOnResults'
    BY <1>1, <1>2, <1>3, <2>4, <2>5 DEF RoundOnResults
  <2>7. GroundedButAsked'
    <3> SUFFICES ASSUME NEW t \in StepsOf(plan), t.op # "ask", has'[t.id] # NoStep, NEW d \in t.deps
                 PROVE  has'[d] # NoStep
      BY <1>1 DEF GroundedButAsked
    <3>1. has[d] # NoStep
      <4>1. CASE t.id = s.id
        BY <1>4, <2>3, <4>1
      <4>2. CASE t.id # s.id
        BY <1>2, <1>3, <2>5, <4>2 DEF GroundedButAsked
      <4> QED  BY <4>1, <4>2
    <3> QED  BY <1>3, <2>5, <3>1
  <2>8. \A i \in Id : has'[i] # NoStep <=> row'[i].status = "succeeded"
    <3> TAKE i \in Id
    <3>1. CASE i = s.id
      BY <1>7, <1>12, <2>5, <3>1
    <3>2. CASE i # s.id
      BY <1>2, <1>7, <2>5, <3>2 DEF RowsOfPlan
    <3> QED  BY <3>1, <3>2
  <2>9. RowsOfPlan'
    BY <1>1, <1>2, <1>11, <2>8 DEF RowsOfPlan
  <2>10. Typed'
    BY <1>2, <1>5, <1>7, <1>8, <2>1 DEF Typed, Outcome
  <2> QED  BY <1>1, <1>2, <1>9, <1>10, <2>6, <2>7, <2>9, <2>10 DEF OnFirstTry
<1>13. CASE ~Succeed(s)
  <2>1. has' = has
    BY <1>13 DEF RoundStep, Start, Break, Unbound, Ask, Skip, Park
  <2>2. \E o \in Outcome \ {"ok"} : out' = [out EXCEPT ![s.id] = o] /\ (o = "on" => Start(s))
    BY <1>13 DEF RoundStep, Start, Break, Unbound, Ask, Skip, Park, Outcome
  <2>3. PICK o \in Outcome \ {"ok"} : out' = [out EXCEPT ![s.id] = o] /\ (o = "on" => Start(s))
    BY <2>2
  <2>4. out'[s.id] = o /\ \A i \in Id \ {s.id} : out'[i] = out[i]
    BY <1>2, <1>5, <2>3
  <2>5. \A i \in Id : out'[i] = "ok" <=> out[i] = "ok"
    BY <1>1, <2>3, <2>4
  <2>6. ASSUME NEW t \in StepsOf(plan), out'[t.id] = "on", NEW d \in t.deps
        PROVE  out'[d] = "ok"
    <3>1. CASE t.id = s.id
      <4>1. t = s /\ Start(s)
        BY <1>4, <2>3, <2>4, <2>6, <3>1
      <4>2. out[d] = "ok"
        BY <1>3, <2>6, <4>1 DEF Start, Clear
      <4> QED  BY <1>3, <2>5, <4>2
    <3>2. CASE t.id # s.id
      <4>1. out[t.id] = "on"
        BY <1>3, <2>4, <2>6, <3>2
      <4> QED  BY <1>1, <1>2, <1>3, <2>5, <4>1 DEF RoundOnResults
    <3> QED  BY <3>1, <3>2
  <2>7. RoundOnResults'
    BY <1>1, <1>2, <2>1, <2>5, <2>6 DEF RoundOnResults
  <2>8. \A i \in Id : has'[i] # NoStep <=> row'[i].status = "succeeded"
    <3> TAKE i \in Id
    <3>1. CASE i = s.id
      BY <1>5, <1>7, <1>13, <2>1, <3>1
    <3>2. CASE i # s.id
      BY <1>2, <1>7, <2>1, <3>2 DEF RowsOfPlan
    <3> QED  BY <3>1, <3>2
  <2>9. RowsOfPlan'
    BY <1>1, <1>2, <1>11, <2>8 DEF RowsOfPlan
  <2>10. Typed' /\ GroundedButAsked'
    BY <1>1, <1>2, <1>5, <1>7, <1>8, <2>1, <2>3 DEF Typed, GroundedButAsked
  <2> QED  BY <1>1, <1>2, <1>9, <1>10, <2>7, <2>9, <2>10 DEF OnFirstTry
<1> QED  BY <1>12, <1>13

\* The round is over: what was shown waits for its answer.
LEMMA UnsureFinish ==
    ASSUME OnFirstTry, Finish, FirstTry
    PROVE  OnFirstTry'
<1>0. at = "dispatch" /\ OnFirstTry /\ card \in [Id -> CardState]
  BY DEF Finish, RoundOver, OnFirstTry, Typed
<1>1. /\ at' = "over" /\ card' = [i \in Id |-> IF card[i] = "shown" THEN "pending" ELSE card[i]]
      /\ UNCHANGED <<plan, writing, row, has, out, accepted, resumed>>
  BY DEF Finish, trace, Go
<1>2. card' \in [Id -> CardState] /\ \A i \in Id : card'[i] # "none" <=> card[i] # "none"
  BY <1>0, <1>1 DEF CardState
<1>3. Typed'
  BY <1>0, <1>1, <1>2 DEF OnFirstTry, Typed, Rows, IsRow
<1>4. PlanShape' /\ RowsOfPlan' /\ AskedOfPlan' /\ GroundedButAsked'
  BY <1>0, <1>1, <1>2 DEF OnFirstTry, PlanShape, RowsOfPlan, AskedOfPlan, GroundedButAsked
<1> QED  BY <1>0, <1>1, <1>3, <1>4 DEF OnFirstTry

\* The answer is taken for a row of a question, be it another one.
LEMMA PlacedIsAQuestion ==
    ASSUME RowsOfPlan, AskedOfPlan, PlanShape, NEW i \in Id, card[i] # "none"
    PROVE  \A n \in Placed(i) : n \in Id /\ row[n] # NoRow /\ row[n].step.op = "ask"
<1> TAKE n \in Placed(i)
<1>1. n \in Id /\ ((n = i /\ row[n] # NoRow) \/ (row[n].step # NoStep /\ row[n].step.op = "ask"))
  BY DEF Placed
<1>2. CASE n = i /\ row[n] # NoRow
  <2>1. PICK s \in StepsOf(plan) : s.id = i /\ s.op = "ask"
    BY DEF AskedOfPlan
  <2>2. row[i].step.op = "ask"
    BY <2>1 DEF RowsOfPlan, Like
  <2> QED  BY <1>2, <2>2
<1>3. CASE row[n].step # NoStep /\ row[n].step.op = "ask"
  BY <1>1, <1>3 DEF NoRow
<1> QED  BY <1>1, <1>2, <1>3

\* The plan of a resume has the shape of the one in hand, and its rows.
LEMMA UnsureResume ==
    ASSUME OnFirstTry, NEW i \in Id, Resume(i), FirstTry, faults' = faults
    PROVE  OnFirstTry'
<1> DEFINE put == Placed(i)
           there == {n \in Id : row[n] # NoRow}
           held == [n \in Id |-> IF row[n].status = "succeeded" \/ n \in put THEN row[n].step ELSE NoStep]
           ungated(n) == [row[n].step EXCEPT !.gate = FALSE]
<1>0. /\ at = "over" /\ card[i] = "pending" /\ writing = {}
      /\ Rows /\ card \in [Id -> CardState]
      /\ PlanShape /\ RowsOfPlan /\ AskedOfPlan /\ GroundedButAsked
  BY DEF Resume, OnFirstTry, Typed
<1>1. /\ at' = "dispatch" /\ has' = held /\ out' = Carried(held)
      /\ row' = [n \in Id |-> IF n \in put THEN [row[n] EXCEPT !.status = "succeeded"] ELSE row[n]]
      /\ card' = [card EXCEPT ![i] = "answered"] /\ UNCHANGED writing
  <2>1. PICK missed \in SUBSET put :
          /\ row' = [n \in Id |->
                IF n \in put \ missed THEN [row[n] EXCEPT !.status = "succeeded"] ELSE row[n]]
          /\ Misses(missed)
    BY DEF Resume
  <2>2. missed = {}
    BY <2>1 DEF Misses, Fault, FirstTry
  <2>3. row' = [n \in Id |-> IF n \in put THEN [row[n] EXCEPT !.status = "succeeded"] ELSE row[n]]
    BY <2>1, <2>2
  <2> QED  BY <2>3 DEF Resume, Go
<1>2. PICK order \in [1 .. Cardinality(there) -> there] :
            /\ \A j, k \in DOMAIN order : j < k => order[j] < order[k]
            /\ plan' = [plan EXCEPT !.steps = [k \in DOMAIN order |-> ungated(order[k])]]
  BY DEF Resume
<1>3. there = IdsOf(plan) /\ IsFiniteSet(there) /\ there \subseteq Nat
  <2>1. IdsOf(plan) \subseteq Id
    BY <1>0 DEF PlanShape, IdsOf, Steps
  <2> QED  BY <1>0, <2>1, PlanTurnAssumption DEF RowsOfPlan, PlanShape
<1>4. \A n \in put : n \in there /\ row[n].step.op = "ask"
  BY <1>0, PlacedIsAQuestion
<1>5. ASSUME NEW n \in there
      PROVE  \E s \in StepsOf(plan) : s.id = n /\ Like(row[n].step, s) /\ Like(ungated(n), s)
  <2>1. PICK s \in StepsOf(plan) : s.id = n
    BY <1>3 DEF IdsOf
  <2>2. Like(row[n].step, s)
    BY <1>0, <2>1 DEF RowsOfPlan
  <2>3. ungated(n) \in Steps
    BY <2>2 DEF Like, Steps
  <2>4. ungated(n).id = row[n].step.id /\ ungated(n).op = row[n].step.op /\ ungated(n).deps = row[n].step.deps
    BY <2>2 DEF Like, Steps
  <2> QED  BY <2>1, <2>2, <2>3, <2>4 DEF Like
<1>6. \A n \in there : row[n].step \in Steps /\ row[n].step # NoStep /\ ungated(n).id = n /\ ungated(n) \in Steps
  BY <1>5, PlanTurnAssumption DEF Like
<1> HIDE DEF put, held, ungated
<1>7. plan'.steps = [k \in DOMAIN order |-> ungated(order[k])] /\ plan'.sure = plan.sure /\ DOMAIN plan' = DOMAIN plan
  BY <1>0, <1>2 DEF PlanShape
<1>8. StepsOf(plan') = {ungated(n) : n \in there}
  <2>1. \A n \in there : \E k \in DOMAIN order : order[k] = n
    BY <1>2, <1>3, InOrderIsAll
  <2>2. StepsOf(plan') = {ungated(order[k]) : k \in DOMAIN order}
    BY <1>7 DEF StepsOf
  <2> QED  BY <2>1, <2>2
<1>9. IdsOf(plan') = IdsOf(plan)
  BY <1>3, <1>6, <1>8 DEF IdsOf
<1>10. /\ StepsOf(plan') \subseteq Steps /\ OneEach(StepsOf(plan'))
       /\ \A t \in StepsOf(plan') : \E s \in StepsOf(plan) : Like(t, s)
       /\ \A s \in StepsOf(plan) : \E t \in StepsOf(plan') : Like(t, s)
  <2>1. StepsOf(plan') \subseteq Steps
    BY <1>6, <1>8
  <2>2. OneEach(StepsOf(plan'))
    BY <1>6, <1>8 DEF OneEach
  <2>3. \A t \in StepsOf(plan') : \E s \in StepsOf(plan) : Like(t, s)
    BY <1>5, <1>8
  <2>4. ASSUME NEW s \in StepsOf(plan) PROVE \E t \in StepsOf(plan') : Like(t, s)
    <3>1. s.id \in there
      BY <1>3 DEF IdsOf
    <3>2. PICK u \in StepsOf(plan) : u.id = s.id /\ Like(ungated(s.id), u)
      BY <1>5, <3>1
    <3>3. u = s
      BY <1>0, <3>2 DEF PlanShape, OneEach
    <3> QED  BY <1>8, <3>1, <3>2, <3>3
  <2> QED  BY <2>1, <2>2, <2>3, <2>4
<1>11. PlanShape'
  <2>1. EdgesInside(plan')
    BY <1>0, <1>9, <1>10 DEF PlanShape, EdgesInside, Like
  <2>2. FloorHeld(plan')
    BY <1>0, <1>7, <1>10, FloorOfLike DEF PlanShape
  <2> QED  BY <1>0, <1>7, <1>9, <1>10, <2>1, <2>2 DEF PlanShape
<1>12. ASSUME NEW n \in Id
       PROVE  /\ IsRow(row'[n]) /\ (row'[n] # NoRow <=> row[n] # NoRow)
              /\ row'[n].step = row[n].step
              /\ row'[n].status = IF n \in put THEN "succeeded" ELSE row[n].status
  <2>1. IsRow(row[n])
    BY <1>0 DEF Rows
  <2>2. CASE n \in put
    <3>1. [row[n] EXCEPT !.status = "succeeded"] = [step |-> row[n].step, status |-> "succeeded"]
      BY <2>1 DEF IsRow
    <3>2. row'[n] = [step |-> row[n].step, status |-> "succeeded"]
      BY <1>1, <2>2, <3>1
    <3>3. row'[n].step = row[n].step /\ row'[n].status = "succeeded"
      BY <3>2
    <3>4. row'[n] # NoRow /\ row[n] # NoRow
      BY <1>4, <2>2, <3>3 DEF NoRow
    <3> QED  BY <2>2, <3>2, <3>3, <3>4 DEF IsRow
  <2>3. CASE n \notin put
    <3>1. row'[n] = row[n]
      BY <1>1, <2>3
    <3> QED  BY <2>1, <2>3, <3>1
  <2> QED  BY <2>2, <2>3
<1>13. ASSUME NEW n \in Id
       PROVE  held[n] \in Steps \cup {NoStep} /\ (held[n] # NoStep <=> row[n].status = "succeeded" \/ n \in put)
  <2>1. held[n] = IF row[n].status = "succeeded" \/ n \in put THEN row[n].step ELSE NoStep
    BY DEF held
  <2>2. row[n].status = "succeeded" => row[n] # NoRow
    BY DEF NoRow
  <2>3. row[n].status = "succeeded" \/ n \in put => n \in there
    BY <1>4, <2>2
  <2> QED  BY <1>6, <2>1, <2>3
<1>14. held \in [Id -> Steps \cup {NoStep}]
  BY <1>13 DEF held
<1>15. /\ Carried(held) \in [Id -> Outcome]
       /\ \A n \in Id : Carried(held)[n] = "ok" <=> held[n] # NoStep
       /\ \A n \in Id : Carried(held)[n] # "on"
  BY <1>14, CarriedIsResults
<1>16. Typed'
  <2>1. card' \in [Id -> CardState]
    BY <1>0, <1>1 DEF CardState
  <2>2. Rows'
    BY <1>1, <1>12 DEF Rows
  <2> QED  BY <1>1, <1>14, <1>15, <2>1, <2>2 DEF Typed
<1>17. RowsOfPlan'
  <2>1. \A n \in Id : row'[n] # NoRow <=> n \in IdsOf(plan')
    BY <1>0, <1>9, <1>12 DEF RowsOfPlan
  <2>2. ASSUME NEW t \in StepsOf(plan') PROVE Like(row'[t.id].step, t)
    <3>1. PICK n \in there : t = ungated(n)
      BY <1>8
    <3>2. t.id = n /\ row'[n].step = row[n].step
      BY <1>6, <1>12, <3>1
    <3>3. PICK s \in StepsOf(plan) : Like(row[n].step, s) /\ Like(t, s)
      BY <1>5, <3>1
    <3> QED  BY <3>2, <3>3 DEF Like
  <2>3. \A n \in Id : has'[n] # NoStep <=> row'[n].status = "succeeded"
    BY <1>1, <1>12, <1>13
  <2> QED  BY <2>1, <2>2, <2>3 DEF RowsOfPlan
<1>18. AskedOfPlan'
  <2> SUFFICES ASSUME NEW n \in Id, card'[n] # "none"
               PROVE  \E t \in StepsOf(plan') : t.id = n /\ t.op = "ask"
    BY DEF AskedOfPlan
  <2>1. card[n] # "none"
    BY <1>0, <1>1
  <2>2. PICK s \in StepsOf(plan) : s.id = n /\ s.op = "ask"
    BY <1>0, <2>1 DEF AskedOfPlan
  <2> QED  BY <1>10, <2>2 DEF Like
<1>19. GroundedButAsked'
  <2> SUFFICES ASSUME NEW t \in StepsOf(plan'), t.op # "ask", has'[t.id] # NoStep, NEW d \in t.deps
               PROVE  has'[d] # NoStep
    BY DEF GroundedButAsked
  <2>1. PICK n \in there : t = ungated(n)
    BY <1>8
  <2>2. PICK s \in StepsOf(plan) : s.id = n /\ Like(row[n].step, s) /\ Like(t, s)
    BY <1>5, <2>1
  <2>3. t.id = n /\ n \notin put
    BY <1>4, <1>6, <2>1, <2>2 DEF Like
  <2>4. row[n].status = "succeeded"
    BY <1>1, <1>13, <2>3
  <2>5. has[s.id] # NoStep /\ s.op # "ask" /\ d \in s.deps /\ d \in Id
    BY <1>0, <2>2, <2>4 DEF RowsOfPlan, Like, Steps
  <2>6. has[d] # NoStep
    BY <1>0, <2>5 DEF GroundedButAsked
  <2> QED  BY <1>0, <1>1, <1>13, <2>5, <2>6 DEF RowsOfPlan
<1>20. RoundOnResults'
  <2>1. \A t \in StepsOf(plan') : t.id \in Id
    BY <1>10 DEF Steps
  <2> QED  BY <1>1, <1>15, <2>1 DEF RoundOnResults
<1> QED  BY <1>0, <1>1, <1>11, <1>16, <1>17, <1>18, <1>19, <1>20 DEF OnFirstTry

LEMMA UnsureStep ==
    ASSUME MaxCalls > 1, OnceInv, DiedInv, UnsureInv, [Next]_vars
    PROVE  UnsureInv'
<1>0. faults \in Nat /\ calls \in Nat \ {0}
  BY DEF UnsureInv, DiedInv
<1>1. (faults' = faults \/ faults' = faults + 1) /\ (calls' = calls \/ calls' = calls + 1)
  <2>1. CASE UNCHANGED vars
    BY <2>1 DEF vars
  <2>2. CASE Arrive \/ StreamEnds \/ Abandon \/ Record \/ Accept \/ Refuse \/ Repair \/ RepairFails
    BY <2>2 DEF Arrive, StreamEnds, Abandon, Record, Accept, Refuse, Repair, RepairFails, Misses, Fault
  <2>3. CASE Degrade \/ SyncRows \/ Replan \/ Finish \/ PlannerDies
    BY <2>3 DEF Degrade, SyncRows, Replan, Finish, PlannerDies, Misses, Fault
  <2>4. CASE \E i \in Id : EarlyEnds(i) \/ Collect(i) \/ Resume(i)
    BY <2>4 DEF EarlyEnds, Collect, Resume, Misses, Fault
  <2>5. CASE \E s \in writing : WriteRow(s) \/ RowRefused(s)
    BY <2>5 DEF WriteRow, RowRefused, Fault
  <2>6. CASE \E s \in StepsOf(plan) : RoundStep(s)
    BY <2>6 DEF RoundStep, Start, Succeed, Break, Unbound, Ask, Skip, Park, Stepping, Says, Fault
  <2> QED  BY <2>1, <2>2, <2>3, <2>4, <2>5, <2>6 DEF Next, Proceed
<1>19. faults' \in Nat
  BY <1>0, <1>1
<1> SUFFICES ASSUME FirstTry' PROVE OnFirstTry' \/ Broken'
  BY <1>19 DEF UnsureInv
<1>20. FirstTry /\ (OnFirstTry \/ Broken) /\ calls' = calls /\ faults' = faults
  <2>1. calls' = 1 /\ faults' = 0
    BY DEF FirstTry
  <2>2. calls = 1 /\ faults = 0
    BY <1>0, <1>1, <2>1
  <2> QED  BY <2>1, <2>2 DEF FirstTry, UnsureInv
<1>21. CASE Broken
  <2>1. UNCHANGED <<at, accepted>> => Broken'
    BY <1>21 DEF Broken
  <2>2. \A i \in Id : at = "over" => card[i] = "none"
    BY <1>20, <1>21 DEF Broken, DiedInv, PlannerDied, FirstTry
  <2>3. CASE UNCHANGED vars
    BY <2>1, <2>3 DEF vars
  <2>4. CASE Abandon \/ Degrade
    BY <1>21, <2>4 DEF Abandon, Degrade, Broken, Go
  <2>5. CASE (\E i \in Id : EarlyEnds(i)) \/ \E s \in writing : WriteRow(s) \/ RowRefused(s)
    BY <2>1, <2>5 DEF EarlyEnds, WriteRow, RowRefused
  <2>6. CASE \E i \in Id : Collect(i) \/ Resume(i)
    BY <1>21, <2>2, <2>6 DEF Broken, Collect, Resume
  <2>7. CASE \/ Arrive \/ StreamEnds \/ PlannerDies \/ Record \/ Accept \/ Refuse \/ Repair \/ RepairFails
             \/ SyncRows \/ Replan \/ Finish
    BY <1>21, <2>7 DEF Broken, Arrive, StreamEnds, PlannerDies, Record, Accept, Refuse, Repair,
       RepairFails, SyncRows, Replan, Finish, RoundOver
  <2>8. CASE \E s \in StepsOf(plan) : RoundStep(s)
    BY <1>21, <2>8 DEF Broken, RoundStep, Start, Succeed, Break, Unbound, Ask, Skip, Park, Clear, Ready, Running
  <2> QED  BY <2>3, <2>4, <2>5, <2>6, <2>7, <2>8 DEF Next, Proceed
<1> SUFFICES ASSUME ~Broken PROVE OnFirstTry' \/ Broken'
  BY <1>21
<1>2. FirstTry /\ OnFirstTry /\ calls' = calls /\ faults' = faults
  BY <1>20
<1>3. CASE UNCHANGED vars
  <2>1. UNCHANGED <<at, plan, came, early, by, claimed, writing, row, has, card, out, accepted, resumed>>
    BY <1>3 DEF vars, trace, questions
  <2>2. Came' = Came /\ IdsOf(plan') = IdsOf(plan) /\ (DistinctIds(plan) => DistinctIds(plan'))
    BY <2>1 DEF Came
  <2>3. Typed' /\ (RoundOnResults => RoundOnResults')
    BY <1>2, <2>1 DEF OnFirstTry, Typed, Rows, IsRow, RoundOnResults
  <2>4. (Arriving => Arriving') /\ (Collected => Collected')
    BY <2>1, <2>2 DEF Arriving, Collected
  <2>5. PlanShape /\ RowsOfPlan /\ AskedOfPlan /\ GroundedButAsked =>
            PlanShape' /\ RowsOfPlan' /\ AskedOfPlan' /\ GroundedButAsked'
    BY <2>1 DEF PlanShape, RowsOfPlan, AskedOfPlan, GroundedButAsked
  <2> QED  BY <1>2, <2>1, <2>2, <2>3, <2>4, <2>5 DEF OnFirstTry
<1>4. CASE Arrive
  BY <1>2, <1>4, UnsureArrive
<1>5. CASE StreamEnds
  BY <1>2, <1>5, UnsureStreamEnds
<1>6. CASE Record
  BY <1>2, <1>6, UnsureRecord
<1>7. CASE Accept
  BY <1>2, <1>7, UnsureAccept
<1>8. CASE Refuse
  BY <1>2, <1>8, UnsureRefuse
<1>9. CASE SyncRows
  BY <1>2, <1>9, UnsureSyncRows
<1>10. CASE Finish
  BY <1>2, <1>10, UnsureFinish
<1>11. CASE \E i \in Id : EarlyEnds(i)
  BY <1>2, <1>11, UnsureEarlyEnds
<1>12. CASE \E i \in Id : Collect(i)
  BY <1>2, <1>12, UnsureCollect
<1>13. CASE \E i \in Id : Resume(i)
  BY <1>2, <1>13, UnsureResume
<1>14. CASE \E s \in writing : WriteRow(s)
  BY <1>2, <1>14, UnsureWriteRow
<1>15. CASE \E s \in StepsOf(plan) : RoundStep(s)
  BY <1>2, <1>15, UnsureRoundStep
<1>16. CASE Abandon \/ Degrade
  BY <1>2, <1>16 DEF Abandon, Degrade, OnFirstTry
<1>17. CASE Repair \/ RepairFails \/ Replan
  <2>1. calls' = calls + 1
    BY <1>17 DEF Repair, RepairFails, Replan
  <2> QED  BY <1>0, <1>2, <2>1
<1>18. CASE \E s \in writing : RowRefused(s)
  <2>1. faults' = faults + 1
    BY <1>18 DEF RowRefused, Fault
  <2> QED  BY <1>0, <1>2, <2>1
<1>22. CASE PlannerDies
  BY <1>2, <1>22 DEF PlannerDies, OnFirstTry, Broken, Go
<1> QED
  BY <1>3, <1>4, <1>5, <1>6, <1>7, <1>8, <1>9, <1>10, <1>11, <1>12, <1>13, <1>14, <1>15, <1>16, <1>17, <1>18, <1>22
  DEF Next, Proceed

LEMMA UnsureInit == Init => UnsureInv
<1> SUFFICES ASSUME Init PROVE faults \in Nat /\ OnFirstTry
  BY DEF UnsureInv
<1>1. Typed
  BY DEF Init, Typed, Rows, IsRow, None, NoRow, CardState, Outcome
<1>2. Arriving
  <2>1. 1 .. came = {}
    BY DEF Init
  <2> QED  BY <2>1 DEF Init, Arriving, Came, None, NoRow
<1> QED  BY <1>1, <1>2 DEF Init, OnFirstTry

\* A write below the floor, in a plan accepted as it came, is staged only behind a
\* question that was answered: by the shape the validator let through, which the rows and
\* the plan a resume makes of them keep, though the answer be taken for another question.
THEOREM PlanTurnUnsureWriteIsAnswered == MaxCalls > 1 => (Spec => []UnsureWriteIsAnswered)
<1> SUFFICES ASSUME MaxCalls > 1 PROVE Spec => []UnsureWriteIsAnswered
  OBVIOUS
<1>1. Init => DiedInv /\ UnsureInv
  BY UnsureInit DEF Init, DiedInv, PlannerDied, None
<1>2. OnceInv /\ DiedInv /\ UnsureInv /\ [Next]_vars => DiedInv' /\ UnsureInv'
  BY DiedStep, UnsureStep
<1>3. UnsureInv => UnsureWriteIsAnswered
  <2> SUFFICES ASSUME UnsureInv, accepted # {}, calls = 1, faults = 0, ~plan.sure,
                      NEW w \in Writes(plan), has[w.id] # NoStep
               PROVE  \E q \in Questions(plan) :
                          q.id \in Upstream(w.id, EdgesOf(plan)) /\ has[q.id] # NoStep
    BY DEF UnsureWriteIsAnswered
  <2>1. PlanShape /\ GroundedButAsked
    BY DEF UnsureInv, FirstTry, OnFirstTry, Broken
  <2> QED  BY <2>1, AskedInFront
<1> QED
  BY <1>1, <1>2, <1>3, OnceAlways, PTL DEF Spec
============================================================================
