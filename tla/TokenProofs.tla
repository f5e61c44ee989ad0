---------------------------- MODULE TokenProofs -----------------------------
(***************************************************************************)
(* For any number of callers and sweeps: an outage costs nobody the        *)
(* connection, a refresh that brings no new refresh token does not bring a *)
(* deleted one back, and callers give up.  The last needs the count of those that may still add to the        *)
(* failures; a sweep never does, because it holds the row.                 *)
(***************************************************************************)
EXTENDS TokenRefresh, FiniteSetTheorems, TLAPS

InFlight == {"asking", "got", "failed", "dead"}

Rows == [there: BOOLEAN, grant: Nat, token: Nat, age: {"fresh", "due", "stale"},
         revoked: BOOLEAN, failures: Nat]

Types ==
    /\ row \in Rows /\ at \in [Actors -> Places] /\ saw \in [Actors -> Seen]
    /\ row.grant <= MaxGrants /\ grants \in Nat

\* A sweep at work holds a row that is there; so does any holder that does not insert it.
Held ==
    /\ \A s \in Sweeps :
        /\ at[s] \in InFlight \cup {"closing"} => holder = s /\ row.there
        /\ at[s] \notin {"queued", "open", "raised"}
    /\ holder # NoOne => row.there \/ Rotated(holder)

\* Revoked comes from Google.
Dropped ==
    /\ row.revoked => dropped # {}
    /\ \A a \in Actors : at[a] = "dead" => dropped # {}

\* Who asks had seen fewer failures than the bound.
Allowed == \A c \in Callers : at[c] \in InFlight => saw[c].failures < MaxFailures

Asking == {c \in Callers : at[c] \in InFlight \cup {"queued"} /\ saw[c].failures < MaxFailures}

\* The failures there are and those that may still come.
Budget == row.failures + Cardinality(Asking) < MaxFailures + Cardinality(Callers)

IInv == Types /\ Held /\ Dropped /\ Allowed /\ Budget

----------------------------------------------------------------------------
(* Counting.                                                               *)

LEMMA CallersFinite ==
    ASSUME NEW S \in SUBSET Callers
    PROVE  /\ IsFiniteSet(S) /\ Cardinality(S) \in Nat /\ Cardinality(Callers) \in Nat
           /\ Cardinality(S) <= Cardinality(Callers)
  BY TokenAssumption, FS_Subset, FS_CardinalityType

\* Below the bound there is room for every caller.
LEMMA RoomBelow ==
    ASSUME NEW n \in Nat, n < MaxFailures, NEW S \in SUBSET Callers
    PROVE  n + Cardinality(S) < MaxFailures + Cardinality(Callers)
  BY CallersFinite, TokenAssumption

\* Fewer may fail, and no more have failed.
LEMMA FewerFit ==
    ASSUME NEW n \in Nat, NEW m \in Nat, m <= n,
           NEW S \in SUBSET Callers, NEW T \in SUBSET S,
           n + Cardinality(S) < MaxFailures + Cardinality(Callers)
    PROVE  m + Cardinality(T) < MaxFailures + Cardinality(Callers)
<1>1. Cardinality(T) <= Cardinality(S) /\ Cardinality(S) \in Nat /\ Cardinality(T) \in Nat
      /\ Cardinality(Callers) \in Nat
  BY CallersFinite, FS_Subset
<1> QED
  BY <1>1, TokenAssumption

\* One that may fail has failed.
LEMMA OneMoves ==
    ASSUME NEW n \in Nat, NEW S \in SUBSET Callers, NEW c \in S,
           n + Cardinality(S) < MaxFailures + Cardinality(Callers)
    PROVE  n + 1 + Cardinality(S \ {c}) < MaxFailures + Cardinality(Callers)
<1>1. Cardinality(S \ {c}) = Cardinality(S) - 1 /\ Cardinality(S) \in Nat
      /\ Cardinality(Callers) \in Nat
  BY CallersFinite, FS_RemoveElement
<1> QED
  BY <1>1, TokenAssumption

\* Asking is a set of callers.
LEMMA AskingCallers == Asking \subseteq Callers /\ Asking' \subseteq Callers
  BY DEF Asking

----------------------------------------------------------------------------
(* The invariant.                                                          *)

LEMMA InitHolds == Init => IInv
<1> SUFFICES ASSUME Init PROVE IInv
  OBVIOUS
<1>1. Types
  BY TokenAssumption DEF Init, Types, Rows, Granted, NotSeen, Seen, Places
<1>2. Held /\ Dropped /\ Allowed
  BY DEF Init, Held, Dropped, Allowed, Granted, InFlight, Actors
<1>3. Budget
  BY AskingCallers, RoomBelow, TokenAssumption DEF Init, Granted, Budget
<1> QED
  BY <1>1, <1>2, <1>3 DEF IInv

\* The world: a consent starts from no failures, and nobody asks because of it.
LEMMA WorldKeeps ==
    ASSUME IInv, Age \/ DropGrant \/ Consent \/ Disconnect
    PROVE  IInv'
<1> USE DEF IInv
<1>1. UNCHANGED <<holder, at, saw>>
  BY DEF Age, DropGrant, Consent, Disconnect
<1>2. /\ row' \in Rows /\ row'.grant <= MaxGrants /\ grants' \in Nat
      /\ row'.failures <= row.failures
      /\ row'.revoked => row.revoked
      /\ row.there /\ holder # NoOne => row'.there
  <2>1. CASE Age
    BY <2>1 DEF Types, Rows, Held, Age
  <2>2. CASE DropGrant
    BY <2>2 DEF Types, Rows, Held, DropGrant
  <2>3. CASE Consent
    BY <2>3, TokenAssumption DEF Types, Rows, Consent, Granted
  <2>4. CASE Disconnect
    <3>1. row' = [there |-> FALSE, grant |-> 0, token |-> 0, age |-> "fresh", revoked |-> FALSE,
                  failures |-> 0]
      BY <2>4 DEF Disconnect, Granted
    <3>2. holder = NoOne /\ grants' = grants
      BY <2>4 DEF Disconnect
    <3> QED
      BY <3>1, <3>2, TokenAssumption DEF Types, Rows
  <2> QED
    BY <2>1, <2>2, <2>3, <2>4
<1>3. dropped # {} => dropped' # {}
  BY DEF Age, DropGrant, Consent, Disconnect
<1>4. Asking' = Asking
  BY <1>1 DEF Asking
<1>5. Budget'
  BY <1>2, <1>4, AskingCallers, FewerFit DEF Types, Rows, Budget
<1>6. Held'
  <2>1. \A s \in Sweeps : s # NoOne
    BY TokenAssumption DEF Actors
  <2> QED
    BY <1>1, <1>2, <2>1 DEF Held, Rotated
<1> QED
  BY <1>1, <1>2, <1>3, <1>5, <1>6 DEF Types, Dropped, Allowed

\* A session looks at the row: a caller's counts only below the bound.
LEMMA LookKeeps ==
    ASSUME IInv,
           \/ \E c \in Callers : Read(c) \/ ForceRefresh(c)
           \/ \E s \in Sweeps : Pick(s)
    PROVE  IInv'
<1> USE DEF IInv, Go, Load
<1>1. PICK a \in Actors :
        \/ a \in Callers /\ (Read(a) \/ ForceRefresh(a)) /\ holder' = holder
        \/ a \in Sweeps /\ Pick(a) /\ holder = NoOne /\ holder' = a /\ row.there
  BY DEF Read, ForceRefresh, Pick, Actors
<1>2. /\ row' = row /\ row.there /\ dropped' = dropped
      /\ \E place \in {"queued", "asking"} : at' = [at EXCEPT ![a] = place]
      /\ \E own \in BOOLEAN : saw' = [saw EXCEPT ![a] =
            [grant |-> row.grant, failures |-> row.failures, own |-> own]]
  BY <1>1 DEF Read, ForceRefresh, Pick
<1>3. at'[a] = "asking" => row.failures < MaxFailures
  BY <1>1 DEF Read, ForceRefresh, Pick, MayAsk, Types
<1>4. saw' \in [Actors -> Seen] /\ row.failures \in Nat
  BY <1>2 DEF Types, Rows, Seen
<1>5. a \in Sweeps => a \notin Callers
  BY TokenAssumption
<1>6. Types'
  BY <1>1, <1>2, <1>4 DEF Types, Places, Read, ForceRefresh, Pick
<1>7. Held'
  <2>1. CASE a \in Callers
    <3>1. \A s \in Sweeps : at'[s] = at[s]
      BY <1>2, <1>5, <2>1 DEF Types, Actors
    <3>2. holder' = holder /\ row' = row
      BY <1>1, <1>2, <1>5, <2>1
    <3> QED
      BY <1>2, <3>1, <3>2 DEF Held
  <2>2. CASE a \notin Callers
    <3>1. at' = [at EXCEPT ![a] = "asking"] /\ holder = NoOne /\ holder' = a /\ row.there
      BY <1>1, <2>2 DEF Pick
    <3>2. at'[a] = "asking" /\ \A s \in Sweeps \ {a} : at'[s] = at[s]
      BY <3>1 DEF Types, Actors
    <3>3. \A s \in Sweeps : NoOne # s
      BY TokenAssumption DEF Actors
    <3> QED
      BY <1>2, <3>1, <3>2, <3>3 DEF Held, InFlight
  <2> QED
    BY <2>1, <2>2
<1>8. Dropped' /\ Allowed'
  BY <1>2, <1>3, <1>4 DEF Dropped, Allowed, Types, InFlight, Actors
<1>9. Budget'
  <2>1. CASE row.failures < MaxFailures
    BY <1>2, <1>4, <2>1, AskingCallers, RoomBelow DEF Budget
  <2>2. CASE ~(row.failures < MaxFailures)
    <3>1. saw'[a].failures = row.failures
      BY <1>2 DEF Types
    <3>2. \A c \in Callers \ {a} : at'[c] = at[c] /\ saw'[c] = saw[c]
      BY <1>2 DEF Types, Actors
    <3>3. Asking' \subseteq Asking
      BY <2>2, <3>1, <3>2 DEF Asking
    <3> QED
      BY <1>2, <1>4, <3>3, AskingCallers, FewerFit DEF Budget
  <2> QED
    BY <2>1, <2>2
<1> QED
  BY <1>6, <1>7, <1>8, <1>9

\* A caller or a sweep goes on, or ends, without a failure being counted.
LEMMA MoveKeeps ==
    ASSUME IInv,
           \/ \E c \in Callers : \/ Enter(c) \/ Ask(c) \/ Store(c) \/ Commit(c) \/ Unwind(c)
                                 \/ Cancel(c) \/ AskFails(c)
           \/ \E s \in Sweeps : Ask(s) \/ SweepStores(s) \/ Commit(s) \/ Recycle(s) \/ AskFails(s)
    PROVE  IInv'
<1> USE DEF IInv, Go, Release
<1>0. Callers \cap Sweeps = {} /\ NoOne \notin Actors
  BY TokenAssumption
<1>1. PICK a \in Actors :
        \/ a \in Callers /\ \/ Enter(a) \/ Ask(a) \/ Store(a) \/ Commit(a) \/ Unwind(a)
                            \/ Cancel(a) \/ AskFails(a)
        \/ a \in Sweeps /\ (Ask(a) \/ SweepStores(a) \/ Commit(a) \/ Recycle(a) \/ AskFails(a))
  BY DEF Actors
<1>2. saw' = saw /\ dropped' = dropped
  BY <1>1 DEF Enter, Ask, Store, Commit, Unwind, Cancel, AskFails, SweepStores, Recycle
<1>3. PICK place \in Places : at' = [at EXCEPT ![a] = place]
  BY <1>1 DEF Enter, Ask, Store, Commit, Unwind, Cancel, AskFails, SweepStores, Recycle,
              Places
<1>4. \A b \in Actors \ {a} : at'[b] = at[b]
  BY <1>3 DEF Types
<1>5. at'[a] = place
  BY <1>3 DEF Types
<1>6. /\ row' \in Rows /\ row'.grant <= MaxGrants /\ grants' = grants
      /\ row'.failures <= row.failures
      /\ row'.revoked => row.revoked
      /\ row.there => row'.there
  <2>1. CASE Commit(a)
    <3>1. saw[a].grant \in Nat /\ saw[a].grant <= MaxGrants
      BY TokenAssumption DEF Types, Seen
    <3>2. row.grant \in Nat /\ row.grant <= MaxGrants /\ row.revoked \in BOOLEAN /\ row.failures \in Nat
      BY DEF Types, Rows
    <3>3. grants' = grants
      BY <2>1 DEF Commit
    <3>4. CASE row' = row
      BY <3>3, <3>4 DEF Types, Rows
    <3>5. CASE row' = Granted(saw[a].grant)
      BY <3>1, <3>2, <3>3, <3>5 DEF Granted, Rows
    <3>6. CASE row' = [Granted(row.grant) EXCEPT !.token = saw[a].grant, !.revoked = row.revoked]
      <4>1. row' = [there |-> TRUE, grant |-> row.grant, token |-> saw[a].grant, age |-> "fresh",
                    revoked |-> row.revoked, failures |-> 0]
        BY <3>6 DEF Granted
      <4>2. row' \in Rows
        BY <3>1, <3>2, <4>1 DEF Rows
      <4>3. row'.grant = row.grant /\ row'.failures = 0 /\ row'.there
        BY <4>1
      <4>4. row'.revoked = row.revoked
        BY <4>1, Zenon
      <4> QED
        BY <3>2, <3>3, <4>2, <4>3, <4>4
    <3> QED
      BY <2>1, <3>4, <3>5, <3>6 DEF Commit, Refreshed
  <2>2. CASE ~Commit(a)
    BY <1>1, <2>2 DEF Enter, Ask, Store, Unwind, Cancel, AskFails, SweepStores, Recycle,
                      Types, Rows
  <2> QED
    BY <2>1, <2>2
<1>7. Types'
  BY <1>2, <1>3, <1>6 DEF Types
<1>8. /\ holder' # NoOne => row.there \/ Rotated(holder')
      /\ holder \in Sweeps \ {a} => holder' = holder
  BY <1>0, <1>1 DEF Held, Enter, Ask, Store, Commit, Unwind, Cancel, AskFails,
                   SweepStores, Recycle, Found, Rotated, Actors
<1>9. a \in Sweeps =>
        /\ place \in InFlight \cup {"closing"} => holder' = a /\ row.there
        /\ place \notin {"queued", "open", "raised"}
  <2> SUFFICES ASSUME a \in Sweeps
               PROVE  /\ place \in InFlight \cup {"closing"} => holder' = a /\ row.there
                      /\ place \notin {"queued", "open", "raised"}
    OBVIOUS
  <2>1. CASE Ask(a) \/ AskFails(a) \/ SweepStores(a)
    BY <1>3, <1>5, <2>1 DEF Held, InFlight, Ask, AskFails, SweepStores, Types
  <2>2. CASE Commit(a) \/ Recycle(a)
    BY <1>3, <1>5, <2>2 DEF InFlight, Commit, Recycle, Types
  <2> QED
    BY <1>0, <1>1, <2>1, <2>2
<1>10. Held'
  <2>1. ASSUME NEW s \in Sweeps
        PROVE  /\ at'[s] \in InFlight \cup {"closing"} => holder' = s /\ row'.there
               /\ at'[s] \notin {"queued", "open", "raised"}
    <3>1. CASE s = a
      BY <1>5, <1>6, <1>9, <3>1
    <3>2. CASE s # a
      BY <1>4, <1>6, <1>8, <2>1, <3>2 DEF Held, Actors
    <3> QED
      BY <3>1, <3>2
  <2> QED
    BY <1>2, <1>6, <1>8, <2>1 DEF Held, Rotated
<1>11. place = "dead" => dropped # {}
  <2>1. CASE Ask(a)
    BY <1>3, <1>5, <2>1 DEF Ask, Types
  <2>2. CASE ~Ask(a)
    BY <1>1, <1>3, <1>5, <2>2 DEF Enter, Store, Commit, Unwind, Cancel, AskFails,
                               SweepStores, Recycle, Types
  <2> QED
    BY <2>1, <2>2
<1>12. Dropped'
  BY <1>2, <1>4, <1>5, <1>6, <1>11 DEF Dropped
<1>13. a \in Callers /\ place \in InFlight \cup {"queued"} =>
        /\ at[a] \in InFlight \cup {"queued"}
        /\ place \in InFlight => saw[a].failures < MaxFailures
  <2>1. CASE Enter(a)
    BY <1>3, <1>5, <2>1 DEF Enter, MayAsk, Types, InFlight
  <2>2. CASE Ask(a) \/ AskFails(a)
    BY <2>2 DEF Ask, AskFails, Allowed, InFlight
  <2>3. CASE ~(Enter(a) \/ Ask(a) \/ AskFails(a))
    BY <1>0, <1>1, <1>3, <1>5, <2>3 DEF Store, Commit, Unwind, Cancel, Types, InFlight
  <2> QED
    BY <2>1, <2>2, <2>3
<1>14. Allowed'
  BY <1>2, <1>4, <1>5, <1>13 DEF Allowed, Actors
<1>15. Asking' \subseteq Asking
  BY <1>2, <1>4, <1>5, <1>13 DEF Asking, Actors
<1>16. Budget'
  BY <1>6, <1>15, AskingCallers, FewerFit DEF Types, Rows, Budget
<1> QED
  BY <1>7, <1>10, <1>12, <1>14, <1>16

\* A failure is counted by a caller, which then no longer asks; a sweep cannot count
\* one, because the row it waits for is its own.
LEMMA BookKeeps ==
    ASSUME IInv, NEW a \in Actors, Book(a)
    PROVE  IInv'
<1> USE DEF IInv, Go
<1>0. Callers \cap Sweeps = {} /\ NoOne \notin Actors
  BY TokenAssumption
<1>1. a \in Callers /\ a \notin Sweeps
  BY <1>0 DEF Book, Held, InFlight, Actors
<1>2. saw' = saw /\ dropped' = dropped /\ holder' = holder /\ at' = [at EXCEPT ![a] = "raised"]
  BY DEF Book
<1>3. at'[a] = "raised" /\ \A b \in Actors \ {a} : at'[b] = at[b]
  BY <1>2 DEF Types
<1>4. /\ row' \in Rows /\ row'.grant = row.grant /\ grants' = grants
      /\ row.failures \in Nat /\ row'.failures \in {row.failures, row.failures + 1}
      /\ row'.there = row.there
      /\ row'.revoked => row.revoked \/ at[a] = "dead"
  <2>1. CASE row.there
    <3>1. row' = [row EXCEPT !.failures = row.failures + 1,
                             !.revoked = row.revoked \/ at[a] = "dead"]
      BY <2>1 DEF Book, GrantGone
    <3>2. /\ row' \in Rows /\ row'.grant = row.grant /\ row'.failures = row.failures + 1
          /\ row'.there = row.there
      <4>1. PICK b \in BOOLEAN : row' = [row EXCEPT !.failures = row.failures + 1, !.revoked = b]
        BY <3>1
      <4>2. row.failures \in Nat /\ row.failures + 1 \in Nat
        BY DEF Types, Rows
      <4>3. row' \in Rows
        BY <4>1, <4>2 DEF Types, Rows
      <4>4. row'.grant = row.grant
        BY <4>1 DEF Types, Rows
      <4>5. row'.failures = row.failures + 1
        BY <4>1 DEF Types, Rows
      <4>6. row'.there = row.there
        BY <4>1, Zenon DEF Types, Rows
      <4> QED
        BY <4>3, <4>4, <4>5, <4>6
    <3>3. row'.revoked = (row.revoked \/ at[a] = "dead")
      BY <3>1, Zenon DEF Types, Rows
    <3> QED
      BY <3>2, <3>3 DEF Book, Types, Rows
  <2>2. CASE ~row.there
    BY <2>2 DEF Book, Types, Rows
  <2> QED
    BY <2>1, <2>2
<1>5. Types'
  BY <1>2, <1>4 DEF Types, Places
<1>6. Held'
  BY <1>1, <1>2, <1>3, <1>4 DEF Held, Rotated, Actors
<1>7. Dropped'
  BY <1>2, <1>3, <1>4 DEF Dropped
<1>8. Allowed'
  BY <1>2, <1>3 DEF Allowed, InFlight, Actors
<1>9. a \in Asking /\ Asking' = Asking \ {a}
  BY <1>1, <1>2, <1>3 DEF Book, Asking, Allowed, InFlight, Actors
<1>10. Budget'
  <2>1. CASE row'.failures = row.failures + 1
    BY <1>4, <1>9, <2>1, AskingCallers, OneMoves DEF Budget
  <2>2. CASE row'.failures = row.failures
    BY <1>4, <1>9, <2>2, AskingCallers, FewerFit DEF Budget
  <2> QED
    BY <1>4, <2>1, <2>2
<1> QED
  BY <1>5, <1>6, <1>7, <1>8, <1>10

\* Every step keeps the invariant.
LEMMA StepKeeps == IInv /\ [Next]_vars => IInv'
<1> SUFFICES ASSUME IInv, [Next]_vars PROVE IInv'
  OBVIOUS
<1>1. CASE UNCHANGED vars
  BY <1>1 DEF vars, IInv, Types, Held, Dropped, Allowed, Budget, Asking, Rotated
<1>2. CASE Age \/ DropGrant \/ Consent \/ Disconnect
  BY <1>2, WorldKeeps
<1>3. CASE (\E c \in Callers : Read(c) \/ ForceRefresh(c)) \/ \E s \in Sweeps : Pick(s)
  BY <1>3, LookKeeps
<1>4. CASE \E a \in Actors : Book(a)
  BY <1>4, BookKeeps
<1>5. CASE \/ \E c \in Callers : \/ Enter(c) \/ Ask(c) \/ Store(c) \/ Commit(c) \/ Unwind(c)
                                 \/ Cancel(c) \/ AskFails(c)
           \/ \E s \in Sweeps : Ask(s) \/ SweepStores(s) \/ Commit(s) \/ Recycle(s) \/ AskFails(s)
  BY <1>5, MoveKeeps
<1> QED
  BY <1>1, <1>2, <1>3, <1>4, <1>5 DEF Next, Call, Sweep, TimeUp, Actors

\* The invariant holds always.
LEMMA Invariant == Spec => []IInv
  BY InitHolds, StepKeeps, PTL DEF Spec

----------------------------------------------------------------------------
(* Theorems.                                                               *)

\* A refresh that fails because Google does not answer never marks the connection
\* revoked (token_store._record_failure).
THEOREM OutageKeeps == Spec => []OutageKeepsGrant
<1>1. IInv => OutageKeepsGrant
  BY DEF IInv, Dropped, OutageKeepsGrant
<1> QED
  BY <1>1, Invariant, PTL

\* Callers stop asking Google after MaxFailures, but for those that looked before
\* (token_store.refresh_access_token).
THEOREM CallersGiveUp == Spec => []GivesUp
<1>1. IInv => GivesUp
  <2> SUFFICES ASSUME IInv PROVE GivesUp
    OBVIOUS
  <2>1. Cardinality(Asking) \in Nat /\ Cardinality(Callers) \in Nat
    BY AskingCallers, CallersFinite
  <2> QED
    BY <2>1, TokenAssumption DEF IInv, Types, Rows, Budget, GivesUp
<1> QED
  BY <1>1, Invariant, PTL

\* Only a consent, or a refresh that Google rotated, brings back a connection that was
\* deleted (users.update_access_token, users.upsert_token).
THEOREM DisconnectHolds == Spec => DisconnectStays
<1>1. IInv /\ [Next]_vars => [~row.there /\ row'.there => grants' # grants \/ row'.grant \in Rotating]_vars
  <2> SUFFICES ASSUME IInv, Next, ~row.there, row'.there
               PROVE  grants' # grants \/ row'.grant \in Rotating
    BY DEF vars
  <2>1. ASSUME NEW a \in Actors, Commit(a) PROVE row'.grant \in Rotating
    <3>1. holder = a
      BY <2>1 DEF Commit
    <3>2. Rotated(a)
      BY <3>1, TokenAssumption DEF IInv, Held
    <3> QED
      BY <2>1, <3>1, <3>2 DEF Commit, Refreshed, Granted, Rotated
  <2>2. CASE Consent
    <3>1. grants' = grants + 1 /\ grants \in Nat
      BY <2>2 DEF Consent, IInv, Types
    <3> QED
      BY <3>1
  <2>3. CASE Age \/ DropGrant \/ Disconnect
    BY <2>3 DEF Age, DropGrant, Disconnect, Granted
  <2>4. CASE \E c \in Callers : Call(c) \/ Read(c) \/ ForceRefresh(c) \/ Cancel(c)
    BY <2>1, <2>4 DEF Call, Enter, Ask, Store, Book, Unwind, TimeUp, Read, ForceRefresh, Cancel,
                     Actors
  <2>5. CASE \E s \in Sweeps : Sweep(s) \/ Pick(s) \/ Recycle(s)
    BY <2>1, <2>5 DEF Sweep, Ask, SweepStores, Book, Pick, Recycle, Actors
  <2>6. CASE \E a \in Actors : AskFails(a)
    BY <2>6 DEF AskFails
  <2> QED
    BY <2>2, <2>3, <2>4, <2>5, <2>6 DEF Next
<1> QED
  BY <1>1, Invariant, PTL DEF Spec, DisconnectStays
============================================================================
