---------------------------- MODULE TokenRefresh ----------------------------
(***************************************************************************)
(* One person's Google connection: a row of oauth_tokens, the callers that *)
(* refresh its access token when it is stale or Google refuses it, the     *)
(* sweep that refreshes ahead of them, and the person who reconnects,      *)
(* disconnects or takes the grant back at Google.                          *)
(* Source: auth/token_store.py, db/repositories/users.py,                  *)
(* tasks/maintenance.py, google/client.py, api/v1/auth.py.                 *)
(*                                                                         *)
(* A transaction that wrote the row, or locked it, holds it until its end; *)
(* others read what was committed and wait to write.  Encryption, scopes,  *)
(* and whether an old refresh token is good after a rotation, are left out.*)
(***************************************************************************)
EXTENDS Naturals, FiniteSets

CONSTANTS
    Callers,      \* sessions that ask for an access token
    Timed,        \* those of them that have a deadline: the steps of a run
    Sweeps,       \* runs of maintenance.refresh_tokens that come to this row
    Processes,
    Home,         \* the process of a caller
    NoOne,
    Rotating,     \* consents for which Google sends a new refresh token each time
    MaxFailures,  \* MAX_REFRESH_FAILURES
    MaxGrants, MaxAges, MaxTries, MaxFaults

Actors == Callers \cup Sweeps

ASSUME TokenAssumption ==
    /\ IsFiniteSet(Callers) /\ Timed \subseteq Callers /\ Callers \cap Sweeps = {} /\ NoOne \notin Actors
    /\ Home \in [Callers -> Processes] /\ MaxFailures \in Nat \ {0}
    /\ Rotating \subseteq 1 .. MaxGrants
    /\ MaxGrants \in Nat \ {0} /\ MaxAges \in Nat /\ MaxTries \in Nat /\ MaxFaults \in Nat

VARIABLES
    row,      \* there, the consent it is of, that of its access token, the token's age,
              \* revoked, failures
    holder,   \* the transaction that holds the row
    lock,     \* _locks: the refresh under way in a process
    at,       \* where a caller or a sweep stands
    saw,      \* the row as its session loaded it, and whether that session is its own
    grants,   \* consents given so far
    dropped,  \* consents Google no longer honours
    ages, tries, faults

vars == <<row, holder, lock, at, saw, grants, dropped, ages, tries, faults>>

Places == {"idle", "queued", "asking", "got", "failed", "dead", "open", "closing", "raised"}
Seen == [grant: 0 .. MaxGrants, failures: Nat, own: BOOLEAN]
NotSeen == [grant |-> 0, failures |-> 0, own |-> FALSE]

TypeOK ==
    /\ row \in [there: BOOLEAN, grant: 0 .. MaxGrants, token: 0 .. MaxGrants,
                age: {"fresh", "due", "stale"}, revoked: BOOLEAN, failures: Nat]
    /\ holder \in Actors \cup {NoOne} /\ lock \in [Processes -> Callers \cup {NoOne}]
    /\ at \in [Actors -> Places] /\ saw \in [Actors -> Seen]
    /\ grants \in 0 .. MaxGrants /\ dropped \subseteq 1 .. grants
    /\ ages \in 0 .. MaxAges /\ tries \in 0 .. MaxTries /\ faults \in 0 .. MaxFaults

Granted(g) ==
    [there |-> TRUE, grant |-> g, token |-> g, age |-> "fresh", revoked |-> FALSE, failures |-> 0]

Init ==
    /\ row = Granted(1) /\ grants = 1 /\ dropped = {}
    /\ holder = NoOne /\ lock = [p \in Processes |-> NoOne]
    /\ at = [a \in Actors |-> "idle"] /\ saw = [a \in Actors |-> NotSeen]
    /\ ages = 0 /\ tries = 0 /\ faults = 0

Go(a, place) == at' = [at EXCEPT ![a] = place]

\* The locks a has no more: its process's, and the row with what it did not commit.
Unlock(a) == lock' = [p \in Processes |-> IF lock[p] = a THEN NoOne ELSE lock[p]]
Release(a) == holder' = IF holder = a THEN NoOne ELSE holder

----------------------------------------------------------------------------
(* The world: time, the person, Google.                                    *)

\* Within fifteen minutes of its end the sweep takes a token, within five a caller.
Age ==
    /\ row.there /\ row.age # "stale" /\ ages < MaxAges
    /\ row' = [row EXCEPT !.age = IF @ = "fresh" THEN "due" ELSE "stale"]
    /\ ages' = ages + 1
    /\ UNCHANGED <<holder, lock, at, saw, grants, dropped, tries, faults>>

DropGrant ==
    /\ row.there /\ dropped' = dropped \cup {row.grant} /\ dropped' # dropped
    /\ UNCHANGED <<row, holder, lock, at, saw, grants, ages, tries, faults>>

\* handle_callback: upsert_token.
Consent ==
    /\ grants < MaxGrants /\ holder = NoOne
    /\ grants' = grants + 1 /\ row' = Granted(grants + 1)
    /\ UNCHANGED <<holder, lock, at, saw, dropped, ages, tries, faults>>

\* disconnect: Google is told, the row is deleted.
Disconnect ==
    /\ row.there /\ holder = NoOne
    /\ dropped' = dropped \cup {row.grant}
    /\ row' = [Granted(0) EXCEPT !.there = FALSE]
    /\ UNCHANGED <<holder, lock, at, saw, grants, ages, tries, faults>>

----------------------------------------------------------------------------
(* Callers.                                                                *)

Load(a, own) == saw' = [saw EXCEPT ![a] = [grant |-> row.grant, failures |-> row.failures, own |-> own]]

\* Mutant: the count is not looked at.
MayAsk_Always(failures) == TRUE

\* After so many failures in a row the person is asked to reconnect.
MayAsk(failures) == failures < MaxFailures

\* get_access_token: a stale token, in the caller's session.
Read(c) ==
    /\ at[c] = "idle" /\ tries < MaxTries /\ tries' = tries + 1
    /\ row.there /\ ~row.revoked /\ row.age = "stale"
    /\ Load(c, FALSE) /\ Go(c, "queued")
    /\ UNCHANGED <<row, holder, lock, grants, dropped, ages, faults>>

\* One refresh at a time in a process.  The second look finds the object that the
\* session has, as it was loaded, unless the row is gone.
Enter(c) ==
    /\ at[c] = "queued" /\ lock[Home[c]] = NoOne
    /\ IF row.there /\ MayAsk(saw[c].failures)
       THEN lock' = [lock EXCEPT ![Home[c]] = c] /\ Go(c, "asking")
       ELSE Go(c, "idle") /\ UNCHANGED lock
    /\ UNCHANGED <<row, holder, saw, grants, dropped, ages, tries, faults>>

\* Google refused the token: TokenHolder asks for another, whatever its age, in a
\* session of its own; the caller's transaction may still be open.
ForceRefresh(c) ==
    /\ at[c] \in {"idle", "open"} /\ tries < MaxTries /\ tries' = tries + 1
    /\ row.there /\ ~row.revoked /\ MayAsk(row.failures)
    /\ Load(c, TRUE) /\ Go(c, "asking")
    /\ UNCHANGED <<row, holder, lock, grants, dropped, ages, faults>>

\* _post_refresh: a new token, invalid_grant, or no good answer.
Ask(a) ==
    /\ at[a] = "asking"
    /\ IF saw[a].grant \in dropped THEN Go(a, "dead") ELSE Go(a, "got")
    /\ UNCHANGED <<row, holder, lock, saw, grants, dropped, ages, tries, faults>>

AskFails(a) ==
    /\ at[a] = "asking" /\ faults < MaxFaults /\ faults' = faults + 1
    /\ Go(a, "failed")
    /\ UNCHANGED <<row, holder, lock, saw, grants, dropped, ages, tries>>

\* Rotated tokens are kept by an insert or update.
Rotated(a) == saw[a].grant \in Rotating

\* Mutant: an insert or update, which needs no row, for every token.
Found_Upsert(c) == TRUE

\* update_access_token: whatever row the person has now, if any.
Found(c) == row.there \/ Rotated(c)

\* What is written: by upsert_token, or over the row there is.
Refreshed(a) ==
    IF Rotated(a) THEN Granted(saw[a].grant)
    ELSE [Granted(row.grant) EXCEPT !.token = saw[a].grant, !.revoked = row.revoked]

\* The write waits for the row, and holds it until its transaction ends.
Store(c) ==
    /\ at[c] = "got" /\ (Found(c) => holder = NoOne)
    /\ holder' = IF Found(c) THEN c ELSE holder
    /\ Unlock(c) /\ Go(c, IF saw[c].own THEN "closing" ELSE "open")
    /\ UNCHANGED <<row, saw, grants, dropped, ages, tries, faults>>

Commit(a) ==
    /\ at[a] \in {"open", "closing"}
    /\ row' = IF holder = a THEN Refreshed(a) ELSE row
    /\ Release(a) /\ Go(a, "idle")
    /\ UNCHANGED <<lock, saw, grants, dropped, ages, tries, faults>>

GrantGone(a) == at[a] = "dead"

\* _record_failure: a session of its own, so that the record outlives the caller's.
Book(a) ==
    /\ at[a] \in {"failed", "dead"} /\ (row.there => holder = NoOne)
    /\ row' = IF row.there THEN [row EXCEPT !.failures = @ + 1, !.revoked = @ \/ GrantGone(a)] ELSE row
    /\ Go(a, "raised")
    /\ UNCHANGED <<holder, lock, saw, grants, dropped, ages, tries, faults>>

\* Mutant: the lock of the process is kept when the refresh fails.
Unwind_Locked(c) ==
    /\ at[c] = "raised" /\ Go(c, "idle") /\ Release(c)
    /\ UNCHANGED <<row, lock, saw, grants, dropped, ages, tries, faults>>

Unwind(c) ==
    /\ at[c] = "raised" /\ Go(c, "idle") /\ Unlock(c) /\ Release(c)
    /\ UNCHANGED <<row, saw, grants, dropped, ages, tries, faults>>

\* The caller's work fails or is cancelled: both of its sessions roll back.
Cancel(c) ==
    /\ at[c] \notin {"idle", "raised"} /\ Go(c, "idle") /\ Unlock(c) /\ Release(c)
    /\ UNCHANGED <<row, saw, grants, dropped, ages, tries, faults>>

\* The refresh in a session of its own waits for the row that the caller's holds.
WaitsForItself(c) ==
    /\ holder = c
    /\ \/ at[c] = "got" /\ Found(c)
       \/ at[c] \in {"failed", "dead"} /\ row.there

\* A step of a run is then cancelled by its deadline; a request of the API has none.
TimeUp(c) == c \in Timed /\ WaitsForItself(c) /\ Cancel(c)

----------------------------------------------------------------------------
(* The sweep.                                                              *)

\* FOR UPDATE SKIP LOCKED, with what makes a row due looked at again.
Pick(s) ==
    /\ at[s] = "idle" /\ tries < MaxTries /\ tries' = tries + 1
    /\ holder = NoOne /\ holder' = s
    /\ row.there /\ ~row.revoked /\ row.age # "fresh" /\ MayAsk(row.failures)
    /\ Load(s, TRUE) /\ Go(s, "asking")
    /\ UNCHANGED <<row, lock, grants, dropped, ages, faults>>

\* The transaction that locked the row writes it.
SweepStores(s) ==
    /\ at[s] = "got" /\ Go(s, "closing")
    /\ UNCHANGED <<row, holder, lock, saw, grants, dropped, ages, tries, faults>>

\* Its failure is booked in another session, which waits for the row, which waits for
\* it.  The time limit ends the task, not what runs on the loop behind it: the row is
\* free again when the worker's process goes.
SweepStuck(s) == at[s] \in {"failed", "dead"} /\ holder = s

Recycle(s) ==
    /\ SweepStuck(s) /\ Go(s, "idle") /\ Release(s)
    /\ UNCHANGED <<row, lock, saw, grants, dropped, ages, tries, faults>>

----------------------------------------------------------------------------
Call(c) ==
    Enter(c) \/ Ask(c) \/ Store(c) \/ Commit(c) \/ Book(c) \/ Unwind(c) \/ TimeUp(c)

Sweep(s) == Ask(s) \/ SweepStores(s) \/ Commit(s) \/ Book(s)

Next ==
    \/ Age \/ DropGrant \/ Consent \/ Disconnect
    \/ \E c \in Callers : Call(c) \/ Read(c) \/ ForceRefresh(c) \/ Cancel(c)
    \/ \E s \in Sweeps : Sweep(s) \/ Pick(s) \/ Recycle(s)
    \/ \E a \in Actors : AskFails(a)

Spec == Init /\ [][Next]_vars

\* What was begun goes on; a worker's process need not end.
FairSpec ==
    /\ Spec
    /\ \A c \in Callers : WF_vars(Call(c))
    /\ \A s \in Sweeps : WF_vars(Sweep(s))

----------------------------------------------------------------------------
(* Properties.                                                             *)

\* Google being briefly unavailable never costs a person the connection: a row is
\* marked revoked only when some consent of theirs was really dropped.
OutageKeepsGrant == row.revoked => dropped # {}

\* After MaxFailures in a row nobody asks Google again; those who had looked before may.
GivesUp == row.failures < MaxFailures + Cardinality(Callers)

\* Who disconnected stays disconnected until they consent again, whatever refresh was
\* under way, unless that one brought a new refresh token.
DisconnectStays ==
    [][~row.there /\ row'.there => grants' # grants \/ row'.grant \in Rotating]_vars

\* A caller comes to an end, past the lock of its process, the row and its own
\* transaction, unless one of the two that wait for themselves has the row: a sweep that
\* failed, or a request without a deadline whose transaction wrote it.
CallersEnd ==
    \A c \in Callers : at[c] # "idle" ~>
        \/ at[c] = "idle"
        \/ \E s \in Sweeps : SweepStuck(s)
        \/ \E d \in Callers \ Timed : WaitsForItself(d)

(* Not properties of this code, and refuted by TLC; the README has the runs.  *)

\* A connection that Google honours is not marked revoked.
GrantSurvives == row.revoked => row.grant \in dropped

\* A deleted connection comes back by a new consent only.
DisconnectIsFinal == [][~row.there /\ row'.there => grants' # grants]_vars

\* The token of a connection is of the account that was connected.
TokenOfItsGrant == row.there => row.token = row.grant

\* Every caller has an end, be it a deadline.
EveryCallerEnds ==
    \A c \in Callers : at[c] # "idle" ~> at[c] = "idle" \/ \E s \in Sweeps : SweepStuck(s)

\* A failed refresh is counted.
SweepFailureIsCounted ==
    \A s \in Sweeps : at[s] \in {"failed", "dead"} ~> at[s] = "raised"
============================================================================
