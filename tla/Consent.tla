------------------------------- MODULE Consent -----------------------------
(***************************************************************************)
(* What the write path promises, with no queue, worker, card or sweep in   *)
(* it.  A write is offered in certain words; the words may be revised only *)
(* while it is an offer; a person grants it as it stands; a granted write  *)
(* is applied at most once, after everything it must follow; and an offer  *)
(* or a grant may be closed at any time before it is applied.  A write that *)
(* is no offer any more can be broken: its words change all the same, and  *)
(* nothing is promised of it from there on.                                *)
(*                                                                         *)
(* A step moves any number of writes at once, each by the same rules: one  *)
(* yes grants every write a card gates, one sweep closes many.             *)
(***************************************************************************)
CONSTANTS Action, Payload, NoPayload

VARIABLES
    stage,  \* "none", "offered", "granted", "applied", "closed", "broken"
    words   \* what the write says

Init ==
    /\ stage = [a \in Action |-> "none"]
    /\ words = [a \in Action |-> NoPayload]

Offer(a) ==
    /\ stage[a] = "none" /\ stage'[a] = "offered"
    /\ words'[a] \in Payload

Revise(a) ==
    /\ stage[a] = "offered" /\ stage'[a] = "offered"
    /\ words'[a] \in Payload

Grant(a) ==
    /\ stage[a] = "offered" /\ stage'[a] = "granted"
    /\ words'[a] = words[a]

Apply(a) ==
    /\ stage[a] = "granted" /\ stage'[a] = "applied"
    /\ words'[a] = words[a]
    /\ \A b \in words[a].after : stage[b] \in {"applied", "broken"}

Close(a) ==
    /\ stage[a] \in {"offered", "granted"} /\ stage'[a] = "closed"
    /\ words'[a] = words[a]

Break(a) ==
    /\ stage[a] \in {"granted", "applied", "closed", "broken"} /\ stage'[a] = "broken"
    /\ words'[a] \in Payload

Stay(a) == stage'[a] = stage[a] /\ words'[a] = words[a]

Next ==
    \A a \in Action :
        Offer(a) \/ Revise(a) \/ Grant(a) \/ Apply(a) \/ Close(a)
        \/ Break(a) \/ Stay(a)

Spec == Init /\ [][Next]_<<stage, words>>
============================================================================
