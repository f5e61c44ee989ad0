---------------------------- MODULE WritePathInv ---------------------------
(***************************************************************************)
(* The inductive invariant behind the safety properties of WritePath.      *)
(* None of those properties is inductive: each rests on who may be where   *)
(* in the protocol when a row, a card or an id changes.                    *)
(***************************************************************************)
EXTENDS WritePath

\* What a worker that has claimed a row is doing with it.
Owning == {"execute", "succeeded", "failed"}
\* The statuses of a row somebody said yes to and nobody has closed since.
Granted == {"approved", "running", "done", "failed"}

\* Ids are allocated once: what is not allocated has no row, what a turn is
\* still staging has none yet, and no two new entries share an id.
ActionIdsInv ==
    /\ \A a \in Action : status[a] # "absent" => a \in actionIds
    /\ \A r \in Run : \A i \in DOMAIN staged[r] : ~staged[r][i].exists =>
          /\ staged[r][i].id \in actionIds
          /\ status[staged[r][i].id] = "absent"
          /\ newCard[r] # NoCard
    /\ \A r, s \in Run : \A i \in DOMAIN staged[r], j \in DOMAIN staged[s] :
          ~staged[r][i].exists /\ ~staged[s][j].exists
          /\ staged[r][i].id = staged[s][j].id => r = s /\ i = j

\* The same for cards; a turn's own card has no row until it commits.
CardIdsInv ==
    /\ \A c \in Card : cardStatus[c] # "absent" => c \in cardIds
    /\ \A r \in Run : newCard[r] # NoCard => newCard[r] \in cardIds
    /\ \A r, s \in Run : newCard[r] # NoCard /\ newCard[r] = newCard[s] => r = s
    /\ \A r \in Run : newCard[r] # NoCard /\ turn[r] \in {"working", "writing"}
          => cardStatus[newCard[r]] = "absent"
    /\ \A r \in Run : turn[r] = "idle" => newCard[r] = NoCard
    /\ \A r \in Run : turn[r] \notin {"working", "writing"} => staged[r] = <<>>

\* A draft says what its card shows, or what the chat has said it says; what
\* was granted stands behind a card that was answered yes.  The draft in Gmail
\* says what the card shows in any case.
CardRowInv ==
    \A a \in Action :
        /\ status[a] \in {"draft"} \cup Granted =>
              /\ <<a, gmailDraft[a]>> \in shown[gate[a]]
              /\ \/ <<a, payload[a]>> \in shown[gate[a]]
                 \/ told[a] = payload[a]
                 \/ a \in rewritten
        /\ status[a] \in Granted =>
              answer[gate[a]] = "yes" /\ cardStatus[gate[a]] = "answered"

\* The key of a row in flight is unique, and the fingerprint of its payload
\* unless the payload has moved on without it.
KeyInv ==
    /\ \A a \in Action : status[a] # "absent" =>
          dedupe[a] = payload[a] \/ told[a] = payload[a] \/ a \in rewritten
    /\ \A a, b \in InFlight : dedupe[a] = dedupe[b] => a = b

\* What a worker holds is what the row says (what it must follow in any case),
\* and only a claim makes it owner.
WorkerInv ==
    /\ \A w \in Worker : pc[w] # "idle" =>
          /\ job[w] \in Message
          /\ status[job[w].action] \notin {"absent", "draft"}
          /\ body[w] \in Payload
          /\ body[w].after = payload[job[w].action].after
          /\ job[w].action \in rewritten \/ body[w] = payload[job[w].action]
    /\ \A w \in Worker : pc[w] \in {"validate", "claim"} \cup Owning =>
          \A b \in body[w].after : status[b] = "done"
    /\ \A w \in Worker : pc[w] \in Owning => status[job[w].action] = "running"
    /\ \A w, v \in Worker :
          pc[w] \in Owning /\ pc[v] \in Owning /\ job[w].action = job[v].action => w = v

\* What a row has Google do: send its draft, or do what its payload says.
Words(a) ==
    IF OpOf[payload[a].write] \in DraftBacked THEN gmailDraft[a] ELSE payload[a]

\* How often Google has applied a row, told from its status and its owner, and
\* in which words.
EffectInv ==
    /\ \A a \in Action :
          /\ status[a] \notin {"running", "done", "failed"} => effects[a] = 0
          /\ status[a] = "done" => effects[a] = 1
          /\ effects[a] <= 1
          /\ effects[a] > 0 => \A b \in payload[a].after : status[b] = "done"
          /\ status[a] \in {"absent", "draft", "approved"} => attempts[a] = 0
    /\ \A w \in Worker :
          /\ pc[w] = "execute" => effects[job[w].action] = 0
          /\ pc[w] = "succeeded" => effects[job[w].action] = 1
    /\ \A a \in Action, p \in Payload :
          <<a, p>> \in applied => effects[a] > 0 /\ (a \in rewritten \/ p = Words(a))

\* Only a row that has left draft is rewritten.
RewrittenInv == \A a \in rewritten : status[a] \notin {"absent", "draft"}

IInv == /\ TypeOK /\ ActionIdsInv /\ CardIdsInv /\ CardRowInv
        /\ KeyInv /\ WorkerInv /\ EffectInv /\ RewrittenInv
============================================================================
