---------------------------- MODULE MCMirrorSync ---------------------------
(* Instances of MirrorSync for TLC: one message is there when the person   *)
(* connects; it is relabelled or goes away around the arrival of another.  *)
EXTENDS MirrorSync

CONSTANTS m1, m2

Arrives(m) == [msg |-> m, gone |-> FALSE]
Goes(m) == [msg |-> m, gone |-> TRUE]

TwoChanges ==
    {<<Arrives(m1), Arrives(m2), Goes(m1)>>,
     <<Arrives(m1), Arrives(m1), Arrives(m2)>>}
=============================================================================
