---------------------------- MODULE MCTransport ----------------------------
(***************************************************************************)
(* Instances of GoogleTransport small enough for TLC.                      *)
(***************************************************************************)
EXTENDS GoogleTransport

OneEach == [e \in Retryable |-> 1]
============================================================================
