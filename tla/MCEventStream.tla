---------------------------- MODULE MCEventStream --------------------------
(***************************************************************************)
(* One run and one other publisher.                                        *)
(***************************************************************************)
EXTENDS EventStream
============================================================================
