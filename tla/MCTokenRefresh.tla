--------------------------- MODULE MCTokenRefresh ---------------------------
(* Two callers of one process: other processes come in by ForceRefresh,    *)
(* which takes no lock, and by the sweeps.  One caller is a step of a run, *)
(* the other a request of the API.                                         *)
EXTENDS TokenRefresh

CONSTANT p

MCHome == [c \in Callers |-> p]
============================================================================
