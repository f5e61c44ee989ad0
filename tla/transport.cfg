\* Two calls, and one that is cut short or finds no Redis.  The windows are 2 and
\* 3 (the cap, not 4); no symmetry, because of the liveness property.
SPECIFICATION FairSpec
CONSTANTS
    Call = {c1, c2}
    Answers = {"TRANSIENT", "RATE_LIMITED", "AUTH_EXPIRED"}
    RetryCap <- OneEach
    MaxFaults = 1
    Threshold = 2
    BaseOpen = 2
    MaxOpen = 3
    ProbeHold = 1
    Grace = 1
INVARIANT OnceMeansOnce
INVARIANT KeyOutlivesWindow
PROPERTY RecoversWithGoogle
