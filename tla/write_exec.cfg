\* One turn, two writes that may have to run in order, two workers, one failure
\* of any kind.
SPECIFICATION Spec
CONSTANTS
    Action = {a1, a2}
    Card = {c1, c2}
    Run = {r1}
    Write = {mail}
    Op = {"send", "move"}
    OpOf <- OneOp
    DraftBacked = {"send"}
    Worker = {k1, k2}
    NoPayload = NoPayload
    NoCard = NoCard
    NoRun = NoRun
    NoJob = NoJob
    Faults = {"stale", "worker", "claimed", "transient", "permanent", "enqueue", "runner", "claim"}
    MaxFaults = 1
    MaxStaged = 2
    MaxRevised = 1
    MaxErrorRetries = 0
    MaxWaitRetries = 1
    MaxReplayAttempts = 2
SYMMETRY Symmetry
INVARIANT AppliedAtMostOnce
INVARIANT AppliedInOrder
INVARIANT ClosedNeverApplied
INVARIANT ApprovedIsFresh
PROPERTY ImplementsConsent
CHECK_DEADLOCK FALSE
