\* Liveness: no symmetry.  A failed task goes to the dead-letter table at
\* once, one that waited too long is held there: 3 + 1 < 8 <= 8 + 1 in the code,
\* 0 + 1 < 2 <= 1 + 1 here.
SPECIFICATION FairSpec
CONSTANTS
    Action = {a1, a2}
    Card = {c1, c2}
    Run = {r1}
    Write = {mail}
    Op = {"send", "move"}
    OpOf <- OneOp
    DraftBacked = {}
    Worker = {k1}
    NoPayload = NoPayload
    NoCard = NoCard
    NoRun = NoRun
    NoJob = NoJob
    Faults = {"worker", "transient", "runner"}
    MaxFaults = 1
    MaxStaged = 2
    MaxRevised = 1
    MaxErrorRetries = 0
    MaxWaitRetries = 1
    MaxReplayAttempts = 2
PROPERTY ApprovedIsAttempted
PROPERTY DueIsClosed
PROPERTY DeadTurnIsClosed
CHECK_DEADLOCK FALSE
