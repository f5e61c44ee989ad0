\* The broker is down when an approved action is handed on.
SPECIFICATION FairSpec
CONSTANTS
    Action = {a1}
    Card = {c1}
    Run = {r1}
    Write = {mail}
    Op = {"send", "move"}
    OpOf <- OneOp
    DraftBacked = {}
    Worker = {k1}
    NoPayload = NoPayload
    NoCard = NoCard
    NoRun = NoRun
    NoJob = NoJob
    Faults = {"enqueue"}
    MaxFaults = 1
    MaxStaged = 1
    MaxRevised = 1
    MaxErrorRetries = 1
    MaxWaitRetries = 1
    MaxReplayAttempts = 2
PROPERTY ApprovedIsAttempted
CHECK_DEADLOCK FALSE
