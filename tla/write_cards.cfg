\* Two concurrent turns of a conversation, three cards, so that a card can be
\* edited, or revised in the chat, while another turn raises its own.  A task
\* that gives up is held (MaxReplayAttempts): replays are write_exec's.
SPECIFICATION Spec
CONSTANTS
    Action = {a1, a2}
    Card = {c1, c2, c3}
    Run = {r1, r2}
    Write = {mail, note}
    Op = {"send", "move"}
    OpOf <- OneOp
    DraftBacked = {}
    Worker = {k1}
    NoPayload = NoPayload
    NoCard = NoCard
    NoRun = NoRun
    NoJob = NoJob
    Faults = {}
    MaxFaults = 0
    MaxStaged = 1
    MaxRevised = 1
    MaxErrorRetries = 0
    MaxWaitRetries = 1
    MaxReplayAttempts = 1
SYMMETRY Symmetry
INVARIANT ConsentedWrites
INVARIANT RefusedNeverApplied
INVARIANT OneInFlightPerPayload
CHECK_DEADLOCK FALSE
