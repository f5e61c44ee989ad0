SPECIFICATION FairSpec
CONSTANTS
    n1 = n1
    n2 = n2
    n3 = n3
    Node = {n1, n2, n3}
    NoNode = none
    Lane = {"gmail"}
    LaneOf <- OneLane
    Slots <- OneSlot
    MaxTries = 2
    Spare = {n2}
    Plans <- SmallPlans
    Hitches = {"gate", "bind", "unknown", "stage"}
    MaxRefused = 1
CHECK_DEADLOCK FALSE
INVARIANT CalledOnResults
INVARIANT AwaitingIsParked
INVARIANT RowsTell
INVARIANT ShownAgrees
PROPERTY ImplementsPlanRound
PROPERTY CallEnds
