\* The address set grows and a branch replaces the newest blocks while filters and blocks are
\* delivered in any order.
SPECIFICATION Spec
CONSTANTS
    p1 = p1
    p2 = p2
    NoPeer = NoPeer
    Peers = {p1}
    MaxHeight = 3
    OutstandingMax = 4
    GaveUpMax = 4
    MaxAttempts = 1
    MaxRange = 2
    CyclesMax = 1
    LowWater = 3
    RearmMax = 1
    HdrBatch = 2
    Margin = 0
    SpanMax = 1
    KeepNewest = 0
    SaveCount = 2
    HeldMax = 1
    Birth = 1
    Matches = {1, 3}
    Late = {2}
    Reveals = {1, 3}
    FalseMatches = {}
    Unjudged = {}
    Checkpoints = {}
    FilterCheckpoints = {}
    CheckptEvery = 3
    ReanchorMax = 0
    FaultKinds = {"reorg"}
    MaxFaults = 1
INVARIANT NoPaymentMissed
 
