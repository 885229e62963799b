\* The peers dispute a filter header while a lower height is still a hole.
SPECIFICATION Spec
CONSTANTS
    p1 = p1
    p2 = p2
    NoPeer = NoPeer
    Peers = {p1}
    MaxHeight = 4
    OutstandingMax = 4
    GaveUpMax = 4
    MaxAttempts = 1
    MaxRange = 2
    CyclesMax = 1
    LowWater = 3
    RearmMax = 1
    HdrBatch = 2
    Margin = 0
    SpanMax = 1
    KeepNewest = 0
    SaveCount = 2
    HeldMax = 1
    Birth = 1
    Matches = {2}
    Late = {}
    Reveals = {}
    FalseMatches = {}
    Unjudged = {}
    Checkpoints = {}
    FilterCheckpoints = {}
    CheckptEvery = 2
    ReanchorMax = 1
    FaultKinds = {"checkpoint"}
    MaxFaults = 1
INVARIANT FrontierIsSettled
