\* Requests are sent, lost with their peer and re-sent while blocks are pruned and filter
\* headers disputed, at a checkpoint of the peers or past the re-anchor budget.
SPECIFICATION Spec
CONSTANTS
    p1 = p1
    p2 = p2
    NoPeer = NoPeer
    Peers = {p1}
    MaxHeight = 3
    OutstandingMax = 4
    GaveUpMax = 4
    MaxAttempts = 1
    MaxRange = 2
    CyclesMax = 1
    LowWater = 1
    RearmMax = 1
    HdrBatch = 1
    Margin = 0
    SpanMax = 1
    KeepNewest = 0
    SaveCount = 2
    HeldMax = 1
    Birth = 1
    Matches = {1}
    Late = {}
    Reveals = {}
    FalseMatches = {}
    Unjudged = {1}
    Checkpoints = {3}
    FilterCheckpoints = {2}
    CheckptEvery = 3
    ReanchorMax = 1
    FaultKinds = {"checkpoint", "park", "prune", "disconnect", "reorg", "restart"}
    MaxFaults = 1
INVARIANTS TypeOK FrontierIsSettled CursorLeavesNoGap NoPaymentMissed SavedScanIsDurable
