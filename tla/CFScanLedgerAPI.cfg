\* Every call of the ledger, in every order, over two heights and one peer.
SPECIFICATION Spec
CONSTANTS
    p1 = p1
    Peers = {p1}
    NoPeer = NoPeer
    MaxHeight = 2
    OutstandingMax = 2
    GaveUpMax = 3
    MaxAttempts = 1
    MaxRange = 1
    CyclesMax = 1
    LowWater = 1
INVARIANTS TypeOK NoHeightLost FrontierIsSettled
 
