\* Headers arrive in any order and more than once, are pruned, rescanned and reloaded.
SPECIFICATION Spec
CONSTANTS
    g = g
    a1 = a1
    a2 = a2
    a3 = a3
    b2 = b2
    b3 = b3
    None = None
    Hashes = {g, a1, a2, b2, b3}
    Prev <- Links
    HeightOf <- Heights
    Checkpoints = {g, a1}
    Birth = g
    Starts = {None, a2}
    OrphanMax = 2
    PruneFrom = 3
    PruneDepth = 1
    SaveCount = 2
    Stride = 1
    IndexMax = 2
    Copies = 2
    Carriers = 2
INVARIANTS OneOwner IndexTellsTheChain FloorIsCurrent TipIsBest
VIEW UpToNames
