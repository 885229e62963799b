\* Threads of lost peers, dials and calls of the application interleave.
SPECIFICATION Spec
CONSTANTS
    a1 = a1
    a2 = a2
    o1 = o1
    o2 = o2
    o3 = o3
    App = App
    None = None
    Addrs = {a1, a2}
    Filters = {a1}
    Services <- Shows
    Claim <- Claims
    Lag = 0
    Objs = {o1, o2, o3}
    MaxFailures = 2
    Enough = 2
    Caps = {1, 2}
    FiltersOnly = TRUE
    Pinned = a1
    Exclusive = FALSE
    Dials <- DialsByAddr
    Retries = {"starts", "waits"}
    MaxTakenBack = 1
    MaxLookups = 1
    Api = {"connect", "add", "cap", "rescan", "disconnect", "free"}
INVARIANTS TypeOK ThreadsAreCounted OnePerAddress SomeoneLeads QuietIsReported StaysDown FreedAlone DeferredFreeIsOwed
SYMMETRY Symmetric
\* A deferred release waits for good behind a dial that waits for the network.
CHECK_DEADLOCK FALSE
