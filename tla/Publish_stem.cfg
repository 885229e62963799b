\* A stem phase beside floods, fluffs, joining peers, requests for unrelayed transactions,
\* blocks, reorganisations and the teardown of the manager.
SPECIFICATION Spec
CONSTANTS
    c1 = c1
    c2 = c2
    r1 = r1
    send = send
    recv = recv
    p1 = p1
    p2 = p2
    k1 = k1
    k2 = k2
    App = App
    None = None
    Txs = {send}
    Objs = {c1}
    HashOf <- ObjectHashes
    Spends <- SpentBy
    Ours = {send}
    Sends = {send}
    Peers = {p1, p2}
    Calls = {k1}
    Dandelion = {p1}
    Bloom = {p2}
    Group <- Groups
    MaxConnect = 2
    MaxFailures = 1
    MaxRejects = 0
    Messages = {"getdata", "pong", "block", "reorg"}
    Api = {"stem", "fluff", "register", "free"}
INVARIANTS TypeOK AnsweredOnce OneOwner
PROPERTY StemStaysPrivate
\* Once the manager is freed the system has stopped.
CHECK_DEADLOCK FALSE
