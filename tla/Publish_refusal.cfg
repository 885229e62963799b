\* Peers of two groups reject, announce, ask for and lose a send.
SPECIFICATION FairSpec
CONSTANTS
    c1 = c1
    c2 = c2
    r1 = r1
    send = send
    recv = recv
    p1 = p1
    p2 = p2
    k1 = k1
    k2 = k2
    App = App
    None = None
    Txs = {send}
    Objs = {c1}
    HashOf <- ObjectHashes
    Spends <- SpentBy
    Ours = {send}
    Sends = {send}
    Peers = {p1, p2}
    Calls = {k1}
    Dandelion = {}
    Bloom = {}
    Group <- Groups
    MaxConnect = 2
    MaxFailures = 1
    MaxRejects = 2
    Messages = {"inv", "getdata", "reject", "notfound", "conflict"}
    Api = {"publish"}
INVARIANT TakenIsNeverRefused
PROPERTY QueuedIsDelivered
