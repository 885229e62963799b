\* Two calls, the list and the wallet hand objects to each other while transactions are relayed,
\* confirmed, removed and swept.
SPECIFICATION Spec
CONSTANTS
    c1 = c1
    c2 = c2
    r1 = r1
    send = send
    recv = recv
    p1 = p1
    p2 = p2
    k1 = k1
    k2 = k2
    App = App
    None = None
    Txs = {send, recv}
    Objs = {c1, c2, r1}
    HashOf <- ObjectHashes
    Spends <- SpentBy
    Ours = {send, recv}
    Sends = {send}
    Peers = {p1}
    Calls = {k1, k2}
    Dandelion = {}
    Bloom = {}
    Group <- Groups
    MaxConnect = 1
    MaxFailures = 1
    MaxRejects = 0
    Messages = {"tx", "getdata", "block", "pong"}
    Api = {"publish", "remove"}
INVARIANTS NoStaleEntry OneOwner
PROPERTIES NothingDiscardedStaysListed OnlyTheUserRemovesASend
SYMMETRY Symmetric
