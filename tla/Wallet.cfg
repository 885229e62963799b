\* Relays, blocks, reorganisations, a server, removals and reloads reach the wallet in any order.
SPECIFICATION Spec
CONSTANTS
    f = f
    a = a
    b = b
    Txs = {f, a, b}
    Ins <- RewardAndTwoSpends
    Pays <- Addressed
    Signed <- ASigned
    Delayed = {a}
    Coinbase = {f}
    MaxHeight = 3
    Maturity = 1
    Gap = 1
    Cushion = 0
    ForeignMax = 1
    DualKey = TRUE
    Claims <- AtEitherHeight
    Assets <- Rewards
    Api = {"restamp", "reorg", "remove", "load"}
INVARIANTS
    TypeOK
    ListedByHeight
    SpentIsNeverOffered
    UnsignedSpendsNothing
    
    CreditedCoinbaseIsMature
