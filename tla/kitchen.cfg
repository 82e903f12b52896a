SPECIFICATION FairSyncSpec
CONSTANTS
    Order = {o1}
    Item = {i1}
    Handler = {h1, h2}
    Staff = {s1}
    Basket <- TwoAndTwo
    Menu <- FourEach
    Corrections <- TwoOrMinusOne
    MaxSeen = 10
    MaxCancels = 1
    MaxFaults = 2
    NoOrder = NoOrder
    NoCall = NoCall
    o1 = o1
    i1 = i1
    h1 = h1
    h2 = h2
    s1 = s1
INVARIANTS
    ReservedAtMostOnce
    NeverAhead
    ShortByOneOrder
PROPERTIES
    OrdersAreDecided
    StocksAgree
