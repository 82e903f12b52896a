CONSTANTS
    Item = {1, 2}
    Offer = {11}
    OfferItem <- OfferOnFirst
    Discount <- HalfPrice
    OfferStart <- FromZero
    OfferEnd <- UntilOne
    Unlimited = Unlimited
    NoOffer = NoOffer
    Attempt = {t1, t2}
    Client = {c1, c2}
    Key = {k1}
    Hash = {h1, h2}
    NoOrder = NoOrder
    NoKey = NoKey
    Carts <- RescueCarts
    InitItem <- Rescued
    InitOffer <- TwoRescued
    Prices = {4}
    StockValues = {}
    MinOrder = 19
    MaxClock = 1
SYMMETRY Symmetric
SPECIFICATION Spec
INVARIANTS
    OneOrderPerKey
    CommittedWhole
    ReplaysAreGenuine
    NeverOversold
    StockAccounted
    RescueUnitsAccounted
PROPERTY LedgerSpec
