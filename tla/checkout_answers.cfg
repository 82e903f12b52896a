CONSTANTS
    Item = {1, 2}
    Offer = {11}
    OfferItem <- OfferOnFirst
    Discount <- HalfPrice
    OfferStart <- FromZero
    OfferEnd <- UntilOne
    Unlimited = Unlimited
    NoOffer = NoOffer
    Attempt = {t1, t2}
    Client = {c1}
    Key = {k1, k2}
    Hash = {h1}
    NoOrder = NoOrder
    NoKey = NoKey
    Carts <- OverlappingCarts
    InitItem <- Plenty
    InitOffer <- TwoRescued
    Prices = {}
    StockValues = {Unlimited}
    MinOrder = 0
    MaxClock = 0
SPECIFICATION FairSpec
INVARIANT NoWaitCycle
PROPERTY EveryAttemptAnswered
