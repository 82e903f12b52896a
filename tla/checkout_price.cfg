CONSTANTS
    Item = {1, 2}
    Offer = {11}
    OfferItem <- OfferOnFirst
    Discount <- HalfPrice
    OfferStart <- FromZero
    OfferEnd <- UntilOne
    Unlimited = Unlimited
    NoOffer = NoOffer
    Attempt = {t1}
    Client = {c1}
    Key = {k1}
    Hash = {h1}
    NoOrder = NoOrder
    NoKey = NoKey
    Carts <- RescueCarts
    InitItem <- Rescued
    InitOffer <- TwoRescued
    Prices = {20}
    StockValues = {Unlimited}
    MinOrder = 12
    MaxClock = 1
SPECIFICATION Spec
INVARIANT ChargedAsShown
