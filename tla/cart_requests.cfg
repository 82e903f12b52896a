SPECIFICATION FairSpec
CONSTANTS
    Request = {r1, r2, r3}
    r1 = r1
    r2 = r2
    r3 = r3
    Item <- MenuItem
    VenueOf <- MenuVenue
    Quantity <- TwoOrMinusOne
    Rank <- MenuRank
    NoCart = NoCart
    Free = Free
    NoVenue = NoVenue
    NoItem = NoItem
    roma1 = roma1
    roma2 = roma2
    sushi = sushi
INVARIANTS
    OneVenueOneLine
PROPERTIES
    ClientCartSpec
    EveryRequestAnswered
CHECK_DEADLOCK FALSE
