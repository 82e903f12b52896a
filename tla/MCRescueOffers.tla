--------------------------- MODULE MCRescueOffers ---------------------------
(* Instances of RescueOffers.  Windows meet, overlap, enclose each other,   *)
(* or are empty.                                                            *)
EXTENDS RescueOffers, TLC

FeedWindows == {<<0, 2>>, <<1, 3>>, <<2, 3>>, <<2, 2>>}
OddLimits == {0, 2, 3}
ItemSymmetry == Permutations(Items)

=============================================================================
