-------------------------------- MODULE MCCart --------------------------------
(***************************************************************************)
(* Instances of Cart for TLC: two items of one venue and one of another.   *)
(***************************************************************************)
EXTENDS Cart, TLC

CONSTANTS roma1, roma2, sushi

MenuItem == {roma1, roma2, sushi}

MenuRank == (roma1 :> 1) @@ (sushi :> 2) @@ (roma2 :> 3)

TwoOrMinusOne == {2, -1}

MenuVenue == [i \in MenuItem |-> IF i = sushi THEN "sushi" ELSE "roma"]
===============================================================================
