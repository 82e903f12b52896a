------------------------------- MODULE MCKitchen -------------------------------
(***************************************************************************)
(* An instance of StockSync, and with it of Kitchen, for TLC.              *)
(***************************************************************************)
EXTENDS StockSync

\* four portions of every dish in every order, half of them rescued
TwoAndTwo == [o \in Order |-> [i \in Item |-> [part \in Part |-> 2]]]

FourEach == [i \in Item |-> 4]

\* enough for each line and not for both; less than none
TwoOrMinusOne == {2, -1}
================================================================================
