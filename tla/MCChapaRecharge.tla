-------------------------- MODULE MCChapaRecharge --------------------------
(* Small instances of ChapaRecharge: the exact price, the tolerated cent    *)
(* less, and too little.                                                    *)
EXTENDS ChapaRecharge, TLC

MCPayments == {Price, Price - 1, Price - 2}
Symmetry == Permutations(Orders) \cup Permutations(Handlers)

=============================================================================
