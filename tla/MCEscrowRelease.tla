-------------------------- MODULE MCEscrowRelease --------------------------
(* A small instance of EscrowRelease: a price whose share falls short of 70 *)
(* percent in binary floating point (int(90 * 0.70) = 62), one of a         *)
(* fractional share, and one whose creator has no wallet to pay into.       *)
EXTENDS EscrowRelease

CONSTANTS e1, e2, e3
MCAmount == [e \in Escrows |-> CASE e = e1 -> 90 [] e = e2 -> 15 [] OTHER -> 10]
MCPayable == Escrows \ {e3}
MCShortFloats == {90}

=============================================================================
