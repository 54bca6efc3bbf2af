------------------------------ MODULE MCWallet ------------------------------
(* Small instances of Wallet.  The amounts are chosen so that the floor at *)
(* zero, a refused purchase, a deduction below zero and an operation that  *)
(* leaves the balance unchanged all happen.                                *)
EXTENDS Wallet

MCCosts == {1, 3}
MCGrants == {2, -3}
MCPrices == {2}

=============================================================================
