--------------------------- MODULE EscrowContract ---------------------------
(***************************************************************************)
(* What escrow promises to a buyer and a creator, without wallets, workers *)
(* or locks: the price of an agent is held, may be frozen by a dispute,    *)
(* and is released at most once, the creator getting the share or, when    *)
(* there is nobody to pay, nothing.                                        *)
(***************************************************************************)
EXTENDS Naturals

CONSTANTS Escrows, Share

VARIABLES stage, payout

vars == <<stage, payout>>

Init ==
    /\ stage = [e \in Escrows |-> "none"]
    /\ payout = [e \in Escrows |-> 0]

Move(e, from, to) ==
    /\ stage[e] = from
    /\ stage' = [stage EXCEPT ![e] = to]

Hold(e) == Move(e, "none", "holding") /\ UNCHANGED payout

Freeze(e) == Move(e, "holding", "frozen") /\ UNCHANGED payout

Thaw(e) == Move(e, "frozen", "holding") /\ UNCHANGED payout

Release(e) ==
    /\ Move(e, "holding", "released")
    /\ payout' \in {payout, [payout EXCEPT ![e] = @ + Share[e]]}

Next == \E e \in Escrows : Hold(e) \/ Freeze(e) \/ Thaw(e) \/ Release(e)

Spec == Init /\ [][Next]_vars

=============================================================================
