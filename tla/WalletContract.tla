--------------------------- MODULE WalletContract ---------------------------
(***************************************************************************)
(* What a business may rely on, without requests, columns or caches: its   *)
(* wallet is an account whose operations happen one at a time, each on the *)
(* row as it is, refused when it is not covered, and written in the ledger.*)
(* Once two operations have met, all that is left of it is that nothing is *)
(* owed and that the ledger keeps its rows.                                *)
(***************************************************************************)
EXTENDS WalletOperations

VARIABLES wallet, ledger, apart

vars == <<wallet, ledger, apart>>

Init ==
    /\ wallet = Opened
    /\ ledger = <<>>
    /\ apart = TRUE

Apply(op) ==
    /\ apart
    /\ Admits(op, wallet)
    /\ BalanceCheck(After(op, wallet))
    /\ wallet' = After(op, wallet)
    /\ ledger' = ledger \o Entries(op, wallet)
    /\ UNCHANGED apart

Meet ==
    /\ apart
    /\ apart' = FALSE
    /\ UNCHANGED <<wallet, ledger>>

Solvent(row) == row.balance >= 0 /\ row.escrow >= 0

Keeps(older, newer) ==
    /\ Len(older) <= Len(newer)
    /\ \A i \in 1..Len(older) : newer[i] = older[i]

Race ==
    /\ ~apart
    /\ Solvent(wallet')
    /\ Keeps(ledger, ledger')
    /\ UNCHANGED apart

Next == Meet \/ Race \/ \E op \in Op : Apply(op)

Spec == Init /\ [][Next]_vars

=============================================================================
