-------------------------- MODULE WalletOperations --------------------------
(***************************************************************************)
(* The row of token_wallets, the rows of etg_transactions, and what each   *)
(* operation on a wallet computes from the row it is given: a reply, a     *)
(* credit, the purchase of an agent, an AI generation.                     *)
(***************************************************************************)
EXTENDS Integers, Sequences

CONSTANTS
    Costs,      \* platform costs a reply may have
    Grants,     \* amounts metering.credit is called with; an admin may deduct
    Prices,     \* prices of agents on the marketplace
    Markup,     \* business_markup, earned on a message the customer pays for
    GenCost,    \* _GEN_COST_ETG, the price of one AI generation
    Opening     \* balance of the wallet at the start, e.g. the welcome bonus

ASSUME AmountsAssumption ==
    /\ Costs \subseteq Nat
    /\ Grants \subseteq Int
    /\ Prices \subseteq Nat
    /\ Markup \in Nat
    /\ GenCost \in Nat
    /\ Opening \in Nat

Row == [balance : Int, escrow : Int, spent : Int]

(* A reply paid by the business, by both sides, by the customer; a credit; *)
(* the purchase of an agent; an AI generation in the dashboard.            *)
Op == [kind : {"business", "both"}, amount : Costs]
        \cup [kind : {"user"}, amount : {Markup}]
        \cup [kind : {"credit"}, amount : Grants]
        \cup [kind : {"unlock"}, amount : Prices]
        \cup [kind : {"generate"}, amount : {GenCost}]

Entry == [amount : Int, before : Int, after : Int]

Opened == [balance |-> Opening, escrow |-> 0, spent |-> 0]

-----------------------------------------------------------------------------
(* What one operation computes from the row it has read.                   *)

NonNegative(n) == IF n < 0 THEN 0 ELSE n

\* The cost of a reply is taken from the balance but never below zero.
Debited(op, row) == NonNegative(row.balance - op.amount)

NewBalance(op, row) ==
    CASE op.kind = "business" -> Debited(op, row)
      [] op.kind = "both"     -> Debited(op, row) + Markup
      [] op.kind \in {"user", "credit"}     -> row.balance + op.amount
      [] op.kind \in {"unlock", "generate"} -> row.balance - op.amount

After(op, row) ==
    [balance |-> NewBalance(op, row),
     escrow  |-> row.escrow + (IF op.kind = "unlock" THEN op.amount ELSE 0),
     spent   |-> row.spent + (IF op.kind \in {"business", "both", "generate"}
                                THEN op.amount ELSE 0)]

\* Mutant: the profit's row repeats the balance from before the debit.
EntriesFromBefore(op, row) ==
    LET debit == [amount |-> -op.amount, before |-> row.balance, after |-> Debited(op, row)]
        gain  == [amount |-> op.amount, before |-> row.balance, after |-> row.balance + op.amount]
    IN  CASE op.kind = "business" -> <<debit>>
          [] op.kind = "both"     -> <<debit, [gain EXCEPT !.amount = Markup,
                                                           !.after = row.balance + Markup]>>
          [] op.kind \in {"user", "credit"}     -> <<gain>>
          [] op.kind \in {"unlock", "generate"} -> <<>>

\* The ledger rows of an operation; a purchase and a generation write none.
Entries(op, row) ==
    LET debit  == [amount |-> -op.amount, before |-> row.balance, after |-> Debited(op, row)]
        profit(before) == [amount |-> Markup, before |-> before, after |-> before + Markup]
        earned(before) == IF Markup = 0 THEN <<>> ELSE <<profit(before)>>
    IN  CASE op.kind = "business" -> <<debit>>
          [] op.kind = "both"     -> <<debit>> \o earned(Debited(op, row))
          [] op.kind = "user"     -> earned(row.balance)
          [] op.kind = "credit"   -> <<[amount |-> op.amount, before |-> row.balance,
                                        after |-> row.balance + op.amount]>>
          [] op.kind \in {"unlock", "generate"} -> <<>>

\* A purchase and a generation are refused or left uncharged without funds.
Admits(op, row) == op.kind \in {"unlock", "generate"} => row.balance >= op.amount

\* Mutant: the table without its constraint.
NoBalanceCheck(row) == TRUE

\* The column constraint of token_wallets.balance.
BalanceCheck(row) == row.balance >= 0

=============================================================================
