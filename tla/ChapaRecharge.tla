--------------------------- MODULE ChapaRecharge ---------------------------
(***************************************************************************)
(* Recharging a wallet through Chapa: the recharge_orders of a business,   *)
(* its wallet's balance and ledger, the payments known to Chapa, and the   *)
(* handlers of the two callbacks that credit the wallet: Chapa's webhook,  *)
(* and the service-to-service credit of the payment gateway.               *)
(*                                                                         *)
(* A webhook handler SELECTs the order without a lock, awaits Chapa's      *)
(* verification over the network, then credits and completes the order in  *)
(* the transaction get_db commits.  Chapa may deliver a callback several   *)
(* times, early, late, or while an earlier delivery is still in progress.  *)
(***************************************************************************)
EXTENDS Integers, FiniteSets

CONSTANTS
    Orders,       \* the recharge orders of the business
    Handlers,     \* the callback handlers that may run at the same time
    Price,        \* fiat_amount of an order, in cents
    Payments,     \* amounts in cents a customer may pay
    Etg,          \* etg_amount of the package
    Bonus,        \* bonus_etg of the package
    MaxInternal,  \* bound of the model: how many gateway credits are begun
    MaxMet,       \* bound of the model: how often handlers meet on the wallet
    Unreadable,   \* an amount that is no number, or null
    NoOrder

ASSUME ChapaAssumption ==
    /\ Price \in Nat /\ Etg \in Nat /\ Bonus \in Nat
    /\ MaxInternal \in Nat /\ MaxMet \in Nat
    /\ Payments \subseteq Nat \ {0} /\ Unreadable \notin Int
    /\ NoOrder \notin Orders

VARIABLES
    status,    \* status of each order, "none" before the order exists
    paid,      \* what Chapa holds for the order's tx_ref, 0 when nothing
    balance,   \* the committed balance of the wallet
    credits,   \* how many ledger rows refer to each order
    rows,      \* how many ledger rows the wallet has
    handler,   \* the callback handlers
    internals, \* how many gateway credits were begun
    twice,     \* history: orders of which two deliveries ran at the same time
    blind,     \* history: orders Chapa confirmed with an unreadable amount
    met        \* history: how often a handler read a balance another one held

vars == <<status, paid, balance, credits, rows, handler, internals, twice, blind, met>>

Idle == [st |-> "idle", order |-> NoOrder, seen |-> 0]

\* A handler waits for verify, or has read the wallet and is about to commit.
Handler == [st : {"idle", "verifying", "crediting", "internal"},
            order : Orders \cup {NoOrder}, seen : Nat]

TypeOK ==
    /\ status \in [Orders -> {"none", "pending", "completed"}]
    /\ paid \in [Orders -> Payments \cup {0}]
    /\ balance \in Nat /\ rows \in Nat
    /\ credits \in [Orders -> Nat]
    /\ handler \in [Handlers -> Handler]
    /\ \A h \in Handlers : handler[h].st # "idle" => handler[h].order \in Orders
    /\ internals \in 0..MaxInternal
    /\ twice \subseteq Orders /\ blind \subseteq Orders
    /\ met \in 0..MaxMet

-----------------------------------------------------------------------------
Init ==
    /\ status = [o \in Orders |-> "none"]
    /\ paid = [o \in Orders |-> 0]
    /\ balance = 0 /\ rows = 0
    /\ credits = [o \in Orders |-> 0]
    /\ handler = [h \in Handlers |-> Idle]
    /\ internals = 0
    /\ twice = {} /\ blind = {}
    /\ met = 0

\* initiate_recharge: the order and its tx_ref are committed before the
\* owner gets the checkout link.
InitiateRecharge(o) ==
    /\ status[o] = "none"
    /\ status' = [status EXCEPT ![o] = "pending"]
    /\ UNCHANGED <<paid, balance, credits, rows, handler, internals, twice, blind, met>>

\* The customer pays at Chapa, once per tx_ref.
Pay(o, amount) ==
    /\ status[o] # "none"
    /\ paid[o] = 0
    /\ paid' = [paid EXCEPT ![o] = amount]
    /\ UNCHANGED <<status, balance, credits, rows, handler, internals, twice, blind, met>>

\* Mutant: an order that is completed is processed again.
AlwaysOpen(o) == status[o] # "none"

\* Only an order that is pending is processed, any other is answered at once.
Open(o) == status[o] = "pending"

InProgress(o) == \E h \in Handlers : handler[h].order = o /\ handler[h].st \in {"verifying", "crediting"}

\* The webhook arrives, for a payment that is made or not.
Deliver(h, o) ==
    /\ handler[h].st = "idle"
    /\ Open(o)
    /\ handler' = [handler EXCEPT ![h] = [Idle EXCEPT !.st = "verifying", !.order = o]]
    /\ twice' = IF InProgress(o) THEN twice \cup {o} ELSE twice
    /\ UNCHANGED <<status, paid, balance, credits, rows, internals, blind, met>>

\* Mutant: whatever amount was paid is enough.
AnyAmount(amount) == amount # 0

\* One cent less than the price is tolerated.  An amount that float() refuses,
\* or that compares with nothing, is let through.
Enough(amount) == amount # Unreadable => amount + 1 >= Price

\* What verify returns of an order that is paid; of any other it returns None.
Answers(o) == IF paid[o] = 0 THEN {} ELSE {paid[o], Unreadable}

Holds(h) == handler[h].st \in {"crediting", "internal"}

\* A handler SELECTs the wallet, maybe while another is about to write it.
Meet == IF \E h \in Handlers : Holds(h) THEN met < MaxMet /\ met' = met + 1
        ELSE UNCHANGED met

\* Chapa confirms the payment; metering.credit SELECTs the wallet.
Verified(h, amount) ==
    /\ handler[h].st = "verifying"
    /\ amount \in Answers(handler[h].order) /\ Enough(amount)
    /\ handler' = [handler EXCEPT ![h].st = "crediting", ![h].seen = balance]
    /\ blind' = IF amount = Unreadable THEN blind \cup {handler[h].order} ELSE blind
    /\ Meet
    /\ UNCHANGED <<status, paid, balance, credits, rows, internals, twice>>

\* Chapa does not confirm, or too little, or cannot be reached: answered with
\* ok and no credit.  A crash, an exception or a failed commit ends alike.
Abandon(h) ==
    /\ handler[h].st # "idle"
    /\ handler' = [handler EXCEPT ![h] = Idle]
    /\ UNCHANGED <<status, paid, balance, credits, rows, internals, twice, blind, met>>

\* Mutant: the bonus of the package is left out.
PackageOnly(seen) == seen + Etg

Credited(seen) == seen + Etg + Bonus

\* The order is completed and the wallet credited in one transaction.
Complete(h) ==
    /\ handler[h].st = "crediting"
    /\ status' = [status EXCEPT ![handler[h].order] = "completed"]
    /\ balance' = Credited(handler[h].seen)
    /\ rows' = rows + 1
    /\ credits' = [credits EXCEPT ![handler[h].order] = @ + 1]
    /\ handler' = [handler EXCEPT ![h] = Idle]
    /\ UNCHANGED <<paid, internals, twice, blind, met>>

\* The gateway reports a payment; nothing relates its tx_ref to an order.
InternalCredit(h, o) ==
    /\ handler[h].st = "idle"
    /\ internals < MaxInternal
    /\ paid[o] > 0
    /\ handler' = [handler EXCEPT ![h] = [st |-> "internal", order |-> o, seen |-> balance]]
    /\ internals' = internals + 1
    /\ Meet
    /\ UNCHANGED <<status, paid, balance, credits, rows, twice, blind>>

CommitInternal(h) ==
    /\ handler[h].st = "internal"
    /\ balance' = Credited(handler[h].seen)
    /\ rows' = rows + 1
    /\ handler' = [handler EXCEPT ![h] = Idle]
    /\ UNCHANGED <<status, paid, credits, internals, twice, blind, met>>

Next ==
    \/ \E o \in Orders :
        \/ InitiateRecharge(o)
        \/ \E amount \in Payments : Pay(o, amount)
    \/ \E h \in Handlers :
        \/ \E o \in Orders : Deliver(h, o) \/ InternalCredit(h, o)
        \/ \E amount \in Payments \cup {Unreadable} : Verified(h, amount)
        \/ Abandon(h)
        \/ Complete(h)
        \/ CommitInternal(h)

Spec == Init /\ [][Next]_vars

-----------------------------------------------------------------------------
\* No ETG for an order that is not paid, whatever is delivered before the
\* payment is made; and none without its price, up to the tolerated cent, unless
\* Chapa confirmed the payment without saying how much: such an order is credited
\* in full (billing.chapa_webhook: except (TypeError, ValueError): pass).
CreditedOnlyIfPaid ==
    \A o \in Orders : credits[o] > 0 =>
        paid[o] > 0 /\ (paid[o] + 1 >= Price \/ o \in blind)

\* Deliveries of one order that do not overlap in time credit it once, however
\* often Chapa repeats them and whichever of them crash.
CreditedOnceUnlessOverlap == \A o \in Orders \ twice : credits[o] <= 1

Total == Etg + Bonus

Completed == {o \in Orders : status[o] = "completed"}

\* Credits that meet on the wallet overwrite each other, and each time one reads
\* a balance another is about to write costs one package at most: what the
\* ledger says was credited is in the balance but for that, the balance never
\* has more than the ledger, and no order is completed without a row of it,
\* however handlers interleave, crash and are repeated (billing.chapa_webhook,
\* internal_chapa_credit, metering.credit).
LossBounded ==
    /\ balance <= rows * Total
    /\ rows * Total <= balance + met * Total
    /\ Cardinality(Completed) <= rows

\* What the review document says of the webhook: if the order is already
\* completed it returns early, no duplicate credit; idempotent on duplicate
\* tx_refs.
CreditedOnce == \A o \in Orders : credits[o] <= 1

=============================================================================
