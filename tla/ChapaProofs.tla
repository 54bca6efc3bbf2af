---------------------------- MODULE ChapaProofs ----------------------------
(***************************************************************************)
(* What ChapaRecharge promises for any number of orders and handlers.      *)
(*                                                                         *)
(* The inductive invariant follows the handlers: one that is crediting has *)
(* a confirmed payment; as long as deliveries of an order do not overlap   *)
(* it has at most one handler, which has not credited it yet; and what the *)
(* handlers that hold a balance can still lose by writing it is no more    *)
(* than one package for each time that handlers have met.                  *)
(***************************************************************************)
EXTENDS ChapaRecharge, FiniteSetTheorems, TLAPS

Busy(h, o) == handler[h].order = o /\ handler[h].st \in {"verifying", "crediting"}

Confirmed(o) == paid[o] > 0 /\ (paid[o] + 1 >= Price \/ o \in blind)

PaymentInv ==
    /\ \A o \in Orders : credits[o] > 0 => Confirmed(o)
    /\ \A h \in Handlers : handler[h].st = "crediting" => Confirmed(handler[h].order)

\* Completing an order and crediting the wallet never come apart.
CompletedIffCredited == \A o \in Orders : status[o] = "completed" <=> credits[o] > 0

OnceInv ==
    /\ CompletedIffCredited
    /\ \A o \in Orders \ twice :
        /\ credits[o] <= 1
        /\ \A h \in Handlers : Busy(h, o) => credits[o] = 0
        /\ \A g, h \in Handlers : Busy(g, o) /\ Busy(h, o) => g = h

Holders == {h \in Handlers : Holds(h)}

\* A holder h that writes last takes back what the other holders write before,
\* and what was written since it read.
LossInv ==
    LET n == Cardinality(Holders) IN
    /\ IsFiniteSet(Holders)
    /\ balance <= rows * Total
    /\ rows * Total <= balance + met * Total
    /\ rows * Total + n * Total <= balance + met * Total + Total
    /\ \A h \in Holders :
        /\ handler[h].seen <= rows * Total
        /\ rows * Total + n * Total <= handler[h].seen + met * Total + Total

CompletedInv == IsFiniteSet(Completed) /\ Cardinality(Completed) <= rows

-----------------------------------------------------------------------------
LEMMA IdleHandler == Idle \in Handler /\ Idle.st = "idle"
BY DEF Idle, Handler

LEMMA InitType == Init => TypeOK
<1> SUFFICES ASSUME Init PROVE TypeOK
  OBVIOUS
<1>1. /\ status \in [Orders -> {"none", "pending", "completed"}]
      /\ paid \in [Orders -> Payments \cup {0}]
      /\ credits \in [Orders -> Nat]
  BY DEF Init
<1>2. balance \in Nat /\ rows \in Nat /\ twice \subseteq Orders /\ blind \subseteq Orders
  BY DEF Init
<1>3. internals \in 0..MaxInternal /\ met \in 0..MaxMet
  BY ChapaAssumption DEF ChapaAssumption, Init
<1>4. handler \in [Handlers -> Handler] /\ \A h \in Handlers : handler[h].st = "idle"
  BY IdleHandler DEF Init
<1> QED
  BY <1>1, <1>2, <1>3, <1>4 DEF TypeOK

LEMMA NextType == TypeOK /\ [Next]_vars => TypeOK'
<1> SUFFICES ASSUME TypeOK, [Next]_vars PROVE TypeOK'
  OBVIOUS
<1> USE ChapaAssumption DEF TypeOK, ChapaAssumption
<1>1. ASSUME NEW o \in Orders, InitiateRecharge(o) PROVE TypeOK'
  BY <1>1 DEF InitiateRecharge
<1>2. ASSUME NEW o \in Orders, NEW amount \in Payments, Pay(o, amount) PROVE TypeOK'
  BY <1>2 DEF Pay
<1>3. ASSUME NEW h \in Handlers, NEW o \in Orders, Deliver(h, o) PROVE TypeOK'
  <2>1. [Idle EXCEPT !.st = "verifying", !.order = o] \in Handler
    BY DEF Idle, Handler
  <2>2. handler' \in [Handlers -> Handler] /\ handler'[h].order = o
    BY <1>3, <2>1 DEF Deliver, Idle
  <2>3. \A g \in Handlers \ {h} : handler'[g] = handler[g]
    BY <1>3 DEF Deliver
  <2>4. twice' \subseteq Orders
    BY <1>3 DEF Deliver
  <2> QED BY <1>3, <2>2, <2>3, <2>4 DEF Deliver
<1>4. ASSUME NEW h \in Handlers, NEW o \in Orders, InternalCredit(h, o) PROVE TypeOK'
  <2>1. handler' \in [Handlers -> Handler]
    BY <1>4 DEF InternalCredit, Handler
  <2>2. \A g \in Handlers : handler'[g] = handler[g] \/ handler'[g].order = o
    BY <1>4 DEF InternalCredit
  <2>3. internals' \in 0..MaxInternal /\ met' \in 0..MaxMet
    BY <1>4 DEF InternalCredit, Meet
  <2> QED BY <1>4, <2>1, <2>2, <2>3 DEF InternalCredit
<1>5. ASSUME NEW h \in Handlers, NEW amount \in Payments \cup {Unreadable}, Verified(h, amount)
      PROVE  TypeOK'
  <2>0. met' \in 0..MaxMet
    BY <1>5 DEF Verified, Meet
  <2>1. handler' \in [Handlers -> Handler]
    BY <1>5 DEF Verified, Handler
  <2>3. blind' \subseteq Orders
    BY <1>5 DEF Verified
  <2>2. \A g \in Handlers : handler'[g].order = handler[g].order
                            /\ (handler'[g].st # "idle" => handler[g].st # "idle")
    BY <1>5 DEF Verified, Handler
  <2> QED BY <1>5, <2>0, <2>1, <2>2, <2>3 DEF Verified
<1>6. ASSUME NEW h \in Handlers, Abandon(h) PROVE TypeOK'
  BY <1>6, IdleHandler DEF Abandon
<1>7. ASSUME NEW h \in Handlers, Complete(h) PROVE TypeOK'
  <2>1. handler[h].order \in Orders /\ handler[h].seen \in Nat
    BY <1>7 DEF Complete, Handler
  <2>2. balance' \in Nat /\ rows' \in Nat
    BY <1>7, <2>1 DEF Complete, Credited
  <2>3. credits' \in [Orders -> Nat] /\ status' \in [Orders -> {"none", "pending", "completed"}]
    BY <1>7, <2>1 DEF Complete
  <2>4. handler' \in [Handlers -> Handler] /\ \A g \in Handlers : handler'[g] \in {Idle, handler[g]}
    BY <1>7, IdleHandler DEF Complete
  <2> QED BY <1>7, <2>2, <2>3, <2>4, IdleHandler DEF Complete
<1>8. ASSUME NEW h \in Handlers, CommitInternal(h) PROVE TypeOK'
  <2>1. handler[h].seen \in Nat
    BY DEF Handler
  <2>2. balance' \in Nat /\ rows' \in Nat
    BY <1>8, <2>1 DEF CommitInternal, Credited
  <2>3. handler' \in [Handlers -> Handler] /\ \A g \in Handlers : handler'[g] \in {Idle, handler[g]}
    BY <1>8, IdleHandler DEF CommitInternal
  <2> QED BY <1>8, <2>2, <2>3, IdleHandler DEF CommitInternal
<1>9. CASE UNCHANGED vars
  BY <1>9 DEF vars
<1> QED
  BY <1>1, <1>2, <1>3, <1>4, <1>5, <1>6, <1>7, <1>8, <1>9 DEF Next

\* The state of the orders, the wallet and the handlers stays well formed.
THEOREM TypeCorrect == Spec => []TypeOK
BY InitType, NextType, PTL DEF Spec

-----------------------------------------------------------------------------
LEMMA InitInvs == Init => PaymentInv /\ OnceInv /\ LossInv /\ CompletedInv
<1> SUFFICES ASSUME Init PROVE PaymentInv /\ OnceInv /\ LossInv /\ CompletedInv
  OBVIOUS
<1>1. /\ \A o \in Orders : credits[o] = 0 /\ status[o] = "none"
      /\ \A h \in Handlers : handler[h].st = "idle"
      /\ balance = 0 /\ rows = 0 /\ met = 0
  BY IdleHandler DEF Init
<1>2. PaymentInv /\ OnceInv
  BY <1>1 DEF PaymentInv, OnceInv, CompletedIffCredited, Busy
<1>3. LossInv
  <2>1. Holders = {}
    BY <1>1 DEF Holders, Holds
  <2>2. 0 * Total = 0 /\ Total \in Nat
    BY ChapaAssumption DEF ChapaAssumption, Total
  <2> QED BY <1>1, <2>1, <2>2, FS_EmptySet DEF LossInv
<1>4. CompletedInv
  <2>1. Completed = {}
    BY <1>1 DEF Completed
  <2> QED BY <1>1, <2>1, FS_EmptySet DEF CompletedInv
<1> QED BY <1>2, <1>3, <1>4

LEMMA NextPayment == TypeOK /\ PaymentInv /\ [Next]_vars => PaymentInv'
<1> SUFFICES ASSUME TypeOK, PaymentInv, [Next]_vars PROVE PaymentInv'
  OBVIOUS
<1> USE DEF TypeOK, PaymentInv, Confirmed
<1>1. ASSUME NEW o \in Orders, InitiateRecharge(o) PROVE PaymentInv'
  BY <1>1 DEF InitiateRecharge
<1>2. ASSUME NEW o \in Orders, NEW amount \in Payments, Pay(o, amount) PROVE PaymentInv'
  <2>1. \A p \in Orders : paid[p] > 0 => paid'[p] = paid[p]
    BY <1>2 DEF Pay
  <2>2. credits' = credits /\ handler' = handler /\ blind' = blind
    BY <1>2 DEF Pay
  <2>3. \A p \in Orders : Confirmed(p) => Confirmed(p)'
    BY <2>1, <2>2
  <2> QED BY <2>2, <2>3
<1>3. ASSUME NEW h \in Handlers, NEW o \in Orders, Deliver(h, o) \/ InternalCredit(h, o)
      PROVE PaymentInv'
  <2>1. credits' = credits /\ paid' = paid /\ blind' = blind
    BY <1>3 DEF Deliver, InternalCredit
  <2>2. \A g \in Handlers : handler'[g].st = "crediting" => handler'[g] = handler[g]
    <3>1. \A g \in Handlers \ {h} : handler'[g] = handler[g]
      BY <1>3 DEF Deliver, InternalCredit
    <3>2. CASE Deliver(h, o)
      BY <3>1, <3>2 DEF Deliver, Idle
    <3>3. CASE InternalCredit(h, o)
      BY <3>1, <3>3 DEF InternalCredit
    <3> QED BY <1>3, <3>2, <3>3
  <2> QED BY <2>1, <2>2
<1>4. ASSUME NEW h \in Handlers, NEW amount \in Payments \cup {Unreadable}, Verified(h, amount)
      PROVE PaymentInv'
  <2>1. credits' = credits /\ paid' = paid /\ blind \subseteq blind'
    BY <1>4 DEF Verified
  <2>2. \A g \in Handlers : handler'[g].order = handler[g].order
    BY <1>4 DEF Verified, Handler
  <2>3. \A g \in Handlers \ {h} : handler'[g] = handler[g]
    BY <1>4 DEF Verified
  <2>4. handler[h].order \in Orders
    BY <1>4 DEF Verified
  <2>5. Confirmed(handler[h].order)'
    <3>1. paid[handler[h].order] # 0 /\ amount \in {paid[handler[h].order], Unreadable}
      BY <1>4 DEF Verified, Answers
    <3>2. paid[handler[h].order] > 0
      BY <2>4, <3>1, ChapaAssumption DEF ChapaAssumption
    <3>3. CASE amount = Unreadable
      BY <1>4, <2>1, <2>2, <3>2, <3>3 DEF Verified
    <3>4. CASE amount # Unreadable
      BY <1>4, <2>1, <2>2, <3>1, <3>2, <3>4 DEF Verified, Enough
    <3> QED BY <3>3, <3>4
  <2>6. \A o \in Orders : Confirmed(o) => Confirmed(o)'
    BY <2>1
  <2> QED BY <2>1, <2>2, <2>3, <2>5, <2>6
<1>5. ASSUME NEW h \in Handlers, Abandon(h) \/ CommitInternal(h) PROVE PaymentInv'
  BY <1>5, IdleHandler DEF Abandon, CommitInternal
<1>6. ASSUME NEW h \in Handlers, Complete(h) PROVE PaymentInv'
  <2>1. Confirmed(handler[h].order) /\ paid' = paid /\ blind' = blind
    BY <1>6 DEF Complete
  <2>2. \A o \in Orders : credits'[o] = credits[o] \/ o = handler[h].order
    BY <1>6 DEF Complete
  <2>3. \A g \in Handlers : handler'[g].st = "crediting" => handler'[g] = handler[g]
    BY <1>6, IdleHandler DEF Complete
  <2> QED BY <2>1, <2>2, <2>3
<1>7. CASE UNCHANGED vars
  BY <1>7 DEF vars
<1> QED
  BY <1>1, <1>2, <1>3, <1>4, <1>5, <1>6, <1>7 DEF Next

\* No wallet is credited for an order that is not paid at Chapa, and for none
\* below its price but those whose amount Chapa gave in a form the webhook
\* cannot read and lets through (billing.chapa_webhook).
THEOREM NoCreditWithoutPayment == Spec => []CreditedOnlyIfPaid
<1>1. PaymentInv => CreditedOnlyIfPaid
  BY DEF PaymentInv, CreditedOnlyIfPaid, Confirmed
<1> QED
  BY <1>1, InitInvs, NextPayment, TypeCorrect, PTL DEF Spec

-----------------------------------------------------------------------------
LEMMA NextOnce == TypeOK /\ OnceInv /\ [Next]_vars => OnceInv'
<1> SUFFICES ASSUME TypeOK, OnceInv, [Next]_vars PROVE OnceInv'
  OBVIOUS
<1> USE DEF TypeOK, OnceInv, CompletedIffCredited, Busy
<1>1. ASSUME NEW o \in Orders, InitiateRecharge(o) PROVE OnceInv'
  BY <1>1 DEF InitiateRecharge
<1>2. ASSUME NEW o \in Orders, NEW amount \in Payments, Pay(o, amount) PROVE OnceInv'
  BY <1>2 DEF Pay
<1>3. ASSUME NEW h \in Handlers, NEW o \in Orders, Deliver(h, o) PROVE OnceInv'
  <2>1. status' = status /\ credits' = credits /\ credits[o] = 0
    BY <1>3 DEF Deliver, Open
  <2>2. handler'[h].order = o /\ \A g \in Handlers \ {h} : handler'[g] = handler[g]
    BY <1>3 DEF Deliver, Idle
  <2>3. o \notin twice' => \A g \in Handlers : ~Busy(g, o)
    BY <1>3 DEF Deliver, InProgress
  <2>4. twice \subseteq twice'
    BY <1>3 DEF Deliver
  <2> QED BY <2>1, <2>2, <2>3, <2>4
<1>4. ASSUME NEW h \in Handlers, NEW o \in Orders, InternalCredit(h, o) PROVE OnceInv'
  BY <1>4 DEF InternalCredit
<1>5. ASSUME NEW h \in Handlers, NEW amount \in Payments \cup {Unreadable}, Verified(h, amount)
      PROVE  OnceInv'
  <2>1. status' = status /\ credits' = credits /\ twice' = twice
    BY <1>5 DEF Verified
  <2>2. \A g \in Handlers, o \in Orders : Busy(g, o)' => Busy(g, o)
    BY <1>5 DEF Verified, Handler
  <2> QED BY <2>1, <2>2
<1>6. ASSUME NEW h \in Handlers, Abandon(h) \/ CommitInternal(h) PROVE OnceInv'
  <2>1. status' = status /\ credits' = credits /\ twice' = twice
    BY <1>6 DEF Abandon, CommitInternal
  <2>2. \A g \in Handlers, o \in Orders : Busy(g, o)' => Busy(g, o)
    BY <1>6, IdleHandler DEF Abandon, CommitInternal
  <2> QED BY <2>1, <2>2
<1>7. ASSUME NEW h \in Handlers, Complete(h) PROVE OnceInv'
  <2>0. PICK o \in Orders : o = handler[h].order
    BY <1>7 DEF Complete
  <2>1. Busy(h, o)
    BY <1>7, <2>0 DEF Complete
  <2>2. credits'[o] = credits[o] + 1 /\ status'[o] = "completed"
        /\ \A p \in Orders \ {o} : credits'[p] = credits[p] /\ status'[p] = status[p]
    BY <1>7, <2>0 DEF Complete
  <2>3. \A g \in Handlers, p \in Orders : Busy(g, p)' => Busy(g, p) /\ g # h
    BY <1>7, IdleHandler DEF Complete
  <2>4. twice' = twice
    BY <1>7 DEF Complete
  <2>5. o \notin twice => credits[o] = 0 /\ \A g \in Handlers : ~Busy(g, o)'
    <3>1. o \notin twice => credits[o] = 0 /\ \A g \in Handlers : Busy(g, o) => g = h
      BY <2>1
    <3> QED BY <2>1, <2>3, <3>1
  <2>6. credits[o] \in Nat
    BY <2>1
  <2>7. CompletedIffCredited'
    BY <2>1, <2>2, <2>6
  <2>8. ASSUME NEW p \in Orders, p \notin twice
        PROVE  /\ credits'[p] <= 1
               /\ \A g \in Handlers : Busy(g, p)' => credits'[p] = 0
               /\ \A f, g \in Handlers : Busy(f, p)' /\ Busy(g, p)' => f = g
    <3>1. CASE p = o
      BY <2>2, <2>5, <2>8, <3>1
    <3>2. CASE p # o
      <4>1. credits'[p] = credits[p]
        BY <2>2, <3>2
      <4> QED BY <2>3, <2>8, <4>1
    <3> QED BY <3>1, <3>2
  <2> QED BY <2>4, <2>7, <2>8
<1>8. CASE UNCHANGED vars
  BY <1>8 DEF vars
<1> QED
  BY <1>1, <1>2, <1>3, <1>4, <1>5, <1>6, <1>7, <1>8 DEF Next

\* Deliveries that do not overlap credit an order once.
THEOREM NoDoubleCreditWithoutOverlap == Spec => []CreditedOnceUnlessOverlap
<1>1. OnceInv => CreditedOnceUnlessOverlap
  BY DEF OnceInv, CreditedOnceUnlessOverlap
<1> QED
  BY <1>1, InitInvs, NextOnce, TypeCorrect, PTL DEF Spec

-----------------------------------------------------------------------------
LEMMA Multiples ==
    /\ Total \in Nat
    /\ \A a \in Int : a * Total \in Int
    /\ \A a \in Int : (a + 1) * Total = a * Total + Total
<1>1. Total \in Nat
  BY ChapaAssumption DEF ChapaAssumption, Total
<1> QED BY <1>1

\* A handler reads the balance, alone or beside others that hold one.
LEMMA LossRead ==
    ASSUME TypeOK, LossInv, NEW h \in Handlers, ~Holds(h), Meet, UNCHANGED <<balance, rows>>,
           Holds(h)', handler'[h].seen = balance,
           \A g \in Handlers \ {h} : handler'[g] = handler[g]
    PROVE  LossInv'
<1> DEFINE n == Cardinality(Holders)
           m == Cardinality(Holders')
           T(a) == a * Total
<1>1. Holders' = Holders \cup {h} /\ h \notin Holders
  BY DEF Holders, Holds
<1>2. IsFiniteSet(Holders') /\ m = n + 1 /\ n \in Nat
  BY <1>1, FS_AddElement, FS_CardinalityType DEF LossInv
<1>3. balance \in Nat /\ rows \in Nat /\ met \in Nat /\ \A g \in Holders : handler[g].seen \in Nat
  BY ChapaAssumption DEF TypeOK, Handler, Holders, ChapaAssumption
<1>4. /\ T(rows) \in Int /\ T(met) \in Int /\ T(n) \in Int /\ Total \in Nat
      /\ T(n + 1) = T(n) + Total /\ T(met + 1) = T(met) + Total
  <2>1. Total \in Nat /\ \A a \in Int : T(a) \in Int /\ T(a + 1) = T(a) + Total
    BY Multiples
  <2> HIDE DEF T, m, n
  <2> QED BY <1>2, <1>3, <2>1
<1>5. Holders = {} => n = 0 /\ met' = met
  BY FS_EmptySet DEF Meet, Holders
<1>6. Holders # {} => met' = met + 1
  BY DEF Meet, Holders
<1>7. T(0) = 0
  BY Multiples DEF Total
<1>8. /\ balance <= T(rows) /\ T(rows) <= balance + T(met)
      /\ T(rows) + T(n) <= balance + T(met) + Total
      /\ \A g \in Holders : /\ handler[g].seen <= T(rows)
                             /\ T(rows) + T(n) <= handler[g].seen + T(met) + Total
  BY DEF LossInv
<1> HIDE DEF n, T
<1>9. /\ T(rows) <= balance + T(met')
      /\ T(rows) + T(m) <= balance + T(met') + Total
  <2>1. CASE Holders = {}
    BY <1>2, <1>3, <1>4, <1>5, <1>7, <1>8, <2>1
  <2>2. CASE Holders # {}
    BY <1>2, <1>3, <1>4, <1>6, <1>8, <2>2
  <2> QED BY <2>1, <2>2
<1>10. ASSUME NEW g \in Holders'
       PROVE  /\ handler'[g].seen <= T(rows)
              /\ T(rows) + T(m) <= handler'[g].seen + T(met') + Total
  <2>1. CASE g = h
    BY <1>8, <1>9, <2>1
  <2>2. CASE g # h
    <3>1. g \in Holders /\ handler'[g] = handler[g]
      BY <1>1, <2>2 DEF Holders
    <3> QED BY <1>2, <1>3, <1>4, <1>6, <1>8, <3>1
  <2> QED BY <2>1, <2>2
<1> USE DEF n, T
<1> QED BY <1>2, <1>8, <1>9, <1>10 DEF LossInv

\* A holder writes what it has read and a package.
LEMMA LossWritten ==
    ASSUME TypeOK, LossInv, NEW h \in Handlers, Holds(h), ~Holds(h)', UNCHANGED met,
           balance' = Credited(handler[h].seen), rows' = rows + 1,
           \A g \in Handlers \ {h} : handler'[g] = handler[g]
    PROVE  LossInv'
<1> DEFINE n == Cardinality(Holders)
           m == Cardinality(Holders')
           T(a) == a * Total
<1>1. Holders' = Holders \ {h} /\ h \in Holders
  BY DEF Holders, Holds
<1>2. IsFiniteSet(Holders') /\ n = m + 1 /\ m \in Nat
  <2>1. IsFiniteSet(Holders') /\ m = n - 1 /\ n \in Nat /\ m \in Nat
    BY <1>1, FS_RemoveElement, FS_CardinalityType DEF LossInv
  <2> QED BY <2>1
<1>3. balance \in Nat /\ rows \in Nat /\ met \in Nat /\ \A g \in Holders : handler[g].seen \in Nat
  BY ChapaAssumption DEF TypeOK, Handler, Holders, ChapaAssumption
<1>4. /\ T(rows) \in Int /\ T(met) \in Int /\ T(m) \in Int /\ Total \in Nat
      /\ T(m + 1) = T(m) + Total /\ T(rows + 1) = T(rows) + Total
  BY <1>2, <1>3, Multiples
<1>5. T(m) >= 0
  BY <1>2, <1>4
<1>6. balance' = handler[h].seen + Total
  BY <1>1, <1>3, ChapaAssumption DEF Credited, Total, ChapaAssumption
<1>7. /\ balance <= T(rows) /\ T(rows) <= balance + T(met)
      /\ \A g \in Holders : /\ handler[g].seen <= T(rows)
                             /\ T(rows) + T(n) <= handler[g].seen + T(met) + Total
  BY DEF LossInv
<1> HIDE DEF n, m, T
<1>8. /\ balance' <= T(rows')
      /\ T(rows') <= balance' + T(met)
      /\ T(rows') + T(m) <= balance' + T(met) + Total
  BY <1>1, <1>2, <1>3, <1>4, <1>5, <1>6, <1>7
<1>9. ASSUME NEW g \in Holders'
      PROVE  /\ handler'[g].seen <= T(rows')
             /\ T(rows') + T(m) <= handler'[g].seen + T(met) + Total
  <2>1. g \in Holders /\ handler'[g] = handler[g]
    BY <1>1 DEF Holders
  <2> QED BY <1>2, <1>3, <1>4, <1>7, <2>1
<1> USE DEF n, m, T
<1> QED BY <1>2, <1>8, <1>9 DEF LossInv

\* A handler gives up, whether it held a balance or not; and what reads and
\* writes no balance.
LEMMA LossLeft ==
    ASSUME TypeOK, LossInv, NEW h, UNCHANGED <<balance, rows, met>>, Holders' = Holders \ {h},
           \A g \in Holders' : handler'[g].seen = handler[g].seen
    PROVE  LossInv'
<1> DEFINE n == Cardinality(Holders)
           m == Cardinality(Holders')
           T(a) == a * Total
<1>1. IsFiniteSet(Holders') /\ n \in Nat /\ m \in Nat /\ (n = m \/ n = m + 1)
  <2>1. /\ IsFiniteSet(Holders') /\ n \in Nat /\ m \in Nat
        /\ m = IF h \in Holders THEN n - 1 ELSE n
    BY FS_RemoveElement, FS_CardinalityType DEF LossInv
  <2> QED BY <2>1
<1>2. balance \in Nat /\ rows \in Nat /\ met \in Nat /\ \A g \in Holders : handler[g].seen \in Nat
  BY ChapaAssumption DEF TypeOK, Handler, Holders, ChapaAssumption
<1>3. /\ T(rows) \in Int /\ T(met) \in Int /\ T(m) \in Int /\ T(n) \in Int
      /\ T(m) <= T(n)
  <2>1. \A a \in Int : T(a) \in Int /\ T(a + 1) = T(a) + Total
    BY Multiples
  <2>2. T(m) <= T(m + 1)
    <3>1. T(m + 1) = T(m) + Total /\ T(m) \in Int
      BY <1>1, <2>1
    <3> HIDE DEF T, m
    <3> QED BY <3>1, Multiples
  <2> HIDE DEF T, m, n
  <2> QED BY <1>1, <1>2, <2>1, <2>2
<1>4. /\ balance <= T(rows) /\ T(rows) <= balance + T(met)
      /\ T(rows) + T(n) <= balance + T(met) + Total
      /\ \A g \in Holders : /\ handler[g].seen <= T(rows)
                             /\ T(rows) + T(n) <= handler[g].seen + T(met) + Total
  BY DEF LossInv
<1>5. Total \in Nat
  BY Multiples
<1> HIDE DEF n, m, T
<1>6. T(rows) + T(m) <= balance + T(met) + Total
  BY <1>2, <1>3, <1>4, <1>5
<1>7. \A g \in Holders' : /\ handler'[g].seen <= T(rows)
                          /\ T(rows) + T(m) <= handler'[g].seen + T(met) + Total
  BY <1>2, <1>3, <1>4, <1>5
<1> USE DEF n, m, T
<1> QED BY <1>1, <1>4, <1>6, <1>7 DEF LossInv

LEMMA NextLoss == TypeOK /\ LossInv /\ [Next]_vars => LossInv'
<1> SUFFICES ASSUME TypeOK, LossInv, [Next]_vars PROVE LossInv'
  OBVIOUS
<1>1. ASSUME UNCHANGED <<balance, rows, met, handler>> PROVE LossInv'
  BY <1>1 DEF LossInv, Holders, Holds
<1>2. ASSUME NEW h \in Handlers, NEW o \in Orders, Deliver(h, o) PROVE LossInv'
  <2>1. /\ handler'[h].st = "verifying" /\ handler[h].st = "idle"
        /\ \A g \in Handlers \ {h} : handler'[g] = handler[g]
    BY <1>2 DEF Deliver, Idle, TypeOK
  <2>2. Holders' = Holders \ {h}
    BY <2>1 DEF Holders, Holds
  <2> QED BY <1>2, <2>1, <2>2, LossLeft DEF Deliver, Holders
<1>3. ASSUME NEW h \in Handlers, NEW o \in Orders, InternalCredit(h, o) PROVE LossInv'
  <2>1. handler'[h].st = "internal" /\ handler'[h].seen = balance /\ handler[h].st = "idle"
    BY <1>3 DEF InternalCredit, TypeOK
  <2> QED BY <1>3, <2>1, LossRead DEF InternalCredit, Holds, TypeOK
<1>4. ASSUME NEW h \in Handlers, NEW amount \in Payments \cup {Unreadable}, Verified(h, amount)
      PROVE  LossInv'
  <2>1. handler'[h].st = "crediting" /\ handler'[h].seen = balance /\ handler[h].st = "verifying"
    BY <1>4 DEF Verified, TypeOK, Handler
  <2> QED BY <1>4, <2>1, LossRead DEF Verified, Holds, TypeOK
<1>5. ASSUME NEW h \in Handlers, Abandon(h) PROVE LossInv'
  <2>1. handler'[h].st = "idle" /\ \A g \in Handlers \ {h} : handler'[g] = handler[g]
    BY <1>5, IdleHandler DEF Abandon, TypeOK
  <2>2. Holders' = Holders \ {h}
    BY <2>1 DEF Holders, Holds
  <2> QED BY <1>5, <2>1, <2>2, LossLeft DEF Abandon, Holders
<1>6. ASSUME NEW h \in Handlers, Complete(h) \/ CommitInternal(h) PROVE LossInv'
  <2>1. handler'[h].st = "idle" /\ Holds(h)
    BY <1>6, IdleHandler DEF Complete, CommitInternal, TypeOK, Holds
  <2> QED BY <1>6, <2>1, LossWritten DEF Complete, CommitInternal, Holds, TypeOK
<1> QED
  BY <1>1, <1>2, <1>3, <1>4, <1>5, <1>6 DEF Next, vars, InitiateRecharge, Pay

LEMMA NextCompleted == TypeOK /\ CompletedInv /\ [Next]_vars => CompletedInv'
<1> SUFFICES ASSUME TypeOK, CompletedInv, [Next]_vars PROVE CompletedInv'
  OBVIOUS
<1>1. ASSUME Completed' = Completed, rows' = rows \/ rows' = rows + 1 PROVE CompletedInv'
  BY <1>1, FS_CardinalityType DEF CompletedInv, TypeOK
<1>2. ASSUME NEW o \in Orders, InitiateRecharge(o) PROVE CompletedInv'
  <2>1. Completed' = Completed
    BY <1>2 DEF InitiateRecharge, Completed, TypeOK
  <2> QED BY <1>1, <1>2, <2>1 DEF InitiateRecharge
<1>3. ASSUME NEW h \in Handlers, Complete(h) PROVE CompletedInv'
  <2> DEFINE o == handler[h].order
  <2>1. Completed' = Completed \cup {o} /\ rows' = rows + 1
    BY <1>3 DEF Complete, Completed, TypeOK
  <2>2. IsFiniteSet(Completed') /\ Cardinality(Completed') <= Cardinality(Completed) + 1
    <3>1. IsFiniteSet(Completed) /\ Cardinality(Completed) \in Nat
      BY FS_CardinalityType DEF CompletedInv
    <3>2. /\ IsFiniteSet(Completed \cup {o})
          /\ Cardinality(Completed \cup {o}) =
                IF o \in Completed THEN Cardinality(Completed) ELSE Cardinality(Completed) + 1
      BY <3>1, FS_AddElement
    <3> QED BY <2>1, <3>1, <3>2
  <2> QED BY <2>1, <2>2, FS_CardinalityType DEF CompletedInv, TypeOK
<1>4. ASSUME UNCHANGED status, rows' = rows \/ rows' = rows + 1 PROVE CompletedInv'
  BY <1>1, <1>4 DEF Completed
<1> QED
  BY <1>2, <1>3, <1>4
  DEF Next, vars, Pay, Deliver, InternalCredit, Verified, Abandon, CommitInternal

\* Whatever handlers run at the same time, what the wallet loses of its credits
\* is bounded by how often two of them have met, the balance never has more
\* than the ledger, and the ledger has a row for each completed order
\* (billing.chapa_webhook, internal_chapa_credit, metering.credit).
THEOREM LossIsBounded == Spec => []LossBounded
<1>1. LossInv /\ CompletedInv => LossBounded
  BY DEF LossInv, CompletedInv, LossBounded
<1> QED
  BY <1>1, InitInvs, NextLoss, NextCompleted, TypeCorrect, PTL DEF Spec

\* Where callbacks are served one at a time no order is credited twice, as the
\* review document says of the webhook, and the balance is what the ledger
\* says, however often Chapa repeats a callback and whatever fails: what breaks
\* it is overlap and nothing else (billing.chapa_webhook).
THEOREM CreditedOnceWhenAlone ==
    ASSUME \A g, h \in Handlers : g = h
    PROVE  Spec => [](CreditedOnce /\ balance = rows * Total)
<1> DEFINE Alone == twice = {} /\ met = 0
<1>1. Init => Alone
  BY DEF Init
<1>2. ASSUME TypeOK, Alone, [Next]_vars PROVE Alone'
  <2>1. ASSUME NEW h \in Handlers, NEW o \in Orders, Deliver(h, o) PROVE Alone'
    <3>1. ~InProgress(o)
      BY <2>1 DEF Deliver, InProgress
    <3> QED  BY <1>2, <2>1, <3>1 DEF Deliver
  <2>2. ASSUME NEW h \in Handlers, NEW o \in Orders, InternalCredit(h, o) PROVE Alone'
    <3>1. \A g \in Handlers : ~Holds(g)
      BY <2>2 DEF InternalCredit, Holds
    <3> QED  BY <1>2, <2>2, <3>1 DEF InternalCredit, Meet
  <2>3. ASSUME NEW h \in Handlers, NEW amount \in Payments \cup {Unreadable}, Verified(h, amount)
        PROVE  Alone'
    <3>1. \A g \in Handlers : ~Holds(g)
      BY <2>3 DEF Verified, Holds
    <3> QED  BY <1>2, <2>3, <3>1 DEF Verified, Meet
  <2> QED
    BY <1>2, <2>1, <2>2, <2>3
    DEF Next, vars, InitiateRecharge, Pay, Abandon, Complete, CommitInternal
<1>3. TypeOK /\ Alone /\ CreditedOnceUnlessOverlap /\ LossBounded
        => CreditedOnce /\ balance = rows * Total
  <2> SUFFICES ASSUME TypeOK, Alone, CreditedOnceUnlessOverlap, LossBounded
               PROVE  CreditedOnce /\ balance = rows * Total
    OBVIOUS
  <2>1. met * Total = 0
    BY Multiples
  <2>2. balance \in Int /\ rows * Total \in Int
    BY Multiples DEF TypeOK
  <2> QED  BY <2>1, <2>2 DEF CreditedOnceUnlessOverlap, LossBounded, CreditedOnce
<1> QED
  BY <1>1, <1>2, <1>3, TypeCorrect, NoDoubleCreditWithoutOverlap, LossIsBounded, PTL DEF Spec

=============================================================================
