---------------------------- MODULE WalletProofs ----------------------------
(***************************************************************************)
(* What Wallet promises for every set of requests and every amount.        *)
(*                                                                         *)
(* NeverNegative is not inductive: the escrowed part that a request writes *)
(* is computed from the row it has read, so that row must have been        *)
(* non-negative too.  SerialUnlessOverlap needs that without overlap at    *)
(* most one request works, and that the row has not moved since it read it.*)
(* LedgerTells uses that invariant too, and so does the refinement of the  *)
(* abstract account, which also needs that a request was admitted by the   *)
(* row it has read.  CacheTellsBalance needs that while nothing has led    *)
(* the cache astray a request that writes is alone and all have read the   *)
(* row as it is.                                                           *)
(***************************************************************************)
EXTENDS Wallet, TLAPS

-----------------------------------------------------------------------------
(* Facts about the arithmetic of an operation.                             *)

\* Every operation carries an amount that is an integer.
LEMMA OpAmount ==
    ASSUME NEW op \in Op
    PROVE  /\ op.amount \in Int
           /\ op.kind \in {"business", "both", "user", "credit", "unlock", "generate"}
           /\ op.kind = "unlock" => op.amount >= 0
<1>1. CASE op \in [kind : {"business", "both"}, amount : Costs]
  <2>1. op.amount \in Costs
    BY <1>1
  <2>2. op.amount \in Nat
    BY <2>1, AmountsAssumption DEF AmountsAssumption
  <2> QED BY <1>1, <2>2
<1>2. CASE op \in [kind : {"user"}, amount : {Markup}]
  BY <1>2, AmountsAssumption DEF AmountsAssumption
<1>3. CASE op \in [kind : {"credit"}, amount : Grants]
  BY <1>3, AmountsAssumption DEF AmountsAssumption
<1>4. CASE op \in [kind : {"unlock"}, amount : Prices]
  <2>1. op.amount \in Prices
    BY <1>4
  <2>2. op.amount \in Nat
    BY <2>1, AmountsAssumption DEF AmountsAssumption
  <2> QED BY <1>4, <2>2
<1>5. CASE op \in [kind : {"generate"}, amount : {GenCost}]
  BY <1>5, AmountsAssumption DEF AmountsAssumption
<1> QED
  BY <1>1, <1>2, <1>3, <1>4, <1>5 DEF Op

\* The row an operation computes is a row.
LEMMA AfterType ==
    ASSUME NEW op \in Op, NEW row \in Row
    PROVE  NewBalance(op, row) \in Int /\ After(op, row) \in Row
<1>1. /\ row.balance \in Int /\ row.escrow \in Int /\ row.spent \in Int
      /\ Debited(op, row) \in Int
  BY OpAmount DEF Row, Debited, NonNegative
<1>2. NewBalance(op, row) \in Int
  BY <1>1, OpAmount, AmountsAssumption DEF AmountsAssumption, NewBalance
<1> QED
  BY <1>1, <1>2, OpAmount DEF After, Row

\* The ledger rows an operation computes are ledger rows.
LEMMA EntriesType ==
    ASSUME NEW op \in Op, NEW row \in Row
    PROVE  Entries(op, row) \in Seq(Entry)
<1>1. row.balance \in Int /\ op.amount \in Int /\ Debited(op, row) \in Int /\ Markup \in Int
  BY OpAmount, AmountsAssumption DEF AmountsAssumption, Row, Debited, NonNegative
<1> DEFINE debit == [amount |-> -op.amount, before |-> row.balance, after |-> Debited(op, row)]
           profit(before) == [amount |-> Markup, before |-> before, after |-> before + Markup]
           earned(before) == IF Markup = 0 THEN <<>> ELSE <<profit(before)>>
           credit == [amount |-> op.amount, before |-> row.balance,
                      after |-> row.balance + op.amount]
<1>2. debit \in Entry /\ credit \in Entry
  BY <1>1 DEF Entry
<1>3. ASSUME NEW b \in Int PROVE earned(b) \in Seq(Entry)
  <2>1. profit(b) \in Entry
    BY <1>1 DEF Entry
  <2> QED BY <2>1
<1>4. /\ earned(row.balance) \in Seq(Entry) /\ earned(Debited(op, row)) \in Seq(Entry)
      /\ <<debit>> \in Seq(Entry) /\ <<credit>> \in Seq(Entry)
  BY <1>1, <1>2, <1>3
<1> HIDE DEF debit, profit, earned, credit
<1>5. <<debit>> \o earned(Debited(op, row)) \in Seq(Entry)
  BY <1>4
<1>6. Entries(op, row) =
        CASE op.kind = "business" -> <<debit>>
          [] op.kind = "both"     -> <<debit>> \o earned(Debited(op, row))
          [] op.kind = "user"     -> earned(row.balance)
          [] op.kind = "credit"   -> <<credit>>
          [] op.kind \in {"unlock", "generate"} -> <<>>
  BY DEF Entries, debit, earned, profit, credit
<1> QED
  BY <1>4, <1>5, <1>6, OpAmount

\* What an UPDATE leaves is a row.
LEMMA WrittenType ==
    ASSUME NEW new \in Row, NEW seen \in Row, wallet \in Row
    PROVE  Written(new, seen) \in Row
BY DEF Written, Row

-----------------------------------------------------------------------------
LEMMA InitType == Init => TypeOK
<1> SUFFICES ASSUME Init PROVE TypeOK
  OBVIOUS
<1> USE WalletAssumption, AmountsAssumption DEF WalletAssumption, AmountsAssumption, Opened
<1>1. wallet \in Row /\ serial \in Row
  BY DEF Init, Row
<1>2. ledger \in Seq(Entry)
  BY DEF Init
<1>5. cache \in Int \cup {NoValue} /\ overlap \in BOOLEAN /\ astray \in BOOLEAN
  BY DEF Init
<1>6. ops \in 0..MaxOps
  BY DEF Init
<1>3. Idle \in Request /\ Idle.st = "idle"
  BY DEF Idle, Request, Row
<1>4. req \in [Requests -> Request] /\ \A r \in Requests : req[r] = Idle
  BY <1>3 DEF Init
<1> QED
  BY <1>1, <1>2, <1>3, <1>4, <1>5, <1>6 DEF TypeOK

LEMMA NextType == TypeOK /\ [Next]_vars => TypeOK'
<1> SUFFICES ASSUME TypeOK, [Next]_vars PROVE TypeOK'
  OBVIOUS
<1> USE DEF TypeOK
<1>1. ASSUME NEW r \in Requests, NEW op \in Op, Load(r, op) PROVE TypeOK'
  BY <1>1, WalletAssumption DEF WalletAssumption, Load, Request, Idle
<1>2. ASSUME NEW r \in Requests, CacheBalance(r) PROVE TypeOK'
  <2>1. req[r].op \in Op /\ req[r].seen \in Row
    BY <1>2 DEF CacheBalance, Request
  <2>2. cache' \in Int
    BY <1>2, <2>1, AfterType DEF CacheBalance
  <2> QED BY <1>2, <2>1, <2>2 DEF CacheBalance, Request, Idle
<1>3. ASSUME NEW r \in Requests, Commit(r) PROVE TypeOK'
  <2> DEFINE op == req[r].op
             new == After(op, req[r].seen)
  <2>1. op \in Op /\ req[r].seen \in Row
    BY <1>3 DEF Commit, Working, Request
  <2>2. new \in Row /\ Entries(op, req[r].seen) \in Seq(Entry) /\ After(op, serial) \in Row
    BY <2>1, AfterType, EntriesType
  <2>3. wallet' \in Row
    BY <1>3, <2>1, <2>2, WrittenType DEF Commit
  <2>4. ledger' \in Seq(Entry) /\ serial' \in Row
    BY <1>3, <2>2 DEF Commit
  <2>5. /\ req' = [req EXCEPT ![r] = Idle] /\ cache' = cache /\ ops' = ops /\ overlap' = overlap
        /\ astray' \in BOOLEAN
    BY <1>3 DEF Commit
  <2> QED BY <2>3, <2>4, <2>5 DEF Request, Idle, Row
<1>4. ASSUME NEW r \in Requests, Rollback(r) PROVE TypeOK'
  BY <1>4 DEF Rollback, Request, Idle, Row
<1>5. ASSUME NEW r \in Requests, ReadBalance(r) PROVE TypeOK'
  BY <1>5, WalletAssumption DEF WalletAssumption, ReadBalance, Request, Idle
<1>6. ASSUME NEW r \in Requests, FillCache(r) PROVE TypeOK'
  BY <1>6 DEF FillCache, Request, Idle, Row
<1>7. CASE ExpireCache
  BY <1>7 DEF ExpireCache
<1>8. CASE UNCHANGED vars
  BY <1>8 DEF vars, Request
<1> QED
  BY <1>1, <1>2, <1>3, <1>4, <1>5, <1>6, <1>7, <1>8 DEF Next

\* The state of the wallet and of its requests stays well formed.
THEOREM TypeCorrect == Spec => []TypeOK
BY InitType, NextType, PTL DEF Spec

-----------------------------------------------------------------------------
\* The rows that open requests have read were non-negative when they read them.
SeenNonNegative == \A r \in Requests : Working(r) => req[r].seen.escrow >= 0

NonNegativeInv == NeverNegative /\ SeenNonNegative

LEMMA NextNonNegative ==
    TypeOK /\ NonNegativeInv /\ [Next]_vars => NonNegativeInv'
<1> SUFFICES ASSUME TypeOK, NonNegativeInv, [Next]_vars PROVE NonNegativeInv'
  OBVIOUS
<1> USE DEF NonNegativeInv, NeverNegative, SeenNonNegative, TypeOK, Working
<1>1. ASSUME NEW r \in Requests, NEW op \in Op, Load(r, op) PROVE NonNegativeInv'
  BY <1>1 DEF Load
<1>2. ASSUME NEW r \in Requests, CacheBalance(r) PROVE NonNegativeInv'
  BY <1>2 DEF CacheBalance
<1>3. ASSUME NEW r \in Requests, Commit(r) PROVE NonNegativeInv'
  <2> DEFINE op == req[r].op
             seen == req[r].seen
             new == After(op, seen)
  <2>1. op \in Op /\ seen \in Row /\ seen.escrow >= 0
    BY <1>3 DEF Commit, Request
  <2>2. new \in Row /\ new.balance >= 0
    BY <1>3, <2>1, AfterType DEF Commit, BalanceCheck
  <2>3. new.escrow >= 0
    BY <2>1, OpAmount DEF After, Row
  <2>4. wallet'.balance \in {new.balance, wallet.balance} /\ wallet'.escrow \in {new.escrow, wallet.escrow}
    BY <1>3 DEF Commit, Written
  <2>5. \A q \in Requests : Working(q)' => Working(q) /\ req'[q] = req[q]
    BY <1>3 DEF Commit, Idle
  <2> QED BY <2>2, <2>3, <2>4, <2>5
<1>4. ASSUME NEW r \in Requests, Rollback(r) \/ FillCache(r) PROVE NonNegativeInv'
  BY <1>4 DEF Rollback, FillCache, Idle
<1>5. ASSUME NEW r \in Requests, ReadBalance(r) PROVE NonNegativeInv'
  BY <1>5 DEF ReadBalance
<1>6. CASE ExpireCache \/ UNCHANGED vars
  BY <1>6 DEF ExpireCache, vars
<1> QED
  BY <1>1, <1>2, <1>3, <1>4, <1>5, <1>6 DEF Next

\* No interleaving of replies, purchases, credits and deductions takes the
\* balance or the escrowed part of a wallet below zero.
THEOREM BalanceNeverNegative == Spec => []NeverNegative
<1>1. Init => NonNegativeInv
  BY AmountsAssumption DEF AmountsAssumption, Init, Opened, NonNegativeInv, NeverNegative, SeenNonNegative, Working, Idle
<1>2. NonNegativeInv => NeverNegative
  BY DEF NonNegativeInv
<1> QED
  BY <1>1, <1>2, NextNonNegative, TypeCorrect, PTL DEF Spec

-----------------------------------------------------------------------------
\* Without overlap one request works at a time, on the row as it is.
AloneInv ==
    ~overlap =>
        /\ wallet = serial
        /\ \A r \in Requests : Working(r) => req[r].seen = wallet
        /\ \A q, r \in Requests : Working(q) /\ Working(r) => q = r

\* Writing the columns that differ from an unchanged row writes the new row.
LEMMA WrittenWhole ==
    ASSUME NEW new \in Row, wallet \in Row
    PROVE  Written(new, wallet) = new
BY DEF Written, Row

LEMMA NextAlone == TypeOK /\ AloneInv /\ [Next]_vars => AloneInv'
<1> SUFFICES ASSUME TypeOK, AloneInv, [Next]_vars, ~overlap' PROVE AloneInv'
  BY DEF AloneInv
<1>0. ~overlap
  BY DEF Next, vars, Load, CacheBalance, Commit, Rollback, ReadBalance, FillCache, ExpireCache
<1> USE <1>0 DEF AloneInv, TypeOK, Working
<1>1. ASSUME NEW r \in Requests, NEW op \in Op, Load(r, op) PROVE AloneInv'
  BY <1>1 DEF Load
<1>2. ASSUME NEW r \in Requests, CacheBalance(r) PROVE AloneInv'
  BY <1>2 DEF CacheBalance
<1>3. ASSUME NEW r \in Requests, Commit(r) PROVE AloneInv'
  <2>1. req[r].op \in Op /\ req[r].seen = wallet /\ serial = wallet
    BY <1>3 DEF Commit
  <2>2. After(req[r].op, wallet) \in Row
    BY <2>1, AfterType
  <2>3. wallet' = serial'
    BY <1>3, <2>1, <2>2, WrittenWhole DEF Commit
  <2>4. \A q \in Requests : ~Working(q)'
    BY <1>3 DEF Commit, Idle
  <2> QED BY <2>3, <2>4
<1>4. ASSUME NEW r \in Requests, Rollback(r) \/ FillCache(r) PROVE AloneInv'
  BY <1>4 DEF Rollback, FillCache, Idle
<1>5. ASSUME NEW r \in Requests, ReadBalance(r) PROVE AloneInv'
  BY <1>5 DEF ReadBalance
<1>6. CASE ExpireCache \/ UNCHANGED vars
  BY <1>6 DEF ExpireCache, vars
<1> QED
  BY <1>1, <1>2, <1>3, <1>4, <1>5, <1>6 DEF Next

\* Requests that do not overlap lose no update, whatever is rolled back.
THEOREM NoLostUpdateWithoutOverlap == Spec => []SerialUnlessOverlap
<1>1. Init => AloneInv
  BY DEF Init, AloneInv, Working, Idle
<1>2. AloneInv => SerialUnlessOverlap
  BY DEF AloneInv, SerialUnlessOverlap
<1> QED
  BY <1>1, <1>2, NextAlone, TypeCorrect, PTL DEF Spec

-----------------------------------------------------------------------------
(* The ledger.                                                             *)

LEMMA LastOfConcatenation ==
    ASSUME NEW S, NEW s \in Seq(S), NEW t \in Seq(S), t # <<>>
    PROVE  (s \o t)[Len(s \o t)] = t[Len(t)]
<1>1. Len(s) \in Nat /\ Len(t) \in Nat /\ Len(t) > 0
  OBVIOUS
<1>2. Len(s \o t) = Len(s) + Len(t)
  OBVIOUS
<1> QED  BY <1>1, <1>2

\* The last ledger row of an operation that writes any has its new balance.
LEMMA LastEntry ==
    ASSUME NEW op \in Op, NEW row \in Row, Entries(op, row) # <<>>
    PROVE  LET rows == Entries(op, row) IN rows[Len(rows)].after = NewBalance(op, row)
<1> DEFINE debit == [amount |-> -op.amount, before |-> row.balance, after |-> Debited(op, row)]
           profit(before) == [amount |-> Markup, before |-> before, after |-> before + Markup]
           earned(before) == IF Markup = 0 THEN <<>> ELSE <<profit(before)>>
           rows == Entries(op, row)
<1>1. row.balance \in Int /\ Debited(op, row) \in Int /\ Markup \in Int /\ op.amount \in Int
  BY OpAmount, AmountsAssumption DEF AmountsAssumption, Row, Debited, NonNegative
<1>2. CASE op.kind = "business"
  <2>1. rows = <<debit>> /\ NewBalance(op, row) = Debited(op, row)
    BY <1>2 DEF Entries, NewBalance
  <2> QED  BY <2>1
<1>3. CASE op.kind = "both" /\ Markup # 0
  <2> DEFINE gain == profit(Debited(op, row))
  <2>1. rows = <<debit>> \o <<gain>>
    BY <1>3 DEF Entries
  <2>2. NewBalance(op, row) = Debited(op, row) + Markup
    BY <1>3 DEF NewBalance
  <2>3. debit \in Entry /\ gain \in Entry /\ gain.after = Debited(op, row) + Markup
    BY <1>1 DEF Entry
  <2> HIDE DEF debit, gain
  <2>4. <<debit>> \in Seq(Entry) /\ <<gain>> \in Seq(Entry) /\ <<gain>> # <<>>
    BY <2>3
  <2>5. rows[Len(rows)] = <<gain>>[Len(<<gain>>)]
    BY <2>1, <2>4, LastOfConcatenation
  <2> QED  BY <2>2, <2>3, <2>5
<1>4. CASE op.kind = "both" /\ Markup = 0
  <2>1. rows = <<debit>> \o <<>>
    BY <1>4 DEF Entries
  <2>2. NewBalance(op, row) = Debited(op, row)
    BY <1>1, <1>4 DEF NewBalance
  <2>3. debit \in Entry /\ debit.after = Debited(op, row)
    BY <1>1 DEF Entry
  <2> HIDE DEF debit
  <2>4. rows = <<debit>>
    BY <2>1, <2>3
  <2> QED  BY <2>2, <2>3, <2>4
<1>5. CASE op.kind = "user"
  <2>1. op.amount = Markup
    BY <1>5 DEF Op
  <2>2. rows = <<profit(row.balance)>> /\ NewBalance(op, row) = row.balance + Markup
    BY <1>5, <2>1 DEF Entries, NewBalance
  <2> QED  BY <2>2
<1>6. CASE op.kind = "credit"
  <2>1. /\ rows = <<[amount |-> op.amount, before |-> row.balance,
                     after |-> row.balance + op.amount]>>
        /\ NewBalance(op, row) = row.balance + op.amount
    BY <1>6 DEF Entries, NewBalance
  <2> QED  BY <2>1
<1>7. CASE op.kind \in {"unlock", "generate"}
  BY <1>7 DEF Entries
<1> QED  BY <1>2, <1>3, <1>4, <1>5, <1>6, <1>7, OpAmount

\* After a commit the last row of the ledger tells the wallet's balance.
LEMMA CommitTells ==
    ASSUME TypeOK, AloneInv, NEW r \in Requests, Commit(r), ledger' # ledger
    PROVE  LET last == ledger'[Len(ledger')] IN
             \/ last.after = wallet'.balance
             \/ overlap /\ wallet'.balance = wallet.balance
<1> DEFINE op == req[r].op
           seen == req[r].seen
<1>1. op \in Op /\ seen \in Row /\ Working(r) /\ ledger \in Seq(Entry)
  BY DEF Commit, Working, Request, TypeOK
<1>2. ledger' = ledger \o Entries(op, seen) /\ wallet' = Written(After(op, seen), seen)
  BY DEF Commit
<1>3. Entries(op, seen) \in Seq(Entry)
  BY <1>1, EntriesType
<1>4. Entries(op, seen) # <<>>
  BY <1>1, <1>2
<1>5. ledger'[Len(ledger')].after = NewBalance(op, seen)
  BY <1>1, <1>2, <1>3, <1>4, LastOfConcatenation, LastEntry
<1>6. wallet'.balance = IF NewBalance(op, seen) # seen.balance THEN NewBalance(op, seen)
                                                               ELSE wallet.balance
  BY <1>2 DEF Written, After
<1>7. ~overlap => seen = wallet
  BY <1>1 DEF AloneInv
<1> QED  BY <1>5, <1>6, <1>7

\* Whatever interleaves, the row that a commit leaves last in the ledger tells
\* the balance of the wallet, unless the operation had none to write while
\* another request changed it (webhooks._charge_etg, metering.credit).
THEOREM LedgerTells == Spec => LedgerTellsBalance
<1>1. Init => AloneInv
  BY DEF Init, AloneInv, Working, Idle
<1>2. TypeOK /\ AloneInv /\ [Next]_vars =>
        [ ledger' # ledger =>
          LET last == ledger'[Len(ledger')] IN
            \/ last.after = wallet'.balance
            \/ overlap /\ wallet'.balance = wallet.balance ]_vars
  <2> SUFFICES ASSUME TypeOK, AloneInv, Next, ledger' # ledger
               PROVE  LET last == ledger'[Len(ledger')] IN
                        \/ last.after = wallet'.balance
                        \/ overlap /\ wallet'.balance = wallet.balance
    OBVIOUS
  <2>1. \E r \in Requests : Commit(r)
    BY DEF Next, Load, CacheBalance, Rollback, ReadBalance, FillCache, ExpireCache
  <2> QED  BY <2>1, CommitTells
<1> QED
  BY <1>1, <1>2, NextAlone, TypeCorrect, PTL DEF Spec, LedgerTellsBalance

-----------------------------------------------------------------------------
(* The cached balance.                                                     *)

\* While nothing leads the cache astray, a request that writes is alone, every
\* request has read the row as it is, and the cache holds what it should.
CacheInv ==
    ~astray =>
        /\ \A q, r \in Requests : Working(q) /\ Open(r) => q = r
        /\ \A r \in Requests : Open(r) => req[r].seen = wallet
        /\ \A r \in Requests :
              req[r].st = "cached" => cache \in {NoValue, NewBalance(req[r].op, req[r].seen)}
        /\ (\A r \in Requests : req[r].st # "cached") => cache \in {NoValue, wallet.balance}

LEMMA NextCache == TypeOK /\ CacheInv /\ [Next]_vars => CacheInv'
<1> SUFFICES ASSUME TypeOK, CacheInv, [Next]_vars, ~astray' PROVE CacheInv'
  BY DEF CacheInv
<1> USE DEF CacheInv, Working, Open
<1>0. req \in [Requests -> Request] /\ wallet \in Row
  BY DEF TypeOK
<1>1. ASSUME NEW r \in Requests, NEW op \in Op, Load(r, op) PROVE CacheInv'
  BY <1>0, <1>1 DEF Load
<1>2. ASSUME NEW r \in Requests, CacheBalance(r) PROVE CacheInv'
  <2>1. /\ ~astray /\ req[r].st = "loaded" /\ wallet' = wallet
        /\ cache' = NewBalance(req[r].op, req[r].seen)
        /\ req' = [req EXCEPT ![r].st = "cached"]
    BY <1>2 DEF CacheBalance
  <2>2. /\ req'[r].st = "cached" /\ req'[r].op = req[r].op /\ req'[r].seen = req[r].seen
        /\ \A q \in Requests \ {r} : req'[q] = req[q]
    BY <1>0, <2>1 DEF Request
  <2>3. \A q \in Requests \ {r} : req[q].st = "idle"
    BY <2>1
  <2> QED  BY <2>1, <2>2, <2>3
<1>3. ASSUME NEW r \in Requests, Commit(r) PROVE CacheInv'
  <2> DEFINE op == req[r].op
             new == After(op, req[r].seen)
  <2>1. /\ ~astray /\ Working(r) /\ cache' = cache /\ (~Caches(op) => cache = NoValue)
        /\ (req[r].st = "loaded" => ~Caches(op))
        /\ wallet' = Written(new, req[r].seen) /\ req' = [req EXCEPT ![r] = Idle]
    BY <1>3 DEF Commit
  <2>2. op \in Op /\ req[r].seen = wallet
    BY <2>1 DEF Request, TypeOK
  <2>3. wallet' = new
    BY <1>0, <2>1, <2>2, AfterType, WrittenWhole
  <2>4. wallet'.balance = NewBalance(op, req[r].seen)
    BY <2>3 DEF After
  <2>5. \A q \in Requests : req'[q].st = "idle"
    BY <1>0, <2>1 DEF Idle
  <2>6. cache \in {NoValue, NewBalance(op, req[r].seen)}
    BY <2>1
  <2> HIDE DEF op, new
  <2> QED  BY <2>1, <2>4, <2>5, <2>6
<1>4. ASSUME NEW r \in Requests, Rollback(r) PROVE CacheInv'
  <2>1. /\ ~astray /\ wallet' = wallet /\ cache' = cache /\ req' = [req EXCEPT ![r] = Idle]
        /\ (req[r].st = "cached" => cache = NoValue)
    BY <1>4 DEF Rollback
  <2>2. /\ req'[r].st = "idle" /\ \A q \in Requests \ {r} : req'[q] = req[q]
    BY <1>0, <2>1 DEF Idle
  <2> QED  BY <2>1, <2>2
<1>5. ASSUME NEW r \in Requests, ReadBalance(r) PROVE CacheInv'
  BY <1>0, <1>5 DEF ReadBalance
<1>6. ASSUME NEW r \in Requests, FillCache(r) PROVE CacheInv'
  <2>1. /\ ~astray /\ req[r].st = "filling" /\ wallet' = wallet
        /\ cache' = req[r].seen.balance /\ req' = [req EXCEPT ![r] = Idle]
    BY <1>6 DEF FillCache
  <2>2. cache' = wallet.balance /\ \A q \in Requests : ~Working(q)
    BY <2>1
  <2>3. req'[r].st = "idle" /\ \A q \in Requests \ {r} : req'[q] = req[q]
    BY <1>0, <2>1 DEF Idle
  <2> QED  BY <2>1, <2>2, <2>3
<1>7. CASE ExpireCache
  BY <1>7 DEF ExpireCache
<1>8. CASE UNCHANGED vars
  BY <1>8 DEF vars
<1> QED
  BY <1>1, <1>2, <1>3, <1>4, <1>5, <1>6, <1>7, <1>8 DEF Next

\* The cached balance is the row's, or the one about to be committed, until one
\* of the four things happens that can leave a wrong one behind, and again once
\* the key has expired (webhooks._get_balance, _charge_etg, metering.credit).
THEOREM CacheIsTold == Spec => []CacheTellsBalance
<1>1. Init => CacheInv
  BY DEF Init, CacheInv, Working, Open, Idle
<1>2. CacheInv => CacheTellsBalance
  <2> SUFFICES ASSUME CacheInv, ~astray, cache # NoValue PROVE CacheTellsBalance
    BY DEF CacheTellsBalance
  <2>1. CASE \E r \in Requests : req[r].st = "cached"
    <3> DEFINE c == CHOOSE r \in Requests : req[r].st = "cached"
    <3>1. c \in Requests /\ req[c].st = "cached"
      BY <2>1
    <3>2. cache = NewBalance(req[c].op, req[c].seen)
      BY <3>1 DEF CacheInv
    <3> QED  BY <2>1, <3>2 DEF CacheTellsBalance
  <2>2. CASE ~\E r \in Requests : req[r].st = "cached"
    BY <2>2 DEF CacheInv, CacheTellsBalance
  <2> QED  BY <2>1, <2>2
<1> QED
  BY <1>1, <1>2, NextCache, TypeCorrect, PTL DEF Spec

-----------------------------------------------------------------------------
(* The abstract account.                                                   *)

\* An open request was admitted by the row that it has read.
Admitted == \A r \in Requests : Working(r) => Admits(req[r].op, req[r].seen)

LEMMA NextAdmitted == TypeOK /\ Admitted /\ [Next]_vars => Admitted'
<1> SUFFICES ASSUME TypeOK, Admitted, [Next]_vars PROVE Admitted'
  OBVIOUS
<1> USE DEF Admitted, TypeOK, Working
<1>1. ASSUME NEW r \in Requests, NEW op \in Op, Load(r, op) PROVE Admitted'
  BY <1>1 DEF Load
<1>2. ASSUME NEW r \in Requests, CacheBalance(r) PROVE Admitted'
  BY <1>2 DEF CacheBalance
<1>3. ASSUME NEW r \in Requests, Commit(r) \/ Rollback(r) \/ FillCache(r) PROVE Admitted'
  BY <1>3 DEF Commit, Rollback, FillCache, Idle
<1>4. ASSUME NEW r \in Requests, ReadBalance(r) PROVE Admitted'
  BY <1>4 DEF ReadBalance
<1>5. CASE ExpireCache \/ UNCHANGED vars
  BY <1>5 DEF ExpireCache, vars
<1> QED
  BY <1>1, <1>2, <1>3, <1>4, <1>5 DEF Next

\* The account and the requests compute with the same operations.
LEMMA SameOperations ==
    /\ Contract!Op = Op /\ Contract!Opened = Opened
    /\ \A op, row : /\ Contract!Admits(op, row) <=> Admits(op, row)
                    /\ Contract!After(op, row) = After(op, row)
                    /\ Contract!Entries(op, row) = Entries(op, row)
                    /\ Contract!BalanceCheck(row) <=> BalanceCheck(row)
<1>1. Contract!Op = Op /\ Contract!Opened = Opened
  BY DEF Contract!Op, Op, Contract!Opened, Opened
<1>2. \A op, row : Contract!Debited(op, row) = Debited(op, row)
  BY DEF Contract!Debited, Debited, Contract!NonNegative, NonNegative
<1>3. \A op, row : Contract!NewBalance(op, row) = NewBalance(op, row)
  BY <1>2 DEF Contract!NewBalance, NewBalance
<1>4. \A op, row : Contract!After(op, row) = After(op, row)
  BY <1>3 DEF Contract!After, After
<1>5. \A op, row : Contract!Entries(op, row) = Entries(op, row)
  BY <1>2 DEF Contract!Entries, Entries
<1>6. \A op, row : /\ Contract!Admits(op, row) <=> Admits(op, row)
                   /\ Contract!BalanceCheck(row) <=> BalanceCheck(row)
  BY DEF Contract!Admits, Admits, Contract!BalanceCheck, BalanceCheck
<1> QED  BY <1>1, <1>4, <1>5, <1>6

\* Appending rows keeps the ones there are.
LEMMA AppendedKeeps ==
    ASSUME NEW s \in Seq(Entry), NEW t \in Seq(Entry)
    PROVE  Contract!Keeps(s, s \o t)
<1>1. Len(s \o t) = Len(s) + Len(t) /\ Len(t) \in Nat /\ Len(s) \in Nat
  OBVIOUS
<1>2. \A i \in 1..Len(s) : (s \o t)[i] = s[i]
  OBVIOUS
<1> QED  BY <1>1, <1>2 DEF Contract!Keeps

\* A commit is an operation of the account, or one of those that have met.
LEMMA CommitImplements ==
    ASSUME TypeOK, AloneInv, Admitted, NeverNegative', NEW r \in Requests, Commit(r)
    PROVE  Contract!Next
<1> DEFINE op == req[r].op
           seen == req[r].seen
<1>1. op \in Op /\ seen \in Row /\ Working(r) /\ ledger \in Seq(Entry) /\ wallet \in Row
  BY DEF Commit, Working, Request, TypeOK
<1>2. /\ wallet' = Written(After(op, seen), seen) /\ overlap' = overlap
      /\ ledger' = ledger \o Entries(op, seen) /\ BalanceCheck(After(op, seen))
  BY DEF Commit
<1>3. CASE overlap
  <2>1. Entries(op, seen) \in Seq(Entry)
    BY <1>1, EntriesType
  <2>2. Contract!Keeps(ledger, ledger')
    BY <1>1, <1>2, <2>1, AppendedKeeps
  <2>3. Contract!Solvent(wallet')
    BY DEF NeverNegative, Contract!Solvent
  <2> QED  BY <1>2, <1>3, <2>2, <2>3 DEF Contract!Next, Contract!Race
<1>4. CASE ~overlap
  <2>1. seen = wallet
    BY <1>1, <1>4 DEF AloneInv
  <2>2. After(op, wallet) \in Row
    BY <1>1, AfterType
  <2>3. wallet' = After(op, wallet)
    BY <1>1, <1>2, <2>1, <2>2, WrittenWhole
  <2>4. Admits(op, wallet)
    BY <1>1, <2>1 DEF Admitted
  <2>5. Contract!Apply(op)
    BY <1>2, <1>4, <2>1, <2>3, <2>4, SameOperations DEF Contract!Apply
  <2> QED  BY <1>1, <2>5, SameOperations DEF Contract!Next
<1> QED  BY <1>3, <1>4

LEMMA StepImplements ==
    TypeOK /\ AloneInv /\ Admitted /\ NeverNegative' /\ [Next]_vars
        => [Contract!Next]_Contract!vars
<1> SUFFICES ASSUME TypeOK, AloneInv, Admitted, NeverNegative', [Next]_vars
             PROVE  [Contract!Next]_Contract!vars
  OBVIOUS
<1>1. ASSUME NEW r \in Requests, NEW op \in Op, Load(r, op) PROVE [Contract!Next]_Contract!vars
  <2>1. UNCHANGED <<wallet, ledger>> /\ (overlap => overlap') /\ overlap' \in BOOLEAN
    BY <1>1 DEF Load, TypeOK
  <2>2. CASE overlap' = overlap
    BY <2>1, <2>2 DEF Contract!vars
  <2>3. CASE overlap' # overlap
    <3>1. ~overlap /\ overlap'
      BY <2>1, <2>3 DEF TypeOK
    <3> QED  BY <2>1, <3>1 DEF Contract!Next, Contract!Meet
  <2> QED  BY <2>2, <2>3
<1>2. ASSUME NEW r \in Requests, Commit(r) PROVE Contract!Next
  BY <1>2, CommitImplements
<1>3. ASSUME NEW r \in Requests, CacheBalance(r) \/ Rollback(r) \/ ReadBalance(r) \/ FillCache(r)
      PROVE  UNCHANGED Contract!vars
  BY <1>3 DEF CacheBalance, Rollback, ReadBalance, FillCache, Contract!vars
<1>4. CASE ExpireCache \/ UNCHANGED vars
  BY <1>4 DEF ExpireCache, vars, Contract!vars
<1> QED
  BY <1>1, <1>2, <1>3, <1>4 DEF Next

\* As long as no two requests work on a wallet at the same time, for any number
\* of them and any amounts, what they do to it is what an account with atomic
\* operations does, failures and the cache included; after that nothing is ever
\* owed and no ledger row is lost (unlock_agent, _charge_etg, metering.credit).
THEOREM Implements == Spec => ImplementsContract
<1>1. Init => AloneInv /\ Admitted /\ Contract!Init
  BY SameOperations DEF Init, AloneInv, Admitted, Working, Idle, Contract!Init
<1> QED
  BY <1>1, TypeCorrect, BalanceNeverNegative, NextAlone, NextAdmitted, StepImplements, PTL
     DEF Spec, ImplementsContract, Contract!Spec

LEMMA AloneNeverMeets ==
    ASSUME \A q, r \in Requests : q = r, TypeOK, ~overlap, [Next]_vars
    PROVE  ~overlap'
<1>1. ASSUME NEW r \in Requests, NEW op \in Op, Load(r, op) PROVE ~overlap'
  <2>1. \A q \in Requests : ~Working(q)
    BY <1>1 DEF Load, Working
  <2> QED  BY <1>1, <2>1 DEF Load
<1> QED
  BY <1>1 DEF Next, vars, CacheBalance, Commit, Rollback, ReadBalance, FillCache, ExpireCache

\* Where requests on a wallet are served one at a time it is an account and
\* never anything less: every change is one operation on the row as it is.
THEOREM AccountWhenAlone ==
    ASSUME \A q, r \in Requests : q = r
    PROVE  Spec => Contract!Init /\ [][\E op \in Op : Contract!Apply(op)]_<<wallet, ledger>>
<1>1. Init => AloneInv /\ Admitted /\ Contract!Init /\ ~overlap
  BY SameOperations DEF Init, AloneInv, Admitted, Working, Idle, Contract!Init
<1>2. TypeOK /\ ~overlap /\ [Next]_vars => ~overlap'
  BY AloneNeverMeets
<1>3. ~overlap /\ ~overlap' /\ [Contract!Next]_Contract!vars
        => [\E op \in Op : Contract!Apply(op)]_<<wallet, ledger>>
  BY SameOperations DEF Contract!Next, Contract!Meet, Contract!Race, Contract!vars
<1> QED
  BY <1>1, <1>2, <1>3, TypeCorrect, BalanceNeverNegative, NextAlone, NextAdmitted,
     StepImplements, PTL DEF Spec

=============================================================================
