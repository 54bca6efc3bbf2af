---------------------------- MODULE EscrowProofs ----------------------------
(***************************************************************************)
(* What EscrowRelease promises for any number of escrows, workers and      *)
(* purchase requests.  The invariant Exclusive says what the row locks     *)
(* achieve: a session that is about to pay is the only one for its escrow, *)
(* which is still held, not in dispute, due, and not yet paid.  Alone says *)
(* what is left of that for the wallets, which nobody locks: as long as no *)
(* two sessions met, the one at work has seen the rows as they are.        *)
(***************************************************************************)
EXTENDS EscrowRelease, FiniteSetTheorems, TLAPS

Session == [st : {"idle", "buying", "listed", "locked"}, queue : SUBSET Escrows,
            escrow : Escrows \cup {NoEscrow}, seen : [Wallets -> Row]]

Affordable ==
    \A s \in Sessions : session[s].st = "buying" =>
        session[s].seen[Buyer].balance >= Amount[session[s].escrow]

Works(s, st, e) == session[s].st = st /\ session[s].escrow = e

Exclusive ==
    /\ \A s \in Sessions, e \in Escrows :
        /\ Works(s, "locked", e) => status[e] = "holding" /\ e \notin disputed /\ e \in matured
        /\ Works(s, "buying", e) => status[e] = "none"
        /\ e \in session[s].queue => e \in matured
    /\ \A s, q \in Sessions, e \in Escrows, st \in {"locked", "buying"} :
        Works(s, st, e) /\ Works(q, st, e) => s = q
    /\ \A e \in Escrows :
        /\ e \in disputed => status[e] # "none"
        /\ status[e] = "released" => e \in matured
        /\ payout[e] # 0 => status[e] = "released" /\ payout[e] = CreatorShare(Amount[e])

-----------------------------------------------------------------------------
(* Facts about what a session computes.                                    *)

\* The creator's share is a natural number and at most seventy percent.
LEMMA ShareBound ==
    ASSUME NEW a \in Nat
    PROVE  CreatorShare(a) \in Nat /\ 10 * CreatorShare(a) <= 7 * a
<1>1. (7 * a) \div 10 \in Nat /\ 10 * ((7 * a) \div 10) <= 7 * a
  OBVIOUS
<1>2. CASE a \in ShortFloats
  <2>1. (7 * a) % 10 = 0 /\ a > 0
    BY <1>2, EscrowAssumption DEF EscrowAssumption
  <2>2. (7 * a) \div 10 >= 1
    BY <2>1
  <2> QED BY <1>1, <1>2, <2>2 DEF CreatorShare
<1>3. CASE a \notin ShortFloats
  BY <1>1, <1>3 DEF CreatorShare
<1> QED BY <1>2, <1>3

LEMMA IdleSession == Idle \in Session /\ Idle.st = "idle" /\ Idle.queue = {} /\ Idle.escrow = NoEscrow
<1>1. [w \in Wallets |-> [balance |-> 0, escrow |-> 0]] \in [Wallets -> Row]
  BY DEF Row
<1> QED BY <1>1 DEF Idle, Session

LEMMA BoughtType ==
    ASSUME NEW e \in Escrows, NEW seen \in [Wallets -> Row], seen[Buyer].balance >= Amount[e]
    PROVE  Bought(e, seen) \in [Wallets -> Row]
<1>1. Amount[e] \in Nat /\ Buyer \in Wallets
  BY EscrowAssumption DEF EscrowAssumption, Wallets
<1>2. seen[Buyer].balance \in Nat /\ seen[Buyer].escrow \in Nat
  BY <1>1 DEF Row
<1> DEFINE paid == [seen EXCEPT ![Buyer].balance = @ - Amount[e]]
<1>3. paid \in [Wallets -> Row]
  BY <1>1, <1>2 DEF Row
<1>4. Bought(e, seen) = [paid EXCEPT ![Buyer].escrow = @ + Amount[e]]
  BY DEF Bought
<1> HIDE DEF paid
<1> QED BY <1>1, <1>3, <1>4 DEF Row

LEMMA ReleasedType ==
    ASSUME NEW e \in Escrows, NEW seen \in [Wallets -> Row]
    PROVE  Released(e, seen) \in [Wallets -> Row]
<1>1. Amount[e] \in Nat /\ Buyer \in Wallets /\ Creator \in Wallets
  BY EscrowAssumption DEF EscrowAssumption, Wallets
<1> DEFINE returned == [seen EXCEPT ![Buyer].escrow = NonNegative(@ - Amount[e])]
<1>2. NonNegative(seen[Buyer].escrow - Amount[e]) \in Nat
  BY <1>1 DEF Row, NonNegative
<1>3. returned \in [Wallets -> Row]
  BY <1>1, <1>2 DEF Row
<1> HIDE DEF returned
<1>4. CreatorShare(Amount[e]) \in Nat
  BY <1>1, ShareBound
<1>5. [returned EXCEPT ![Creator].balance = @ + CreatorShare(Amount[e])] \in [Wallets -> Row]
  BY <1>1, <1>3, <1>4 DEF Row
<1> QED BY <1>3, <1>5 DEF Released, returned

LEMMA WrittenType ==
    ASSUME NEW new \in [Wallets -> Row], NEW seen \in [Wallets -> Row], wallet \in [Wallets -> Row]
    PROVE  Written(new, seen) \in [Wallets -> Row]
BY DEF Written, Row

-----------------------------------------------------------------------------
TypeInv == TypeOK /\ Affordable

LEMMA InitInv == Init => TypeInv /\ Exclusive
<1> SUFFICES ASSUME Init PROVE TypeInv /\ Exclusive
  OBVIOUS
<1>1. [w \in Wallets |-> [balance |-> Opening, escrow |-> 0]] \in [Wallets -> Row]
  BY EscrowAssumption DEF EscrowAssumption, Row
<1>2. \A s \in Sessions : session[s] = Idle
  BY DEF Init
<1>3. NoEscrow \notin Escrows
  BY EscrowAssumption DEF EscrowAssumption
<1>4. session \in [Sessions -> Session]
  BY IdleSession DEF Init
<1>5. TypeOK
  BY <1>1, <1>2, <1>3, <1>4, IdleSession DEF Init, TypeOK, Session
<1>6. Affordable /\ Exclusive
  BY <1>2, IdleSession DEF Init, Affordable, Exclusive, Works
<1> QED BY <1>5, <1>6 DEF TypeInv

LEMMA NextType == TypeInv /\ [Next]_vars => TypeInv'
<1> SUFFICES ASSUME TypeInv, [Next]_vars PROVE TypeInv'
  OBVIOUS
<1>0. NoEscrow \notin Escrows
  BY EscrowAssumption DEF EscrowAssumption
<1> USE <1>0 DEF TypeInv, TypeOK, Affordable, Sessions
<1>1. ASSUME NEW e \in Escrows, Mature(e) PROVE TypeInv'
  BY <1>1 DEF Mature
<1>2. ASSUME NEW e \in Escrows, Dispute(e) PROVE TypeInv'
  BY <1>2 DEF Dispute
<1>3. ASSUME NEW s \in Requests, NEW e \in Escrows, Buy(s, e) PROVE TypeInv'
  <2>1. session' \in [Sessions -> Session] /\ overlap' \in BOOLEAN
    BY <1>3 DEF Buy, Read, Session, HoldsRows
  <2>2. /\ session'[s].escrow = e /\ session'[s].st = "buying" /\ session'[s].seen = wallet
        /\ \A q \in Sessions \ {s} : session'[q] = session[q]
    BY <1>3 DEF Buy, Read
  <2>3. wallet[Buyer].balance >= Amount[e]
    BY <1>3 DEF Buy
  <2>4. status' = status /\ matured' = matured /\ disputed' = disputed /\ wallet' = wallet
        /\ payout' = payout
    BY <1>3 DEF Buy
  <2> QED BY <2>1, <2>2, <2>3, <2>4 DEF Session
<1>4. ASSUME NEW s \in Requests, CommitBuy(s) PROVE TypeInv'
  <2>1. PICK e \in Escrows : e = session[s].escrow
    BY <1>4 DEF CommitBuy
  <2>2. Bought(e, session[s].seen) \in [Wallets -> Row] /\ session[s].seen \in [Wallets -> Row]
    BY <1>4, <2>1, BoughtType DEF CommitBuy
  <2>3. wallet' \in [Wallets -> Row]
    BY <1>4, <2>1, <2>2, WrittenType DEF CommitBuy
  <2>4. session' \in [Sessions -> Session] /\ \A q \in Sessions : session'[q] \in {Idle, session[q]}
    BY <1>4, IdleSession DEF CommitBuy, Session
  <2>5. status' \in [Escrows -> {"none", "holding", "released"}]
    BY <1>4, <2>1 DEF CommitBuy
  <2>6. matured' = matured /\ disputed' = disputed /\ payout' = payout /\ overlap' = overlap
    BY <1>4 DEF CommitBuy
  <2> QED BY <2>3, <2>4, <2>5, <2>6, IdleSession DEF Session
<1>5. ASSUME NEW s \in Workers, List(s) PROVE TypeInv'
  <2>1. [Idle EXCEPT !.st = "listed", !.queue = Due] \in Session
    BY IdleSession DEF Session, Due
  <2>2. session' \in [Sessions -> Session] /\ \A q \in Sessions \ {s} : session'[q] = session[q]
    BY <1>5, <2>1 DEF List, Session
  <2>3. session'[s].st = "listed" /\ session'[s].escrow = NoEscrow
    BY <1>5, IdleSession DEF List, Session
  <2>4. status' = status /\ matured' = matured /\ disputed' = disputed /\ wallet' = wallet
        /\ payout' = payout /\ overlap' = overlap
    BY <1>5 DEF List
  <2> QED BY <2>2, <2>3, <2>4 DEF Session
<1>6. ASSUME NEW s \in Workers, NEW e \in Escrows, Lock(s, e) PROVE TypeInv'
  <2>1. session' \in [Sessions -> Session] /\ overlap' \in BOOLEAN
    BY <1>6 DEF Lock, Read, Session, HoldsRows
  <2>2. /\ session'[s].escrow = e /\ session'[s].st = "locked"
        /\ \A q \in Sessions \ {s} : session'[q] = session[q]
    BY <1>6 DEF Lock, Read
  <2>3. status' = status /\ matured' = matured /\ disputed' = disputed /\ wallet' = wallet
        /\ payout' = payout
    BY <1>6 DEF Lock
  <2> QED BY <2>1, <2>2, <2>3 DEF Session
<1>7. ASSUME NEW s \in Workers, NEW e \in Escrows, Skip(s, e) PROVE TypeInv'
  <2>1. session' \in [Sessions -> Session]
    BY <1>7 DEF Skip, Session
  <2>2. \A q \in Sessions : /\ session'[q].st = session[q].st
                            /\ session'[q].escrow = session[q].escrow
                            /\ session'[q].seen = session[q].seen
    BY <1>7 DEF Skip, Session
  <2>3. status' = status /\ matured' = matured /\ disputed' = disputed /\ wallet' = wallet
        /\ payout' = payout /\ overlap' = overlap
    BY <1>7 DEF Skip
  <2> QED BY <2>1, <2>2, <2>3 DEF Session
<1>8. ASSUME NEW s \in Workers, Release(s) PROVE TypeInv'
  <2>1. PICK e \in Escrows : e = session[s].escrow
    BY <1>8 DEF Release
  <2>2. session[s].seen \in [Wallets -> Row] /\ session[s].queue \subseteq Escrows
    BY <1>8
  <2>3. wallet' \in [Wallets -> Row]
    BY <1>8, <2>1, <2>2, ReleasedType, WrittenType DEF Release
  <2>4. [Idle EXCEPT !.st = "listed", !.queue = session[s].queue] \in Session
    BY <2>2, IdleSession DEF Session
  <2>5. /\ session' \in [Sessions -> Session]
        /\ session'[s].st = "listed" /\ session'[s].escrow = NoEscrow
        /\ \A q \in Sessions \ {s} : session'[q] = session[q]
    BY <1>8, <2>4, IdleSession DEF Release, Session
  <2>6. status' \in [Escrows -> {"none", "holding", "released"}]
    BY <1>8, <2>1 DEF Release
  <2>7. payout' \in [Escrows -> Nat]
    <3>1. CreatorShare(Amount[e]) \in Nat
      BY ShareBound, EscrowAssumption DEF EscrowAssumption
    <3> QED BY <1>8, <2>1, <3>1 DEF Release
  <2>8. matured' = matured /\ disputed' = disputed /\ overlap' = overlap
    BY <1>8 DEF Release
  <2> QED BY <2>3, <2>5, <2>6, <2>7, <2>8 DEF Session
<1>9. ASSUME NEW s \in Sessions, Finish(s) \/ Crash(s) PROVE TypeInv'
  <2>1. session' \in [Sessions -> Session] /\ \A q \in Sessions : session'[q] \in {Idle, session[q]}
    BY <1>9, IdleSession DEF Finish, Crash, Session
  <2>2. status' = status /\ matured' = matured /\ disputed' = disputed /\ wallet' = wallet
        /\ payout' = payout /\ overlap' = overlap
    BY <1>9 DEF Finish, Crash
  <2> QED BY <2>1, <2>2, IdleSession DEF Session
<1>10. CASE UNCHANGED vars
  BY <1>10 DEF vars
<1> QED
  BY <1>1, <1>2, <1>3, <1>4, <1>5, <1>6, <1>7, <1>8, <1>9, <1>10 DEF Next

\* The rows and the sessions stay well formed; no wallet goes below zero.
THEOREM TypeCorrect == Spec => []TypeOK
<1>1. TypeInv => TypeOK
  BY DEF TypeInv
<1> QED BY <1>1, InitInv, NextType, PTL DEF Spec

-----------------------------------------------------------------------------
LEMMA NextExclusive == TypeInv /\ Exclusive /\ [Next]_vars => Exclusive'
<1> SUFFICES ASSUME TypeInv, Exclusive, [Next]_vars PROVE Exclusive'
  OBVIOUS
<1>0. /\ NoEscrow \notin Escrows
      /\ session \in [Sessions -> Session]
      /\ \A s \in Sessions : session[s].escrow \in Escrows <=> session[s].st \in {"buying", "locked"}
      /\ status \in [Escrows -> {"none", "holding", "released"}]
      /\ payout \in [Escrows -> Nat] /\ matured \subseteq Escrows /\ disputed \subseteq Escrows
  BY EscrowAssumption DEF EscrowAssumption, TypeInv, TypeOK, Session
<1> USE <1>0 DEF Exclusive, Works, Sessions
<1>1. ASSUME NEW e \in Escrows, Mature(e) PROVE Exclusive'
  BY <1>1 DEF Mature
<1>2. ASSUME NEW e \in Escrows, Dispute(e) PROVE Exclusive'
  <2>1. \A s \in Sessions : ~Works(s, "locked", e)
    BY <1>2 DEF Dispute, Locked
  <2>2. status[e] = "holding" /\ disputed' \subseteq disputed \cup {e}
    BY <1>2 DEF Dispute
  <2>3. status' = status /\ matured' = matured /\ session' = session /\ payout' = payout
    BY <1>2 DEF Dispute
  <2> QED BY <2>1, <2>2, <2>3
<1>3. ASSUME NEW s \in Requests, NEW e \in Escrows, Buy(s, e) PROVE Exclusive'
  <2>1. /\ session'[s].escrow = e /\ session'[s].st = "buying"
        /\ session'[s].queue \subseteq session[s].queue
        /\ \A q \in Sessions \ {s} : session'[q] = session[q]
    BY <1>3 DEF Buy, Read, Session
  <2>2. status[e] = "none" /\ \A q \in Sessions : session[q].escrow # e
    BY <1>3 DEF Buy
  <2>3. status' = status /\ matured' = matured /\ disputed' = disputed /\ payout' = payout
    BY <1>3 DEF Buy
  <2> QED BY <2>1, <2>2, <2>3
<1>4. ASSUME NEW s \in Requests, CommitBuy(s) PROVE Exclusive'
  <2>1. PICK e \in Escrows : Works(s, "buying", e)
    BY <1>4 DEF CommitBuy
  <2>2. status' = [status EXCEPT ![e] = "holding"] /\ status[e] = "none"
    BY <1>4, <2>1 DEF CommitBuy
  <2>3. session'[s] = Idle /\ \A q \in Sessions \ {s} : session'[q] = session[q]
    BY <1>4 DEF CommitBuy
  <2>4. matured' = matured /\ disputed' = disputed /\ payout' = payout
    BY <1>4 DEF CommitBuy
  <2>5. e \notin disputed /\ payout[e] = 0 /\ \A q \in Sessions \ {s} : session[q].escrow # e
    BY <2>1, <2>2
  <2> QED BY <2>2, <2>3, <2>4, <2>5, IdleSession
<1>5. ASSUME NEW s \in Workers, List(s) PROVE Exclusive'
  <2>1. /\ session'[s].st = "listed" /\ session'[s].queue \subseteq matured
        /\ \A q \in Sessions \ {s} : session'[q] = session[q]
    BY <1>5, IdleSession DEF List, Due, Session
  <2>2. status' = status /\ matured' = matured /\ disputed' = disputed /\ payout' = payout
    BY <1>5 DEF List
  <2> QED BY <2>1, <2>2
<1>6. ASSUME NEW s \in Workers, NEW e \in Escrows, Lock(s, e) PROVE Exclusive'
  <2>1. /\ session'[s].escrow = e /\ session'[s].st = "locked"
        /\ session'[s].queue \subseteq session[s].queue
        /\ \A q \in Sessions \ {s} : session'[q] = session[q]
    BY <1>6 DEF Lock, Read, Session
  <2>2. /\ \A q \in Sessions : ~Works(q, "locked", e)
        /\ status[e] = "holding" /\ e \notin disputed /\ e \in matured
    BY <1>6 DEF Lock, Locked, Releasable
  <2>3. status' = status /\ matured' = matured /\ disputed' = disputed /\ payout' = payout
    BY <1>6 DEF Lock
  <2> QED BY <2>1, <2>2, <2>3
<1>7. ASSUME NEW s \in Workers, NEW e \in Escrows, Skip(s, e) PROVE Exclusive'
  <2>1. \A q \in Sessions : /\ session'[q].st = session[q].st
                            /\ session'[q].escrow = session[q].escrow
                            /\ session'[q].queue \subseteq session[q].queue
    BY <1>7 DEF Skip, Session
  <2>2. status' = status /\ matured' = matured /\ disputed' = disputed /\ payout' = payout
    BY <1>7 DEF Skip
  <2> QED BY <2>1, <2>2
<1>8. ASSUME NEW s \in Workers, Release(s) PROVE Exclusive'
  <2>1. PICK e \in Escrows : Works(s, "locked", e)
    BY <1>8 DEF Release
  <2>2. /\ status' = [status EXCEPT ![e] = "released"] /\ status[e] = "holding"
        /\ e \notin disputed /\ e \in matured /\ payout[e] = 0
    BY <1>8, <2>1 DEF Release
  <2>3. /\ session'[s].st = "listed" /\ session'[s].queue = session[s].queue
        /\ \A q \in Sessions \ {s} : session'[q] = session[q]
    BY <1>8, IdleSession DEF Release, Session
  <2>4. \A q \in Sessions \ {s} : session[q].escrow # e
    BY <2>1, <2>2
  <2>5. matured' = matured /\ disputed' = disputed
    BY <1>8 DEF Release
  <2>6. payout'[e] \in {0, CreatorShare(Amount[e])} /\ \A f \in Escrows \ {e} : payout'[f] = payout[f]
    <3>1. CreatorShare(Amount[e]) \in Nat
      BY ShareBound, EscrowAssumption DEF EscrowAssumption
    <3> QED BY <1>8, <2>1, <2>2, <3>1 DEF Release
  <2> QED BY <2>2, <2>3, <2>4, <2>5, <2>6
<1>9. ASSUME NEW s \in Sessions, Finish(s) \/ Crash(s) PROVE Exclusive'
  <2>1. \A q \in Sessions : session'[q] \in {Idle, session[q]}
    BY <1>9 DEF Finish, Crash
  <2>2. status' = status /\ matured' = matured /\ disputed' = disputed /\ payout' = payout
    BY <1>9 DEF Finish, Crash
  <2> QED BY <2>1, <2>2, IdleSession
<1>10. CASE UNCHANGED vars
  BY <1>10 DEF vars
<1> QED
  BY <1>1, <1>2, <1>3, <1>4, <1>5, <1>6, <1>7, <1>8, <1>9, <1>10 DEF Next

\* No escrow is released before its dispute window has passed.
THEOREM WindowRespected == Spec => []ReleasedAfterWindow
<1>1. Exclusive => ReleasedAfterWindow
  BY DEF Exclusive, ReleasedAfterWindow
<1> QED BY <1>1, InitInv, NextType, NextExclusive, PTL DEF Spec

\* The creator is never paid more than seventy percent of a price.
THEOREM ShareRespected == Spec => []PlatformKeepsShare
<1>1. TypeInv /\ Exclusive => PlatformKeepsShare
  <2> SUFFICES ASSUME TypeInv, Exclusive, NEW e \in Escrows PROVE 10 * payout[e] <= 7 * Amount[e]
    BY DEF PlatformKeepsShare
  <2>1. Amount[e] \in Nat
    BY EscrowAssumption DEF EscrowAssumption
  <2>2. payout[e] = 0 \/ payout[e] = CreatorShare(Amount[e])
    BY DEF Exclusive
  <2> QED BY <2>1, <2>2, ShareBound
<1> QED BY <1>1, InitInv, NextType, NextExclusive, PTL DEF Spec

-----------------------------------------------------------------------------
(* The sum of what is held.                                                *)

\* A set grows by the n tokens of an escrow that has none in it.
LEMMA BlockAdded ==
    ASSUME NEW T, IsFiniteSet(T), NEW e, NEW n \in Nat, T \cap ({e} \X (1..n)) = {}
    PROVE  /\ IsFiniteSet(T \cup ({e} \X (1..n)))
           /\ Cardinality(T \cup ({e} \X (1..n))) = Cardinality(T) + n
<1> DEFINE Block == {e} \X (1..n)
           pair == [i \in 1..n |-> <<e, i>>]
<1>1. pair \in Bijection(1..n, Block)
  <2>1. pair \in [1..n -> Block]
    OBVIOUS
  <2>2. \A b \in Block : \E i \in 1..n : pair[i] = b
    OBVIOUS
  <2>3. \A i, j \in 1..n : pair[i] = pair[j] => i = j
    OBVIOUS
  <2> QED BY <2>1, <2>2, <2>3 DEF Bijection, Injection, IsInjective, Surjection
<1>2. IsFiniteSet(Block) /\ Cardinality(Block) = n
  <2>1. ExistsBijection(1..n, Block)
    BY <1>1 DEF ExistsBijection
  <2>2. IsFiniteSet(Block)
    BY <2>1, FS_NatBijection
  <2> QED BY <2>1, <2>2, FS_CountingElements
<1>3. Cardinality(T \cap Block) = 0
  BY FS_EmptySet
<1> HIDE DEF Block, pair
<1>4. Cardinality(T) \in Nat
  BY FS_CardinalityType
<1>5. /\ IsFiniteSet(T \cup Block)
      /\ Cardinality(T \cup Block) = Cardinality(T) + Cardinality(Block) - Cardinality(T \cap Block)
  BY <1>2, FS_Union
<1>6. Cardinality(T \cup Block) = Cardinality(T) + n
  BY <1>2, <1>3, <1>4, <1>5
<1> QED BY <1>5, <1>6 DEF Block

\* What an escrow adds to a sum it is not yet part of.
LEMMA TokensOfOneMore ==
    ASSUME NEW S \in SUBSET Escrows, NEW e \in Escrows, e \notin S, IsFiniteSet(Tokens(S))
    PROVE  /\ IsFiniteSet(Tokens(S \cup {e}))
           /\ Cardinality(Tokens(S \cup {e})) = Cardinality(Tokens(S)) + Amount[e]
<1>1. Tokens(S \cup {e}) = Tokens(S) \cup ({e} \X (1..Amount[e]))
  BY DEF Tokens
<1>2. Tokens(S) \cap ({e} \X (1..Amount[e])) = {}
  BY DEF Tokens
<1>3. Amount[e] \in Nat
  BY EscrowAssumption DEF EscrowAssumption
<1> DEFINE T == Tokens(S)
<1>4. IsFiniteSet(T) /\ T \cap ({e} \X (1..Amount[e])) = {}
  BY <1>2
<1> HIDE DEF T
<1>5. /\ IsFiniteSet(T \cup ({e} \X (1..Amount[e])))
      /\ Cardinality(T \cup ({e} \X (1..Amount[e]))) = Cardinality(T) + Amount[e]
  BY <1>3, <1>4, BlockAdded
<1> QED BY <1>1, <1>5 DEF T

Alone ==
    /\ IsFiniteSet(Tokens(Holding))
    /\ ~overlap =>
        /\ \A s, q \in Sessions : HoldsRows(s) /\ HoldsRows(q) => s = q
        /\ \A s \in Sessions : HoldsRows(s) => session[s].seen = wallet
        /\ wallet[Buyer].escrow = Cardinality(Tokens(Holding))

LEMMA InitAlone == Init => Alone
<1> SUFFICES ASSUME Init PROVE Alone
  OBVIOUS
<1>1. Tokens(Holding) = {}
  BY DEF Init, Holding, Tokens
<1>2. IsFiniteSet(Tokens(Holding)) /\ Cardinality(Tokens(Holding)) = 0
  BY <1>1, FS_EmptySet
<1>3. \A s \in Sessions : ~HoldsRows(s)
  BY IdleSession DEF Init, HoldsRows
<1>4. wallet[Buyer].escrow = 0
  BY DEF Init, Wallets
<1> QED BY <1>2, <1>3, <1>4 DEF Alone

\* What a session that met nobody writes is what it computed.
LEMMA WrittenAlone ==
    ASSUME NEW new \in [Wallets -> Row], wallet \in [Wallets -> Row]
    PROVE  Written(new, wallet)[Buyer].escrow = new[Buyer].escrow
BY DEF Written, Wallets

\* A step that leaves wallets and statuses alone and in which no session reads.
LEMMA AloneStays ==
    ASSUME Alone, status' = status, wallet' = wallet, overlap' = overlap,
           \A q \in Sessions : HoldsRows(q)' => HoldsRows(q) /\ session'[q].seen = session[q].seen
    PROVE  Alone'
<1>1. Tokens(Holding)' = Tokens(Holding)
  BY DEF Tokens, Holding
<1> QED BY <1>1 DEF Alone

\* A session reads the wallets: it is alone, or it is noticed.
LEMMA AloneReads ==
    ASSUME TypeInv, Alone, NEW s \in Sessions, NEW st \in {"buying", "locked"}, NEW e \in Escrows,
           Read(s, st, e), status' = status, wallet' = wallet
    PROVE  Alone'
<1>1. Tokens(Holding)' = Tokens(Holding)
  BY DEF Tokens, Holding
<1>2. /\ session'[s].seen = wallet
      /\ \A q \in Sessions \ {s} : session'[q] = session[q]
  BY DEF Read, TypeInv, TypeOK
<1>3. ~overlap' => ~overlap /\ \A q \in Sessions : ~HoldsRows(q)
  BY DEF Read, TypeInv, TypeOK
<1>4. \A q \in Sessions \ {s} : HoldsRows(q)' <=> HoldsRows(q)
  BY <1>2 DEF HoldsRows
<1> QED BY <1>1, <1>2, <1>3, <1>4 DEF Alone

LEMMA NextAlone == TypeInv /\ Exclusive /\ Alone /\ [Next]_vars => Alone'
<1> SUFFICES ASSUME TypeInv, Exclusive, Alone, [Next]_vars PROVE Alone'
  OBVIOUS
<1>0. /\ wallet \in [Wallets -> Row]
      /\ session \in [Sessions -> Session]
      /\ status \in [Escrows -> {"none", "holding", "released"}]
      /\ \A s \in Sessions : session[s].escrow \in Escrows <=> session[s].st \in {"buying", "locked"}
      /\ Buyer \in Wallets /\ Creator \in Wallets
  BY DEF TypeInv, TypeOK, Session, Wallets
<1> USE DEF Sessions
<1>1. ASSUME NEW e \in Escrows, Mature(e) \/ Dispute(e) PROVE Alone'
  <2>1. session' = session /\ status' = status /\ wallet' = wallet /\ overlap' = overlap
    BY <1>1 DEF Mature, Dispute
  <2> QED BY <2>1, AloneStays DEF HoldsRows
<1>2. ASSUME NEW s \in Requests, NEW e \in Escrows, Buy(s, e) PROVE Alone'
  <2>1. Read(s, "buying", e) /\ status' = status /\ wallet' = wallet
    BY <1>2 DEF Buy
  <2> QED BY <2>1, AloneReads
<1>3. ASSUME NEW s \in Workers, NEW e \in Escrows, Lock(s, e) PROVE Alone'
  <2>1. Read(s, "locked", e) /\ status' = status /\ wallet' = wallet
    BY <1>3 DEF Lock
  <2> QED BY <2>1, AloneReads
<1>4. ASSUME NEW s \in Requests, CommitBuy(s) PROVE Alone'
  <2>1. PICK e \in Escrows : Works(s, "buying", e)
    BY <1>0, <1>4 DEF CommitBuy, Works
  <2>2. status[e] = "none" /\ status' = [status EXCEPT ![e] = "holding"] /\ overlap' = overlap
    BY <1>4, <2>1 DEF CommitBuy, Exclusive, Works
  <2>3. Holding' = Holding \cup {e} /\ e \notin Holding /\ Holding \in SUBSET Escrows
    BY <1>0, <2>2 DEF Holding
  <2>4. Tokens(Holding)' = Tokens(Holding \cup {e})
    BY <2>3 DEF Tokens
  <2>5. /\ IsFiniteSet(Tokens(Holding)')
        /\ Cardinality(Tokens(Holding)') = Cardinality(Tokens(Holding)) + Amount[e]
    BY <2>3, <2>4, TokensOfOneMore DEF Alone
  <2>6. /\ \A q \in Sessions : HoldsRows(q)' => q # s /\ HoldsRows(q)
        /\ HoldsRows(s)
    BY <1>0, <1>4, IdleSession DEF CommitBuy, HoldsRows
  <2>7. ASSUME ~overlap
        PROVE  /\ \A q \in Sessions : ~HoldsRows(q)'
               /\ wallet'[Buyer].escrow = Cardinality(Tokens(Holding)')
    <3>1. session[s].seen = wallet /\ \A q \in Sessions : HoldsRows(q) => q = s
      BY <2>6, <2>7 DEF Alone
    <3>2. wallet[Buyer].balance >= Amount[e]
      BY <2>1, <3>1 DEF TypeInv, Affordable, Works
    <3>3. Bought(e, wallet) \in [Wallets -> Row] /\ wallet' = Written(Bought(e, wallet), wallet)
      BY <1>0, <1>4, <2>1, <3>1, <3>2, BoughtType DEF CommitBuy, Works
    <3>4. wallet'[Buyer].escrow = wallet[Buyer].escrow + Amount[e]
      BY <1>0, <3>3, WrittenAlone DEF Bought, Row
    <3> QED BY <2>5, <2>6, <2>7, <3>1, <3>4 DEF Alone
  <2> QED BY <2>2, <2>5, <2>7 DEF Alone
<1>5. ASSUME NEW s \in Workers, Release(s) PROVE Alone'
  <2>1. PICK e \in Escrows : Works(s, "locked", e)
    BY <1>0, <1>5 DEF Release, Works
  <2>2. status[e] = "holding" /\ status' = [status EXCEPT ![e] = "released"] /\ overlap' = overlap
    BY <1>5, <2>1 DEF Release, Exclusive, Works
  <2>3. Holding = Holding' \cup {e} /\ e \notin Holding' /\ Holding' \in SUBSET Escrows
    BY <1>0, <2>2 DEF Holding
  <2>4. Tokens(Holding)' = Tokens(Holding') /\ Tokens(Holding) = Tokens(Holding' \cup {e})
    BY <2>3 DEF Tokens
  <2>5. IsFiniteSet(Tokens(Holding'))
    <3>1. Tokens(Holding') \subseteq Tokens(Holding)
      BY <2>3 DEF Tokens
    <3> QED BY <3>1, FS_Subset DEF Alone
  <2>6. Cardinality(Tokens(Holding)) = Cardinality(Tokens(Holding')) + Amount[e]
    BY <2>3, <2>4, <2>5, TokensOfOneMore
  <2>7. /\ \A q \in Sessions : HoldsRows(q)' => q # s /\ HoldsRows(q)
        /\ HoldsRows(s)
    <3>1. /\ session'[s].st = "listed"
          /\ \A q \in Sessions \ {s} : session'[q] = session[q]
      BY <1>0, <1>5, IdleSession DEF Release, Session
    <3> QED BY <1>5, <3>1 DEF HoldsRows, Release
  <2>8. ASSUME ~overlap
        PROVE  /\ \A q \in Sessions : ~HoldsRows(q)'
               /\ wallet'[Buyer].escrow = Cardinality(Tokens(Holding'))
    <3>1. session[s].seen = wallet /\ \A q \in Sessions : HoldsRows(q) => q = s
      BY <2>7, <2>8 DEF Alone
    <3>2. Released(e, wallet) \in [Wallets -> Row] /\ wallet' = Written(Released(e, wallet), wallet)
      BY <1>0, <1>5, <2>1, <3>1, ReleasedType DEF Release, Works
    <3>3. wallet'[Buyer].escrow = NonNegative(wallet[Buyer].escrow - Amount[e])
      BY <1>0, <3>2, WrittenAlone DEF Released, Row
    <3>4. wallet[Buyer].escrow = Cardinality(Tokens(Holding')) + Amount[e]
      BY <2>6, <2>8 DEF Alone
    <3>5. Cardinality(Tokens(Holding')) \in Nat /\ Amount[e] \in Nat
      BY <2>5, FS_CardinalityType, EscrowAssumption DEF EscrowAssumption
    <3>6. NonNegative(wallet[Buyer].escrow - Amount[e]) = Cardinality(Tokens(Holding'))
      BY <3>4, <3>5 DEF NonNegative
    <3> QED BY <2>7, <3>1, <3>3, <3>6
  <2> QED BY <2>2, <2>4, <2>5, <2>8 DEF Alone
<1>6. ASSUME NEW s \in Workers, List(s) PROVE Alone'
  <2>1. /\ session'[s].st = "listed"
        /\ \A q \in Sessions \ {s} : session'[q] = session[q]
    BY <1>0, <1>6, IdleSession DEF List, Session
  <2>2. status' = status /\ wallet' = wallet /\ overlap' = overlap
    BY <1>6 DEF List
  <2> QED BY <2>1, <2>2, AloneStays DEF HoldsRows
<1>7. ASSUME NEW s \in Workers, NEW e \in Escrows, Skip(s, e) PROVE Alone'
  <2>1. \A q \in Sessions : session'[q].st = session[q].st /\ session'[q].seen = session[q].seen
    BY <1>0, <1>7 DEF Skip, Session
  <2>2. status' = status /\ wallet' = wallet /\ overlap' = overlap
    BY <1>7 DEF Skip
  <2> QED BY <2>1, <2>2, AloneStays DEF HoldsRows
<1>8. ASSUME NEW s \in Sessions, Finish(s) \/ Crash(s) PROVE Alone'
  <2>1. \A q \in Sessions : session'[q] \in {Idle, session[q]}
    BY <1>0, <1>8 DEF Finish, Crash
  <2>2. status' = status /\ wallet' = wallet /\ overlap' = overlap
    BY <1>8 DEF Finish, Crash
  <2> QED BY <2>1, <2>2, IdleSession, AloneStays DEF HoldsRows
<1>9. CASE UNCHANGED vars
  <2>1. session' = session /\ status' = status /\ wallet' = wallet /\ overlap' = overlap
    BY <1>9 DEF vars
  <2> QED BY <2>1, AloneStays DEF HoldsRows
<1> QED
  BY <1>1, <1>2, <1>3, <1>4, <1>5, <1>6, <1>7, <1>8, <1>9 DEF Next

-----------------------------------------------------------------------------
(* The balances.                                                           *)

Accounted == IsFiniteSet(Tokens(Sold)) /\ IsFiniteSet(Earned) /\ BalancesAddUp

LEMMA InitAccounted == Init => Accounted
<1> SUFFICES ASSUME Init PROVE Accounted
  OBVIOUS
<1>1. Tokens(Sold) = {} /\ Earned = {}
  BY DEF Init, Sold, Tokens, Earned
<1>2. /\ IsFiniteSet(Tokens(Sold)) /\ Cardinality(Tokens(Sold)) = 0
      /\ IsFiniteSet(Earned) /\ Cardinality(Earned) = 0
  BY <1>1, FS_EmptySet
<1>3. \A w \in Wallets : wallet[w].balance = Opening
  BY DEF Init
<1> QED BY <1>2, <1>3, EscrowAssumption DEF EscrowAssumption, Accounted, BalancesAddUp

\* Nothing is bought or paid out: the sums are those of before.
LEMMA AccountedStays ==
    ASSUME Accounted, status' = status, payout' = payout, wallet' = wallet, overlap => overlap'
    PROVE  Accounted'
<1>1. Tokens(Sold)' = Tokens(Sold) /\ Earned' = Earned
  BY DEF Tokens, Sold, Earned
<1> QED BY <1>1 DEF Accounted, BalancesAddUp

\* What a session that met nobody leaves in the wallets.
LEMMA BalanceWritten ==
    ASSUME NEW new \in [Wallets -> Row], wallet \in [Wallets -> Row], NEW w \in Wallets
    PROVE  Written(new, wallet)[w].balance = new[w].balance
BY DEF Written

LEMMA BoughtBalances ==
    ASSUME NEW e \in Escrows, wallet \in [Wallets -> Row], NEW w \in Wallets
    PROVE  Bought(e, wallet)[w].balance = wallet[w].balance - (IF w = Buyer THEN Amount[e] ELSE 0)
<1> DEFINE paid == [wallet EXCEPT ![Buyer].balance = @ - Amount[e]]
<1>1. Buyer \in Wallets /\ Amount[e] \in Nat /\ wallet[w].balance \in Nat
  BY EscrowAssumption DEF EscrowAssumption, Wallets, Row
<1>2. paid[w].balance = wallet[w].balance - (IF w = Buyer THEN Amount[e] ELSE 0)
  BY <1>1 DEF Row
<1>3. paid[w] \in [balance : Int, escrow : Nat] /\ paid[Buyer] \in [balance : Int, escrow : Nat]
      /\ DOMAIN paid = Wallets
  BY <1>1 DEF Row
<1>4. Bought(e, wallet) = [paid EXCEPT ![Buyer].escrow = @ + Amount[e]]
  BY DEF Bought
<1> HIDE DEF paid
<1>5. Bought(e, wallet)[w].balance = paid[w].balance
  BY <1>1, <1>3, <1>4
<1> QED BY <1>2, <1>5

LEMMA ReleasedBalances ==
    ASSUME NEW e \in Escrows, wallet \in [Wallets -> Row], NEW w \in Wallets
    PROVE  Released(e, wallet)[w].balance
             = wallet[w].balance + (IF e \in Payable /\ w = Creator THEN CreatorShare(Amount[e]) ELSE 0)
<1> DEFINE returned == [wallet EXCEPT ![Buyer].escrow = NonNegative(@ - Amount[e])]
<1>1. Buyer \in Wallets /\ Creator \in Wallets /\ Amount[e] \in Nat /\ wallet[w].balance \in Nat
  BY EscrowAssumption DEF EscrowAssumption, Wallets, Row
<1>2. CreatorShare(Amount[e]) \in Nat
  BY <1>1, ShareBound
<1>3. NonNegative(wallet[Buyer].escrow - Amount[e]) \in Nat
  BY <1>1 DEF Row, NonNegative
<1>4. returned \in [Wallets -> Row] /\ returned[w].balance = wallet[w].balance
  BY <1>1, <1>3 DEF Row
<1>5. Released(e, wallet) = IF e \in Payable
                              THEN [returned EXCEPT ![Creator].balance = @ + CreatorShare(Amount[e])]
                              ELSE returned
  BY DEF Released
<1> HIDE DEF returned
<1> QED BY <1>1, <1>2, <1>4, <1>5 DEF Row

\* Only what a session computed from the rows as they are is written while
\* nobody met anybody.
LEMMA SeenAlone ==
    ASSUME TypeInv, Alone, ~overlap, NEW s \in Sessions, HoldsRows(s)
    PROVE  session[s].seen = wallet
BY DEF Alone

LEMMA NextAccounted ==
    TypeInv /\ Exclusive /\ Alone /\ Accounted /\ [Next]_vars => Accounted'
<1> SUFFICES ASSUME TypeInv, Exclusive, Alone, Accounted, [Next]_vars PROVE Accounted'
  OBVIOUS
<1>0. /\ wallet \in [Wallets -> Row]
      /\ status \in [Escrows -> {"none", "holding", "released"}]
      /\ payout \in [Escrows -> Nat]
      /\ \A s \in Sessions : session[s].escrow \in Escrows <=> session[s].st \in {"buying", "locked"}
  BY DEF TypeInv, TypeOK
<1>a. /\ Cardinality(Tokens(Sold)) \in Nat /\ Cardinality(Earned) \in Nat /\ Opening \in Nat
      /\ \A w \in Wallets : wallet[w].balance \in Nat
  BY <1>0, FS_CardinalityType, EscrowAssumption DEF Accounted, EscrowAssumption, Row
<1> USE DEF Sessions
<1>1. ASSUME NEW s \in Requests, CommitBuy(s) PROVE Accounted'
  <2>1. PICK e \in Escrows : Works(s, "buying", e)
    BY <1>0, <1>1 DEF CommitBuy, Works
  <2>2. status[e] = "none" /\ status' = [status EXCEPT ![e] = "holding"]
        /\ payout' = payout /\ overlap' = overlap
    BY <1>1, <2>1 DEF CommitBuy, Exclusive, Works
  <2>3. Sold' = Sold \cup {e} /\ e \notin Sold /\ Sold \in SUBSET Escrows
    BY <1>0, <2>2 DEF Sold
  <2>4. Tokens(Sold)' = Tokens(Sold \cup {e}) /\ Earned' = Earned
    BY <2>2, <2>3 DEF Tokens, Earned
  <2>5. /\ IsFiniteSet(Tokens(Sold)')
        /\ Cardinality(Tokens(Sold)') = Cardinality(Tokens(Sold)) + Amount[e]
    BY <2>3, <2>4, TokensOfOneMore DEF Accounted
  <2>6. ASSUME ~overlap, NEW w \in Wallets
        PROVE  wallet'[w].balance = wallet[w].balance - (IF w = Buyer THEN Amount[e] ELSE 0)
    <3>1. session[s].seen = wallet
      BY <1>1, <2>6, SeenAlone DEF CommitBuy, HoldsRows
    <3>2. wallet[Buyer].balance >= Amount[e]
      BY <2>1, <3>1 DEF TypeInv, Affordable, Works
    <3>3. Bought(e, wallet) \in [Wallets -> Row] /\ wallet' = Written(Bought(e, wallet), wallet)
      BY <1>0, <1>1, <2>1, <3>1, <3>2, BoughtType DEF CommitBuy, Works
    <3>4. wallet'[w].balance = Bought(e, wallet)[w].balance
      BY <1>0, <3>3, BalanceWritten
    <3> QED BY <1>0, <3>4, BoughtBalances
  <2>7. Amount[e] \in Nat
    BY EscrowAssumption DEF EscrowAssumption
  <2>8. BalancesAddUp'
    <3> SUFFICES ASSUME ~overlap, NEW w \in Wallets
                 PROVE  wallet'[w].balance + (IF w = Buyer THEN Cardinality(Tokens(Sold)') ELSE 0)
                          = Opening + (IF w = Creator THEN Cardinality(Earned) ELSE 0)
      BY <2>2, <2>4 DEF BalancesAddUp, Wallets
    <3>1. wallet[w].balance + (IF w = Buyer THEN Cardinality(Tokens(Sold)) ELSE 0)
            = Opening + (IF w = Creator THEN Cardinality(Earned) ELSE 0)
      BY DEF Accounted, BalancesAddUp
    <3> QED BY <1>a, <2>5, <2>6, <2>7, <3>1
  <2> QED BY <2>4, <2>5, <2>8 DEF Accounted
<1>2. ASSUME NEW s \in Workers, Release(s) PROVE Accounted'
  <2>1. PICK e \in Escrows : Works(s, "locked", e)
    BY <1>0, <1>2 DEF Release, Works
  <2>2. status[e] = "holding" /\ status' = [status EXCEPT ![e] = "released"] /\ overlap' = overlap
    BY <1>2, <2>1 DEF Release, Exclusive, Works
  <2> DEFINE share == IF e \in Payable THEN CreatorShare(Amount[e]) ELSE 0
  <2>3. share \in Nat
    BY ShareBound, EscrowAssumption DEF EscrowAssumption
  <2>4. payout[e] = 0 /\ payout' = [payout EXCEPT ![e] = share]
    <3>1. payout[e] = 0
      BY <2>2 DEF Exclusive
    <3>2. CASE e \in Payable
      <4>1. share = CreatorShare(Amount[e])
        BY <3>2
      <4>2. payout' = [payout EXCEPT ![e] = payout[e] + CreatorShare(Amount[e])]
        BY <1>2, <2>1, <3>2 DEF Release, Works
      <4> HIDE DEF share
      <4>3. payout[e] + CreatorShare(Amount[e]) = share
        BY <2>3, <3>1, <4>1
      <4> QED BY <3>1, <4>2, <4>3
    <3>3. CASE e \notin Payable
      <4>1. payout' = payout /\ share = 0
        BY <1>2, <2>1, <3>3 DEF Release, Works
      <4> HIDE DEF share
      <4> QED BY <1>0, <3>1, <4>1
    <3> QED BY <3>2, <3>3
  <2>5. Tokens(Sold)' = Tokens(Sold)
    BY <1>0, <2>2 DEF Sold, Tokens
  <2> HIDE DEF share
  <2>6. Earned' = Earned \cup ({e} \X (1..share)) /\ Earned \cap ({e} \X (1..share)) = {}
    <3>1. \A f \in Escrows : payout'[f] = IF f = e THEN share ELSE payout[f]
      BY <1>0, <2>4
    <3>2. \A f \in Escrows : f # e => {f} \X (1..payout'[f]) = {f} \X (1..payout[f])
      BY <3>1
    <3>3. {e} \X (1..payout'[e]) = {e} \X (1..share) /\ {e} \X (1..payout[e]) = {}
      BY <2>4, <3>1
    <3> QED BY <3>2, <3>3 DEF Earned
  <2>7. /\ IsFiniteSet(Earned')
        /\ Cardinality(Earned') = Cardinality(Earned) + share
    BY <2>3, <2>6, BlockAdded DEF Accounted
  <2>8. ASSUME ~overlap, NEW w \in Wallets
        PROVE  wallet'[w].balance = wallet[w].balance + (IF w = Creator THEN share ELSE 0)
    <3>1. session[s].seen = wallet
      BY <1>2, <2>8, SeenAlone DEF Release, HoldsRows
    <3>2. Released(e, wallet) \in [Wallets -> Row] /\ wallet' = Written(Released(e, wallet), wallet)
      BY <1>0, <1>2, <2>1, <3>1, ReleasedType DEF Release, Works
    <3>3. wallet'[w].balance = Released(e, wallet)[w].balance
      BY <1>0, <3>2, BalanceWritten
    <3> QED BY <1>0, <3>3, ReleasedBalances DEF share
  <2>9. BalancesAddUp'
    <3> SUFFICES ASSUME ~overlap, NEW w \in Wallets
                 PROVE  wallet'[w].balance + (IF w = Buyer THEN Cardinality(Tokens(Sold)) ELSE 0)
                          = Opening + (IF w = Creator THEN Cardinality(Earned') ELSE 0)
      BY <2>2, <2>5 DEF BalancesAddUp, Wallets
    <3>1. wallet[w].balance + (IF w = Buyer THEN Cardinality(Tokens(Sold)) ELSE 0)
            = Opening + (IF w = Creator THEN Cardinality(Earned) ELSE 0)
      BY DEF Accounted, BalancesAddUp
    <3> QED BY <1>a, <2>3, <2>7, <2>8, <3>1
  <2> QED BY <2>5, <2>7, <2>9 DEF Accounted
<1>3. ASSUME NEW s \in Sessions, NEW e \in Escrows, Buy(s, e) \/ Lock(s, e) PROVE Accounted'
  <2>1. status' = status /\ payout' = payout /\ wallet' = wallet /\ (overlap => overlap')
    BY <1>3 DEF Buy, Lock, Read
  <2> QED BY <2>1, AccountedStays
<1>4. ASSUME NEW e \in Escrows, Mature(e) \/ Dispute(e) PROVE Accounted'
  <2>1. status' = status /\ payout' = payout /\ wallet' = wallet /\ overlap' = overlap
    BY <1>4 DEF Mature, Dispute
  <2> QED BY <2>1, AccountedStays
<1>5. ASSUME NEW s \in Sessions, \/ List(s) \/ Finish(s) \/ Crash(s)
                                 \/ \E e \in Escrows : Skip(s, e)
      PROVE  Accounted'
  <2>1. status' = status /\ payout' = payout /\ wallet' = wallet /\ overlap' = overlap
    BY <1>5 DEF List, Finish, Crash, Skip
  <2> QED BY <2>1, AccountedStays
<1>6. CASE UNCHANGED vars
  BY <1>6, AccountedStays DEF vars
<1> QED
  BY <1>1, <1>2, <1>3, <1>4, <1>5, <1>6 DEF Next

\* Tokens add up as long as no purchase or release met another one: what
\* left the buyer's balance is what he bought, what is held for him is in his
\* escrowed part, and the creator got what the ledger says, whatever runs,
\* retries and crashes there were in between.
THEOREM TokensConserved == Spec => []TokensAddUp
<1>1. Alone => EscrowCoversHolding
  BY DEF Alone, EscrowCoversHolding
<1>2. Accounted => BalancesAddUp
  BY DEF Accounted
<1>3. EscrowCoversHolding /\ BalancesAddUp => TokensAddUp
  BY DEF TokensAddUp
<1> QED
  BY <1>1, <1>2, <1>3, InitInv, NextType, NextExclusive, InitAlone, NextAlone,
     InitAccounted, NextAccounted, PTL DEF Spec

-----------------------------------------------------------------------------
(* The refinement.                                                         *)

LEMMA ContractInit == Init => Contract!Init
BY DEF Init, Contract!Init

LEMMA ContractNext == TypeInv /\ Exclusive /\ [Next]_vars => [Contract!Next]_Contract!vars
<1> SUFFICES ASSUME TypeInv, Exclusive, [Next]_vars PROVE [Contract!Next]_Contract!vars
  OBVIOUS
<1>0. status \in [Escrows -> {"none", "holding", "released"}] /\ payout \in [Escrows -> Nat]
  BY DEF TypeInv, TypeOK
<1>a. ASSUME status' = status, disputed' = disputed, payout' = payout
      PROVE  UNCHANGED Contract!vars
  BY <1>a DEF Contract!vars
<1>1. ASSUME NEW e \in Escrows, Dispute(e) PROVE Contract!Next
  <2>1. CASE e \in disputed
    <3>1. Contract!Thaw(e)
      BY <1>0, <1>1, <2>1 DEF Dispute, Contract!Thaw, Contract!Move
    <3> QED BY <3>1 DEF Contract!Next
  <2>2. CASE e \notin disputed
    <3>1. Contract!Freeze(e)
      BY <1>0, <1>1, <2>2 DEF Dispute, Contract!Freeze, Contract!Move
    <3> QED BY <3>1 DEF Contract!Next
  <2> QED BY <2>1, <2>2
<1>2. ASSUME NEW s \in Requests, CommitBuy(s) PROVE Contract!Next
  <2>1. PICK e \in Escrows : e = session[s].escrow
    BY <1>2 DEF CommitBuy, TypeInv, TypeOK, Sessions
  <2>2. status[e] = "none" /\ e \notin disputed
    BY <1>2, <2>1 DEF CommitBuy, Exclusive, Works, Sessions
  <2>3. Contract!Hold(e)
    BY <1>0, <1>2, <2>1, <2>2 DEF CommitBuy, Contract!Hold, Contract!Move
  <2> QED BY <2>3 DEF Contract!Next
<1>3. ASSUME NEW s \in Workers, Release(s) PROVE Contract!Next
  <2>1. PICK e \in Escrows : e = session[s].escrow
    BY <1>3 DEF Release, TypeInv, TypeOK, Sessions
  <2>2. status[e] = "holding" /\ e \notin disputed
    BY <1>3, <2>1 DEF Release, Exclusive, Works, Sessions
  <2>3. Contract!Release(e)
    BY <1>0, <1>3, <2>1, <2>2 DEF Release, Contract!Release, Contract!Move
  <2> QED BY <2>3 DEF Contract!Next
<1>4. ASSUME NEW e \in Escrows, Mature(e) PROVE UNCHANGED Contract!vars
  BY <1>4, <1>a DEF Mature
<1>5. ASSUME NEW s \in Sessions, NEW e \in Escrows, Buy(s, e) \/ Lock(s, e) \/ Skip(s, e)
      PROVE  UNCHANGED Contract!vars
  BY <1>5, <1>a DEF Buy, Lock, Skip
<1>6. ASSUME NEW s \in Sessions, List(s) \/ Finish(s) \/ Crash(s) PROVE UNCHANGED Contract!vars
  BY <1>6, <1>a DEF List, Finish, Crash
<1>7. CASE UNCHANGED vars
  BY <1>7, <1>a DEF vars
<1> QED
  BY <1>1, <1>2, <1>3, <1>4, <1>5, <1>6, <1>7 DEF Next, Sessions

\* Any number of workers, purchases, disputes and crashes implement the
\* contract: each escrow is released at most once and never out of a dispute,
\* and its creator is paid the share at most once.
THEOREM Implements == Spec => ImplementsContract
<1> QED
  BY InitInv, NextType, NextExclusive, ContractInit, ContractNext, PTL
     DEF Spec, ImplementsContract, Contract!Spec

=============================================================================
