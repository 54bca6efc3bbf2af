--------------------------- MODULE EscrowRelease ---------------------------
(***************************************************************************)
(* Escrow of agent purchases: the rows of token_escrow of one buyer's      *)
(* wallet, the wallets of buyer and creator, purchases, disputes and the   *)
(* escrow-release worker, of which several may run at the same time.       *)
(*                                                                         *)
(* A worker lists what has matured, then takes each escrow in a session of *)
(* its own: it locks the escrow's row, checks it again, and pays.  The     *)
(* wallets are not locked: each session writes what it computed from the   *)
(* rows it has read.                                                       *)
(***************************************************************************)
EXTENDS Integers, FiniteSets

CONSTANTS
    Escrows,     \* the purchases of one buyer
    Amount,      \* price of each, Amount[e]
    Payable,     \* escrows whose unlock, agent, creator and wallet are found
    ShortFloats, \* amounts whose product with 0.70 falls short of 70 percent
    Workers,     \* the runs of the worker that may overlap
    Requests,    \* the purchase requests that may overlap
    Buyer,       \* the buyer's wallet ...
    Creator,     \* ... and the creator's, which may be the same
    Opening,     \* balance of both at the start
    NoEscrow

ASSUME EscrowAssumption ==
    /\ Amount \in [Escrows -> Nat]
    /\ Payable \subseteq Escrows
    /\ \A a \in ShortFloats : a \in Nat /\ (7 * a) % 10 = 0 /\ a > 0
    /\ Opening \in Nat
    /\ NoEscrow \notin Escrows
    /\ Workers \cap Requests = {}

VARIABLES
    status,    \* status of each escrow, "none" before the purchase
    matured,   \* escrows whose release_at has passed
    disputed,  \* escrows with a dispute_reason
    wallet,    \* the committed rows of token_wallets
    payout,    \* sum of the creator_revenue ledger rows of each escrow
    session,   \* the sessions
    overlap    \* history: two sessions held wallet rows at the same time

vars == <<status, matured, disputed, wallet, payout, session, overlap>>

Sessions == Workers \cup Requests

Wallets == {Buyer, Creator}
Row == [balance : Nat, escrow : Nat]

Idle == [st |-> "idle", queue |-> {}, escrow |-> NoEscrow,
         seen |-> [w \in Wallets |-> [balance |-> 0, escrow |-> 0]]]

TypeOK ==
    /\ status \in [Escrows -> {"none", "holding", "released"}]
    /\ matured \subseteq Escrows
    /\ disputed \subseteq Escrows
    /\ wallet \in [Wallets -> Row]
    /\ payout \in [Escrows -> Nat]
    /\ session \in [Sessions -> [st : {"idle", "buying", "listed", "locked"},
                                 queue : SUBSET Escrows,
                                 escrow : Escrows \cup {NoEscrow},
                                 seen : [Wallets -> Row]]]
    /\ \A s \in Sessions : session[s].escrow \in Escrows <=> session[s].st \in {"buying", "locked"}
    /\ overlap \in BOOLEAN

-----------------------------------------------------------------------------
\* int(amount * 0.70) in binary floating point.
CreatorShare(a) == (7 * a) \div 10 - (IF a \in ShortFloats THEN 1 ELSE 0)

NonNegative(n) == IF n < 0 THEN 0 ELSE n

\* The wallets after a purchase of e, computed from the rows seen.
Bought(e, seen) ==
    [seen EXCEPT ![Buyer].balance = @ - Amount[e], ![Buyer].escrow = @ + Amount[e]]

\* Mutant: the buyer's escrowed part is not reduced.
ReleasedKeepsEscrow(e, seen) ==
    IF e \in Payable THEN [seen EXCEPT ![Creator].balance = @ + CreatorShare(Amount[e])] ELSE seen

\* The wallets after the release of e.
Released(e, seen) ==
    LET returned == [seen EXCEPT ![Buyer].escrow = NonNegative(@ - Amount[e])]
    IN  IF e \in Payable
          THEN [returned EXCEPT ![Creator].balance = @ + CreatorShare(Amount[e])]
          ELSE returned

\* An UPDATE names the columns whose value differs from the one loaded.
Written(new, seen) ==
    [w \in Wallets |-> [c \in {"balance", "escrow"} |->
        IF new[w][c] # seen[w][c] THEN new[w][c] ELSE wallet[w][c]]]

-----------------------------------------------------------------------------
Init ==
    /\ status = [e \in Escrows |-> "none"]
    /\ matured = {} /\ disputed = {}
    /\ wallet = [w \in Wallets |-> [balance |-> Opening, escrow |-> 0]]
    /\ payout = [e \in Escrows |-> 0]
    /\ session = [s \in Sessions |-> Idle]
    /\ overlap = FALSE

HoldsRows(s) == session[s].st \in {"buying", "locked"}

Locked(e) == \E s \in Sessions : session[s].st = "locked" /\ session[s].escrow = e

\* The session reads the wallets for escrow e.
Read(s, st, e) ==
    /\ session' = [session EXCEPT ![s].st = st, ![s].escrow = e, ![s].seen = wallet,
                                  ![s].queue = @ \ {e}]
    /\ overlap' = (overlap \/ \E q \in Sessions : HoldsRows(q))

\* unlock_agent reads the wallet; e is the escrow it will insert.
Buy(s, e) ==
    /\ session[s].st = "idle"
    /\ status[e] = "none"
    /\ \A q \in Sessions : session[q].escrow # e
    /\ wallet[Buyer].balance >= Amount[e]
    /\ Read(s, "buying", e)
    /\ UNCHANGED <<status, matured, disputed, wallet, payout>>

CommitBuy(s) ==
    LET e == session[s].escrow IN
    /\ session[s].st = "buying"
    /\ status' = [status EXCEPT ![e] = "holding"]
    /\ wallet' = Written(Bought(e, session[s].seen), session[s].seen)
    /\ session' = [session EXCEPT ![s] = Idle]
    /\ UNCHANGED <<matured, disputed, payout, overlap>>

\* The dispute window of a purchase ends.
Mature(e) ==
    /\ status[e] = "holding"
    /\ matured' = matured \cup {e}
    /\ UNCHANGED <<status, disputed, wallet, payout, session, overlap>>

\* An operator opens or settles a dispute in the database; the row's lock
\* makes the UPDATE wait.
Dispute(e) ==
    /\ status[e] = "holding"
    /\ ~Locked(e)
    /\ disputed' = IF e \in disputed THEN disputed \ {e} ELSE disputed \cup {e}
    /\ UNCHANGED <<status, matured, wallet, payout, session, overlap>>

\* Mutant: the worker does not look at release_at.
DueHolding == {e \in Escrows : status[e] = "holding"}

Due == {e \in Escrows : status[e] = "holding" /\ e \in matured}

\* A run of the worker lists what is due.
List(s) ==
    /\ session[s].st = "idle"
    /\ Due # {}
    /\ session' = [session EXCEPT ![s] = [Idle EXCEPT !.st = "listed", !.queue = Due]]
    /\ UNCHANGED <<status, matured, disputed, wallet, payout, overlap>>

\* Mutant: the row is locked but not checked again.
ReleasableUnchecked(e) == TRUE

\* Mutant: an escrow without a creator to pay is left alone.
ReleasablePayable(e) == status[e] = "holding" /\ e \notin disputed /\ e \in Payable

\* What the locked row must still say.
Releasable(e) == status[e] = "holding" /\ e \notin disputed

\* SELECT ... FOR UPDATE waits for the lock and returns the row as it is.
Lock(s, e) ==
    /\ session[s].st = "listed"
    /\ e \in session[s].queue
    /\ ~Locked(e)
    /\ Releasable(e)
    /\ Read(s, "locked", e)
    /\ UNCHANGED <<status, matured, disputed, wallet, payout>>

\* Released by another worker, or in dispute.
Skip(s, e) ==
    /\ session[s].st = "listed"
    /\ e \in session[s].queue
    /\ ~Locked(e)
    /\ ~Releasable(e)
    /\ session' = [session EXCEPT ![s].queue = @ \ {e}]
    /\ UNCHANGED <<status, matured, disputed, wallet, payout, overlap>>

Release(s) ==
    LET e == session[s].escrow IN
    /\ session[s].st = "locked"
    /\ status' = [status EXCEPT ![e] = "released"]
    /\ wallet' = Written(Released(e, session[s].seen), session[s].seen)
    /\ payout' = IF e \in Payable THEN [payout EXCEPT ![e] = @ + CreatorShare(Amount[e])] ELSE payout
    /\ session' = [session EXCEPT ![s] = [Idle EXCEPT !.st = "listed", !.queue = session[s].queue]]
    /\ UNCHANGED <<matured, disputed, overlap>>

\* The run is over.
Finish(s) ==
    /\ session[s].st = "listed"
    /\ session[s].queue = {}
    /\ session' = [session EXCEPT ![s] = Idle]
    /\ UNCHANGED <<status, matured, disputed, wallet, payout, overlap>>

\* A crash or a failed commit: the transaction is rolled back, the run ends.
Crash(s) ==
    /\ session[s].st # "idle"
    /\ session' = [session EXCEPT ![s] = Idle]
    /\ UNCHANGED <<status, matured, disputed, wallet, payout, overlap>>

Next ==
    \/ \E e \in Escrows : Mature(e) \/ Dispute(e)
    \/ \E s \in Requests : CommitBuy(s) \/ \E e \in Escrows : Buy(s, e)
    \/ \E s \in Workers :
        \/ \E e \in Escrows : Lock(s, e) \/ Skip(s, e)
        \/ List(s) \/ Release(s) \/ Finish(s)
    \/ \E s \in Sessions : Crash(s)

Spec == Init /\ [][Next]_vars

\* The scheduler runs the worker again and again; a worker is not killed at
\* the same step of every run.
FairSpec ==
    /\ Spec
    /\ \A s \in Workers :
        /\ WF_vars(List(s)) /\ WF_vars(Finish(s))
        /\ \A e \in Escrows : SF_vars(Lock(s, e)) /\ WF_vars(Skip(s, e))
        /\ SF_vars(Release(s))

-----------------------------------------------------------------------------
Holding == {e \in Escrows : status[e] = "holding"}

\* The tokens of the escrows in S, one by one.
Tokens(S) == UNION {{e} \X (1..Amount[e]) : e \in S}

Sold == {e \in Escrows : status[e] # "none"}

\* The tokens of the ledger's creator_revenue rows, one by one.
Earned == UNION {{e} \X (1..payout[e]) : e \in Escrows}

\* The buyer's escrowed part is the sum of what is held for him.
EscrowCoversHolding ==
    ~overlap => wallet[Buyer].escrow = Cardinality(Tokens(Holding))

\* The buyer has paid for what he bought, and the creator has received what the
\* ledger says; one person may be both.
BalancesAddUp ==
    ~overlap => \A w \in Wallets :
        wallet[w].balance + (IF w = Buyer THEN Cardinality(Tokens(Sold)) ELSE 0)
            = Opening + (IF w = Creator THEN Cardinality(Earned) ELSE 0)

\* Tokens add up, unless two sessions held the wallet rows at the same
\* time: no purchase, release or share is lost, doubled or hidden by the floor
\* at zero, whatever is rolled back in between
\* (agents.unlock_agent, escrow_release._release_escrow).
TokensAddUp == EscrowCoversHolding /\ BalancesAddUp

\* The escrow worker implements what EscrowContract promises: released at most
\* once, never while in dispute, and the creator's ledger shows the share at
\* most once, with any number of workers and crashes.
Contract == INSTANCE EscrowContract WITH
    stage <- [e \in Escrows |-> IF status[e] = "holding" /\ e \in disputed
                                  THEN "frozen" ELSE status[e]],
    Share <- [e \in Escrows |-> CreatorShare(Amount[e])]

ImplementsContract == Contract!Spec

\* Nothing is released before its dispute window has passed.
ReleasedAfterWindow == \A e \in Escrows : status[e] = "released" => e \in matured

\* The platform keeps its thirty percent or a fraction more, never less.
PlatformKeepsShare == \A e \in Escrows : 10 * payout[e] <= 7 * Amount[e]

\* What is due and not in dispute is released in the end.
DueIsReleased ==
    \A e \in Escrows :
        (status[e] = "holding" /\ e \in matured) ~> (status[e] = "released" \/ e \in disputed)

=============================================================================
