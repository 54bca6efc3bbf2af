------------------------------- MODULE Wallet -------------------------------
(***************************************************************************)
(* The wallet of one business: its row of token_wallets, its rows of       *)
(* etg_transactions and its cached balance in Redis, under the requests    *)
(* that change them.                                                       *)
(*                                                                         *)
(* Every request holds a database session of its own.  It SELECTs the row, *)
(* computes new column values in Python and writes them back as absolute   *)
(* values when get_db commits; nothing locks the row in between.  Several  *)
(* API processes serve requests, so requests interleave at every await.    *)
(***************************************************************************)
EXTENDS WalletOperations

CONSTANTS
    Requests,   \* the database sessions that may be open at the same time
    MaxOps,     \* bound of the model: how many operations are begun
    NoValue     \* the Redis key is absent

ASSUME WalletAssumption == MaxOps \in Nat /\ NoValue \notin Int

VARIABLES
    wallet,     \* the committed row of token_wallets
    ledger,     \* the committed rows of etg_transactions, in commit order
    cache,      \* the Redis key wallet:balance:<business>
    req,        \* the open requests
    ops,        \* how many operations were begun
    serial,     \* history: the row if every committed operation ran alone
    overlap,    \* history: two requests worked on the row at the same time
    astray      \* history: something that may leave a wrong balance in the cache
                \* happened since it was last empty with no request open

vars == <<wallet, ledger, cache, req, ops, serial, overlap, astray>>

Idle == [st |-> "idle", op |-> NoValue, seen |-> [balance |-> 0, escrow |-> 0, spent |-> 0]]

Request == [st : {"idle", "loaded", "cached", "filling"}, op : Op \cup {NoValue}, seen : Row]

TypeOK ==
    /\ wallet \in Row
    /\ ledger \in Seq(Entry)
    /\ cache \in Int \cup {NoValue}
    /\ req \in [Requests -> Request]
    /\ \A r \in Requests : /\ req[r].st \in {"loaded", "cached"} => req[r].op \in Op
                           /\ req[r].st = "idle" => req[r] = Idle
    /\ ops \in 0..MaxOps
    /\ serial \in Row
    /\ overlap \in BOOLEAN
    /\ astray \in BOOLEAN

\* Purchases and generations leave the cached balance as it is.
Caches(op) == op.kind \notin {"unlock", "generate"}

-----------------------------------------------------------------------------
Init ==
    /\ wallet = Opened
    /\ ledger = <<>>
    /\ cache = NoValue
    /\ req = [r \in Requests |-> Idle]
    /\ ops = 0
    /\ serial = wallet
    /\ overlap = FALSE
    /\ astray = FALSE

Working(r) == req[r].st \in {"loaded", "cached"}

Open(r) == req[r].st # "idle"

\* The request SELECTs the wallet and computes its changes in memory.
Load(r, op) ==
    /\ req[r].st = "idle"
    /\ ops < MaxOps
    /\ Admits(op, wallet)
    /\ req' = [req EXCEPT ![r] = [st |-> "loaded", op |-> op, seen |-> wallet]]
    /\ ops' = ops + 1
    /\ overlap' = (overlap \/ \E q \in Requests : Working(q))
    /\ astray' = (astray \/ \E q \in Requests : Open(q))
    /\ UNCHANGED <<wallet, ledger, cache, serial>>

\* Mutant: the balance that is cached is the one the operation began with.
CacheLoaded(r) ==
    /\ req[r].st = "loaded"
    /\ Caches(req[r].op)
    /\ cache' = req[r].seen.balance
    /\ req' = [req EXCEPT ![r].st = "cached"]
    /\ UNCHANGED <<wallet, ledger, ops, serial, overlap, astray>>

\* redis.setex with the new balance, before the transaction commits.
CacheBalance(r) ==
    /\ req[r].st = "loaded"
    /\ Caches(req[r].op)
    /\ cache' = NewBalance(req[r].op, req[r].seen)
    /\ req' = [req EXCEPT ![r].st = "cached"]
    /\ UNCHANGED <<wallet, ledger, ops, serial, overlap, astray>>

\* Mutant: the UPDATE of a purchase forgets the escrowed part.
WrittenWithoutEscrow(new, seen) ==
    [c \in {"balance", "escrow", "spent"} |->
        IF c # "escrow" /\ new[c] # seen[c] THEN new[c] ELSE wallet[c]]

\* An UPDATE names the columns whose value differs from the one loaded.
Written(new, seen) ==
    [c \in {"balance", "escrow", "spent"} |-> IF new[c] # seen[c] THEN new[c] ELSE wallet[c]]

Commit(r) ==
    LET op  == req[r].op
        new == After(op, req[r].seen)
    IN  /\ Working(r)
        /\ req[r].st = "loaded" => ~Caches(op)
        /\ BalanceCheck(new)
        /\ wallet' = Written(new, req[r].seen)
        /\ ledger' = ledger \o Entries(op, req[r].seen)
        /\ serial' = After(op, serial)
        /\ req' = [req EXCEPT ![r] = Idle]
        /\ astray' = (astray \/ (~Caches(op) /\ cache # NoValue))
        /\ UNCHANGED <<cache, ops, overlap>>

\* An exception, a failed constraint or a crash: the session rolls back and
\* what was put into Redis stays.
Rollback(r) ==
    /\ Open(r)
    /\ req' = [req EXCEPT ![r] = Idle]
    /\ astray' = (astray \/ (req[r].st = "cached" /\ cache # NoValue))
    /\ UNCHANGED <<wallet, ledger, cache, ops, serial, overlap>>

\* A message asks for the balance: on a miss it reads the row ...
ReadBalance(r) ==
    /\ req[r].st = "idle"
    /\ ops < MaxOps
    /\ cache = NoValue
    /\ req' = [req EXCEPT ![r] = [st |-> "filling", op |-> NoValue, seen |-> wallet]]
    /\ ops' = ops + 1
    /\ astray' = (astray \/ \E q \in Requests : Working(q))
    /\ UNCHANGED <<wallet, ledger, cache, serial, overlap>>

\* ... and puts what it has read into the cache.
FillCache(r) ==
    /\ req[r].st = "filling"
    /\ cache' = req[r].seen.balance
    /\ req' = [req EXCEPT ![r] = Idle]
    /\ UNCHANGED <<wallet, ledger, ops, serial, overlap, astray>>

\* The key's time to live runs out.
ExpireCache ==
    /\ cache # NoValue
    /\ cache' = NoValue
    /\ astray' = (astray /\ \E q \in Requests : Open(q))
    /\ UNCHANGED <<wallet, ledger, req, ops, serial, overlap>>

Next ==
    \/ \E r \in Requests :
        \/ \E op \in Op : Load(r, op)
        \/ CacheBalance(r)
        \/ Commit(r)
        \/ Rollback(r)
        \/ ReadBalance(r)
        \/ FillCache(r)
    \/ ExpireCache

Spec == Init /\ [][Next]_vars

-----------------------------------------------------------------------------
\* Neither a reply, a purchase, a deduction by an admin nor any interleaving
\* of them takes the balance or the escrowed part of a wallet below zero
\* (webhooks._charge_etg, agents.unlock_agent, metering.credit).
NeverNegative == wallet.balance >= 0 /\ wallet.escrow >= 0

\* As long as no two requests worked on the row at the same time, no update
\* is lost: the row is what the committed operations give when each runs
\* alone, whatever was rolled back or left in the cache in between.
SerialUnlessOverlap == ~overlap => wallet = serial

Contract == INSTANCE WalletContract WITH apart <- ~overlap

\* Requests that read, compute and write back a row nothing locks are, as long
\* as no two work on it at the same time, an account whose operations take
\* effect at once on the row as it is: the funds that were checked are still
\* there, the columns written are the whole change, and the ledger rows tell
\* it (agents.unlock_agent, webhooks._charge_etg, metering.credit).
ImplementsContract == Contract!Spec

\* The ledger never lies about the balance it leaves behind: after a commit
\* that writes ledger rows, the last row's balance_after is the balance of
\* the wallet, except when the operation left the balance as it had read it
\* (nothing to write) while another request changed the row.
LedgerTellsBalance ==
    [][ ledger' # ledger =>
          LET last == ledger'[Len(ledger')] IN
            \/ last.after = wallet'.balance
            \/ overlap /\ wallet'.balance = wallet.balance ]_vars

\* The balance gate trusts the cached balance: it is the row's, or the one
\* that the request about to commit leaves, through every sequence of hits,
\* misses, fills, commits, failures and expiries, except after one of the four
\* things that leave a wrong one behind until it expires: a request that had
\* cached its balance rolled back, a purchase or a generation committed past a
\* cached value, another request ran beside one that writes, or began beside a
\* slow reader (webhooks._handle_user_message, _charge_etg, metering.credit).
CacheTellsBalance ==
    ~astray /\ cache # NoValue =>
        cache = IF \E r \in Requests : req[r].st = "cached"
                THEN LET r == CHOOSE r \in Requests : req[r].st = "cached"
                     IN  NewBalance(req[r].op, req[r].seen)
                ELSE wallet.balance

=============================================================================
