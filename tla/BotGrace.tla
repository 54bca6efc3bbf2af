------------------------------ MODULE BotGrace ------------------------------
(***************************************************************************)
(* The status of one bot of a business that pays for its replies: grace    *)
(* when the wallet runs out, back when it is recharged, paused by the      *)
(* owner, suspended by an admin; with the wallet's balance, the cached     *)
(* balance and the alert key in Redis.                                     *)
(*                                                                         *)
(* A message's request loads the bot once, decides and replies over many   *)
(* awaits, and writes the status at its commit if it differs from the one  *)
(* loaded.  What it does to Redis is visible at once and survives a        *)
(* rollback.                                                               *)
(***************************************************************************)
EXTENDS Integers

CONSTANTS
    Messages,    \* the customers' messages in progress at the same time
    Credits,     \* the credits in progress at the same time
    Amount,      \* ETG of a credit
    Costs,       \* ETG a reply may cost, 0 with a free model
    Low,         \* _THRESHOLD_LOW
    Critical,    \* _THRESHOLD_CRITICAL
    MaxBalance,  \* bound of the model: no credit takes the balance above it
    NoKey        \* the Redis key is absent

ASSUME GraceAssumption ==
    /\ Amount \in Nat \ {0} /\ Costs \subseteq Nat /\ MaxBalance \in Nat
    /\ Low \in Nat /\ Critical \in 0..Low
    /\ NoKey \notin Nat

VARIABLES
    status,   \* the committed bots.status
    balance,  \* the committed balance of the wallet
    cache,    \* the key wallet:balance:<business>
    alert,    \* the key wallet:alert_sent:<business>
    msg,      \* the requests of messages
    credit,   \* the credits
    raced     \* history: the status was last set by hand while a request held it

vars == <<status, balance, cache, alert, msg, credit, raced>>

Statuses == {"active", "grace", "paused", "suspended", "disconnected"}
Alerts == {"low", "critical", "zero"}

\* orig is the status loaded, cur what the session has made of it; seen and
\* new are the balance loaded and the one to be written.
NoMsg == [st |-> "idle", orig |-> "active", cur |-> "active", seen |-> 0, new |-> 0]

NoCredit == [st |-> "idle", recharge |-> FALSE, seen |-> 0, sawGrace |-> FALSE]

TypeOK ==
    /\ status \in Statuses
    /\ balance \in 0..MaxBalance
    /\ cache \in 0..MaxBalance \cup {NoKey}
    /\ alert \in Alerts \cup {NoKey}
    /\ msg \in [Messages ->
           [st : {"idle", "healing", "gating", "filling", "replying", "charging", "alerting", "closing"},
            orig : {"active", "grace", "disconnected"}, cur : {"active", "grace", "disconnected"},
            seen : 0..MaxBalance, new : 0..MaxBalance]]
    /\ credit \in [Credits -> [st : {"idle", "loaded", "cached"}, recharge : BOOLEAN,
                               seen : 0..MaxBalance, sawGrace : BOOLEAN]]
    /\ raced \in BOOLEAN

-----------------------------------------------------------------------------
Init ==
    /\ status = "active"
    /\ balance \in {0, MaxBalance}
    /\ cache = NoKey /\ alert = NoKey
    /\ msg = [m \in Messages |-> NoMsg]
    /\ credit = [c \in Credits |-> NoCredit]
    /\ raced = FALSE

\* The request loads the bot; a suspended bot is silent, a paused one says so,
\* and nothing stops a disconnected one when its webhook could not be deleted.
Receive(m) ==
    /\ msg[m].st = "idle"
    /\ status \notin {"paused", "suspended"}
    /\ msg' = [msg EXCEPT ![m] = [NoMsg EXCEPT
                  !.st = IF status = "grace" THEN "healing" ELSE "gating",
                  !.orig = status, !.cur = status]]
    /\ UNCHANGED <<status, balance, cache, alert, credit, raced>>

\* Mutant: the gate finds the stale zero in the cache again.
HealKeepsCache(m) ==
    /\ msg[m].st = "healing"
    /\ balance > 0
    /\ msg' = [msg EXCEPT ![m].st = "closing"]
    /\ UNCHANGED <<status, balance, cache, alert, credit, raced>>

\* _bot_should_block: a bot in grace with a funded wallet is active again.
Heal(m) ==
    /\ msg[m].st = "healing"
    /\ balance > 0
    /\ msg' = [msg EXCEPT ![m].st = "gating", ![m].cur = "active"]
    /\ alert' = NoKey /\ cache' = NoKey
    /\ UNCHANGED <<status, balance, credit, raced>>

\* The wallet is still empty: the customer gets the paused message.
StayInGrace(m) ==
    /\ msg[m].st = "healing"
    /\ balance = 0
    /\ msg' = [msg EXCEPT ![m] = NoMsg]
    /\ UNCHANGED <<status, balance, cache, alert, credit, raced>>

\* Mutant: an empty wallet is noticed after replies only.
JudgedOpen(m, b) == [msg[m] EXCEPT !.st = "replying"]

\* The balance gate; _handle_zero_balance puts an active bot into grace.
Judged(m, b) ==
    IF b > 0 THEN [msg[m] EXCEPT !.st = "replying"]
             ELSE [msg[m] EXCEPT !.st = "closing", !.cur = IF @ = "active" THEN "grace" ELSE @]

\* _get_balance finds the key ...
GateCached(m) ==
    /\ msg[m].st = "gating"
    /\ cache # NoKey
    /\ msg' = [msg EXCEPT ![m] = Judged(m, cache)]
    /\ UNCHANGED <<status, balance, cache, alert, credit, raced>>

\* ... or reads the row ...
GateMissed(m) ==
    /\ msg[m].st = "gating"
    /\ cache = NoKey
    /\ msg' = [msg EXCEPT ![m].st = "filling", ![m].seen = balance, ![m].new = balance]
    /\ UNCHANGED <<status, balance, cache, alert, credit, raced>>

\* ... and sets the key.
GateFill(m) ==
    /\ msg[m].st = "filling"
    /\ cache' = msg[m].seen
    /\ msg' = [msg EXCEPT ![m] = Judged(m, msg[m].seen)]
    /\ UNCHANGED <<status, balance, alert, credit, raced>>

\* An owner's command is served before the gate; the balance command, a
\* customer without credit, a booking and a failed send end uncharged after it.
Uncharged(m) ==
    /\ msg[m].st \in {"gating", "replying"}
    /\ msg' = [msg EXCEPT ![m].st = "closing"]
    /\ UNCHANGED <<status, balance, cache, alert, credit, raced>>

Charged(b, cost) == IF b < cost THEN 0 ELSE b - cost

\* The reply is sent; _charge_etg reads the wallet ...
Charge(m) ==
    /\ msg[m].st = "replying"
    /\ \E cost \in Costs :
         msg' = [msg EXCEPT ![m].st = "charging", ![m].seen = balance,
                            ![m].new = Charged(balance, cost)]
    /\ UNCHANGED <<status, balance, cache, alert, credit, raced>>

\* ... and sets the key.
CacheCharge(m) ==
    /\ msg[m].st = "charging"
    /\ cache' = msg[m].new
    /\ msg' = [msg EXCEPT ![m].st = "alerting"]
    /\ UNCHANGED <<status, balance, alert, credit, raced>>

\* The alert that is due for a balance, given the last one.
DueAlert(b) ==
    CASE b = 0 /\ alert # "zero"                                 -> "zero"
      [] b > 0 /\ b <= Critical /\ alert \notin {"critical", "zero"} -> "critical"
      [] b > Critical /\ b <= Low /\ alert = NoKey                -> "low"
      [] OTHER                                                    -> NoKey

\* _check_wallet_alerts, on the balance read back from the cache; the zero
\* alert puts the bot into grace.
CheckAlerts(m) ==
    LET b    == IF cache = NoKey THEN balance ELSE cache
        kind == DueAlert(b)
    IN  /\ msg[m].st = "alerting"
        /\ cache' = b
        /\ alert' = IF kind = NoKey THEN alert ELSE kind
        /\ msg' = [msg EXCEPT ![m].st = "closing",
                              ![m].cur = IF kind = "zero" THEN "grace" ELSE @]
        /\ UNCHANGED <<status, balance, credit, raced>>

\* Mutant: the status is written whether it changed or not.
WrittenAlways(orig, cur) == cur

\* A column is written when its value differs from the one loaded.
Written(orig, cur) == IF cur = orig THEN status ELSE cur

Commit(m) ==
    /\ msg[m].st = "closing"
    /\ status' = Written(msg[m].orig, msg[m].cur)
    /\ balance' = IF msg[m].new = msg[m].seen THEN balance ELSE msg[m].new
    /\ msg' = [msg EXCEPT ![m] = NoMsg]
    /\ UNCHANGED <<cache, alert, credit, raced>>

\* An error after the reply is swallowed and rolled back; so is a crash.
Rollback(m) ==
    /\ msg[m].st # "idle"
    /\ msg' = [msg EXCEPT ![m] = NoMsg]
    /\ UNCHANGED <<status, balance, cache, alert, credit, raced>>

-----------------------------------------------------------------------------
\* metering.credit for a recharge or an admin's grant reads the wallet ...
LoadCredit(c, recharge) ==
    /\ credit[c].st = "idle"
    /\ balance + Amount <= MaxBalance
    /\ credit' = [credit EXCEPT ![c] = [NoCredit EXCEPT !.st = "loaded", !.recharge = recharge,
                                                        !.seen = balance]]
    /\ UNCHANGED <<status, balance, cache, alert, msg, raced>>

\* ... and sets the key; after a recharge reactivate_grace_bots selects the
\* bots in grace.
CacheCredit(c) ==
    /\ credit[c].st = "loaded"
    /\ cache' = credit[c].seen + Amount
    /\ credit' = [credit EXCEPT ![c].st = "cached",
                                ![c].sawGrace = (credit[c].recharge /\ status = "grace")]
    /\ UNCHANGED <<status, balance, alert, msg, raced>>

CommitCredit(c) ==
    /\ credit[c].st = "cached"
    /\ balance' = credit[c].seen + Amount
    /\ status' = IF credit[c].sawGrace THEN "active" ELSE status
    /\ credit' = [credit EXCEPT ![c] = NoCredit]
    /\ UNCHANGED <<cache, alert, msg, raced>>

AbortCredit(c) ==
    /\ credit[c].st # "idle"
    /\ credit' = [credit EXCEPT ![c] = NoCredit]
    /\ UNCHANGED <<status, balance, cache, alert, msg, raced>>

\* The owner pauses, resumes or disconnects the bot, an admin suspends or
\* restores it.
SetStatus(s) ==
    /\ status' = s
    /\ raced' = (\/ \E m \in Messages : msg[m].st # "idle"
                 \/ \E c \in Credits : credit[c].sawGrace)
    /\ UNCHANGED <<balance, cache, alert, msg, credit>>

ExpireCache ==
    /\ cache # NoKey
    /\ cache' = NoKey
    /\ UNCHANGED <<status, balance, alert, msg, credit, raced>>

ExpireAlert ==
    /\ alert # NoKey
    /\ alert' = NoKey
    /\ UNCHANGED <<status, balance, cache, msg, credit, raced>>

Process(m) ==
    \/ Heal(m) \/ StayInGrace(m) \/ GateCached(m) \/ GateMissed(m) \/ GateFill(m)
    \/ Uncharged(m) \/ Charge(m) \/ CacheCharge(m) \/ CheckAlerts(m)

ProcessCredit(c) ==
    \/ \E recharge \in BOOLEAN : LoadCredit(c, recharge)
    \/ CacheCredit(c) \/ CommitCredit(c) \/ AbortCredit(c)

Next ==
    \/ \E m \in Messages : Receive(m) \/ Process(m) \/ Commit(m) \/ Rollback(m)
    \/ \E c \in Credits : ProcessCredit(c)
    \/ \E s \in Statuses \ {"grace"} : SetStatus(s)
    \/ ExpireCache \/ ExpireAlert

Spec == Init /\ [][Next]_vars

\* The message has changed the bot's status.
Decided(m) == msg[m].cur # msg[m].orig

CommitStatus(m) == Commit(m) /\ Decided(m)

\* Customers keep writing, requests do not hang, and they do not fail at the
\* same step every time, the commits of a new status included.
FairSpec ==
    /\ Spec
    /\ WF_vars(ExpireCache)
    /\ \A m \in Messages :
        /\ WF_vars(Receive(m)) /\ WF_vars(StayInGrace(m)) /\ SF_vars(Heal(m))
        /\ SF_vars(GateCached(m) \/ GateMissed(m)) /\ SF_vars(GateFill(m))
        /\ SF_vars(Charge(m)) /\ SF_vars(CacheCharge(m)) /\ SF_vars(CheckAlerts(m))
        /\ SF_vars(Commit(m)) /\ SF_vars(CommitStatus(m))

-----------------------------------------------------------------------------
Stopped == status \in {"paused", "suspended"}

ByHand == \E s \in Statuses : SetStatus(s)

\* A pause or a suspension is lifted by the owner or an admin, never by a
\* message or a recharge, unless it was set while one of those was running
\* that changed the status on its own account: one that began before the
\* pause and only replied does not write back the status it had loaded
\* (webhooks._bot_should_block, _handle_zero_balance; reactivate_grace_bots).
StopsHold ==
    [][ Stopped /\ status' # status =>
          ByHand \/ (raced /\ \A m \in Messages : Commit(m) => Decided(m)) ]_vars

CreditsCommit == <>[][ \A c \in Credits : ~AbortCredit(c) ]_vars

\* A bot whose wallet is empty does not stay active while customers write,
\* however stale the cached balance is, unless credits keep failing after
\* they have cached a balance nobody committed.
BrokeBotStops ==
    CreditsCommit => ((status = "active" /\ balance = 0) ~> (status # "active" \/ balance > 0))

\* A bot in grace comes back after a credit, by the recharge itself or, when
\* an admin granted the ETG or the recharge missed it, by a later message.
FundedBotRecovers ==
    CreditsCommit => ((status = "grace" /\ balance > 0) ~> (status # "grace" \/ balance = 0))

=============================================================================
