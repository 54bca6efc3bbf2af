--------------------------- MODULE BotGraceProofs ---------------------------
(***************************************************************************)
(* A bot that was paused or suspended stays so, for any number of messages *)
(* and credits, any prices and thresholds.  StopsHold is not inductive: a  *)
(* message that is on its way may still write the status it has come to.   *)
(* Quiet says why none is: a stop is either marked as raced, or nobody who *)
(* might change the status was at work when it was set, and nobody has     *)
(* begun since.                                                            *)
(***************************************************************************)
EXTENDS BotGrace, TLAPS

Kept == {"active", "grace", "disconnected"}

Message ==
    [st : {"idle", "healing", "gating", "filling", "replying", "charging", "alerting", "closing"},
     orig : Kept, cur : Kept, seen : 0..MaxBalance, new : 0..MaxBalance]

Credit ==
    [st : {"idle", "loaded", "cached"}, recharge : BOOLEAN, seen : 0..MaxBalance,
     sawGrace : BOOLEAN]

\* Credits that were begun fit under the bound of the model.
Fitting == \A c \in Credits : credit[c].st # "idle" => credit[c].seen + Amount <= MaxBalance

TypeInv ==
    /\ status \in Statuses /\ balance \in 0..MaxBalance
    /\ cache \in 0..MaxBalance \cup {NoKey} /\ alert \in Alerts \cup {NoKey}
    /\ msg \in [Messages -> Message] /\ credit \in [Credits -> Credit]
    /\ raced \in BOOLEAN
    /\ Fitting

Quiet ==
    Stopped /\ ~raced => /\ \A m \in Messages : msg[m].st = "idle"
                         /\ \A c \in Credits : ~credit[c].sawGrace

-----------------------------------------------------------------------------
LEMMA Rest ==
    /\ 0 \in 0..MaxBalance
    /\ NoMsg \in Message /\ NoMsg.st = "idle"
    /\ NoCredit \in Credit /\ NoCredit.st = "idle" /\ ~NoCredit.sawGrace
<1>1. 0 \in 0..MaxBalance
  BY GraceAssumption DEF GraceAssumption
<1> QED  BY <1>1 DEF NoMsg, NoCredit, Message, Credit, Kept

LEMMA InitType == Init => TypeInv
<1> SUFFICES ASSUME Init PROVE TypeInv
  OBVIOUS
<1>1. balance \in 0..MaxBalance
  BY GraceAssumption DEF Init, GraceAssumption
<1>2. msg \in [Messages -> Message] /\ credit \in [Credits -> Credit]
  BY Rest DEF Init
<1>3. Fitting
  BY Rest DEF Init, Fitting
<1> QED  BY <1>1, <1>2, <1>3 DEF Init, TypeInv, Statuses

LEMMA ChargedKind ==
    ASSUME NEW b \in 0..MaxBalance, NEW cost \in Costs
    PROVE  Charged(b, cost) \in 0..MaxBalance
<1>1. cost \in Nat /\ MaxBalance \in Nat
  BY GraceAssumption DEF GraceAssumption
<1> QED  BY <1>1 DEF Charged

LEMMA JudgedKind ==
    ASSUME NEW m \in Messages, msg \in [Messages -> Message], NEW b
    PROVE  Judged(m, b) \in Message
  BY DEF Judged, Message, Kept

\* A step of a message changes its own record only, and keeps its kind.
LEMMA MessageStep ==
    ASSUME TypeInv, NEW m \in Messages, Receive(m) \/ Process(m) \/ Rollback(m)
    PROVE  /\ \E r \in Message : msg' = [msg EXCEPT ![m] = r]
           /\ cache' \in 0..MaxBalance \cup {NoKey} /\ alert' \in Alerts \cup {NoKey}
           /\ UNCHANGED <<status, balance, credit, raced>>
           /\ Receive(m) \/ msg[m].st # "idle"
<1> USE DEF TypeInv
<1>0. msg[m] \in Message
  OBVIOUS
<1>1. CASE Receive(m)
  <2> DEFINE r == [NoMsg EXCEPT !.st = IF status = "grace" THEN "healing" ELSE "gating",
                                !.orig = status, !.cur = status]
  <2>1. status \in Kept
    BY <1>1 DEF Receive, Kept, Statuses
  <2>2. r \in Message
    BY <2>1, Rest DEF Message
  <2>3. msg' = [msg EXCEPT ![m] = r] /\ UNCHANGED <<status, balance, cache, alert, credit, raced>>
    BY <1>1 DEF Receive
  <2> QED  BY <1>1, <2>2, <2>3
<1>2. CASE Heal(m)
  <2> DEFINE r == [msg[m] EXCEPT !.st = "gating", !.cur = "active"]
  <2>1. r \in Message
    BY <1>0 DEF Message, Kept
  <2>2. msg' = [msg EXCEPT ![m] = r]
    BY <1>2 DEF Heal
  <2> QED  BY <1>2, <2>1, <2>2 DEF Heal
<1>3. CASE StayInGrace(m) \/ Rollback(m)
  BY <1>3, Rest DEF StayInGrace, Rollback
<1>4. CASE GateCached(m)
  BY <1>4, JudgedKind DEF GateCached
<1>5. CASE GateMissed(m)
  <2> DEFINE r == [msg[m] EXCEPT !.st = "filling", !.seen = balance, !.new = balance]
  <2>1. r \in Message
    BY <1>0 DEF Message, Kept
  <2>2. msg' = [msg EXCEPT ![m] = r]
    BY <1>5 DEF GateMissed
  <2> QED  BY <1>5, <2>1, <2>2 DEF GateMissed
<1>6. CASE GateFill(m)
  <2>1. msg[m].seen \in 0..MaxBalance
    BY <1>0 DEF Message
  <2> QED  BY <1>6, <2>1, JudgedKind DEF GateFill
<1>7. CASE Uncharged(m)
  <2>1. [msg[m] EXCEPT !.st = "closing"] \in Message
    BY <1>0 DEF Message
  <2>2. msg' = [msg EXCEPT ![m] = [msg[m] EXCEPT !.st = "closing"]]
    BY <1>7 DEF Uncharged
  <2> QED  BY <1>7, <2>1, <2>2 DEF Uncharged
<1>8. CASE Charge(m)
  <2>1. PICK cost \in Costs : msg' = [msg EXCEPT ![m].st = "charging", ![m].seen = balance,
                                                 ![m].new = Charged(balance, cost)]
    BY <1>8 DEF Charge
  <2> DEFINE r == [msg[m] EXCEPT !.st = "charging", !.seen = balance,
                                 !.new = Charged(balance, cost)]
  <2>2. r \in Message
    BY <1>0, ChargedKind DEF Message
  <2>3. msg' = [msg EXCEPT ![m] = r]
    BY <2>1
  <2> QED  BY <1>8, <2>2, <2>3 DEF Charge
<1>9. CASE CacheCharge(m)
  <2>1. [msg[m] EXCEPT !.st = "alerting"] \in Message /\ msg[m].new \in 0..MaxBalance
    BY <1>0 DEF Message
  <2>2. msg' = [msg EXCEPT ![m] = [msg[m] EXCEPT !.st = "alerting"]]
    BY <1>9 DEF CacheCharge
  <2> QED  BY <1>9, <2>1, <2>2 DEF CacheCharge
<1>10. CASE CheckAlerts(m)
  <2> DEFINE b == IF cache = NoKey THEN balance ELSE cache
             r == [msg[m] EXCEPT !.st = "closing", !.cur = IF DueAlert(b) = "zero" THEN "grace" ELSE @]
  <2>1. b \in 0..MaxBalance
    OBVIOUS
  <2>2. DueAlert(b) \in Alerts \cup {NoKey}
    BY DEF DueAlert, Alerts
  <2>3. r \in Message
    BY <1>0 DEF Message, Kept
  <2>4. msg' = [msg EXCEPT ![m] = r] /\ cache' = b /\ alert' \in {alert, DueAlert(b)}
    BY <1>10 DEF CheckAlerts
  <2> QED  BY <1>10, <2>1, <2>2, <2>3, <2>4 DEF CheckAlerts
<1> QED
  BY <1>1, <1>2, <1>3, <1>4, <1>5, <1>6, <1>7, <1>8, <1>9, <1>10 DEF Process

\* So does a step of a credit; one that finds a bot in grace to reactivate
\* finds the bot running.
LEMMA CreditStep ==
    ASSUME TypeInv, NEW c \in Credits, ProcessCredit(c)
    PROVE  /\ \E r \in Credit : /\ credit' = [credit EXCEPT ![c] = r]
                                /\ r.st # "idle" => r.seen + Amount <= MaxBalance
                                /\ r.sawGrace => credit[c].sawGrace \/ status = "grace"
           /\ balance' \in 0..MaxBalance /\ cache' \in 0..MaxBalance \cup {NoKey}
           /\ status' \in Statuses /\ (~credit[c].sawGrace => status' = status)
           /\ UNCHANGED <<alert, msg, raced>>
<1> USE DEF TypeInv
<1>0. credit[c] \in Credit /\ Amount \in Nat /\ MaxBalance \in Nat
  BY GraceAssumption DEF GraceAssumption
<1>1. ASSUME NEW recharge \in BOOLEAN, LoadCredit(c, recharge)
      PROVE  \E r \in Credit : /\ credit' = [credit EXCEPT ![c] = r]
                               /\ r.st # "idle" => r.seen + Amount <= MaxBalance
                               /\ ~r.sawGrace
  <2> DEFINE r == [NoCredit EXCEPT !.st = "loaded", !.recharge = recharge, !.seen = balance]
  <2>1. r \in Credit /\ ~r.sawGrace /\ r.seen = balance
    BY <1>0, Rest DEF Credit, NoCredit
  <2>2. credit' = [credit EXCEPT ![c] = r] /\ balance + Amount <= MaxBalance
    BY <1>1 DEF LoadCredit
  <2> QED  BY <2>1, <2>2
<1>2. ASSUME NEW recharge \in BOOLEAN, LoadCredit(c, recharge)
      PROVE  UNCHANGED <<status, balance, cache, alert, msg, raced>>
  BY <1>2 DEF LoadCredit
<1>3. CASE CacheCredit(c)
  <2> DEFINE found == credit[c].recharge /\ status = "grace"
             r == [credit[c] EXCEPT !.st = "cached", !.sawGrace = found]
  <2>1. found \in BOOLEAN /\ (found => status = "grace")
    BY <1>0 DEF Credit
  <2>2. credit' = [credit EXCEPT ![c] = r] /\ UNCHANGED <<status, balance, alert, msg, raced>>
    BY <1>3 DEF CacheCredit
  <2> HIDE DEF found
  <2>3. r \in Credit /\ r.sawGrace = found /\ r.seen = credit[c].seen
    BY <1>0, <2>1 DEF Credit
  <2>4. credit[c].seen \in Nat /\ credit[c].seen + Amount <= MaxBalance
    BY <1>0, <1>3 DEF CacheCredit, Fitting, Credit
  <2>5. cache' \in 0..MaxBalance
    BY <1>0, <1>3, <2>4 DEF CacheCredit
  <2> QED  BY <2>1, <2>2, <2>3, <2>4, <2>5
<1>4. CASE CommitCredit(c)
  <2>1. credit[c].seen \in Nat /\ credit[c].seen + Amount <= MaxBalance
    BY <1>0, <1>4 DEF CommitCredit, Fitting, Credit
  <2>2. balance' \in 0..MaxBalance
    BY <1>0, <1>4, <2>1 DEF CommitCredit
  <2>3. credit' = [credit EXCEPT ![c] = NoCredit] /\ UNCHANGED <<cache, alert, msg, raced>>
        /\ status' = IF credit[c].sawGrace THEN "active" ELSE status
    BY <1>4 DEF CommitCredit
  <2> QED  BY <2>2, <2>3, Rest DEF Statuses
<1>5. CASE AbortCredit(c)
  BY <1>5, Rest DEF AbortCredit
<1> QED  BY <1>1, <1>2, <1>3, <1>4, <1>5 DEF ProcessCredit

LEMMA NextType == TypeInv /\ [Next]_vars => TypeInv'
<1> SUFFICES ASSUME TypeInv, [Next]_vars PROVE TypeInv'
  OBVIOUS
<1> USE DEF TypeInv
<1>1. ASSUME NEW m \in Messages, Receive(m) \/ Process(m) \/ Rollback(m) PROVE TypeInv'
  BY <1>1, MessageStep DEF Fitting
<1>2. ASSUME NEW m \in Messages, Commit(m) PROVE TypeInv'
  <2>1. msg[m] \in Message
    OBVIOUS
  <2>2. status' \in Statuses /\ balance' \in 0..MaxBalance
    BY <1>2, <2>1 DEF Commit, Written, Message, Kept, Statuses
  <2>3. msg' = [msg EXCEPT ![m] = NoMsg] /\ UNCHANGED <<cache, alert, credit, raced>>
    BY <1>2 DEF Commit
  <2> QED  BY <2>2, <2>3, Rest DEF Fitting
<1>3. ASSUME NEW c \in Credits, ProcessCredit(c) PROVE TypeInv'
  <2>1. PICK r \in Credit : /\ credit' = [credit EXCEPT ![c] = r]
                            /\ r.st # "idle" => r.seen + Amount <= MaxBalance
    BY <1>3, CreditStep
  <2>2. Fitting'
    BY <2>1 DEF Fitting
  <2>3. /\ balance' \in 0..MaxBalance /\ cache' \in 0..MaxBalance \cup {NoKey}
        /\ status' \in Statuses /\ UNCHANGED <<alert, msg, raced>>
    BY <1>3, CreditStep
  <2> QED  BY <2>1, <2>2, <2>3
<1>4. ASSUME NEW s \in Statuses, SetStatus(s) PROVE TypeInv'
  BY <1>4 DEF SetStatus, Fitting
<1>5. CASE ExpireCache \/ ExpireAlert
  BY <1>5 DEF ExpireCache, ExpireAlert, Fitting
<1>6. CASE UNCHANGED vars
  BY <1>6 DEF vars, Fitting
<1> QED  BY <1>1, <1>2, <1>3, <1>4, <1>5, <1>6 DEF Next

\* Statuses, balances, keys and requests keep their kinds; no balance goes
\* below zero or, by a credit, above what the model allows.
THEOREM TypeCorrect == Spec => []TypeOK
<1>1. TypeInv => TypeOK
  BY DEF TypeInv, TypeOK, Message, Credit, Kept
<1> QED  BY <1>1, InitType, NextType, PTL DEF Spec

-----------------------------------------------------------------------------
LEMMA NextQuiet == TypeInv /\ Quiet /\ [Next]_vars => Quiet'
<1> SUFFICES ASSUME TypeInv, Quiet, [Next]_vars PROVE Quiet'
  OBVIOUS
<1> USE DEF TypeInv, Quiet
<1>1. ASSUME NEW m \in Messages, Receive(m) \/ Process(m) \/ Rollback(m) PROVE Quiet'
  <2>1. CASE Stopped /\ ~raced
    <3>1. Rollback(m) \/ ~Stopped
      BY <1>1, <2>1, MessageStep DEF Receive, Stopped
    <3>2. msg[m].st = "idle"
      BY <2>1
    <3> QED  BY <2>1, <3>1, <3>2 DEF Rollback
  <2>2. CASE ~(Stopped /\ ~raced)
    <3>1. status' = status /\ raced' = raced
      BY <1>1, MessageStep
    <3> QED  BY <2>2, <3>1 DEF Stopped
  <2> QED  BY <2>1, <2>2
<1>2. ASSUME NEW m \in Messages, Commit(m) PROVE Quiet'
  <2>1. ~(Stopped /\ ~raced)
    BY <1>2 DEF Commit
  <2>2. status' \in Kept \cup {status} /\ raced' = raced
    BY <1>2 DEF Commit, Written, Message
  <2> QED  BY <2>1, <2>2 DEF Stopped, Kept
<1>3. ASSUME NEW c \in Credits, ProcessCredit(c) PROVE Quiet'
  <2>1. PICK r \in Credit : /\ credit' = [credit EXCEPT ![c] = r]
                            /\ r.sawGrace => credit[c].sawGrace \/ status = "grace"
    BY <1>3, CreditStep
  <2>2. msg' = msg /\ raced' = raced /\ (~credit[c].sawGrace => status' = status)
    BY <1>3, CreditStep
  <2>3. CASE Stopped /\ ~raced
    BY <2>1, <2>2, <2>3 DEF Stopped
  <2>4. CASE ~(Stopped /\ ~raced)
    <3>1. status' \in {status, "active"}
      BY <1>3, <2>2 DEF ProcessCredit, LoadCredit, CacheCredit, CommitCredit, AbortCredit
    <3> QED  BY <2>2, <2>4, <3>1 DEF Stopped
  <2> QED  BY <2>3, <2>4
<1>4. ASSUME NEW s \in Statuses, SetStatus(s) PROVE Quiet'
  <2>1. /\ msg' = msg /\ credit' = credit
        /\ raced' = (\/ \E m \in Messages : msg[m].st # "idle"
                     \/ \E c \in Credits : credit[c].sawGrace)
    BY <1>4 DEF SetStatus
  <2> QED  BY <2>1
<1>5. CASE ExpireCache \/ ExpireAlert
  BY <1>5 DEF ExpireCache, ExpireAlert, Stopped
<1>6. CASE UNCHANGED vars
  BY <1>6 DEF vars, Stopped
<1> QED  BY <1>1, <1>2, <1>3, <1>4, <1>5, <1>6 DEF Next

\* What a step may do to the status of a stopped bot.
LEMMA StopStep ==
    ASSUME TypeInv, Quiet, [Next]_vars, Stopped, status' # status
    PROVE  ByHand \/ (raced /\ \A m \in Messages : Commit(m) => Decided(m))
<1> USE DEF TypeInv
<1>1. ASSUME NEW s \in Statuses, SetStatus(s) PROVE ByHand
  BY <1>1 DEF ByHand
<1>2. \A m \in Messages : Commit(m) => Decided(m)
  BY DEF Commit, Written, Decided
<1>3. ASSUME NEW m \in Messages, Commit(m) PROVE raced
  BY <1>3 DEF Commit, Quiet
<1>4. ASSUME NEW c \in Credits, ProcessCredit(c) PROVE raced
  <2>1. credit[c].sawGrace
    BY <1>4, CreditStep
  <2> QED  BY <2>1 DEF Quiet
<1>5. ~ \E m \in Messages : Receive(m) \/ Process(m) \/ Rollback(m)
  BY MessageStep
<1>6. ~ (ExpireCache \/ ExpireAlert \/ UNCHANGED vars)
  BY DEF ExpireCache, ExpireAlert, vars
<1> QED  BY <1>1, <1>2, <1>3, <1>4, <1>5, <1>6 DEF Next

\* A pause or a suspension is lifted by hand, or by a request that had come to
\* a status of its own while it was set; never by one that only replied.
THEOREM StopsAreKept == Spec => StopsHold
<1>1. Init => Quiet
  BY DEF Init, Quiet, Stopped
<1>2. TypeInv /\ Quiet /\ [Next]_vars
        => [Stopped /\ status' # status =>
              ByHand \/ (raced /\ \A m \in Messages : Commit(m) => Decided(m))]_vars
  BY StopStep
<1> QED  BY <1>1, <1>2, InitType, NextType, NextQuiet, PTL DEF Spec, StopsHold

=============================================================================
