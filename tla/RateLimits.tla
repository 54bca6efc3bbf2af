----------------------------- MODULE RateLimits -----------------------------
(***************************************************************************)
(* The counters in Redis that bound what AI answers cost: a visitor's and  *)
(* the business's in the chat of the landing page, and the one of an       *)
(* owner's generations.  A window begins with the request that counts to   *)
(* one and then, in a call of its own, gives the counter its expiry.       *)
(*                                                                         *)
(* What an answer is and what it costs are modules ModelRouter and Wallet. *)
(***************************************************************************)
EXTENDS Naturals, Sequences

CONSTANTS
    Visitors,   \* the addresses visitors come from
    Callers,    \* the requests that may overlap
    IpLimit,    \* _WEBCHAT_IP_PER_MIN
    DayLimit,   \* _WEBCHAT_BIZ_PER_DAY
    GenLimit    \* _GEN_RATE_PER_HOUR

VARIABLES
    count,     \* the counters, 0 is absent; one past its limit stands for all above
    expiring,  \* the counters that have an expiry
    caller,    \* the open requests
    orphaned   \* history: counters whose window began without an expiry

vars == <<count, expiring, caller, orphaned>>

\* (An operator, as the module that instantiates this one states it.)
SoundConstants ==
    /\ {IpLimit, DayLimit, GenLimit} \subseteq Nat \ {0}
    /\ Visitors \cap {"chat", "generate"} = {}

Keys == Visitors \cup {"chat", "generate"}

Limit(k) == CASE k \in Visitors    -> IpLimit
              [] k = "chat"        -> DayLimit
              [] k = "generate"    -> GenLimit

Idle == [st |-> "idle"]

\* A request counts under one key after the other.
Paths == {<<v, "chat">> : v \in Visitors} \cup {<<"chat">>, <<"generate">>}

TypeOK ==
    /\ \A k \in Keys : count[k] \in 0 .. Limit(k) + 1
    /\ expiring \subseteq Keys /\ orphaned \subseteq Keys
    /\ caller \in [Callers -> {Idle, [st |-> "answering"]}
           \cup [st : {"asked", "first"}, path : Paths]
           \cup [st : {"counted"}, path : Paths, over : BOOLEAN]]

Init ==
    /\ count = [k \in Keys |-> 0]
    /\ expiring = {} /\ orphaned = {}
    /\ caller = [c \in Callers |-> Idle]

Set(c, x) == caller' = [caller EXCEPT ![c] = x]

-----------------------------------------------------------------------------
\* website_chat counts the visitor and then the business.
Chat(c, v) ==
    /\ caller[c] = Idle
    /\ Set(c, [st |-> "asked", path |-> <<v, "chat">>])
    /\ UNCHANGED <<count, expiring, orphaned>>

\* generate_storefront, generate_website and bootstrap_business.
Generate(c) ==
    /\ caller[c] = Idle
    /\ Set(c, [st |-> "asked", path |-> <<"generate">>])
    /\ UNCHANGED <<count, expiring, orphaned>>

\* Mutant: the answer of INCR is taken for the count before this request.
BeginsAtZero(n) == n = 0

Begins(n) == n = 1

\* INCR
Increase(c) ==
    /\ caller[c].st = "asked"
    /\ LET k == Head(caller[c].path)
           n == count[k] + 1
           over == n > Limit(k) IN
       /\ count' = [count EXCEPT ![k] = IF over THEN Limit(k) + 1 ELSE n]
       /\ Set(c, IF Begins(n) THEN [caller[c] EXCEPT !.st = "first"]
                 ELSE [st |-> "counted", path |-> caller[c].path, over |-> over])
    /\ UNCHANGED <<expiring, orphaned>>

\* EXPIRE
SetExpiry(c) ==
    /\ caller[c].st = "first"
    /\ LET k == Head(caller[c].path) IN
       /\ expiring' = expiring \cup {k}
       /\ Set(c, [st |-> "counted", path |-> caller[c].path, over |-> 1 > Limit(k)])
    /\ UNCHANGED <<count, orphaned>>

\* Past the limit: the error, or the hint to continue on Telegram.
TurnAway(c) ==
    /\ caller[c].st = "counted" /\ caller[c].over
    /\ Set(c, Idle)
    /\ UNCHANGED <<count, expiring, orphaned>>

Admit(c) ==
    /\ caller[c].st = "counted" /\ ~caller[c].over
    /\ LET rest == Tail(caller[c].path) IN
       Set(c, IF rest = <<>> THEN [st |-> "answering"] ELSE [st |-> "asked", path |-> rest])
    /\ UNCHANGED <<count, expiring, orphaned>>

\* The model's answer, or the text for when there is none.
Reply(c) ==
    /\ caller[c].st = "answering"
    /\ Set(c, Idle)
    /\ UNCHANGED <<count, expiring, orphaned>>

\* Redis or the process fails, or there is no such business.
Fail(c) ==
    /\ caller[c] # Idle
    /\ orphaned' = IF caller[c].st = "first" THEN orphaned \cup {Head(caller[c].path)} ELSE orphaned
    /\ Set(c, Idle)
    /\ UNCHANGED <<count, expiring>>

\* The minute, hour or day is over.
Expire(k) ==
    /\ k \in expiring
    /\ count' = [count EXCEPT ![k] = 0]
    /\ expiring' = expiring \ {k}
    /\ UNCHANGED <<caller, orphaned>>

Next ==
    \/ \E c \in Callers, v \in Visitors : Chat(c, v)
    \/ \E c \in Callers : Generate(c)
    \/ \E c \in Callers : Increase(c)
    \/ \E c \in Callers : SetExpiry(c)
    \/ \E c \in Callers : TurnAway(c)
    \/ \E c \in Callers : Admit(c)
    \/ \E c \in Callers : Reply(c)
    \/ \E c \in Callers : Fail(c)
    \/ \E k \in Keys : Expire(k)

Spec == Init /\ [][Next]_vars

\* A request makes its call or fails, and Redis expires keys.
Fairness ==
    /\ \A c \in Callers : WF_vars(SetExpiry(c))
    /\ \A k \in Keys : WF_vars(Expire(k))

-----------------------------------------------------------------------------
\* Whoever is turned away may come back: a counter past its limit starts anew,
\* unless the request that began its window failed before it had set the expiry;
\* no later request sets it (_webchat_ip_throttle: "retry_after=60",
\* _webchat_biz_over_cap, _enforce_generation_rate_limit).
LimitsEnd == \A k \in Keys : count[k] > Limit(k) ~> (count[k] = 0 \/ k \in orphaned)

=============================================================================
