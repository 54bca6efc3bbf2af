---------------------------- MODULE Marketplace ----------------------------
(***************************************************************************)
(* The agents' side of the marketplace: publishing and review by an        *)
(* administrator, deployment at businesses by trial or purchase under the  *)
(* cap, and the buyers' reviews with the rating they add up to.            *)
(*                                                                         *)
(* One trial in detail is module AgentTrial, the price EscrowRelease.      *)
(***************************************************************************)
EXTENDS Naturals, FiniteSets

CONSTANTS
    Agents,       \* the agents that may be published
    Shops,        \* the businesses
    Cap,          \* max_child_agents_per_bot
    Ratings,      \* ratings given
    Callers,      \* the requests that may overlap
    MaxPurchases  \* bound of the model: how many purchases are begun

\* The cap is a setting, zero allowed.
SoundConstants ==
    /\ Cap \in Nat /\ MaxPurchases \in Nat
    /\ IsFiniteSet(Callers) /\ Callers # {}

VARIABLES
    agent,      \* status of each agent, "none" before it is published
    deployed,   \* the rows of child_agents, and how each came about
    trials,     \* the rows of agent_trials
    unlocks,    \* the rows of agent_unlocks, numbered
    reviews,    \* the rows of agent_reviews
    rating,     \* the reviews average_rating and review_count were computed from
    caller,     \* the open requests
    bought,     \* how many purchases were begun
    contended   \* history: businesses of which two deployments overlapped

vars == <<agent, deployed, trials, unlocks, reviews, rating, caller, bought, contended>>

Idle == [kind |-> "idle"]

Deployment == [agent : Agents, of : Shops, by : {"trial", "unlock"}]

Pair == [agent : Agents, of : Shops]

Review == [agent : Agents, of : Shops, stars : Ratings]

Calls ==
    {Idle}
    \cup [kind : {"trial"}, on : Pair, new : BOOLEAN]
    \cup [kind : {"unlock"}, on : Pair, new : BOOLEAN, id : 1..MaxPurchases]
    \cup [kind : {"review"}, review : Review, counted : SUBSET Review]

TypeOK ==
    /\ agent \in [Agents -> {"none", "pending_review", "live", "rejected", "suspended"}]
    /\ deployed \subseteq Deployment
    /\ \A c, d \in deployed : c.agent = d.agent /\ c.of = d.of => c = d
    /\ trials \subseteq Pair
    /\ unlocks \subseteq [agent : Agents, of : Shops, id : 1..MaxPurchases]
    /\ reviews \subseteq Review
    /\ \A x, y \in reviews : x.agent = y.agent /\ x.of = y.of => x = y
    /\ rating \in [Agents -> SUBSET Review]
    /\ caller \in [Callers -> Calls]
    /\ bought \in 0..MaxPurchases
    /\ contended \subseteq Shops

Init ==
    /\ agent = [a \in Agents |-> "none"]
    /\ deployed = {} /\ trials = {} /\ unlocks = {} /\ reviews = {}
    /\ rating = [a \in Agents |-> {}]
    /\ caller = [c \in Callers |-> Idle]
    /\ bought = 0
    /\ contended = {}

rows == <<agent, deployed, trials, unlocks, reviews, rating>>

-----------------------------------------------------------------------------
\* A trusted creator's agent is live at once.
PublishAgent(a) ==
    /\ agent[a] = "none"
    /\ \E status \in {"live", "pending_review"} : agent' = [agent EXCEPT ![a] = status]
    /\ UNCHANGED <<deployed, trials, unlocks, reviews, rating, caller, bought, contended>>

\* review_agent and suspend_agent, whatever the status is.
Judge(a) ==
    /\ agent[a] # "none"
    /\ \E status \in {"live", "rejected", "suspended"} : agent' = [agent EXCEPT ![a] = status]
    /\ UNCHANGED <<deployed, trials, unlocks, reviews, rating, caller, bought, contended>>

Call(c, x) == caller' = [caller EXCEPT ![c] = x]

IsDeployed(p) == \E d \in deployed : d.agent = p.agent /\ d.of = p.of

\* Mutant: the cap may be reached once more.
RoomForOne(b) == Cardinality({d \in deployed : d.of = b}) <= Cap

Room(b) == Cardinality({d \in deployed : d.of = b}) < Cap

Deploying(c, b) == caller[c].kind \in {"trial", "unlock"} /\ caller[c].on.of = b

Contend(b) == contended' =
    IF \E c \in Callers : Deploying(c, b)
    THEN contended \cup {b} ELSE contended

\* start_trial reads; the cap holds for a deployment the business does not have.
StartTrial(c, p) ==
    /\ caller[c] = Idle /\ agent[p.agent] = "live" /\ p \notin trials
    /\ IsDeployed(p) \/ Room(p.of)
    /\ Call(c, [kind |-> "trial", on |-> p, new |-> ~IsDeployed(p)])
    /\ Contend(p.of)
    /\ UNCHANGED <<rows, bought>>

\* unlock_agent reads; it knows no cap.
StartUnlock(c, p) ==
    /\ caller[c] = Idle /\ agent[p.agent] = "live" /\ bought < MaxPurchases
    /\ bought' = bought + 1
    /\ Call(c, [kind |-> "unlock", on |-> p, new |-> ~IsDeployed(p), id |-> bought'])
    /\ Contend(p.of)
    /\ UNCHANGED rows

\* Agent and business are unique in child_agents, in agent_trials too.
Deploy(x) ==
    /\ x.new => ~IsDeployed(x.on)
    /\ deployed' = IF x.new THEN deployed \cup {[agent |-> x.on.agent, of |-> x.on.of, by |-> x.kind]}
                   ELSE deployed

CommitTrial(c) ==
    /\ caller[c].kind = "trial" /\ caller[c].on \notin trials
    /\ Deploy(caller[c])
    /\ trials' = trials \cup {caller[c].on}
    /\ Call(c, Idle)
    /\ UNCHANGED <<agent, unlocks, reviews, rating, bought, contended>>

CommitUnlock(c) ==
    /\ caller[c].kind = "unlock"
    /\ Deploy(caller[c])
    /\ LET x == caller[c] IN
       unlocks' = unlocks \cup {[agent |-> x.on.agent, of |-> x.on.of, id |-> x.id]}
    /\ Call(c, Idle)
    /\ UNCHANGED <<agent, trials, reviews, rating, bought, contended>>

-----------------------------------------------------------------------------
UnlocksOf(a) == {u \in unlocks : u.agent = a}

\* submit_review looks the agent's purchase up with scalar_one_or_none, which
\* raises when there are several.
PurchaseFound(a, b) == \E u \in unlocks : UnlocksOf(a) = {u} /\ u.of = b

Reviewed(p) == \E x \in reviews : x.agent = p.agent /\ x.of = p.of

ReviewsOf(a) == {x \in reviews : x.agent = a}

\* _update_agent_rating, with the request's own review.
Counted(x) == ReviewsOf(x.agent) \cup {x}

\* Anyone but the creator may submit; the review is the purchasing business's.
StartReview(c, p, stars) ==
    /\ caller[c] = Idle /\ PurchaseFound(p.agent, p.of) /\ ~Reviewed(p)
    /\ LET x == [agent |-> p.agent, of |-> p.of, stars |-> stars] IN
       Call(c, [kind |-> "review", review |-> x, counted |-> Counted(x)])
    /\ UNCHANGED <<rows, bought, contended>>

\* One review for agent and business.
CommitReview(c) ==
    /\ caller[c].kind = "review" /\ ~Reviewed(caller[c].review)
    /\ reviews' = reviews \cup {caller[c].review}
    /\ rating' = [rating EXCEPT ![caller[c].review.agent] = caller[c].counted]
    /\ Call(c, Idle)
    /\ UNCHANGED <<agent, deployed, trials, unlocks, bought, contended>>

\* A unique key is taken, or the commit fails.
Fail(c) ==
    /\ caller[c] # Idle
    /\ Call(c, Idle)
    /\ UNCHANGED <<rows, bought, contended>>

Next ==
    \/ \E a \in Agents : PublishAgent(a)
    \/ \E a \in Agents : Judge(a)
    \/ \E c \in Callers, p \in Pair : StartTrial(c, p)
    \/ \E c \in Callers, p \in Pair : StartUnlock(c, p)
    \/ \E c \in Callers : CommitTrial(c)
    \/ \E c \in Callers : CommitUnlock(c)
    \/ \E c \in Callers, p \in Pair, stars \in Ratings : StartReview(c, p, stars)
    \/ \E c \in Callers : CommitReview(c)
    \/ \E c \in Callers : Fail(c)

Spec == Init /\ [][Next]_vars

-----------------------------------------------------------------------------
ByTrial(b) == {d \in deployed : d.of = b /\ d.by = "trial"}

\* Trials do not deploy more agents at a business than the cap unless two of its
\* deployments overlapped, for the agents are counted before the new one is
\* inserted; however they overlap, and however often, the cap is exceeded by at
\* most the requests that run beside the one that takes the last place
\* (start_trial).
CapKept ==
    \A b \in Shops :
        /\ b \notin contended => Cardinality(ByTrial(b)) <= Cap
        /\ Cardinality(ByTrial(b)) < Cap + Cardinality(Callers)

=============================================================================
