------------------------------ MODULE Transfer ------------------------------
(***************************************************************************)
(* Handing one business over to another person: the owner creates a        *)
(* transfer, which the recipient accepts or declines and the owner may     *)
(* cancel or replace.                                                      *)
(*                                                                         *)
(* No row is locked while it is read.  A request checks who may make it,   *)
(* reads the transfers it will touch, and writes them at its commit; other *)
(* requests may commit between any two of these reads.                     *)
(***************************************************************************)
EXTENDS Naturals

CONSTANTS
    Users,     \* people who may own the business
    Transfers, \* bound of the model: the rows that may be inserted
    Requests,  \* the requests that may overlap
    NoUser,
    NoTransfer

ASSUME TransferAssumption == NoUser \notin Users /\ NoTransfer \notin Transfers

VARIABLES
    owner,     \* Business.owner_id
    suspended, \* Business.is_suspended
    transfer,  \* the rows of business_transfers
    expired,   \* transfers whose expires_at has passed
    req,       \* the requests
    crossed    \* history: a new transfer overlapped another one or an accept

vars == <<owner, suspended, transfer, expired, req, crossed>>

Resolved == {"cancelled", "accepted", "declined"}

NoRow == [status |-> "none", from |-> NoUser, to |-> NoUser]

\* found are the pending transfers the request will cancel; seen is the owner
\* an accept has read.
Idle == [st |-> "idle", kind |-> "cancel", user |-> NoUser, to |-> NoUser,
         t |-> NoTransfer, found |-> {}, seen |-> NoUser]

TypeOK ==
    /\ owner \in Users
    /\ suspended \in BOOLEAN
    /\ transfer \in [Transfers -> [status : {"none", "pending"} \cup Resolved,
                                   from : Users \cup {NoUser}, to : Users \cup {NoUser}]]
    /\ expired \subseteq Transfers
    /\ req \in [Requests -> [st : {"idle", "allowed", "loaded", "ready"},
                             kind : {"initiate", "cancel", "accept", "decline"},
                             user : Users \cup {NoUser}, to : Users \cup {NoUser},
                             t : Transfers \cup {NoTransfer}, found : SUBSET Transfers,
                             seen : Users \cup {NoUser}]]
    /\ \A r \in Requests : req[r].st = "idle" => req[r] = Idle
    /\ \A t \in Transfers : transfer[t].status # "none" => transfer[t].from # transfer[t].to
    /\ crossed \in BOOLEAN

-----------------------------------------------------------------------------
Init ==
    /\ owner \in Users
    /\ suspended = FALSE
    /\ transfer = [t \in Transfers |-> NoRow]
    /\ expired = {}
    /\ req = [r \in Requests |-> Idle]
    /\ crossed = FALSE

Pending == {t \in Transfers : transfer[t].status = "pending"}

Running(kinds) == \E r \in Requests : req[r].st # "idle" /\ req[r].kind \in kinds

-----------------------------------------------------------------------------
\* _owned: only the owner, and not while the business is suspended.
Owned(u) == owner = u /\ ~suspended

\* The owner names a recipient other than himself ...
StartInitiate(r, u, to) ==
    /\ req[r].st = "idle"
    /\ Owned(u) /\ to # u
    /\ req' = [req EXCEPT ![r] = [Idle EXCEPT !.st = "allowed", !.kind = "initiate",
                                              !.user = u, !.to = to]]
    /\ crossed' = (crossed \/ Running({"initiate", "accept"}))
    /\ UNCHANGED <<owner, suspended, transfer, expired>>

\* ... or withdraws.
StartCancel(r, u) ==
    /\ req[r].st = "idle"
    /\ Owned(u)
    /\ req' = [req EXCEPT ![r] = [Idle EXCEPT !.st = "allowed", !.kind = "cancel", !.user = u]]
    /\ UNCHANGED <<owner, suspended, transfer, expired, crossed>>

\* Mutant: a pending transfer is not looked for.
NothingFound == {{}}

\* _pending_for: the latest pending transfer, expired or not.  Several come
\* from requests that overlapped, in any order of creation.
PendingFor == IF Pending = {} THEN {{}} ELSE {{t} : t \in Pending}

FindPending(r) ==
    /\ req[r].st = "allowed"
    /\ \E found \in PendingFor :
         req' = [req EXCEPT ![r].st = "ready", ![r].found = found]
    /\ UNCHANGED <<owner, suspended, transfer, expired, crossed>>

\* The transfers the request has found become cancelled.
Cancelled(r) ==
    [t \in Transfers |-> IF t \in req[r].found THEN [transfer[t] EXCEPT !.status = "cancelled"]
                                               ELSE transfer[t]]

CommitInitiate(r) ==
    /\ req[r].st = "ready" /\ req[r].kind = "initiate"
    /\ \E t \in Transfers :
         /\ transfer[t] = NoRow
         /\ transfer' = [Cancelled(r) EXCEPT ![t] =
                [status |-> "pending", from |-> req[r].user, to |-> req[r].to]]
    /\ req' = [req EXCEPT ![r] = Idle]
    /\ UNCHANGED <<owner, suspended, expired, crossed>>

CommitCancel(r) ==
    /\ req[r].st = "ready" /\ req[r].kind = "cancel"
    /\ transfer' = Cancelled(r)
    /\ req' = [req EXCEPT ![r] = Idle]
    /\ UNCHANGED <<owner, suspended, expired, crossed>>

-----------------------------------------------------------------------------
\* Mutant: whatever became of the transfer, its recipient may take it.
AnyIncoming(u, t) == transfer[t].status # "none" /\ t \notin expired /\ transfer[t].to = u

\* _load_incoming.  It sets an expired transfer to expired and raises, which
\* rolls that back: nothing changes.
Incoming(u, t) == t \in Pending /\ t \notin expired /\ transfer[t].to = u

LoadIncoming(r, kind, u, t) ==
    /\ req[r].st = "idle"
    /\ Incoming(u, t)
    /\ req' = [req EXCEPT ![r] = [Idle EXCEPT !.st = IF kind = "accept" THEN "loaded" ELSE "ready",
                                              !.kind = kind, !.user = u, !.t = t]]
    /\ crossed' = (crossed \/ (kind = "accept" /\ Running({"initiate"})))
    /\ UNCHANGED <<owner, suspended, transfer, expired>>

\* accept_transfer reads the business, suspended or not ...
LoadBusiness(r) ==
    /\ req[r].st = "loaded" /\ req[r].seen = NoUser
    /\ req' = [req EXCEPT ![r].seen = owner]
    /\ UNCHANGED <<owner, suspended, transfer, expired, crossed>>

\* ... and the other transfers that are pending.
Others(r) == Pending \ {req[r].t}

FindOthers(r) ==
    /\ req[r].st = "loaded" /\ req[r].seen # NoUser
    /\ req' = [req EXCEPT ![r].st = "ready", ![r].found = Others(r)]
    /\ UNCHANGED <<owner, suspended, transfer, expired, crossed>>

\* owner_id is written when it differs from what was read.
CommitAccept(r) ==
    /\ req[r].st = "ready" /\ req[r].kind = "accept"
    /\ owner' = IF req[r].seen = req[r].user THEN owner ELSE req[r].user
    /\ transfer' = [Cancelled(r) EXCEPT ![req[r].t].status = "accepted"]
    /\ req' = [req EXCEPT ![r] = Idle]
    /\ UNCHANGED <<suspended, expired, crossed>>

CommitDecline(r) ==
    /\ req[r].st = "ready" /\ req[r].kind = "decline"
    /\ transfer' = [transfer EXCEPT ![req[r].t].status = "declined"]
    /\ req' = [req EXCEPT ![r] = Idle]
    /\ UNCHANGED <<owner, suspended, expired, crossed>>

\* Mutant: what a failed request has found stays with the next one.
FailKeepsFound(r) ==
    /\ req[r].st # "idle"
    /\ req' = [req EXCEPT ![r].st = "idle"]
    /\ UNCHANGED <<owner, suspended, transfer, expired, crossed>>

\* An exception, a crash or a failed commit.
Fail(r) ==
    /\ req[r].st # "idle"
    /\ req' = [req EXCEPT ![r] = Idle]
    /\ UNCHANGED <<owner, suspended, transfer, expired, crossed>>

\* Seven days pass.
Expire(t) ==
    /\ t \in Pending \ expired
    /\ expired' = expired \cup {t}
    /\ UNCHANGED <<owner, suspended, transfer, req, crossed>>

\* An admin suspends the business or restores it.
Suspend ==
    /\ suspended' = ~suspended
    /\ UNCHANGED <<owner, transfer, expired, req, crossed>>

Next ==
    \/ \E r \in Requests, u \in Users :
        \/ \E to \in Users : StartInitiate(r, u, to)
        \/ StartCancel(r, u)
        \/ \E kind \in {"accept", "decline"}, t \in Transfers : LoadIncoming(r, kind, u, t)
    \/ \E r \in Requests :
        \/ FindPending(r) \/ CommitInitiate(r) \/ CommitCancel(r)
        \/ LoadBusiness(r) \/ FindOthers(r) \/ CommitAccept(r) \/ CommitDecline(r)
        \/ Fail(r)
    \/ \E t \in Transfers : Expire(t)
    \/ Suspend

Spec == Init /\ [][Next]_vars

-----------------------------------------------------------------------------
\* At most one transfer is pending, and it comes from the owner, however
\* accepts, declines and withdrawals overlap and fail, as long as no new
\* transfer overlaps another one or an accept: an accept drops the others, and
\* a new one replaces the old (transfers.initiate_transfer, accept_transfer).
OnePending ==
    ~crossed => \A t, u \in Pending : t = u /\ transfer[t].from = owner

\* The business changes hands only from an owner who offered it to the one who
\* takes it: nobody loses it by what a former owner had begun, again as long
\* as no new transfer overlaps another one or an accept (the docstring of
\* transfers: a two-step, consent-based flow).
BothConsent ==
    [][ owner' # owner =>
          \E t \in Transfers :
              /\ transfer[t].to = owner' /\ transfer'[t].status = "accepted"
              /\ transfer[t].from = owner \/ crossed ]_vars

=============================================================================
