--------------------------- MODULE PeopleProofs ---------------------------
(***************************************************************************)
(* What the transfer of a business, the sessions of its people and the     *)
(* connection of its bots promise, for any number of people, bots and      *)
(* requests.                                                               *)
(*                                                                         *)
(* Transfer: while no new transfer has overlapped another one or an        *)
(* accept, a request that creates a transfer is alone, its user still is   *)
(* the owner, and it has found all that is pending.  All accepts are of    *)
(* the same transfer, nothing else is pending, and its sender is the owner *)
(* until the first of them commits.                                        *)
(*                                                                         *)
(* Accounts: a request that uses a token holds the one live session of its *)
(* login.  Onboarding: a bot is being connected by one request, whose      *)
(* secret Telegram has; and what was paid of a referral, will be paid, or  *)
(* waits for it, was tapped.                                               *)
(***************************************************************************)
EXTENDS Services, FiniteSetTheorems, TLAPS

Row == [status : {"none", "pending"} \cup Resolved,
        from : Users \cup {NoUser}, to : Users \cup {NoUser}]

Req == [st : {"idle", "allowed", "loaded", "ready"},
        kind : {"initiate", "cancel", "accept", "decline"},
        user : Users \cup {NoUser}, to : Users \cup {NoUser},
        t : Transfers \cup {NoTransfer}, found : SUBSET Transfers,
        seen : Users \cup {NoUser}]

\* Well-formed requests of each kind.
ReqInv ==
    \A r \in Requests : req[r].st # "idle" =>
        /\ req[r].user \in Users
        /\ \A t \in req[r].found : transfer[t].status # "none"
        /\ req[r].kind = "initiate" =>
               req[r].to \in Users /\ req[r].to # req[r].user /\ req[r].st # "loaded"
        /\ req[r].kind = "cancel" => req[r].st # "loaded"
        /\ req[r].kind \in {"accept", "decline"} =>
               /\ req[r].t \in Transfers /\ transfer[req[r].t].status # "none"
               /\ transfer[req[r].t].to = req[r].user
               /\ req[r].st # "allowed"

Creates(r) == req[r].st # "idle" /\ req[r].kind = "initiate"

Accepts(r) == req[r].st # "idle" /\ req[r].kind = "accept"

PendingInv == \A t, u \in Pending : t = u /\ transfer[t].from = owner

CreateInv ==
    \A r \in Requests : Creates(r) =>
        /\ req[r].user = owner
        /\ req[r].st = "ready" => Pending \subseteq req[r].found
        /\ \A q \in Requests : (Creates(q) => q = r) /\ ~Accepts(q)

AcceptInv ==
    \A r \in Requests : Accepts(r) =>
        /\ Pending \subseteq {req[r].t}
        /\ transfer[req[r].t].from = owner \/ req[r].user = owner
        /\ req[r].seen = req[r].user => req[r].user = owner
        /\ \A q \in Requests : Accepts(q) => req[q].t = req[r].t

ConsentInv == ~crossed => PendingInv /\ CreateInv /\ AcceptInv

-----------------------------------------------------------------------------
LEMMA IdleReq == Idle \in Req /\ Idle.st = "idle"
BY DEF Idle, Req

LEMMA CancelledRows ==
    ASSUME TypeOK, ReqInv, NEW r \in Requests, req[r].st # "idle"
    PROVE  /\ Cancelled(r) \in [Transfers -> Row]
           /\ \A t \in Transfers :
                 /\ Cancelled(r)[t].from = transfer[t].from
                 /\ Cancelled(r)[t].to = transfer[t].to
                 /\ Cancelled(r)[t].status = "none" <=> transfer[t].status = "none"
                 /\ Cancelled(r)[t].status = "pending" => t \in Pending \ req[r].found
<1>1. transfer \in [Transfers -> Row]
  BY DEF TypeOK, Row
<1>2. \A t \in req[r].found : transfer[t].status # "none"
  BY DEF ReqInv
<1>3. ASSUME NEW t \in Transfers
      PROVE  /\ Cancelled(r)[t] \in Row
             /\ Cancelled(r)[t].from = transfer[t].from
             /\ Cancelled(r)[t].to = transfer[t].to
             /\ Cancelled(r)[t].status = "none" <=> transfer[t].status = "none"
             /\ Cancelled(r)[t].status = "pending" => t \in Pending \ req[r].found
  <2>1. transfer[t] \in Row
    BY <1>1
  <2>2. CASE t \in req[r].found
    <3>1. Cancelled(r)[t] = [transfer[t] EXCEPT !.status = "cancelled"]
      BY <2>2 DEF Cancelled
    <3> QED BY <1>2, <2>1, <2>2, <3>1 DEF Row, Resolved
  <2>3. CASE t \notin req[r].found
    <3>1. Cancelled(r)[t] = transfer[t]
      BY <2>3 DEF Cancelled
    <3> QED BY <2>1, <2>3, <3>1 DEF Pending
  <2> QED BY <2>2, <2>3
<1>4. Cancelled(r) = [t \in Transfers |-> Cancelled(r)[t]]
  BY DEF Cancelled
<1> QED
  BY <1>3, <1>4

\* What the commit of a new transfer does to the rows.
LEMMA InitiateRows ==
    ASSUME TypeOK, ReqInv, NEW r \in Requests, CommitInitiate(r)
    PROVE  \E n \in Transfers :
             /\ transfer[n].status = "none"
             /\ transfer' \in [Transfers -> Row]
             /\ transfer'[n].status = "pending" /\ transfer'[n].from = req[r].user
             /\ transfer'[n].to = req[r].to
             /\ \A t \in Transfers \ {n} : transfer'[t] = Cancelled(r)[t]
<1>1. PICK n \in Transfers : /\ transfer[n] = NoRow
                             /\ transfer' = [Cancelled(r) EXCEPT ![n] =
                                    [status |-> "pending", from |-> req[r].user, to |-> req[r].to]]
  BY DEF CommitInitiate
<1>2. Cancelled(r) \in [Transfers -> Row]
  BY CancelledRows DEF CommitInitiate
<1>3. req[r].user \in Users \cup {NoUser} /\ req[r].to \in Users \cup {NoUser}
  BY DEF TypeOK
<1>4. [status |-> "pending", from |-> req[r].user, to |-> req[r].to] \in Row
  BY <1>3 DEF Row
<1>5. transfer[n].status = "none"
  BY <1>1 DEF NoRow
<1> QED
  BY <1>1, <1>2, <1>4, <1>5

\* What accepting or declining does to the rows: no row is new, none becomes
\* pending again, and the one taken is settled.
LEMMA SettledRows ==
    ASSUME TypeOK, ReqInv, NEW r \in Requests, CommitAccept(r) \/ CommitDecline(r)
    PROVE  /\ req[r].t \in Transfers /\ transfer' \in [Transfers -> Row]
           /\ transfer'[req[r].t].status \in {"accepted", "declined"}
           /\ CommitAccept(r) => transfer'[req[r].t].status = "accepted"
           /\ \A t \in Transfers :
                 /\ transfer'[t].from = transfer[t].from
                 /\ transfer'[t].to = transfer[t].to
                 /\ transfer'[t].status = "none" <=> transfer[t].status = "none"
                 /\ transfer'[t].status = "pending" => t \in Pending \ {req[r].t}
<1>1. req[r].st # "idle" /\ req[r].t \in Transfers /\ transfer[req[r].t].status # "none"
  BY DEF CommitAccept, CommitDecline, ReqInv
<1>2. transfer \in [Transfers -> Row]
  BY DEF TypeOK, Row
<1>3. CASE CommitAccept(r)
  <2>1. transfer' = [Cancelled(r) EXCEPT ![req[r].t].status = "accepted"]
    BY <1>3 DEF CommitAccept
  <2>2. ~CommitDecline(r)
    BY <1>3 DEF CommitAccept, CommitDecline
  <2> HIDE DEF Cancelled, Row
  <2>3. /\ Cancelled(r) \in [Transfers -> Row]
        /\ \A t \in Transfers :
                 /\ Cancelled(r)[t].from = transfer[t].from
                 /\ Cancelled(r)[t].to = transfer[t].to
                 /\ Cancelled(r)[t].status = "none" <=> transfer[t].status = "none"
                 /\ Cancelled(r)[t].status = "pending" => t \in Pending
    BY <1>1, CancelledRows
  <2>4. \A t \in Transfers \ {req[r].t} : transfer'[t] = Cancelled(r)[t]
    BY <2>1, <2>3
  <2>5. transfer'[req[r].t] = [Cancelled(r)[req[r].t] EXCEPT !.status = "accepted"]
    BY <1>1, <2>1, <2>3
  <2>6. /\ transfer'[req[r].t] \in Row /\ transfer'[req[r].t].status = "accepted"
        /\ transfer'[req[r].t].from = transfer[req[r].t].from
        /\ transfer'[req[r].t].to = transfer[req[r].t].to
    BY <1>1, <2>3, <2>5 DEF Row, Resolved
  <2>7. transfer' \in [Transfers -> Row]
    BY <1>1, <2>1, <2>3, <2>4, <2>6
  <2> QED BY <1>1, <2>3, <2>4, <2>6, <2>7
<1>4. CASE CommitDecline(r)
  <2>1. transfer' = [transfer EXCEPT ![req[r].t].status = "declined"]
    BY <1>4 DEF CommitDecline
  <2>2. ~CommitAccept(r)
    BY <1>4 DEF CommitAccept, CommitDecline
  <2>3. transfer'[req[r].t] = [transfer[req[r].t] EXCEPT !.status = "declined"]
    BY <1>1, <1>2, <2>1
  <2>4. /\ transfer'[req[r].t] \in Row /\ transfer'[req[r].t].status = "declined"
        /\ transfer'[req[r].t].from = transfer[req[r].t].from
        /\ transfer'[req[r].t].to = transfer[req[r].t].to
    BY <1>1, <1>2, <2>3 DEF Row, Resolved
  <2>5. \A t \in Transfers \ {req[r].t} : transfer'[t] = transfer[t]
    BY <1>2, <2>1
  <2>6. transfer' \in [Transfers -> Row]
    BY <1>1, <1>2, <2>1, <2>4, <2>5
  <2> QED BY <1>1, <2>2, <2>4, <2>5, <2>6 DEF Pending
<1> QED
  BY <1>3, <1>4

-----------------------------------------------------------------------------
LEMMA InitType == Init => TypeOK /\ ReqInv
<1> SUFFICES ASSUME Init PROVE TypeOK /\ ReqInv
  OBVIOUS
<1>1. NoRow \in Row /\ NoRow.status = "none"
  BY DEF NoRow, Row
<1>2. \A r \in Requests : req[r] = Idle
  BY DEF Init
<1>3. \A t \in Transfers : transfer[t].status = "none"
  BY <1>1 DEF Init
<1>4. req \in [Requests -> Req] /\ transfer \in [Transfers -> Row]
  BY <1>1, IdleReq DEF Init
<1>5. TypeOK
  BY <1>2, <1>3, <1>4 DEF Init, TypeOK, Row, Req
<1>6. ReqInv
  BY <1>2, IdleReq DEF ReqInv
<1> QED
  BY <1>5, <1>6

\* A step that leaves the rows alone, and changes one request at most to a
\* well-formed one, keeps types and requests.
LEMMA RequestStep ==
    ASSUME TypeOK, ReqInv, NEW r \in Requests, NEW new \in Req,
           req' = [req EXCEPT ![r] = new],
           UNCHANGED transfer, owner' \in Users, suspended' \in BOOLEAN,
           expired' \subseteq Transfers, crossed' \in BOOLEAN,
           new.st = "idle" => new = Idle,
           new.st # "idle" =>
             /\ new.user \in Users
             /\ \A t \in new.found : transfer[t].status # "none"
             /\ new.kind = "initiate" => new.to \in Users /\ new.to # new.user /\ new.st # "loaded"
             /\ new.kind = "cancel" => new.st # "loaded"
             /\ new.kind \in {"accept", "decline"} =>
                    /\ new.t \in Transfers /\ transfer[new.t].status # "none"
                    /\ transfer[new.t].to = new.user
                    /\ new.st # "allowed"
    PROVE  TypeOK' /\ ReqInv'
<1>1. req' \in [Requests -> Req] /\ req'[r] = new
  BY DEF TypeOK, Req
<1>2. \A q \in Requests \ {r} : req'[q] = req[q]
  BY DEF TypeOK
<1>3. TypeOK'
  BY <1>1, <1>2 DEF TypeOK, Req
<1>4. ReqInv'
  BY <1>1, <1>2 DEF ReqInv
<1> QED
  BY <1>3, <1>4

\* A commit that ends a request and keeps every row that exists, and where it
\* goes, keeps types and requests.
LEMMA CommitStep ==
    ASSUME TypeOK, ReqInv, NEW r \in Requests, req' = [req EXCEPT ![r] = Idle],
           transfer' \in [Transfers -> Row], owner' \in Users,
           UNCHANGED <<suspended, expired, crossed>>,
           \A t \in Transfers : transfer[t].status # "none" =>
               /\ transfer'[t].status # "none"
               /\ transfer'[t].from = transfer[t].from /\ transfer'[t].to = transfer[t].to,
           \A t \in Transfers : transfer[t].status = "none" /\ transfer'[t].status # "none" =>
               transfer'[t].from # transfer'[t].to
    PROVE  TypeOK' /\ ReqInv'
<1>1. req' \in [Requests -> Req] /\ req'[r] = Idle
  BY IdleReq DEF TypeOK, Req
<1>2. \A q \in Requests \ {r} : req'[q] = req[q]
  BY DEF TypeOK
<1>3. \A t \in Transfers : transfer'[t].status # "none" => transfer'[t].from # transfer'[t].to
  BY DEF TypeOK
<1>4. TypeOK'
  BY <1>1, <1>2, <1>3 DEF TypeOK, Row, Req
<1>5. \A q \in Requests : req[q].found \subseteq Transfers
  BY DEF TypeOK
<1>6. ReqInv'
  <2> SUFFICES ASSUME NEW q \in Requests, req'[q].st # "idle"
               PROVE  /\ req'[q] = req[q] /\ req[q].st # "idle"
                      /\ \A t \in req[q].found : transfer'[t].status # "none"
                      /\ req[q].kind \in {"accept", "decline"} =>
                            /\ transfer'[req[q].t].status # "none"
                            /\ transfer'[req[q].t].to = req[q].user
    BY DEF ReqInv
  <2>1. q # r
    BY <1>1, IdleReq
  <2> QED BY <1>2, <1>5, <2>1 DEF ReqInv
<1> QED
  BY <1>4, <1>6

LEMMA NextType == TypeOK /\ ReqInv /\ [Next]_vars => TypeOK' /\ ReqInv'
<1> SUFFICES ASSUME TypeOK, ReqInv, [Next]_vars PROVE TypeOK' /\ ReqInv'
  OBVIOUS
<1>0. /\ owner \in Users /\ suspended \in BOOLEAN /\ expired \subseteq Transfers
      /\ crossed \in BOOLEAN /\ req \in [Requests -> Req] /\ transfer \in [Transfers -> Row]
  BY DEF TypeOK, Req, Row
<1>1. ASSUME NEW r \in Requests, NEW u \in Users, NEW to \in Users, StartInitiate(r, u, to)
      PROVE  TypeOK' /\ ReqInv'
  <2> DEFINE new == [Idle EXCEPT !.st = "allowed", !.kind = "initiate", !.user = u, !.to = to]
  <2>1. /\ new \in Req /\ new.st = "allowed" /\ new.kind = "initiate" /\ new.user = u
        /\ new.to = to /\ new.found = {}
    BY DEF Idle, Req
  <2>2. req' = [req EXCEPT ![r] = new] /\ to # u
    BY <1>1 DEF StartInitiate
  <2>3. crossed' = (crossed \/ Running({"initiate", "accept"}))
        /\ UNCHANGED <<owner, suspended, transfer, expired>>
    BY <1>1 DEF StartInitiate
  <2>4. crossed' \in BOOLEAN
    BY <2>3
  <2> HIDE DEF new
  <2> QED BY <1>0, <2>1, <2>2, <2>3, <2>4, RequestStep
<1>2. ASSUME NEW r \in Requests, NEW u \in Users, StartCancel(r, u) PROVE TypeOK' /\ ReqInv'
  <2> DEFINE new == [Idle EXCEPT !.st = "allowed", !.kind = "cancel", !.user = u]
  <2>1. /\ new \in Req /\ new.st = "allowed" /\ new.kind = "cancel" /\ new.user = u
        /\ new.found = {}
    BY DEF Idle, Req
  <2>2. req' = [req EXCEPT ![r] = new]
        /\ UNCHANGED <<owner, suspended, transfer, expired, crossed>>
    BY <1>2 DEF StartCancel
  <2> HIDE DEF new
  <2> QED BY <1>0, <2>1, <2>2, RequestStep
<1>3. ASSUME NEW r \in Requests, NEW u \in Users, NEW kind \in {"accept", "decline"},
             NEW t \in Transfers, LoadIncoming(r, kind, u, t)
      PROVE  TypeOK' /\ ReqInv'
  <2>1. PICK new : /\ req' = [req EXCEPT ![r] = new]
                   /\ new = [Idle EXCEPT !.st = IF kind = "accept" THEN "loaded" ELSE "ready",
                                         !.kind = kind, !.user = u, !.t = t]
    BY <1>3 DEF LoadIncoming
  <2>2. /\ new \in Req /\ new.st \in {"loaded", "ready"} /\ new.kind = kind /\ new.user = u
        /\ new.t = t /\ new.found = {}
    BY <2>1 DEF Idle, Req
  <2>3. crossed' = (crossed \/ (kind = "accept" /\ Running({"initiate"})))
        /\ UNCHANGED <<owner, suspended, transfer, expired>>
    BY <1>3 DEF LoadIncoming
  <2>4. crossed' \in BOOLEAN
    BY <2>3
  <2>5. transfer[t].status # "none" /\ transfer[t].to = u
    BY <1>3 DEF LoadIncoming, Incoming, Pending
  <2> QED BY <1>0, <2>1, <2>2, <2>3, <2>4, <2>5, RequestStep
<1>4. ASSUME NEW r \in Requests, FindPending(r) PROVE TypeOK' /\ ReqInv'
  <2>1. PICK found \in PendingFor : req' = [req EXCEPT ![r].st = "ready", ![r].found = found]
    BY <1>4 DEF FindPending
  <2>2. found \subseteq Pending
    BY <2>1 DEF PendingFor
  <2>3. PICK new : /\ req' = [req EXCEPT ![r] = new]
                   /\ new = [req[r] EXCEPT !.st = "ready", !.found = found]
    BY <1>0, <2>1
  <2>4. /\ new \in Req /\ new.st = "ready" /\ new.found = found /\ new.user = req[r].user
        /\ new.to = req[r].to /\ new.kind = req[r].kind /\ new.t = req[r].t
    BY <1>0, <2>2, <2>3 DEF Req, Pending
  <2>5. UNCHANGED <<owner, suspended, transfer, expired, crossed>> /\ req[r].st = "allowed"
    BY <1>4 DEF FindPending
  <2>6. \A t \in found : transfer[t].status # "none"
    BY <2>2 DEF Pending
  <2> QED BY <1>0, <2>3, <2>4, <2>5, <2>6, RequestStep DEF ReqInv
<1>5. ASSUME NEW r \in Requests, LoadBusiness(r) PROVE TypeOK' /\ ReqInv'
  <2>1. PICK new : req' = [req EXCEPT ![r] = new] /\ new = [req[r] EXCEPT !.seen = owner]
    BY <1>0, <1>5 DEF LoadBusiness
  <2>2. /\ new \in Req /\ new.st = req[r].st /\ new.found = req[r].found
        /\ new.user = req[r].user /\ new.to = req[r].to /\ new.kind = req[r].kind
        /\ new.t = req[r].t
    BY <1>0, <2>1 DEF Req
  <2>3. UNCHANGED <<owner, suspended, transfer, expired, crossed>> /\ req[r].st = "loaded"
    BY <1>5 DEF LoadBusiness
  <2> QED BY <1>0, <2>1, <2>2, <2>3, RequestStep DEF ReqInv
<1>6. ASSUME NEW r \in Requests, FindOthers(r) PROVE TypeOK' /\ ReqInv'
  <2>1. PICK new : /\ req' = [req EXCEPT ![r] = new]
                   /\ new = [req[r] EXCEPT !.st = "ready", !.found = Others(r)]
    BY <1>0, <1>6 DEF FindOthers
  <2>2. Others(r) \subseteq Pending
    BY DEF Others
  <2>3. /\ new \in Req /\ new.st = "ready" /\ new.found = Others(r)
        /\ new.user = req[r].user /\ new.to = req[r].to /\ new.kind = req[r].kind
        /\ new.t = req[r].t
    BY <1>0, <2>1, <2>2 DEF Req, Pending
  <2>4. UNCHANGED <<owner, suspended, transfer, expired, crossed>> /\ req[r].st = "loaded"
    BY <1>6 DEF FindOthers
  <2>5. \A t \in Others(r) : transfer[t].status # "none"
    BY <2>2 DEF Pending
  <2> QED BY <1>0, <2>1, <2>3, <2>4, <2>5, RequestStep DEF ReqInv
<1>7. ASSUME NEW r \in Requests, CommitInitiate(r) PROVE TypeOK' /\ ReqInv'
  <2>1. PICK n \in Transfers :
             /\ transfer[n].status = "none"
             /\ transfer' \in [Transfers -> Row]
             /\ transfer'[n].from = req[r].user
             /\ transfer'[n].to = req[r].to
             /\ \A t \in Transfers \ {n} : transfer'[t] = Cancelled(r)[t]
    BY <1>7, InitiateRows
  <2>2. req[r].st # "idle" /\ req[r].to # req[r].user
    BY <1>7 DEF CommitInitiate, ReqInv
  <2>3. \A t \in Transfers :
                 /\ Cancelled(r)[t].from = transfer[t].from
                 /\ Cancelled(r)[t].to = transfer[t].to
                 /\ Cancelled(r)[t].status = "none" <=> transfer[t].status = "none"
    BY <2>2, CancelledRows
  <2>4. req' = [req EXCEPT ![r] = Idle] /\ UNCHANGED <<owner, suspended, expired, crossed>>
    BY <1>7 DEF CommitInitiate
  <2> HIDE DEF Cancelled
  <2>5. \A t \in Transfers : transfer[t].status # "none" =>
               /\ transfer'[t].status # "none"
               /\ transfer'[t].from = transfer[t].from /\ transfer'[t].to = transfer[t].to
    BY <2>1, <2>3
  <2>6. \A t \in Transfers : transfer[t].status = "none" /\ transfer'[t].status # "none" =>
               transfer'[t].from # transfer'[t].to
    BY <2>1, <2>2, <2>3
  <2> QED BY <1>0, <2>1, <2>4, <2>5, <2>6, CommitStep
<1>8. ASSUME NEW r \in Requests, CommitCancel(r) PROVE TypeOK' /\ ReqInv'
  <2>1. transfer' = Cancelled(r) /\ req[r].st # "idle" /\ req' = [req EXCEPT ![r] = Idle]
        /\ UNCHANGED <<owner, suspended, expired, crossed>>
    BY <1>8 DEF CommitCancel
  <2> HIDE DEF Cancelled
  <2> QED BY <1>0, <2>1, CancelledRows, CommitStep
<1>9. ASSUME NEW r \in Requests, CommitAccept(r) PROVE TypeOK' /\ ReqInv'
  <2>1. owner' \in Users /\ req' = [req EXCEPT ![r] = Idle]
        /\ UNCHANGED <<suspended, expired, crossed>>
    BY <1>0, <1>9 DEF CommitAccept, ReqInv
  <2> QED BY <1>0, <1>9, <2>1, SettledRows, CommitStep
<1>10. ASSUME NEW r \in Requests, CommitDecline(r) PROVE TypeOK' /\ ReqInv'
  <2>1. req' = [req EXCEPT ![r] = Idle] /\ UNCHANGED <<owner, suspended, expired, crossed>>
    BY <1>10 DEF CommitDecline
  <2> QED BY <1>0, <1>10, <2>1, SettledRows, CommitStep
<1>11. ASSUME NEW r \in Requests, Fail(r) PROVE TypeOK' /\ ReqInv'
  <2>1. req' = [req EXCEPT ![r] = Idle]
        /\ UNCHANGED <<owner, suspended, transfer, expired, crossed>>
    BY <1>11 DEF Fail
  <2> QED BY <1>0, <2>1, IdleReq, RequestStep
<1>12. ASSUME NEW t \in Transfers, Expire(t) PROVE TypeOK' /\ ReqInv'
  BY <1>12 DEF Expire, TypeOK, ReqInv
<1>13. CASE Suspend \/ UNCHANGED vars
  BY <1>13 DEF Suspend, vars, TypeOK, ReqInv
<1> QED
  BY <1>1, <1>2, <1>3, <1>4, <1>5, <1>6, <1>7, <1>8, <1>9, <1>10, <1>11, <1>12, <1>13 DEF Next

\* The rows and the requests keep their kinds, an idle request holds nothing,
\* and no transfer goes back to its sender.
THEOREM TypeCorrect == Spec => []TypeOK
<1>1. Init => TypeOK /\ ReqInv
  BY InitType
<1>2. TypeOK /\ ReqInv /\ [Next]_vars => (TypeOK /\ ReqInv)'
  BY NextType
<1> QED
  BY <1>1, <1>2, PTL DEF Spec

-----------------------------------------------------------------------------
LEMMA InitConsent == Init => ConsentInv
BY IdleReq DEF Init, ConsentInv, PendingInv, CreateInv, AcceptInv, Creates, Accepts, Pending, NoRow

\* The end of a request that leaves the owner alone and makes nothing pending.
LEMMA EndStep ==
    ASSUME TypeOK, ReqInv, NEW r \in Requests, req' = [req EXCEPT ![r] = Idle],
           PendingInv, CreateInv, AcceptInv, UNCHANGED owner,
           \A t \in Transfers : transfer'[t].from = transfer[t].from,
           Pending' \subseteq Pending
    PROVE  PendingInv' /\ CreateInv' /\ AcceptInv'
<1>1. /\ \A q \in Requests \ {r} : req'[q] = req[q]
      /\ req'[r].st = "idle"
  BY IdleReq DEF TypeOK
<1>2. Pending \subseteq Transfers
  BY DEF Pending
<1>3. PendingInv'
  BY <1>2 DEF PendingInv
<1>4. \A q \in Requests : /\ Creates(q)' => Creates(q) /\ req'[q] = req[q]
                          /\ Accepts(q)' => Accepts(q) /\ req'[q] = req[q]
  BY <1>1 DEF Creates, Accepts
<1>5. CreateInv'
  BY <1>4 DEF CreateInv
<1>6. \A q \in Requests : Accepts(q) => req[q].t \in Transfers
  BY DEF ReqInv, Accepts
<1>7. AcceptInv'
  BY <1>4, <1>6 DEF AcceptInv
<1> QED
  BY <1>3, <1>5, <1>7

\* A request that has been allowed or loaded goes on, and keeps its user, its
\* kind and its transfer.
LEMMA GoOnStep ==
    ASSUME TypeOK, NEW r \in Requests, NEW new, req' = [req EXCEPT ![r] = new],
           req[r].st # "idle", new.st # "idle",
           new.user = req[r].user, new.kind = req[r].kind, new.t = req[r].t,
           PendingInv, CreateInv, AcceptInv, UNCHANGED <<owner, transfer>>,
           Creates(r) /\ new.st = "ready" => Pending \subseteq new.found,
           new.seen \in {req[r].seen, owner}
    PROVE  PendingInv' /\ CreateInv' /\ AcceptInv'
<1>1. /\ \A q \in Requests \ {r} : req'[q] = req[q]
      /\ req'[r] = new
  BY DEF TypeOK
<1>2. Pending' = Pending
  BY DEF Pending
<1>3. PendingInv'
  BY <1>2 DEF PendingInv
<1>4. \A q \in Requests : /\ Creates(q)' <=> Creates(q)
                          /\ Accepts(q)' <=> Accepts(q)
                          /\ req'[q].t = req[q].t /\ req'[q].user = req[q].user
                          /\ req'[q].seen \in {req[q].seen, owner}
  BY <1>1 DEF Creates, Accepts
<1>5. CreateInv'
  <2>1. ASSUME NEW q \in Requests, Creates(q), req'[q].st = "ready"
        PROVE  Pending \subseteq req'[q].found
    BY <1>1, <2>1 DEF CreateInv
  <2> QED BY <1>2, <1>4, <2>1 DEF CreateInv
<1>6. AcceptInv'
  BY <1>2, <1>4 DEF AcceptInv
<1> QED
  BY <1>3, <1>5, <1>6

LEMMA NextConsent == TypeOK /\ ReqInv /\ ConsentInv /\ [Next]_vars => ConsentInv'
<1> SUFFICES ASSUME TypeOK, ReqInv, ConsentInv, [Next]_vars, ~crossed'
             PROVE  PendingInv' /\ CreateInv' /\ AcceptInv'
  BY DEF ConsentInv
<1>0. ~crossed
  BY DEF Next, vars, StartInitiate, StartCancel, LoadIncoming, FindPending, CommitInitiate,
     CommitCancel, LoadBusiness, FindOthers, CommitAccept, CommitDecline, Fail, Expire, Suspend
<1>a. PendingInv /\ CreateInv /\ AcceptInv
  BY <1>0 DEF ConsentInv
<1>b. req \in [Requests -> Req] /\ transfer \in [Transfers -> Row] /\ owner \in Users
  BY DEF TypeOK, Req, Row
<1> DEFINE Goal == PendingInv' /\ CreateInv' /\ AcceptInv'
<1>1. ASSUME NEW r \in Requests, NEW u \in Users, NEW to \in Users, StartInitiate(r, u, to)
      PROVE  Goal
  <2>1. /\ \A q \in Requests \ {r} : req'[q] = req[q]
        /\ req'[r].kind = "initiate" /\ req'[r].user = u /\ req'[r].st = "allowed"
    BY <1>1, <1>b DEF StartInitiate, Idle
  <2>2. u = owner /\ UNCHANGED <<owner, transfer>> /\ ~Running({"initiate", "accept"})
    BY <1>1 DEF StartInitiate, Owned
  <2>3. \A q \in Requests : ~Creates(q) /\ ~Accepts(q)
    BY <2>2 DEF Running, Creates, Accepts
  <2>4. \A q \in Requests : (Creates(q)' => q = r) /\ ~Accepts(q)'
    BY <2>1, <2>3 DEF Creates, Accepts
  <2>5. Pending' = Pending
    BY <2>2 DEF Pending
  <2> QED BY <1>a, <2>1, <2>2, <2>4, <2>5 DEF PendingInv, CreateInv, AcceptInv
<1>2. ASSUME NEW r \in Requests, NEW u \in Users, StartCancel(r, u) PROVE Goal
  <2>1. /\ \A q \in Requests \ {r} : req'[q] = req[q]
        /\ req'[r].kind = "cancel"
    BY <1>2, <1>b DEF StartCancel, Idle
  <2>2. UNCHANGED <<owner, transfer>>
    BY <1>2 DEF StartCancel
  <2>3. \A q \in Requests : /\ Creates(q)' => Creates(q) /\ req'[q] = req[q]
                            /\ Accepts(q)' => Accepts(q) /\ req'[q] = req[q]
    BY <2>1 DEF Creates, Accepts
  <2>4. Pending' = Pending
    BY <2>2 DEF Pending
  <2> QED BY <1>a, <2>2, <2>3, <2>4 DEF PendingInv, CreateInv, AcceptInv
<1>3. ASSUME NEW r \in Requests, NEW u \in Users, NEW kind \in {"accept", "decline"},
             NEW t \in Transfers, LoadIncoming(r, kind, u, t)
      PROVE  Goal
  <2>1. /\ \A q \in Requests \ {r} : req'[q] = req[q]
        /\ req'[r].kind = kind /\ req'[r].user = u /\ req'[r].t = t /\ req'[r].seen = NoUser
    BY <1>3, <1>b DEF LoadIncoming, Idle
  <2>2. UNCHANGED <<owner, transfer>> /\ t \in Pending
    BY <1>3 DEF LoadIncoming, Incoming
  <2>3. kind = "accept" => \A q \in Requests : ~Creates(q)
    BY <1>3 DEF LoadIncoming, Running, Creates
  <2>4. Pending' = Pending
    BY <2>2 DEF Pending
  <2>5. PendingInv'
    BY <1>a, <2>2, <2>4 DEF PendingInv
  <2>6. \A q \in Requests : /\ Creates(q)' => Creates(q) /\ req'[q] = req[q]
                            /\ Accepts(q)' => (Accepts(q) /\ req'[q] = req[q])
                                               \/ (q = r /\ kind = "accept")
    BY <2>1 DEF Creates, Accepts
  <2>7. CreateInv'
    BY <1>a, <2>2, <2>3, <2>4, <2>6 DEF CreateInv
  <2>8. \A q \in Requests : Accepts(q) => req[q].t = t
    BY <1>a, <2>2 DEF AcceptInv
  <2>9. Pending = {t} /\ transfer[t].from = owner
    BY <1>a, <2>2 DEF PendingInv
  <2>10. u # NoUser
    BY TransferAssumption DEF TransferAssumption
  <2>11. \A q \in Requests : Accepts(q)' => req'[q].t = t
    BY <2>1, <2>6, <2>8
  <2>12. ASSUME NEW q \in Requests, Accepts(q)'
         PROVE  /\ transfer[req'[q].t].from = owner \/ req'[q].user = owner
                /\ req'[q].seen = req'[q].user => req'[q].user = owner
    <3>1. CASE Accepts(q) /\ req'[q] = req[q]
      BY <1>a, <3>1 DEF AcceptInv
    <3>2. CASE q = r
      BY <2>1, <2>9, <2>10, <3>2
    <3> QED BY <2>6, <2>12, <3>1, <3>2
  <2>13. AcceptInv'
    BY <2>2, <2>4, <2>9, <2>11, <2>12 DEF AcceptInv
  <2> QED BY <2>5, <2>7, <2>13
<1>4. ASSUME NEW r \in Requests, FindPending(r) PROVE Goal
  <2>1. PICK found \in PendingFor : req' = [req EXCEPT ![r].st = "ready", ![r].found = found]
    BY <1>4 DEF FindPending
  <2>2. Pending \subseteq found
    BY <1>a, <2>1 DEF PendingInv, PendingFor
  <2>3. PICK new : /\ req' = [req EXCEPT ![r] = new]
                   /\ new = [req[r] EXCEPT !.st = "ready", !.found = found]
    BY <1>b, <2>1
  <2>4. /\ new.st = "ready" /\ new.found = found /\ new.user = req[r].user
        /\ new.kind = req[r].kind /\ new.t = req[r].t /\ new.seen = req[r].seen
    BY <1>b, <2>3 DEF Req
  <2>5. UNCHANGED <<owner, transfer>> /\ req[r].st = "allowed"
    BY <1>4 DEF FindPending
  <2> QED BY <1>a, <2>2, <2>3, <2>4, <2>5, GoOnStep
<1>5. ASSUME NEW r \in Requests, LoadBusiness(r) PROVE Goal
  <2>1. PICK new : req' = [req EXCEPT ![r] = new] /\ new = [req[r] EXCEPT !.seen = owner]
    BY <1>b, <1>5 DEF LoadBusiness
  <2>2. /\ new.st = req[r].st /\ new.user = req[r].user
        /\ new.kind = req[r].kind /\ new.t = req[r].t /\ new.seen = owner
    BY <1>b, <2>1 DEF Req
  <2>3. UNCHANGED <<owner, transfer>> /\ req[r].st = "loaded"
    BY <1>5 DEF LoadBusiness
  <2> QED BY <1>a, <2>1, <2>2, <2>3, GoOnStep
<1>6. ASSUME NEW r \in Requests, FindOthers(r) PROVE Goal
  <2>1. PICK new : /\ req' = [req EXCEPT ![r] = new]
                   /\ new = [req[r] EXCEPT !.st = "ready", !.found = Others(r)]
    BY <1>b, <1>6 DEF FindOthers
  <2>2. /\ new.st = "ready" /\ new.user = req[r].user
        /\ new.kind = req[r].kind /\ new.t = req[r].t /\ new.seen = req[r].seen
    BY <1>b, <2>1 DEF Req
  <2>3. UNCHANGED <<owner, transfer>> /\ req[r].st = "loaded"
    BY <1>6 DEF FindOthers
  <2>4. ~Creates(r)
    BY <2>3 DEF Creates, ReqInv
  <2> QED BY <1>a, <2>1, <2>2, <2>3, <2>4, GoOnStep
<1>7. ASSUME NEW r \in Requests, CommitInitiate(r) PROVE Goal
  <2>1. PICK n \in Transfers :
             /\ transfer'[n].from = req[r].user
             /\ \A t \in Transfers \ {n} : transfer'[t] = Cancelled(r)[t]
    BY <1>7, InitiateRows
  <2>2. Creates(r) /\ req[r].st = "ready"
    BY <1>7 DEF CommitInitiate, Creates
  <2>3. req[r].user = owner /\ Pending \subseteq req[r].found
        /\ \A q \in Requests : (Creates(q) => q = r) /\ ~Accepts(q)
    BY <1>a, <2>2 DEF CreateInv
  <2>4. \A t \in Transfers : Cancelled(r)[t].status # "pending"
    BY <2>2, <2>3, CancelledRows
  <2> HIDE DEF Cancelled
  <2>5. Pending' \subseteq {n}
    BY <2>1, <2>4 DEF Pending
  <2>6. UNCHANGED owner /\ req'[r].st = "idle" /\ \A q \in Requests \ {r} : req'[q] = req[q]
    BY <1>7, <1>b, IdleReq DEF CommitInitiate
  <2>7. \A q \in Requests : ~Creates(q)' /\ ~Accepts(q)'
    BY <2>3, <2>6 DEF Creates, Accepts
  <2>8. PendingInv'
    BY <2>1, <2>3, <2>5, <2>6 DEF PendingInv
  <2> QED BY <2>7, <2>8 DEF CreateInv, AcceptInv
<1>8. ASSUME NEW r \in Requests, CommitCancel(r) PROVE Goal
  <2>1. transfer' = Cancelled(r) /\ req[r].st # "idle" /\ req' = [req EXCEPT ![r] = Idle]
        /\ UNCHANGED owner
    BY <1>8 DEF CommitCancel
  <2> HIDE DEF Cancelled
  <2>2. Pending' \subseteq Pending
    BY <2>1, CancelledRows DEF Pending
  <2> QED BY <1>a, <2>1, <2>2, CancelledRows, EndStep
<1>9. ASSUME NEW r \in Requests, CommitAccept(r) PROVE Goal
  <2>1. Accepts(r) /\ req'[r].st = "idle" /\ \A q \in Requests \ {r} : req'[q] = req[q]
    BY <1>9, <1>b, IdleReq DEF CommitAccept, Accepts
  <2>2. Pending' = {}
    <3>1. \A t \in Transfers : transfer'[t].status = "pending" => t \in Pending \ {req[r].t}
      BY <1>9, SettledRows
    <3> QED BY <1>a, <2>1, <3>1 DEF AcceptInv, Pending
  <2>3. owner' = req[r].user
    BY <1>9, <1>a, <2>1 DEF CommitAccept, AcceptInv
  <2>4. \A q \in Requests : Accepts(q) => req[q].user = req[r].user
    BY <1>a, <2>1 DEF AcceptInv, ReqInv, Accepts
  <2>5. \A q \in Requests : ~Creates(q)
    BY <1>a, <2>1 DEF CreateInv
  <2>6. \A q \in Requests : ~Creates(q)' /\ (Accepts(q)' => Accepts(q) /\ req'[q] = req[q])
    BY <2>1, <2>5 DEF Creates, Accepts
  <2>7. AcceptInv'
    BY <1>a, <2>2, <2>3, <2>4, <2>6 DEF AcceptInv
  <2> QED BY <2>2, <2>6, <2>7 DEF PendingInv, CreateInv
<1>10. ASSUME NEW r \in Requests, CommitDecline(r) PROVE Goal
  <2>1. req' = [req EXCEPT ![r] = Idle] /\ UNCHANGED owner
    BY <1>10 DEF CommitDecline
  <2>2. Pending' \subseteq Pending
    BY <1>10, SettledRows DEF Pending
  <2> QED BY <1>a, <1>10, <2>1, <2>2, SettledRows, EndStep
<1>11. ASSUME NEW r \in Requests, Fail(r) PROVE Goal
  <2>1. req' = [req EXCEPT ![r] = Idle] /\ UNCHANGED <<owner, transfer>> /\ Pending' = Pending
    BY <1>11 DEF Fail, Pending
  <2> QED BY <1>a, <2>1, EndStep
<1>12. ASSUME UNCHANGED <<owner, transfer, req>> PROVE Goal
  BY <1>12, <1>a DEF PendingInv, CreateInv, AcceptInv, Creates, Accepts, Pending
<1> QED
  BY <1>1, <1>2, <1>3, <1>4, <1>5, <1>6, <1>7, <1>8, <1>9, <1>10, <1>11, <1>12
  DEF Next, Expire, Suspend, vars

\* One transfer at a time, from the owner, unless a new one overlapped another
\* or an accept, for any number of people and requests.
THEOREM OneTransferAtATime == Spec => []OnePending
<1>1. Init => TypeOK /\ ReqInv /\ ConsentInv
  BY InitType, InitConsent
<1>2. TypeOK /\ ReqInv /\ ConsentInv /\ [Next]_vars => (TypeOK /\ ReqInv /\ ConsentInv)'
  BY NextType, NextConsent
<1>3. ConsentInv => OnePending
  BY DEF ConsentInv, PendingInv, OnePending
<1> QED
  BY <1>1, <1>2, <1>3, PTL DEF Spec

\* Only an accept moves the business, to the recipient of a transfer its owner
\* made, unless a new transfer overlapped another or an accept.
LEMMA NextBothConsent ==
    ASSUME TypeOK, ReqInv, ConsentInv, Next, owner' # owner
    PROVE  \E t \in Transfers :
              /\ transfer[t].to = owner' /\ transfer'[t].status = "accepted"
              /\ transfer[t].from = owner \/ crossed
<1>1. PICK r \in Requests : CommitAccept(r)
  BY DEF Next, StartInitiate, StartCancel, LoadIncoming, FindPending, CommitInitiate,
     CommitCancel, LoadBusiness, FindOthers, CommitDecline, Fail, Expire, Suspend
<1>2. Accepts(r) /\ owner' = req[r].user /\ req[r].user # owner
  BY <1>1 DEF CommitAccept, Accepts
<1>3. req[r].t \in Transfers /\ transfer[req[r].t].to = owner'
      /\ transfer'[req[r].t].status = "accepted"
  BY <1>1, <1>2, SettledRows DEF ReqInv, Accepts
<1>4. transfer[req[r].t].from = owner \/ crossed
  BY <1>2 DEF ConsentInv, AcceptInv
<1> QED
  BY <1>3, <1>4

\* The business goes from an owner who offered it to the one who takes it.
THEOREM Consent == Spec => BothConsent
<1>1. Init => TypeOK /\ ReqInv /\ ConsentInv
  BY InitType, InitConsent
<1>2. TypeOK /\ ReqInv /\ ConsentInv /\ [Next]_vars => (TypeOK /\ ReqInv /\ ConsentInv)'
  BY NextType, NextConsent
<1>3. TypeOK /\ ReqInv /\ ConsentInv /\ [Next]_vars =>
        [ owner' # owner =>
            \E t \in Transfers :
              /\ transfer[t].to = owner' /\ transfer'[t].status = "accepted"
              /\ transfer[t].from = owner \/ crossed ]_vars
  BY NextBothConsent DEF vars
<1> QED
  BY <1>1, <1>2, <1>3, PTL DEF Spec, BothConsent

\* Where requests for a business are served one at a time, one transfer at most
\* is pending, always the owner's, and the business is only ever taken by whom
\* the owner of the moment offered it: the two-step, consent-based flow that
\* transfers promises, failures and expiry included.
THEOREM ConsentWhenAlone ==
    ASSUME \A q, r \in Requests : q = r
    PROVE  Spec => /\ [](\A t, u \in Pending : t = u /\ transfer[t].from = owner)
                   /\ [][ owner' # owner =>
                            \E t \in Transfers :
                              /\ transfer[t].to = owner' /\ transfer'[t].status = "accepted"
                              /\ transfer[t].from = owner ]_vars
<1>1. Init => TypeOK /\ ReqInv /\ ConsentInv /\ ~crossed
  BY InitType, InitConsent DEF Init
<1>2. TypeOK /\ ReqInv /\ ConsentInv /\ [Next]_vars => (TypeOK /\ ReqInv /\ ConsentInv)'
  BY NextType, NextConsent
<1>3. ASSUME ~crossed, [Next]_vars PROVE ~crossed'
  <2>1. ASSUME NEW r \in Requests, req[r].st = "idle", NEW kinds PROVE ~Running(kinds)
    BY <2>1 DEF Running
  <2>2. ASSUME NEW r \in Requests, NEW u \in Users, NEW to \in Users, StartInitiate(r, u, to)
        PROVE  ~crossed'
    BY <1>3, <2>1, <2>2 DEF StartInitiate
  <2>3. ASSUME NEW r \in Requests, NEW kind, NEW u \in Users, NEW t \in Transfers,
               LoadIncoming(r, kind, u, t)
        PROVE  ~crossed'
    BY <1>3, <2>1, <2>3 DEF LoadIncoming
  <2> QED
    BY <1>3, <2>2, <2>3 DEF Next, vars, StartCancel, FindPending, CommitInitiate, CommitCancel,
       LoadBusiness, FindOthers, CommitAccept, CommitDecline, Fail, Expire, Suspend
<1>4. ConsentInv /\ ~crossed => \A t, u \in Pending : t = u /\ transfer[t].from = owner
  BY DEF ConsentInv, PendingInv, OnePending
<1>5. TypeOK /\ ReqInv /\ ConsentInv /\ ~crossed /\ [Next]_vars =>
        [ owner' # owner =>
            \E t \in Transfers :
              /\ transfer[t].to = owner' /\ transfer'[t].status = "accepted"
              /\ transfer[t].from = owner ]_vars
  BY NextBothConsent DEF vars
<1> QED
  BY <1>1, <1>2, <1>3, <1>4, <1>5, PTL DEF Spec

-----------------------------------------------------------------------------
(* Accounts and their sessions                                             *)

Using(r) == call[r].kind \in {"refresh", "logout"}

\* A session and its login have been issued, and a request uses a token of the
\* login it believes.
LineageInv ==
    /\ \A s \in sessions : s.login \in A!Issued
    /\ ended \subseteq A!Issued
    /\ \A r \in Requests : Using(r) =>
          \E s \in sessions : s.tok = call[r].row.tok /\ s.login = call[r].row.login

\* Of a login no two requests raced for: one session is live at most, a request
\* uses that one as it is, no other request does, and none is left after the
\* logout.
LiveInv ==
    /\ \A s, x \in sessions : s.login = x.login /\ ~s.revoked /\ ~x.revoked
                              /\ s.login \notin reused => s = x
    /\ \A s \in sessions : s.login \in ended \ reused => s.revoked
    /\ \A r \in Requests : Using(r) /\ call[r].row.login \notin reused =>
          call[r].row \in sessions /\ ~call[r].row.revoked
    /\ \A r, q \in Requests : Using(r) /\ Using(q) /\ call[r].row.login = call[q].row.login
                              /\ call[r].row.login \notin reused => r = q

SessionInv == A!TypeOK /\ LineageInv /\ LiveInv

LEMMA CallKinds ==
    /\ A!Idle \in A!Calls /\ A!Idle.kind = "idle"
    /\ \A c \in A!Calls : c.kind \in {"refresh", "logout"} => c.row \in A!Rows
    /\ \A c \in A!Calls : c.kind = "enter" => c.who \in A!People /\ c.role \in {"owner", "admin"}
    /\ \A c \in A!Calls : c.kind \in {"suspend", "restore"} => c.who \in A!People
  BY DEF A!Idle, A!Calls

LEMMA SessionInit == A!Init => SessionInv
<1> SUFFICES ASSUME A!Init PROVE SessionInv
  OBVIOUS
<1>1. A!TypeOK
  BY CallKinds DEF A!Init, A!TypeOK
<1>2. sessions = {} /\ ended = {} /\ \A r \in Requests : ~Using(r)
  BY CallKinds DEF A!Init, Using
<1> QED  BY <1>1, <1>2 DEF SessionInv, LineageInv, LiveInv

\* A request that begins anything but a refresh or a logout, ends without
\* having touched a session, or changes an account, and a token that expires.
LEMMA AsideSession ==
    ASSUME SessionInv, A!TypeOK', UNCHANGED <<sessions, reused, ended>>,
           \A r \in Requests : call'[r] = call[r] \/ call'[r].kind \notin {"refresh", "logout"}
    PROVE  SessionInv'
<1>1. \A r \in Requests : Using(r)' => Using(r) /\ call'[r] = call[r]
  BY DEF Using
<1>2. A!Issued' = A!Issued
  BY DEF A!Issued
<1>3. LineageInv'
  BY <1>1, <1>2 DEF SessionInv, LineageInv
<1>4. LiveInv'
  BY <1>1 DEF SessionInv, LiveInv
<1> QED  BY <1>3, <1>4 DEF SessionInv

LEMMA RevokedRow ==
    ASSUME NEW x \in A!Rows
    PROVE  /\ [x EXCEPT !.revoked = TRUE] \in A!Rows
           /\ [x EXCEPT !.revoked = TRUE].tok = x.tok
           /\ [x EXCEPT !.revoked = TRUE].of = x.of
           /\ [x EXCEPT !.revoked = TRUE].login = x.login
           /\ [x EXCEPT !.revoked = TRUE].revoked
  BY DEF A!Rows

\* The sessions after a revocation: those with another token are as they were,
\* and of each the token and its login remain.
LEMMA RevokedSessions ==
    ASSUME A!TypeOK, NEW s \in A!Rows
    PROVE  /\ A!Revoked(s) \subseteq A!Rows
           /\ \A x \in A!Revoked(s) : x.tok # s.tok => x \in sessions
           /\ \A x \in A!Revoked(s) : x.tok = s.tok => x.revoked
           /\ \A x \in sessions : x.tok # s.tok => x \in A!Revoked(s)
           /\ \A x \in A!Revoked(s) : \E y \in sessions : y.tok = x.tok /\ y.login = x.login
           /\ \A y \in sessions : \E x \in A!Revoked(s) : y.tok = x.tok /\ y.login = x.login
           /\ \A x, y \in A!Revoked(s) : x.tok = y.tok => x = y
           /\ {x.tok : x \in A!Revoked(s)} = A!Issued
<1> DEFINE R(x) == [x EXCEPT !.revoked = TRUE]
           rev(x) == IF x.tok = s.tok THEN R(x) ELSE x
<1>1. \A x \in sessions : /\ R(x) \in A!Rows /\ R(x).tok = x.tok /\ R(x).login = x.login
                          /\ R(x).revoked /\ x \in A!Rows
  BY RevokedRow DEF A!TypeOK
<1>2. A!Revoked(s) = {rev(x) : x \in sessions}
  BY DEF A!Revoked
<1> HIDE DEF R
<1>3. \A x \in sessions : rev(x) \in A!Rows /\ rev(x).tok = x.tok /\ rev(x).login = x.login
  BY <1>1
<1>4. \A x \in sessions : x.tok # s.tok => rev(x) = x
  OBVIOUS
<1>5. \A x \in sessions : x.tok = s.tok => rev(x).revoked
  BY <1>1
<1> HIDE DEF rev
<1>6. \A x \in A!Revoked(s) : \E y \in sessions : x = rev(y)
  BY <1>2
<1>7. \A y \in sessions : rev(y) \in A!Revoked(s)
  BY <1>2
<1>8. \A x, y \in A!Revoked(s) : x.tok = y.tok => x = y
  BY <1>3, <1>6 DEF A!TypeOK
<1>9. {x.tok : x \in A!Revoked(s)} = A!Issued
  BY <1>3, <1>6, <1>7 DEF A!Issued
<1> QED  BY <1>3, <1>4, <1>5, <1>6, <1>7, <1>8, <1>9

LEMMA CommitEntrySession ==
    ASSUME SessionInv, NEW r \in Requests, A!CommitEntry(r)
    PROVE  SessionInv'
<1> DEFINE c == call[r]
           row(t) == [tok |-> t, of |-> c.who, login |-> t, revoked |-> FALSE]
<1>1. PICK t \in A!Fresh : sessions' = sessions \cup {row(t)}
  BY DEF A!CommitEntry
<1>2. t \in A!Tokens /\ t \notin A!Issued
  BY DEF A!Fresh
<1>3. c \in A!Calls /\ c.kind = "enter" /\ c.who \in A!People /\ c.role \in {"owner", "admin"}
  BY CallKinds DEF A!CommitEntry, SessionInv, A!TypeOK
<1>4. row(t) \in A!Rows
  BY <1>2, <1>3 DEF A!Rows
<1>5. row(t).tok = t /\ row(t).login = t /\ ~row(t).revoked
  OBVIOUS
<1>6. UNCHANGED <<gone, reused, ended>> /\ call' = [call EXCEPT ![r] = A!Idle]
  BY DEF A!CommitEntry
<1>7. account' \in [A!People -> [st : {"none", "active", "suspended"}, role : {"owner", "admin"}]]
  BY <1>3 DEF A!CommitEntry, SessionInv, A!TypeOK
<1> HIDE DEF row
<1>8. A!TypeOK'
  <2>1. call' \in [Requests -> A!Calls]
    BY <1>6, CallKinds DEF SessionInv, A!TypeOK
  <2>2. sessions' \subseteq A!Rows
    BY <1>1, <1>4 DEF SessionInv, A!TypeOK
  <2>3. \A x, y \in sessions' : x.tok = y.tok => x = y
    BY <1>1, <1>2, <1>5 DEF SessionInv, A!TypeOK, A!Issued
  <2> QED  BY <1>6, <1>7, <2>1, <2>2, <2>3 DEF SessionInv, A!TypeOK
<1>9. \A q \in Requests : Using(q)' => Using(q) /\ call'[q] = call[q]
  BY <1>6, CallKinds DEF Using, SessionInv, A!TypeOK
<1>10. A!Issued' = A!Issued \cup {t}
  BY <1>1, <1>5 DEF A!Issued
<1>11. LineageInv'
  BY <1>1, <1>5, <1>6, <1>9, <1>10 DEF SessionInv, LineageInv
<1>12. \A x \in sessions : x.login # t
  BY <1>2 DEF SessionInv, LineageInv
<1>13. t \notin ended
  BY <1>2 DEF SessionInv, LineageInv
<1>14. LiveInv'
  BY <1>1, <1>5, <1>6, <1>9, <1>12, <1>13 DEF SessionInv, LiveInv
<1> QED  BY <1>8, <1>11, <1>14 DEF SessionInv

LEMMA StartSession ==
    ASSUME SessionInv, NEW r \in Requests, NEW s \in sessions,
           A!StartRefresh(r, s) \/ A!StartLogout(r, s)
    PROVE  SessionInv'
<1>1. PICK k \in {"refresh", "logout"} : A!Begin(r, [kind |-> k, row |-> s])
  BY DEF A!StartRefresh, A!StartLogout
<1> DEFINE c == [kind |-> k, row |-> s]
<1>2. s \in A!Rows /\ ~s.revoked /\ call[r] = A!Idle
  BY <1>1 DEF A!StartRefresh, A!StartLogout, A!IsValid, SessionInv, A!TypeOK, A!Begin
<1>3. c \in A!Calls /\ c.kind \in {"refresh", "logout"} /\ c.row = s
  BY <1>2 DEF A!Calls
<1>4. /\ call' = [call EXCEPT ![r] = c] /\ call'[r] = c
      /\ \A q \in Requests : q # r => call'[q] = call[q]
      /\ UNCHANGED <<account, sessions, gone, ended>>
  BY <1>1 DEF A!Begin, SessionInv, A!TypeOK
<1> HIDE DEF c
<1>5. /\ reused' \in {reused, reused \cup {s.login}}
      /\ s.login \notin reused' => \A q \in Requests : Using(q) => call[q].row.tok # s.tok
  BY DEF A!StartRefresh, A!StartLogout, A!Race, Using
<1>6. A!TypeOK'
  <2>1. call' \in [Requests -> A!Calls]
    BY <1>3, <1>4 DEF SessionInv, A!TypeOK
  <2>2. s.login \in A!Tokens
    BY <1>2 DEF A!Rows
  <2> QED  BY <1>4, <1>5, <2>1, <2>2 DEF SessionInv, A!TypeOK
<1>7. Using(r)' /\ \A q \in Requests \ {r} : Using(q)' <=> Using(q)
  BY <1>3, <1>4 DEF Using
<1>8. A!Issued' = A!Issued
  BY <1>4 DEF A!Issued
<1>9. LineageInv'
  BY <1>3, <1>4, <1>7, <1>8 DEF SessionInv, LineageInv
<1>10. \A q \in Requests : Using(q) /\ call[q].row.login = s.login => s.login \in reused'
  BY <1>2, <1>5 DEF SessionInv, LiveInv
<1>11. reused \subseteq reused'
  BY <1>5
<1>12. \A q \in Requests : Using(q)' /\ call'[q].row.login \notin reused' =>
          call'[q].row \in sessions /\ ~call'[q].row.revoked
  BY <1>2, <1>3, <1>4, <1>7, <1>11 DEF SessionInv, LiveInv
<1>13. \A q, p \in Requests : Using(q)' /\ Using(p)' /\ call'[q].row.login = call'[p].row.login
                              /\ call'[q].row.login \notin reused' => q = p
  BY <1>3, <1>4, <1>7, <1>10, <1>11 DEF SessionInv, LiveInv
<1>14. LiveInv'
  BY <1>4, <1>11, <1>12, <1>13 DEF SessionInv, LiveInv
<1> QED  BY <1>6, <1>9, <1>14 DEF SessionInv

\* What both commits share: the session the request uses is revoked, and no
\* other live session of its login is left unless two requests raced.
LEMMA Revokes ==
    ASSUME SessionInv, NEW r \in Requests, Using(r)
    PROVE  /\ call[r].row \in A!Rows
           /\ \E x \in A!Revoked(call[r].row) :
                 x.tok = call[r].row.tok /\ x.login = call[r].row.login
           /\ \A x \in A!Revoked(call[r].row) : ~x.revoked =>
                 x \in sessions /\ (x.login = call[r].row.login => x.login \in reused)
           /\ \A q \in Requests \ {r} :
                 Using(q) /\ call[q].row.login \notin reused =>
                     call[q].row \in A!Revoked(call[r].row)
           /\ call[r].row.login \in A!Issued
           /\ \A x \in A!Revoked(call[r].row) : x.tok \in A!Issued /\ x.login \in A!Issued
           /\ \A q \in Requests : Using(q) => \E x \in A!Revoked(call[r].row) :
                 x.tok = call[q].row.tok /\ x.login = call[q].row.login
<1> DEFINE s == call[r].row
<1>1. s \in A!Rows
  BY CallKinds DEF SessionInv, A!TypeOK, Using
<1>2. PICK y \in sessions : y.tok = s.tok /\ y.login = s.login
  BY DEF SessionInv, LineageInv
<1>3. A!TypeOK
  BY DEF SessionInv
<1>4. \E x \in A!Revoked(s) : x.tok = s.tok /\ x.login = s.login
  BY <1>1, <1>2, <1>3, RevokedSessions
<1>5. \A x \in A!Revoked(s) : ~x.revoked => x \in sessions /\ x.tok # s.tok
  BY <1>1, <1>3, RevokedSessions
<1>6. s.login \notin reused => s \in sessions /\ ~s.revoked
  BY DEF SessionInv, LiveInv
<1>7. \A x \in A!Revoked(s) : ~x.revoked /\ x.login = s.login => x.login \in reused
  BY <1>5, <1>6 DEF SessionInv, LiveInv
<1>8. ASSUME NEW q \in Requests \ {r}, Using(q), call[q].row.login \notin reused
      PROVE  call[q].row \in A!Revoked(s)
  <2>1. call[q].row \in sessions /\ call[q].row.login # s.login
    BY <1>8 DEF SessionInv, LiveInv
  <2>2. call[q].row.tok # s.tok
    BY <1>2, <1>3, <2>1 DEF A!TypeOK
  <2> QED  BY <1>1, <1>3, <2>1, <2>2, RevokedSessions
<1>9. s.login \in A!Issued
  BY <1>2 DEF SessionInv, LineageInv
<1>10. ASSUME NEW x \in A!Revoked(s) PROVE x.tok \in A!Issued /\ x.login \in A!Issued
  <2>1. PICK z \in sessions : z.tok = x.tok /\ z.login = x.login
    BY <1>1, <1>3, RevokedSessions
  <2> QED  BY <2>1 DEF A!Issued, SessionInv, LineageInv
<1>11. ASSUME NEW q \in Requests, Using(q)
       PROVE  \E x \in A!Revoked(s) : x.tok = call[q].row.tok /\ x.login = call[q].row.login
  <2>1. PICK z \in sessions : z.tok = call[q].row.tok /\ z.login = call[q].row.login
    BY <1>11 DEF SessionInv, LineageInv
  <2>2. PICK x \in A!Revoked(s) : z.tok = x.tok /\ z.login = x.login
    BY <1>1, <1>3, RevokedSessions
  <2> QED  BY <2>1, <2>2
<1> QED  BY <1>1, <1>4, <1>5, <1>7, <1>8, <1>9, <1>10, <1>11

LEMMA CommitRefreshSession ==
    ASSUME SessionInv, NEW r \in Requests, A!CommitRefresh(r)
    PROVE  SessionInv'
<1> DEFINE s == call[r].row
           row(t) == [tok |-> t, of |-> s.of, login |-> s.login, revoked |-> FALSE]
<1>1. PICK t \in A!Fresh : sessions' = A!Revoked(s) \cup {row(t)}
  BY DEF A!CommitRefresh
<1>2. t \in A!Tokens /\ t \notin A!Issued
  BY DEF A!Fresh
<1>3. Using(r) /\ s \in A!Rows /\ A!TypeOK
  BY CallKinds DEF A!CommitRefresh, Using, SessionInv, A!TypeOK
<1>4. row(t) \in A!Rows /\ row(t).tok = t /\ row(t).login = s.login /\ ~row(t).revoked
  BY <1>2, <1>3 DEF A!Rows
<1>5. /\ UNCHANGED <<account, gone, reused, ended>>
      /\ call'[r] = A!Idle /\ \A q \in Requests : q # r => call'[q] = call[q]
      /\ call' \in [Requests -> A!Calls]
  BY CallKinds DEF A!CommitRefresh, SessionInv, A!TypeOK
<1> HIDE DEF row
<1>6. \A q \in Requests : Using(q)' => q # r /\ Using(q) /\ call'[q] = call[q]
  BY <1>5, CallKinds DEF Using
<1>7. \A x \in A!Revoked(s) : x.tok # t
  BY <1>2, <1>3, RevokedSessions DEF A!Issued
<1>8. A!TypeOK'
  <2>1. sessions' \subseteq A!Rows
    BY <1>1, <1>3, <1>4, RevokedSessions
  <2>2. \A x, y \in sessions' : x.tok = y.tok => x = y
    BY <1>1, <1>3, <1>4, <1>7, RevokedSessions
  <2> QED  BY <1>5, <2>1, <2>2 DEF SessionInv, A!TypeOK
<1>9. A!Issued' = A!Issued \cup {t}
  <2>1. {x.tok : x \in A!Revoked(s)} = A!Issued
    BY <1>3, RevokedSessions
  <2>2. A!Issued' = {x.tok : x \in A!Revoked(s)} \cup {t}
    BY <1>1, <1>4 DEF A!Issued
  <2> QED  BY <2>1, <2>2
<1>10. LineageInv'
  <2>1. s.login \in A!Issued /\ \A x \in A!Revoked(s) : x.login \in A!Issued
    BY <1>3, Revokes
  <2>2. \A x \in sessions' : x.login \in A!Issued'
    BY <1>1, <1>4, <1>9, <2>1
  <2>3. \A q \in Requests : Using(q)' =>
            \E x \in sessions' : x.tok = call'[q].row.tok /\ x.login = call'[q].row.login
    BY <1>1, <1>3, <1>6, Revokes
  <2> QED  BY <1>5, <1>9, <2>2, <2>3 DEF SessionInv, LineageInv
<1>11. \A x \in A!Revoked(s) : ~x.revoked => x \in sessions /\ (x.login = s.login => x.login \in reused)
  BY <1>3, Revokes
<1>12. \A q \in Requests : Using(q)' /\ call'[q].row.login \notin reused =>
          call'[q].row \in sessions' /\ ~call'[q].row.revoked
  BY <1>1, <1>3, <1>6, Revokes DEF SessionInv, LiveInv
<1>13. s.login \in ended => s.login \in reused
  BY <1>3 DEF SessionInv, LiveInv
<1>14. \A x, y \in sessions' : x.login = y.login /\ ~x.revoked /\ ~y.revoked
                               /\ x.login \notin reused => x = y
  BY <1>1, <1>4, <1>11 DEF SessionInv, LiveInv
<1>15. \A x \in sessions' : x.login \in ended \ reused => x.revoked
  BY <1>1, <1>4, <1>11, <1>13 DEF SessionInv, LiveInv
<1>16. \A q, p \in Requests : Using(q)' /\ Using(p)' /\ call'[q].row.login = call'[p].row.login
                              /\ call'[q].row.login \notin reused => q = p
  BY <1>6 DEF SessionInv, LiveInv
<1> QED  BY <1>5, <1>8, <1>10, <1>12, <1>14, <1>15, <1>16 DEF SessionInv, LiveInv

LEMMA CommitLogoutSession ==
    ASSUME SessionInv, NEW r \in Requests, A!CommitLogout(r)
    PROVE  SessionInv'
<1> DEFINE s == call[r].row
<1>1. /\ sessions' = A!Revoked(s) /\ ended' = ended \cup {s.login}
      /\ UNCHANGED <<account, gone, reused>>
      /\ call'[r] = A!Idle /\ \A q \in Requests : q # r => call'[q] = call[q]
      /\ call' \in [Requests -> A!Calls]
  BY CallKinds DEF A!CommitLogout, SessionInv, A!TypeOK
<1>2. Using(r) /\ s \in A!Rows /\ A!TypeOK
  BY CallKinds DEF A!CommitLogout, Using, SessionInv, A!TypeOK
<1>3. \A q \in Requests : Using(q)' => q # r /\ Using(q) /\ call'[q] = call[q]
  BY <1>1, CallKinds DEF Using
<1>4. s.login \in A!Tokens
  BY <1>2 DEF A!Rows
<1>5. A!TypeOK'
  BY <1>1, <1>2, <1>4, RevokedSessions DEF SessionInv, A!TypeOK
<1>6. A!Issued' = A!Issued
  <2>1. {x.tok : x \in A!Revoked(s)} = A!Issued
    BY <1>2, RevokedSessions
  <2> QED  BY <1>1, <2>1 DEF A!Issued
<1>7. LineageInv'
  <2>1. s.login \in A!Issued /\ \A x \in A!Revoked(s) : x.login \in A!Issued
    BY <1>2, Revokes
  <2>2. \A q \in Requests : Using(q)' =>
            \E x \in sessions' : x.tok = call'[q].row.tok /\ x.login = call'[q].row.login
    BY <1>1, <1>2, <1>3, Revokes
  <2> QED  BY <1>1, <1>6, <2>1, <2>2 DEF SessionInv, LineageInv
<1>8. \A x \in A!Revoked(s) : ~x.revoked => x \in sessions /\ (x.login = s.login => x.login \in reused)
  BY <1>2, Revokes
<1>9. \A q \in Requests : Using(q)' /\ call'[q].row.login \notin reused =>
          call'[q].row \in sessions' /\ ~call'[q].row.revoked
  BY <1>1, <1>2, <1>3, Revokes DEF SessionInv, LiveInv
<1>10. LiveInv'
  BY <1>1, <1>3, <1>8, <1>9 DEF SessionInv, LiveInv
<1> QED  BY <1>5, <1>7, <1>10 DEF SessionInv

LEMMA SessionNext == SessionInv /\ [A!Next]_A!vars => SessionInv'
<1> SUFFICES ASSUME SessionInv, [A!Next]_A!vars PROVE SessionInv'
  OBVIOUS
<1> DEFINE Entry(p) == [kind |-> "enter", who |-> p, new |-> account[p].st = "none"]
<1>1. CASE UNCHANGED A!vars
  <2>1. A!TypeOK' /\ UNCHANGED <<sessions, reused, ended, call>>
    BY <1>1 DEF A!vars, SessionInv, A!TypeOK
  <2> QED  BY <2>1, AsideSession
<1>2. ASSUME NEW r \in Requests, NEW p \in A!People,
             A!Register(r, p) \/ A!Login(r, p) \/ A!TelegramLogin(r, p) \/ A!MiniAppLogin(r, p)
      PROVE  SessionInv'
  <2>1. PICK role \in {"owner", "admin"} : A!Begin(r, A!Entering(p, role)) /\ UNCHANGED reused
    BY <1>2 DEF A!Register, A!Login, A!TelegramLogin, A!MiniAppLogin, SessionInv, A!TypeOK
  <2>2. A!Entering(p, role) \in A!Calls /\ A!Entering(p, role).kind = "enter"
    BY DEF A!Entering, A!Calls
  <2>3. A!TypeOK' /\ \A q \in Requests : call'[q] = call[q] \/ call'[q] = A!Entering(p, role)
    BY <2>1, <2>2 DEF A!Begin, SessionInv, A!TypeOK
  <2> QED  BY <2>1, <2>2, <2>3, AsideSession DEF A!Begin
<1>3. ASSUME NEW r \in Requests, NEW p \in A!People, NEW k \in {"suspend", "restore"},
             A!StartSwitch(r, p, k)
      PROVE  SessionInv'
  <2> DEFINE c == [kind |-> k, who |-> p, seen |-> account[p].st]
  <2>1. c \in A!Calls /\ c.kind \notin {"refresh", "logout"}
    BY <1>3 DEF A!StartSwitch, A!Calls, SessionInv, A!TypeOK
  <2>2. A!Begin(r, c) /\ UNCHANGED reused
    BY <1>3 DEF A!StartSwitch
  <2> HIDE DEF c
  <2>3. A!TypeOK' /\ \A q \in Requests : call'[q] = call[q] \/ call'[q] = c
    BY <2>1, <2>2 DEF A!Begin, SessionInv, A!TypeOK
  <2> QED  BY <2>1, <2>2, <2>3, AsideSession DEF A!Begin
<1>4. ASSUME NEW r \in Requests, A!CommitSwitch(r) \/ A!Fail(r)
      PROVE  SessionInv'
  <2>1. /\ UNCHANGED <<sessions, gone, reused, ended>>
        /\ call' = [call EXCEPT ![r] = A!Idle]
    BY <1>4 DEF A!CommitSwitch, A!Fail
  <2>2. account' \in [A!People -> [st : {"none", "active", "suspended"}, role : {"owner", "admin"}]]
    BY <1>4, CallKinds DEF A!CommitSwitch, A!Fail, SessionInv, A!TypeOK
  <2>3. A!TypeOK' /\ \A q \in Requests : call'[q] = call[q] \/ call'[q] = A!Idle
    BY <2>1, <2>2, CallKinds DEF SessionInv, A!TypeOK
  <2> QED  BY <2>1, <2>3, CallKinds, AsideSession
<1>5. ASSUME NEW s \in sessions, A!Expire(s) PROVE SessionInv'
  <2>1. s.tok \in A!Tokens
    BY DEF SessionInv, A!TypeOK, A!Rows
  <2>2. A!TypeOK' /\ UNCHANGED <<sessions, call, reused, ended>>
    BY <1>5, <2>1 DEF A!Expire, SessionInv, A!TypeOK
  <2> QED  BY <2>2, AsideSession
<1>6. CASE A!Next
  BY <1>6, <1>2, <1>3, <1>4, <1>5, CommitEntrySession, StartSession, CommitRefreshSession,
     CommitLogoutSession DEF A!Next
<1> QED  BY <1>1, <1>6

LEMMA FewSessions == A!Cardinality({}) = 0 /\ \A s : A!Cardinality({s}) = 1
<1>1. A!Cardinality({}) = Cardinality({}) /\ \A s : A!Cardinality({s}) = Cardinality({s})
  BY DEF A!Cardinality, Cardinality, A!IsFiniteSet, IsFiniteSet
<1> QED  BY <1>1, FS_EmptySet, FS_Singleton

\* The rows, the requests and what is remembered of logins keep their types.
THEOREM AccountsTyped == A!Spec => []A!TypeOK
<1>1. SessionInv => A!TypeOK
  BY DEF SessionInv
<1> QED  BY <1>1, SessionInit, SessionNext, PTL DEF A!Spec

\* At most one session of a login is live, and none after its logout, for any
\* number of requests and people, unless two requests used one token at the same
\* time (refresh_token, logout).
THEOREM OneSession == A!Spec => []OneSessionPerLogin
<1>1. SessionInv => OneSessionPerLogin
  <2> SUFFICES ASSUME SessionInv, NEW l \in A!Tokens \ reused
               PROVE  A!Cardinality(A!Live(l)) <= (IF l \in ended THEN 0 ELSE 1)
    BY DEF OneSessionPerLogin, A!OneSessionPerLogin
  <2>1. l \in ended => A!Live(l) = {}
    BY DEF SessionInv, LiveInv, A!Live
  <2>2. A!Live(l) # {} => \E s : A!Live(l) = {s}
    BY DEF SessionInv, LiveInv, A!Live
  <2>3. CASE A!Live(l) = {}
    BY <2>3, FewSessions
  <2>4. CASE A!Live(l) # {}
    <3>1. PICK s : A!Live(l) = {s}
      BY <2>2, <2>4
    <3>2. A!Cardinality({s}) = 1
      BY FewSessions
    <3> QED  BY <2>1, <2>4, <3>1, <3>2
  <2> QED  BY <2>3, <2>4
<1> QED  BY <1>1, SessionInit, SessionNext, PTL DEF A!Spec

-----------------------------------------------------------------------------
(* Onboarding: what the rows and the requests hold                         *)

Holds(r) == request[r].st \in O!Stages \ {"checked"}
Hooked(r) == request[r].st \in O!Stages \ {"checked", "inserted"}
Working(r) == request[r].st \in {"rehooked", "unhooked"}

\* A request connects a bot for a business that exists, and adds wallets only to
\* businesses that exist.
BusinessInv ==
    \A r \in Requests : O!IsConnecting(r) =>
        request[r].of \in businesses /\ request[r].adds \subseteq businesses

\* A request works on a bot that has a row; rows are never deleted.
WorkInv == \A r \in Requests : Working(r) => bot[request[r].token] # Nothing

OnboardInv == O!TypeOK /\ BusinessInv /\ WorkInv

BotRow == [of : Owners, connected : BOOLEAN]
Signer == Requests \cup {"row", "lost", Nothing}
BonusRow == [welcome : Nat, in : Nat, out : Nat]

LEMMA RequestKinds ==
    /\ O!Idle \in O!Request /\ O!Idle.st = "idle"
    /\ \A x \in O!Request : x = O!Idle \/ x.st # "idle"
    /\ \A x \in O!Request : x # O!Idle => x.token \in BotTokens
    /\ \A x \in O!Request : x.st \in O!Stages => x \in O!Connecting
    /\ \A x \in O!Request : x.st \in O!Stages \cup {"rehooked", "unhooked", "idle"}
  BY DEF O!Request, O!Connecting, O!Idle, O!Stages

LEMMA ConnectingFields ==
    ASSUME NEW c \in O!Connecting
    PROVE  /\ c \in O!Request /\ c # O!Idle
           /\ c.st \in O!Stages /\ c.of \in Owners /\ c.token \in BotTokens
           /\ c.adds \in SUBSET Owners /\ c.paid \in SUBSET {"in", "out"}
           /\ c.from \in Owners \cup {Nothing}
           /\ c.brain \in BOOLEAN /\ c.welcome \in BOOLEAN
<1>1. /\ c.st \in O!Stages /\ c.of \in Owners /\ c.token \in BotTokens
      /\ c.adds \in SUBSET Owners /\ c.paid \in SUBSET {"in", "out"}
      /\ c.from \in Owners \cup {Nothing}
  BY DEF O!Connecting
<1>2. c.brain \in BOOLEAN /\ c.welcome \in BOOLEAN
  BY DEF O!Connecting
<1>3. c \in O!Request
  BY DEF O!Request
<1>4. c # O!Idle
  BY <1>1, RequestKinds DEF O!Stages
<1> QED  BY <1>1, <1>2, <1>3, <1>4

\* What a request holds after a step that goes on with its connection.
LEMMA NextStage ==
    ASSUME NEW c \in O!Connecting, NEW st \in O!Stages
    PROVE  /\ [c EXCEPT !.st = st] \in O!Connecting
           /\ [c EXCEPT !.st = st].st = st
           /\ [c EXCEPT !.st = st].of = c.of /\ [c EXCEPT !.st = st].token = c.token
           /\ [c EXCEPT !.st = st].adds = c.adds /\ [c EXCEPT !.st = st].paid = c.paid
           /\ [c EXCEPT !.st = st].from = c.from
  BY DEF O!Connecting

\* A request that connects, before and after a step of its own: its owner and
\* its bot stay.
Goes(r, c, d) ==
    /\ c = request[r] /\ c \in O!Connecting /\ d \in O!Connecting
    /\ request' = [request EXCEPT ![r] = d]
    /\ d.of = c.of /\ d.token = c.token

LEMMA InsertGoes ==
    ASSUME O!TypeOK, NEW r \in Requests, O!Insert(r)
    PROVE  /\ request[r].st = "checked" /\ UNCHANGED <<O!rows, hook, pending, taps, torn, unsure>>
           /\ \/ O!Set(r, O!Idle)
              \/ /\ bot[request[r].token] = Nothing
                 /\ \E d : /\ Goes(r, request[r], d) /\ d.st = "inserted"
                           /\ d.adds = request[r].adds /\ d.paid = request[r].paid
<1>1. request[r] \in O!Connecting
  BY RequestKinds DEF O!Insert, O!TypeOK, O!Stages
<1> DEFINE d == [request[r] EXCEPT !.st = "inserted"]
<1>2. /\ d \in O!Connecting /\ d.st = "inserted" /\ d.of = request[r].of
      /\ d.token = request[r].token /\ d.adds = request[r].adds /\ d.paid = request[r].paid
  BY <1>1, NextStage DEF O!Stages
<1>3. \/ O!Set(r, O!Idle)
      \/ bot[request[r].token] = Nothing /\ O!Set(r, d)
  BY DEF O!Insert
<1> QED  BY <1>1, <1>2, <1>3 DEF O!Insert, Goes, O!Set

LEMMA SetHookGoes ==
    ASSUME O!TypeOK, NEW r \in Requests, O!SetHook(r)
    PROVE  /\ request[r].st = "inserted" /\ UNCHANGED <<O!rows, pending, taps, torn, unsure>>
           /\ hook' = [hook EXCEPT ![request[r].token] = r]
           /\ \E d : /\ Goes(r, request[r], d) /\ d.st \in {"funding", "funded"}
                     /\ d.adds = request[r].adds /\ d.paid = request[r].paid
<1>1. request[r] \in O!Connecting
  BY RequestKinds DEF O!SetHook, O!TypeOK, O!Stages
<1> DEFINE c == request[r]
           b == c.of \notin brains
           s == IF c.of \in wallets THEN "funded" ELSE "funding"
           d == [c EXCEPT !.brain = b, !.st = s]
<1>2. b \in BOOLEAN /\ s \in {"funding", "funded"} /\ request' = [request EXCEPT ![r] = d]
  BY DEF O!SetHook, O!Set
<1> HIDE DEF b, s
<1>3. /\ d \in O!Connecting /\ d.st = s /\ d.of = c.of /\ d.token = c.token
      /\ d.adds = c.adds /\ d.paid = c.paid
  BY <1>1, <1>2 DEF O!Connecting, O!Stages
<1> QED  BY <1>1, <1>2, <1>3 DEF O!SetHook, Goes

LEMMA FundGoes ==
    ASSUME O!TypeOK, NEW r \in Requests, O!Fund(r)
    PROVE  /\ request[r].st = "funding" /\ UNCHANGED <<O!rows, pending, taps, unsure>>
           /\ \/ O!Set(r, O!Idle) /\ O!Tear(r)
              \/ /\ UNCHANGED <<hook, torn>>
                 /\ \E d : /\ Goes(r, request[r], d) /\ d.st = "funded"
                           /\ d.adds = {d.of} /\ d.paid = request[r].paid
<1>1. request[r] \in O!Connecting
  BY RequestKinds DEF O!Fund, O!TypeOK, O!Stages
<1> DEFINE c == request[r]
           a == {c.of}
           d == [c EXCEPT !.st = "funded", !.adds = a, !.welcome = TRUE]
<1>2. a \subseteq Owners
  BY <1>1, ConnectingFields
<1>3. \/ O!Set(r, O!Idle) /\ O!Tear(r)
      \/ UNCHANGED <<hook, torn>> /\ request' = [request EXCEPT ![r] = d]
  BY DEF O!Fund, O!Set
<1> HIDE DEF a
<1>4. /\ d \in O!Connecting /\ d.st = "funded" /\ d.of = c.of /\ d.token = c.token
      /\ d.adds = a /\ d.paid = c.paid
  BY <1>1, <1>2 DEF O!Connecting, O!Stages
<1> QED  BY <1>1, <1>3, <1>4 DEF O!Fund, Goes, a

LEMMA ReadPendingGoes ==
    ASSUME O!TypeOK, NEW r \in Requests, O!ReadPending(r)
    PROVE  /\ request[r].st = "funded" /\ UNCHANGED <<O!rows, hook, pending, taps, torn, unsure>>
           /\ \E d : /\ Goes(r, request[r], d) /\ d.adds = request[r].adds
                     /\ \/ d.st = "ready" /\ d.paid = {}
                        \/ d.st = "redeeming" /\ d.paid = {"in"} /\ pending[d.of] # Nothing
<1>1. request[r] \in O!Connecting
  BY RequestKinds DEF O!ReadPending, O!TypeOK, O!Stages
<1> DEFINE c == request[r]
           i(p) == IF p = Nothing THEN {} ELSE {"in"}
           s(p) == IF p = Nothing THEN "ready" ELSE "redeeming"
           d(p) == [c EXCEPT !.from = p, !.paid = i(p), !.st = s(p)]
<1>2. PICK p \in {pending[c.of], Nothing} : request' = [request EXCEPT ![r] = d(p)]
  BY DEF O!ReadPending, O!Set
<1>3. p \in Owners \cup {Nothing}
  BY <1>1, ConnectingFields DEF O!TypeOK
<1>4. \/ s(p) = "ready" /\ i(p) = {}
      \/ s(p) = "redeeming" /\ i(p) = {"in"} /\ p # Nothing
  OBVIOUS
<1>5. p # Nothing => p = pending[c.of]
  OBVIOUS
<1> DEFINE paid == i(p)
           st == s(p)
           e == [c EXCEPT !.from = p, !.paid = paid, !.st = st]
<1>6. /\ request' = [request EXCEPT ![r] = e]
      /\ \/ st = "ready" /\ paid = {}
         \/ st = "redeeming" /\ paid = {"in"} /\ p # Nothing
  BY <1>2, <1>4
<1> HIDE DEF i, s, d, paid, st
<1>7. /\ e \in O!Connecting /\ e.st = st /\ e.of = c.of /\ e.token = c.token
      /\ e.adds = c.adds /\ e.paid = paid
  BY <1>1, <1>3, <1>6 DEF O!Connecting, O!Stages
<1> QED  BY <1>1, <1>5, <1>6, <1>7 DEF O!ReadPending, Goes

LEMMA RedeemGoes ==
    ASSUME O!TypeOK, NEW r \in Requests, O!Redeem(r)
    PROVE  /\ request[r].st = "redeeming" /\ UNCHANGED <<O!rows, hook, taps, torn>>
           /\ O!Gone(r) \/ O!Stays(r)
           /\ \E d : /\ Goes(r, request[r], d) /\ d.st = "ready"
                     /\ d.adds \subseteq request[r].adds \cup businesses
                     /\ d.paid \in {request[r].paid, {"in", "out"}}
<1>1. request[r] \in O!Connecting
  BY RequestKinds DEF O!Redeem, O!TypeOK, O!Stages
<1> DEFINE c == request[r]
           a == c.adds \cup ((businesses \cap {c.from}) \ wallets)
           i == IF c.from \in businesses THEN {"in", "out"} ELSE c.paid
           d == [c EXCEPT !.st = "ready", !.adds = a, !.paid = i]
<1>2. a \subseteq Owners /\ a \subseteq c.adds \cup businesses
  BY <1>1, ConnectingFields DEF O!TypeOK
<1>3. i \in {c.paid, {"in", "out"}} /\ i \in SUBSET {"in", "out"}
  BY <1>1, ConnectingFields
<1>4. request' = [request EXCEPT ![r] = d]
  BY DEF O!Redeem, O!Set
<1> HIDE DEF a, i
<1>5. /\ d \in O!Connecting /\ d.st = "ready" /\ d.of = c.of /\ d.token = c.token
      /\ d.adds = a /\ d.paid = i
  BY <1>1, <1>2, <1>3 DEF O!Connecting, O!Stages
<1> QED  BY <1>1, <1>2, <1>3, <1>4, <1>5 DEF O!Redeem, Goes

LEMMA RedeemHalfGoes ==
    ASSUME O!TypeOK, NEW r \in Requests, O!RedeemHalf(r)
    PROVE  /\ request[r].st = "redeeming" /\ UNCHANGED <<O!rows, hook, taps, torn>> /\ O!Stays(r)
           /\ \E d : /\ Goes(r, request[r], d) /\ d.st = "ready"
                     /\ d.adds = request[r].adds /\ d.paid = request[r].paid
<1>1. request[r] \in O!Connecting
  BY RequestKinds DEF O!RedeemHalf, O!TypeOK, O!Stages
<1> DEFINE d == [request[r] EXCEPT !.st = "ready"]
<1>2. /\ d \in O!Connecting /\ d.st = "ready" /\ d.of = request[r].of
      /\ d.token = request[r].token /\ d.adds = request[r].adds /\ d.paid = request[r].paid
  BY <1>1, NextStage DEF O!Stages
<1> QED  BY <1>1, <1>2 DEF O!RedeemHalf, Goes, O!Set


-----------------------------------------------------------------------------
(* Onboarding: types                                                       *)

LEMMA OnboardTypes ==
    ASSUME OnboardInv
    PROVE  /\ bot \in [BotTokens -> {Nothing} \cup BotRow]
           /\ hook \in [BotTokens -> Signer]
           /\ request \in [Requests -> O!Request]
  BY DEF OnboardInv, O!TypeOK, BotRow, Signer

LEMMA OnboardInit == O!SoundConstants /\ O!Init => OnboardInv
<1> SUFFICES ASSUME O!SoundConstants, O!Init PROVE OnboardInv
  OBVIOUS
<1>1. bonus \in [Owners -> BonusRow]
  BY DEF O!Init, BonusRow
<1>2. taps \in [Owners -> 0..MaxTaps]
  <2>1. 0 \in 0..MaxTaps
    BY DEF O!SoundConstants
  <2> QED  BY <2>1 DEF O!Init
<1>3. request \in [Requests -> O!Request] /\ \A r \in Requests : ~O!IsConnecting(r) /\ ~Working(r)
  BY RequestKinds DEF O!Init, O!IsConnecting, O!Stages, Working
<1>4. O!TypeOK
  BY <1>1, <1>2, <1>3 DEF O!Init, O!TypeOK, BonusRow
<1> QED  BY <1>3, <1>4 DEF OnboardInv, BusinessInv, WorkInv

\* A request that goes on for its owner and adds no more than businesses.
LEMMA GoesType ==
    ASSUME OnboardInv, NEW r \in Requests, NEW d, Goes(r, request[r], d),
           d.adds \subseteq businesses,
           UNCHANGED <<O!rows, taps>>,
           hook' \in [BotTokens -> Signer],
           pending' \in [Owners -> Owners \cup {Nothing}],
           torn' \subseteq BotTokens, unsure' \subseteq Owners
    PROVE  OnboardInv'
<1>1. request[r] \in O!Connecting /\ d \in O!Connecting /\ d.of = request[r].of
      /\ request' = [request EXCEPT ![r] = d]
  BY DEF Goes
<1>2. request[r].of \in businesses
  BY <1>1, ConnectingFields DEF OnboardInv, BusinessInv, O!IsConnecting
<1>3. request' \in [Requests -> O!Request]
  BY <1>1, ConnectingFields DEF OnboardInv, O!TypeOK
<1>4. O!TypeOK'
  BY <1>3 DEF OnboardInv, O!TypeOK, O!rows, Signer
<1>5. \A q \in Requests : q # r => request'[q] = request[q]
  BY <1>1 DEF OnboardInv, O!TypeOK
<1>6. request'[r] = d
  BY <1>1 DEF OnboardInv, O!TypeOK
<1>7. BusinessInv'
  BY <1>1, <1>2, <1>5, <1>6 DEF OnboardInv, BusinessInv, O!IsConnecting, O!rows
<1>8. d.st \in O!Stages
  BY <1>1, ConnectingFields
<1>9. WorkInv'
  BY <1>5, <1>6, <1>8 DEF OnboardInv, WorkInv, Working, O!Stages, O!rows
<1> QED  BY <1>4, <1>7, <1>9 DEF OnboardInv

\* A request that ends, or one that works on a bot.
LEMMA SetsType ==
    ASSUME OnboardInv, NEW r \in Requests, NEW d \in O!Request, d.st \notin O!Stages, O!Set(r, d)
    PROVE  /\ request' \in [Requests -> O!Request]
           /\ request'[r] = d /\ \A q \in Requests : q # r => request'[q] = request[q]
           /\ UNCHANGED businesses => BusinessInv'
           /\ /\ \A t \in BotTokens : bot[t] # Nothing => bot'[t] # Nothing
              /\ d = O!Idle \/ bot'[d.token] # Nothing
              => WorkInv'
<1>1. /\ request' \in [Requests -> O!Request]
      /\ request'[r] = d /\ \A q \in Requests : q # r => request'[q] = request[q]
  BY DEF OnboardInv, O!TypeOK, O!Set
<1>2. UNCHANGED businesses => BusinessInv'
  BY <1>1 DEF OnboardInv, BusinessInv, O!IsConnecting
<1>3. ASSUME \A t \in BotTokens : bot[t] # Nothing => bot'[t] # Nothing,
             d = O!Idle \/ bot'[d.token] # Nothing
      PROVE  WorkInv'
  <2>1. \A q \in Requests : Working(q) => request[q].token \in BotTokens
    BY RequestKinds DEF Working, OnboardInv, O!TypeOK
  <2>2. ~(Working(r)' /\ d = O!Idle)
    BY <1>1, RequestKinds DEF Working
  <2>3. \A q \in Requests : q # r /\ Working(q)' => bot'[request'[q].token] # Nothing
    BY <1>1, <1>3, <2>1 DEF OnboardInv, WorkInv, Working
  <2>4. Working(r)' => bot'[request'[r].token] # Nothing
    BY <1>1, <1>3, <2>2
  <2> QED  BY <2>3, <2>4 DEF WorkInv
<1> QED  BY <1>1, <1>2, <1>3

LEMMA TearType ==
    ASSUME OnboardInv, NEW r \in Requests, request[r] # O!Idle, O!Tear(r)
    PROVE  /\ hook' \in [BotTokens -> Signer]
           /\ torn' \subseteq BotTokens
<1>1. request[r].token \in BotTokens
  BY RequestKinds DEF OnboardInv, O!TypeOK
<1> QED  BY <1>1, OnboardTypes DEF O!Tear, Signer, OnboardInv, O!TypeOK

LEMMA CommitBotRows ==
    ASSUME OnboardInv, NEW r \in Requests, O!CommitBot(r)
    PROVE  /\ request[r] \in O!Connecting /\ request[r].st = "ready"
           /\ bot' = [bot EXCEPT ![request[r].token] = [of |-> request[r].of, connected |-> TRUE]]
           /\ hook' = O!Stored(request[r].token, r) /\ bonus' = O!AddBonus(request[r])
           /\ brains' = brains \cup {request[r].of} /\ wallets' = wallets \cup request[r].adds
           /\ O!Set(r, O!Idle)
           /\ UNCHANGED <<businesses, pending, taps, torn, unsure>>
  BY RequestKinds DEF O!CommitBot, OnboardInv, O!TypeOK, O!Stages

LEMMA BonusType ==
    ASSUME OnboardInv, NEW c
    PROVE  /\ O!AddBonus(c) \in [Owners -> BonusRow]
           /\ \A o \in Owners :
                 /\ bonus[o].in \in Nat /\ bonus[o].out \in Nat
                 /\ O!AddBonus(c)[o].in = bonus[o].in + IF "in" \in c.paid /\ o = c.of THEN 1 ELSE 0
                 /\ O!AddBonus(c)[o].out = bonus[o].out + IF "out" \in c.paid /\ o = c.of THEN 1 ELSE 0
<1>1. \A o \in Owners : bonus[o] \in BonusRow
  BY DEF OnboardInv, O!TypeOK, BonusRow
<1>2. \A o \in Owners : bonus[o].in \in Nat /\ bonus[o].out \in Nat /\ bonus[o].welcome \in Nat
  BY <1>1 DEF BonusRow
<1>3. \A o \in Owners :
          /\ O!AddBonus(c)[o].in = bonus[o].in + IF "in" \in c.paid /\ o = c.of THEN 1 ELSE 0
          /\ O!AddBonus(c)[o].out = bonus[o].out + IF "out" \in c.paid /\ o = c.of THEN 1 ELSE 0
  BY DEF O!AddBonus
<1>4. O!AddBonus(c) \in [Owners -> BonusRow]
  <2> SUFFICES ASSUME NEW o \in Owners
               PROVE  [welcome |-> bonus[o].welcome + IF c.welcome /\ o = c.of THEN 1 ELSE 0,
                       in |-> bonus[o].in + IF "in" \in c.paid /\ o = c.of THEN 1 ELSE 0,
                       out |-> bonus[o].out + IF "out" \in c.paid /\ o = c.of THEN 1 ELSE 0]
                      \in BonusRow
    BY DEF O!AddBonus
  <2> DEFINE w == bonus[o].welcome + IF c.welcome /\ o = c.of THEN 1 ELSE 0
             i == bonus[o].in + IF "in" \in c.paid /\ o = c.of THEN 1 ELSE 0
             u == bonus[o].out + IF "out" \in c.paid /\ o = c.of THEN 1 ELSE 0
  <2>1. w \in Nat
    BY <1>2
  <2>2. i \in Nat
    BY <1>2
  <2>3. u \in Nat
    BY <1>2
  <2> HIDE DEF w, i, u
  <2>4. [welcome |-> w, in |-> i, out |-> u] \in BonusRow
    BY <2>1, <2>2, <2>3 DEF BonusRow
  <2> QED  BY <2>4 DEF w, i, u
<1> QED  BY <1>2, <1>3, <1>4

LEMMA CommitBotType ==
    ASSUME O!SoundConstants, OnboardInv, NEW r \in Requests, O!CommitBot(r)
    PROVE  OnboardInv'
<1> DEFINE c == request[r]
           new == [of |-> c.of, connected |-> TRUE]
<1>1. c \in O!Connecting /\ c.of \in Owners /\ c.token \in BotTokens
  BY CommitBotRows, ConnectingFields
<1>2. c.of \in businesses /\ c.adds \subseteq businesses
  BY <1>1, ConnectingFields DEF OnboardInv, BusinessInv, O!IsConnecting
<1>3. new \in BotRow /\ new # Nothing
  <2>1. new \in BotRow
    BY <1>1 DEF BotRow
  <2>2. Nothing \notin BotRow
    BY DEF BotRow, O!SoundConstants
  <2> QED  BY <2>1, <2>2
<1>4. /\ bot' = [bot EXCEPT ![c.token] = new] /\ hook' = O!Stored(c.token, r)
      /\ brains' = brains \cup {c.of} /\ wallets' = wallets \cup c.adds
      /\ O!Set(r, O!Idle) /\ UNCHANGED <<businesses, pending, taps, torn, unsure>>
  BY CommitBotRows
<1> HIDE DEF new
<1>5. bot' \in [BotTokens -> {Nothing} \cup BotRow]
  BY <1>1, <1>3, <1>4, OnboardTypes
<1>6. \A t \in BotTokens : bot[t] # Nothing => bot'[t] # Nothing
  BY <1>3, <1>4, OnboardTypes
<1>7. O!Idle \in O!Request /\ O!Idle.st \notin O!Stages
  BY RequestKinds DEF O!Stages
<1>8. request' \in [Requests -> O!Request] /\ BusinessInv' /\ WorkInv'
  BY <1>4, <1>6, <1>7, SetsType
<1>9. bonus' \in [Owners -> BonusRow]
  <2>1. bonus' = O!AddBonus(c)
    BY CommitBotRows
  <2>2. O!AddBonus(c) \in [Owners -> BonusRow]
    BY BonusType
  <2> QED  BY <2>1, <2>2
<1>10. hook' \in [BotTokens -> Signer]
  BY <1>1, <1>4, OnboardTypes DEF O!Stored, Signer
<1>11. brains' \subseteq businesses' /\ wallets' \subseteq businesses' /\ businesses' \subseteq Owners
  BY <1>2, <1>4 DEF OnboardInv, O!TypeOK
<1>12. O!TypeOK'
  BY <1>4, <1>5, <1>8, <1>9, <1>10, <1>11 DEF OnboardInv, O!TypeOK, BotRow, BonusRow, Signer
<1> QED  BY <1>8, <1>12 DEF OnboardInv

LEMMA BotType ==
    ASSUME OnboardInv, NEW r \in Requests, NEW t \in BotTokens,
           \/ O!StartRefresh(r, t) \/ O!CommitRefresh(r) \/ O!StartOffboard(r, t)
    PROVE  OnboardInv'
<1> DEFINE work == {[st |-> "rehooked", token |-> t], [st |-> "unhooked", token |-> t]}
<1>1. PICK d \in work \cup {O!Idle} : O!Set(r, d) /\ (d # O!Idle => bot[t] # Nothing)
  BY DEF O!StartRefresh, O!CommitRefresh, O!StartOffboard
<1>2. \A x \in work : x \in O!Request /\ x.st \notin O!Stages /\ x.token = t
  BY DEF O!Request, O!Stages
<1>3. d \in O!Request /\ d.st \notin O!Stages /\ (d = O!Idle \/ bot[d.token] # Nothing)
  BY <1>1, <1>2, RequestKinds DEF O!Stages
<1> HIDE DEF work
<1>4. UNCHANGED <<O!rows, pending, taps, unsure>>
  BY DEF O!StartRefresh, O!CommitRefresh, O!StartOffboard
<1>5. request' \in [Requests -> O!Request] /\ BusinessInv' /\ WorkInv'
  BY <1>1, <1>3, <1>4, SetsType DEF O!rows
<1>6. torn' \subseteq BotTokens
  BY DEF O!StartRefresh, O!CommitRefresh, O!StartOffboard, O!Overlap, OnboardInv, O!TypeOK
<1>7. hook' \in [BotTokens -> Signer]
  BY OnboardTypes DEF O!StartRefresh, O!CommitRefresh, O!StartOffboard, O!Renewed, O!Stored, Signer
<1> QED  BY <1>4, <1>5, <1>6, <1>7 DEF OnboardInv, O!TypeOK, O!rows, Signer

LEMMA CommitOffboardType ==
    ASSUME O!SoundConstants, OnboardInv, NEW r \in Requests, O!CommitOffboard(r)
    PROVE  OnboardInv'
<1> DEFINE t == request[r].token
           new == [bot[t] EXCEPT !.connected = FALSE]
<1>1. t \in BotTokens /\ bot[t] # Nothing
  BY RequestKinds DEF O!CommitOffboard, OnboardInv, O!TypeOK, WorkInv, Working
<1>2. bot[t] \in BotRow
  BY <1>1, OnboardTypes
<1>3. new \in BotRow /\ new # Nothing
  BY <1>2 DEF BotRow, O!SoundConstants
<1>4. /\ bot' = [bot EXCEPT ![t] = new] /\ hook' = O!Erased(t) /\ O!Set(r, O!Idle)
      /\ UNCHANGED <<businesses, brains, wallets, bonus, pending, taps, torn, unsure>>
  BY DEF O!CommitOffboard
<1> HIDE DEF new, t
<1>5. bot' \in [BotTokens -> {Nothing} \cup BotRow]
  BY <1>1, <1>3, <1>4, OnboardTypes
<1>6. \A u \in BotTokens : bot[u] # Nothing => bot'[u] # Nothing
  BY <1>3, <1>4, OnboardTypes
<1>7. O!Idle \in O!Request /\ O!Idle.st \notin O!Stages
  BY RequestKinds DEF O!Stages
<1>8. request' \in [Requests -> O!Request] /\ BusinessInv' /\ WorkInv'
  BY <1>4, <1>6, <1>7, SetsType
<1>9. hook' \in [BotTokens -> Signer]
  BY <1>1, <1>4, OnboardTypes DEF O!Erased, Signer
<1> QED  BY <1>4, <1>5, <1>8, <1>9 DEF OnboardInv, O!TypeOK, BotRow, Signer

\* A request that ends: rolled back, refused, or broken by another's row.
LEMMA EndType ==
    ASSUME OnboardInv, NEW r \in Requests, request[r] # O!Idle, O!Set(r, O!Idle),
           O!Tear(r) \/ UNCHANGED <<hook, torn>>, UNCHANGED <<O!rows, pending, taps, unsure>>
    PROVE  OnboardInv'
<1>1. O!Idle \in O!Request /\ O!Idle.st \notin O!Stages
  BY RequestKinds DEF O!Stages
<1>2. request' \in [Requests -> O!Request] /\ BusinessInv' /\ WorkInv'
  BY <1>1, SetsType DEF O!rows
<1>3. hook' \in [BotTokens -> Signer] /\ torn' \subseteq BotTokens
  BY TearType, OnboardTypes DEF OnboardInv, O!TypeOK
<1> QED  BY <1>2, <1>3 DEF OnboardInv, O!TypeOK, O!rows, Signer

LEMMA CheckGoes ==
    ASSUME OnboardInv, NEW r \in Requests, NEW o \in Owners, NEW t \in BotTokens, O!Check(r, o, t)
    PROVE  \E d \in O!Connecting :
              /\ request' = [request EXCEPT ![r] = d]
              /\ d.st = "checked" /\ d.of = o /\ d.token = t /\ d.adds = {} /\ d.paid = {}
<1> DEFINE d == [st |-> "checked", of |-> o, token |-> t, brain |-> FALSE,
                 adds |-> {}, welcome |-> FALSE, from |-> Nothing, paid |-> {}]
<1>1. d \in O!Connecting
  BY DEF O!Connecting, O!Stages
<1> QED  BY <1>1 DEF O!Check, O!Set

LEMMA CheckType ==
    ASSUME OnboardInv, NEW r \in Requests, NEW o \in Owners, NEW t \in BotTokens, O!Check(r, o, t)
    PROVE  OnboardInv'
<1>1. PICK d \in O!Connecting : /\ request' = [request EXCEPT ![r] = d]
                                /\ d.st = "checked" /\ d.of = o /\ d.token = t /\ d.adds = {}
  BY CheckGoes
<1>2. o \in businesses /\ UNCHANGED <<O!rows, hook, pending, taps, torn>> /\ unsure' \subseteq Owners
  BY DEF O!Check, OnboardInv, O!TypeOK
<1>3. /\ request' \in [Requests -> O!Request] /\ request'[r] = d
      /\ \A q \in Requests : q # r => request'[q] = request[q]
  BY <1>1, ConnectingFields, OnboardTypes
<1>4. BusinessInv' /\ WorkInv'
  BY <1>1, <1>2, <1>3 DEF OnboardInv, BusinessInv, WorkInv, Working, O!IsConnecting, O!rows
<1> QED  BY <1>2, <1>3, <1>4 DEF OnboardInv, O!TypeOK, O!rows

LEMMA OwnerType ==
    ASSUME O!SoundConstants, OnboardInv, NEW o \in Owners, NEW p \in Owners,
           O!CreateBusiness(o) \/ O!Tap(o, p) \/ O!ForgetTap(o) \/ O!SaveSettings(o)
    PROVE  OnboardInv'
<1>1. UNCHANGED <<wallets, bot, hook, request, bonus, torn, unsure>>
  BY DEF O!CreateBusiness, O!Tap, O!ForgetTap, O!SaveSettings
<1>2. businesses \subseteq businesses' /\ businesses' \subseteq Owners /\ brains' \subseteq businesses'
  BY DEF O!CreateBusiness, O!Tap, O!ForgetTap, O!SaveSettings, OnboardInv, O!TypeOK
<1>3. pending' \in [Owners -> Owners \cup {Nothing}]
  BY DEF O!CreateBusiness, O!Tap, O!ForgetTap, O!SaveSettings, OnboardInv, O!TypeOK
<1>4. taps' \in [Owners -> 0..MaxTaps]
  BY DEF O!CreateBusiness, O!Tap, O!ForgetTap, O!SaveSettings, OnboardInv, O!TypeOK, O!SoundConstants
<1>5. O!TypeOK'
  BY <1>1, <1>2, <1>3, <1>4 DEF OnboardInv, O!TypeOK
<1>6. BusinessInv' /\ WorkInv'
  BY <1>1, <1>2 DEF OnboardInv, BusinessInv, WorkInv, O!IsConnecting, Working
<1> QED  BY <1>5, <1>6 DEF OnboardInv

LEMMA OnboardNext == O!SoundConstants /\ OnboardInv /\ [O!Next]_O!vars => OnboardInv'
<1> SUFFICES ASSUME O!SoundConstants, OnboardInv, [O!Next]_O!vars PROVE OnboardInv'
  OBVIOUS
<1>1. CASE UNCHANGED O!vars
  BY <1>1 DEF O!vars, OnboardInv, O!TypeOK, BusinessInv, WorkInv, O!IsConnecting, Working
<1>2. ASSUME NEW r \in Requests,
             O!Insert(r) \/ O!SetHook(r) \/ O!Fund(r) \/ O!ReadPending(r) \/ O!Redeem(r) \/ O!RedeemHalf(r)
      PROVE  OnboardInv'
  <2> DEFINE c == request[r]
  <2>1. c \in O!Connecting /\ c.of \in Owners /\ c.token \in BotTokens /\ c # O!Idle
    BY <1>2, RequestKinds, ConnectingFields
       DEF O!Insert, O!SetHook, O!Fund, O!ReadPending, O!Redeem, O!RedeemHalf, OnboardInv, O!TypeOK, O!Stages
  <2>2. c.of \in businesses /\ c.adds \subseteq businesses /\ O!TypeOK
    BY <2>1, ConnectingFields DEF OnboardInv, BusinessInv, O!IsConnecting
  <2>3. UNCHANGED <<O!rows, taps>>
    BY <1>2 DEF O!Insert, O!SetHook, O!Fund, O!ReadPending, O!Redeem, O!RedeemHalf
  <2>4. \/ O!Set(r, O!Idle) /\ (O!Tear(r) \/ UNCHANGED <<hook, torn>>) /\ UNCHANGED <<O!rows, pending, taps, unsure>>
        \/ \E d : Goes(r, c, d) /\ d.adds \subseteq businesses /\ UNCHANGED torn
    <3>1. CASE O!Insert(r)
      BY <2>2, <3>1, InsertGoes
    <3>2. CASE O!SetHook(r)
      BY <2>2, <3>2, SetHookGoes
    <3>3. CASE O!Fund(r)
      BY <2>2, <3>3, FundGoes DEF Goes
    <3>4. CASE O!ReadPending(r)
      BY <2>2, <3>4, ReadPendingGoes
    <3>5. CASE O!Redeem(r)
      BY <2>2, <3>5, RedeemGoes
    <3>6. CASE O!RedeemHalf(r)
      BY <2>2, <3>6, RedeemHalfGoes
    <3> QED  BY <1>2, <3>1, <3>2, <3>3, <3>4, <3>5, <3>6
  <2>5. pending' \in [Owners -> Owners \cup {Nothing}] /\ unsure' \subseteq Owners
    BY <1>2, <2>1 DEF O!Insert, O!SetHook, O!Fund, O!ReadPending, O!Redeem, O!RedeemHalf, O!Gone, O!Stays, O!Redeemed,
                  OnboardInv, O!TypeOK
  <2>6. CASE \E d : Goes(r, c, d) /\ d.adds \subseteq businesses /\ UNCHANGED torn
    <3>1. torn' \subseteq BotTokens
      BY <2>6 DEF OnboardInv, O!TypeOK
    <3>2. hook' = hook \/ hook' = [hook EXCEPT ![c.token] = r] \/ O!Tear(r)
      BY <1>2 DEF O!Insert, O!SetHook, O!Fund, O!ReadPending, O!Redeem, O!RedeemHalf
    <3>3. hook' \in [BotTokens -> Signer]
      BY <2>1, <3>2, OnboardTypes, TearType DEF Signer
    <3> QED  BY <2>3, <2>5, <2>6, <3>1, <3>3, GoesType
  <2> QED  BY <2>1, <2>4, <2>6, EndType
<1>3. ASSUME NEW r \in Requests, O!RedeemFails(r) \/ O!Fail(r) PROVE OnboardInv'
  <2>1. request[r] # O!Idle /\ O!Set(r, O!Idle) /\ UNCHANGED <<O!rows, pending, taps, unsure>>
    BY <1>3, RequestKinds DEF O!RedeemFails, O!Fail
  <2>2. O!Tear(r) \/ UNCHANGED <<hook, torn>>
    BY <1>3 DEF O!RedeemFails, O!Fail
  <2> QED  BY <2>1, <2>2, EndType
<1>4. ASSUME NEW l \in Links, O!Tap(l[1], l[2]) PROVE OnboardInv'
  <2>1. l[1] \in Owners /\ l[2] \in Owners
    BY DEF O!SoundConstants
  <2> QED  BY <1>4, <2>1, OwnerType
<1>5. ASSUME NEW r \in Requests, O!CommitRefresh(r) PROVE OnboardInv'
  <2>1. request[r].token \in BotTokens
    BY <1>5, RequestKinds DEF O!CommitRefresh, OnboardInv, O!TypeOK
  <2> QED  BY <1>5, <2>1, BotType
<1>6. CASE O!Next
  BY <1>6, <1>2, <1>3, <1>4, <1>5, OwnerType, CheckType, CommitBotType, BotType,
     CommitOffboardType DEF O!Next
<1> QED  BY <1>1, <1>6


-----------------------------------------------------------------------------
(* Onboarding: the webhook's secret                                        *)

\* A bot that is being connected has no row yet and only one request inserts
\* it; from then on Telegram signs with that request's secret.
ConnectInv ==
    /\ \A r \in Requests : Holds(r) => bot[request[r].token] = Nothing
    /\ \A r, q \in Requests : Holds(r) /\ Holds(q) /\ request[r].token = request[q].token => r = q
    /\ \A r \in Requests : Hooked(r) => hook[request[r].token] = r

\* Unless requests overlapped or one was rolled back, a bot with a row has one
\* request at work at most, whose secret Telegram uses if it renews the webhook,
\* and Telegram uses the row's if there is none.
AgreeInv ==
    \A t \in BotTokens \ torn :
        /\ \A r, q \in Requests : Working(r) /\ Working(q) /\ request[r].token = t
                                  /\ request[q].token = t => r = q
        /\ \A r \in Requests : request[r].st = "rehooked" /\ request[r].token = t
                               /\ bot[t].connected => hook[t] = r
        /\ bot[t] # Nothing /\ bot[t].connected
             /\ (\A r \in Requests : ~(Working(r) /\ request[r].token = t)) => hook[t] = "row"

SecretInv == OnboardInv /\ ConnectInv /\ AgreeInv

LEMMA SecretInit == O!SoundConstants /\ O!Init => SecretInv
<1> SUFFICES ASSUME O!SoundConstants, O!Init PROVE SecretInv
  OBVIOUS
<1>1. \A r \in Requests : request[r].st = "idle"
  BY RequestKinds DEF O!Init
<1>2. \A t \in BotTokens : bot[t] = Nothing
  BY DEF O!Init
<1> QED  BY <1>1, <1>2, OnboardInit DEF SecretInv, ConnectInv, AgreeInv, Holds, Hooked, Working, O!Stages

\* A step that leaves the bots and their webhooks alone, and where a request
\* goes on or gives up before it has an effect.
LEMMA KeepsSecret ==
    ASSUME SecretInv, UNCHANGED <<bot, hook, torn>>,
           \A r \in Requests :
              /\ Holds(r)' => Holds(r) /\ request'[r].token = request[r].token
              /\ Hooked(r)' => Hooked(r)
              /\ Working(r) \/ Working(r)' => request'[r] = request[r]
    PROVE  ConnectInv' /\ AgreeInv'
<1>1. \A r \in Requests : Hooked(r)' => Holds(r)'
  BY DEF Hooked, Holds
<1>2. ConnectInv'
  <2>1. \A r \in Requests : Holds(r)' => bot'[request'[r].token] = Nothing
    BY DEF SecretInv, ConnectInv
  <2>2. \A r, q \in Requests : Holds(r)' /\ Holds(q)' /\ request'[r].token = request'[q].token
                               => r = q
    BY DEF SecretInv, ConnectInv
  <2>3. \A r \in Requests : Hooked(r)' => hook'[request'[r].token] = r
    BY <1>1 DEF SecretInv, ConnectInv
  <2> QED  BY <2>1, <2>2, <2>3 DEF ConnectInv
<1>3. \A r \in Requests : request'[r].st = "rehooked" => Working(r)'
  BY DEF Working
<1>4. \A r \in Requests : Working(r)' <=> Working(r)
  BY DEF Working
<1>5. AgreeInv'
  BY <1>3, <1>4 DEF SecretInv, AgreeInv
<1> QED  BY <1>2, <1>5

\* Every step of one request: the others stay.
LEMMA GoesOn ==
    ASSUME OnboardInv, NEW r \in Requests, NEW d, Goes(r, request[r], d)
    PROVE  /\ request'[r] = d /\ \A q \in Requests : q # r => request'[q] = request[q]
           /\ request'[r].token = request[r].token /\ ~Working(r) /\ ~Working(r)'
           /\ request[r].token \in BotTokens
<1>1. /\ request'[r] = d /\ \A q \in Requests : q # r => request'[q] = request[q]
  BY OnboardTypes DEF Goes
<1> QED  BY <1>1, ConnectingFields DEF Goes, Working, O!Stages

LEMMA Ends ==
    ASSUME OnboardInv, NEW r \in Requests, O!Set(r, O!Idle)
    PROVE  /\ request'[r].st = "idle" /\ \A q \in Requests : q # r => request'[q] = request[q]
           /\ ~Holds(r)' /\ ~Hooked(r)' /\ ~Working(r)'
<1>1. request'[r] = O!Idle /\ \A q \in Requests : q # r => request'[q] = request[q]
  BY OnboardTypes DEF O!Set
<1> QED  BY <1>1, RequestKinds DEF Holds, Hooked, Working, O!Stages

\* A rollback takes the secret of the request with it, and no other request's.
LEMMA TearSecret ==
    ASSUME O!SoundConstants, SecretInv, NEW r \in Requests, request[r] # O!Idle,
           O!Set(r, O!Idle), O!Tear(r), UNCHANGED bot
    PROVE  ConnectInv' /\ AgreeInv'
<1> DEFINE t == request[r].token
<1>1. OnboardInv
  BY DEF SecretInv
<1>2. /\ torn' = torn \cup {t} /\ \A u \in BotTokens : u # t => hook'[u] = hook[u]
      /\ \A q \in Requests : hook[t] = q /\ q # r => hook'[t] = q
  BY <1>1, OnboardTypes DEF O!Tear
<1>3. \A q \in Requests : q # r => request'[q] = request[q]
  BY <1>1, Ends
<1>4. \A q \in Requests : q # r =>
          (Holds(q)' <=> Holds(q)) /\ (Hooked(q)' <=> Hooked(q)) /\ (Working(q)' <=> Working(q))
  BY <1>3 DEF Holds, Hooked, Working
<1>5. \A q \in Requests : Hooked(q) => request[q].token \in BotTokens
  BY <1>1, OnboardTypes, RequestKinds DEF Hooked, O!Stages
<1>6. ConnectInv'
  BY <1>1, <1>2, <1>3, <1>4, <1>5, Ends DEF SecretInv, ConnectInv
<1>7. \A q \in Requests : request'[q].st = "rehooked" => q # r
  BY <1>1, Ends
<1>8. \A q \in Requests : Working(q)' => q # r
  BY <1>1, Ends
<1>9. \A u \in BotTokens \ torn' : u \in BotTokens \ torn /\ u # t
  BY <1>2
<1>10. \A u \in BotTokens \ torn', q \in Requests :
          Working(q) /\ request[q].token = u => Working(q)' /\ request'[q].token = u
  BY <1>2, <1>3, <1>4
<1>11. AgreeInv'
  BY <1>2, <1>3, <1>4, <1>7, <1>8, <1>9, <1>10 DEF SecretInv, AgreeInv
<1> QED  BY <1>6, <1>11

\* Requests that go on with their connection, and those that give it up before
\* Telegram is called.
LEMMA QuietSecret ==
    ASSUME SecretInv, NEW r \in Requests, UNCHANGED <<bot, hook, torn>>,
           \/ O!Set(r, O!Idle) /\ request[r].st \in O!Stages
           \/ \E d : /\ Goes(r, request[r], d)
                     /\ Holds(r) /\ (d.st = "inserted" => ~Hooked(r))
                     /\ (d.st \in O!Stages \ {"checked", "inserted"} => Hooked(r))
    PROVE  ConnectInv' /\ AgreeInv'
<1>1. OnboardInv
  BY DEF SecretInv
<1>2. CASE O!Set(r, O!Idle) /\ request[r].st \in O!Stages
  <2>1. ~Working(r)
    BY <1>2 DEF Working, O!Stages
  <2>2. \A q \in Requests : q # r => request'[q] = request[q]
    BY <1>1, <1>2, Ends
  <2>3. ~Holds(r)' /\ ~Hooked(r)' /\ ~Working(r)'
    BY <1>1, <1>2, Ends
  <2> QED  BY <2>1, <2>2, <2>3, KeepsSecret DEF Holds, Hooked, Working
<1>3. ASSUME NEW d, Goes(r, request[r], d), Holds(r),
             d.st \in O!Stages \ {"checked", "inserted"} => Hooked(r)
      PROVE  ConnectInv' /\ AgreeInv'
  <2>1. /\ request'[r] = d /\ request'[r].token = request[r].token /\ ~Working(r) /\ ~Working(r)'
        /\ \A q \in Requests : q # r => request'[q] = request[q]
    BY <1>1, <1>3, GoesOn
  <2>2. Hooked(r)' => Hooked(r)
    BY <1>3, <2>1 DEF Hooked
  <2>3. \A q \in Requests : /\ Holds(q)' => Holds(q) /\ request'[q].token = request[q].token
                            /\ Hooked(q)' => Hooked(q)
                            /\ Working(q) \/ Working(q)' => request'[q] = request[q]
    BY <1>3, <2>1, <2>2 DEF Holds, Hooked, Working
  <2> QED  BY <2>3, KeepsSecret
<1> QED  BY <1>2, <1>3

LEMMA InsertSecret ==
    ASSUME SecretInv, NEW r \in Requests, O!Insert(r)
    PROVE  ConnectInv' /\ AgreeInv'
<1>1. OnboardInv /\ O!TypeOK /\ UNCHANGED <<bot, hook, torn>> /\ request[r].st \in O!Stages
  BY DEF SecretInv, OnboardInv, O!Insert, O!rows, O!Stages
<1>2. CASE O!Set(r, O!Idle)
  BY <1>1, <1>2, QuietSecret
<1>3. ASSUME bot[request[r].token] = Nothing,
             NEW d, Goes(r, request[r], d), d.st = "inserted"
      PROVE  ConnectInv' /\ AgreeInv'
  <2>1. /\ request'[r] = d /\ request'[r].token = request[r].token /\ ~Working(r) /\ ~Working(r)'
        /\ \A q \in Requests : q # r => request'[q] = request[q]
    BY <1>1, <1>3, GoesOn
  <2>2. \A q \in Requests : Holds(q) => request[q].token # request[r].token
    BY <1>1, RequestKinds DEF O!Insert, O!Open, O!IsConnecting, Holds, O!Stages, OnboardInv, O!TypeOK
  <2>3. \A q \in Requests : q # r =>
            (Holds(q)' <=> Holds(q)) /\ (Hooked(q)' <=> Hooked(q)) /\ (Working(q)' <=> Working(q))
    BY <2>1 DEF Holds, Hooked, Working
  <2>4. ~Hooked(r)'
    BY <1>3, <2>1 DEF Hooked
  <2>5. ConnectInv'
    BY <1>1, <1>3, <2>1, <2>2, <2>3, <2>4 DEF SecretInv, ConnectInv
  <2>6. \A q \in Requests : request'[q].st = "rehooked" => q # r
    BY <1>3, <2>1
  <2>7. AgreeInv'
    BY <1>1, <2>1, <2>3, <2>6 DEF SecretInv, AgreeInv
  <2> QED  BY <2>5, <2>7
<1> QED  BY <1>1, <1>2, <1>3, InsertGoes

LEMMA SetHookSecret ==
    ASSUME SecretInv, NEW r \in Requests, O!SetHook(r)
    PROVE  ConnectInv' /\ AgreeInv'
<1> DEFINE t == request[r].token
<1>1. OnboardInv /\ O!TypeOK /\ UNCHANGED <<bot, torn>> /\ Holds(r)
  BY DEF SecretInv, OnboardInv, O!SetHook, O!rows, Holds, O!Stages
<1>2. PICK d : Goes(r, request[r], d) /\ d.st \in {"funding", "funded"}
  BY <1>1, SetHookGoes
<1>3. /\ request'[r] = d /\ request'[r].token = t /\ ~Working(r) /\ ~Working(r)' /\ t \in BotTokens
      /\ \A q \in Requests : q # r => request'[q] = request[q]
  BY <1>1, <1>2, GoesOn
<1>4. hook'[t] = r /\ \A u \in BotTokens : u # t => hook'[u] = hook[u]
  BY <1>1, <1>3, SetHookGoes, OnboardTypes
<1>5. bot[t] = Nothing /\ \A q \in Requests : q # r /\ Holds(q) => request[q].token # t
  BY <1>1 DEF SecretInv, ConnectInv
<1>6. \A q \in Requests : q # r =>
          (Holds(q)' <=> Holds(q)) /\ (Hooked(q)' <=> Hooked(q)) /\ (Working(q)' <=> Working(q))
  BY <1>3 DEF Holds, Hooked, Working
<1>7. \A q \in Requests : Hooked(q) => Holds(q) /\ request[q].token \in BotTokens
  BY <1>1, OnboardTypes, RequestKinds DEF Hooked, Holds, O!Stages
<1>8. ConnectInv'
  BY <1>1, <1>3, <1>4, <1>5, <1>6, <1>7 DEF SecretInv, ConnectInv
<1>9. \A q \in Requests : request'[q].st = "rehooked" =>
          q # r /\ request'[q] = request[q] /\ request[q].token # t
  BY <1>1, <1>2, <1>3, <1>5 DEF SecretInv, OnboardInv, WorkInv, Working
<1>10. AgreeInv'
  <2> SUFFICES ASSUME NEW u \in BotTokens \ torn
               PROVE  /\ \A p, q \in Requests : Working(p)' /\ Working(q)' /\ request'[p].token = u
                                                /\ request'[q].token = u => p = q
                      /\ \A q \in Requests : request'[q].st = "rehooked" /\ request'[q].token = u
                                             /\ bot[u].connected => hook'[u] = q
                      /\ bot[u] # Nothing /\ bot[u].connected
                           /\ (\A q \in Requests : ~(Working(q)' /\ request'[q].token = u))
                           => hook'[u] = "row"
    BY <1>1 DEF AgreeInv
  <2>1. \A p, q \in Requests : Working(p)' /\ Working(q)' /\ request'[p].token = u
                               /\ request'[q].token = u => p = q
    BY <1>3, <1>6 DEF SecretInv, AgreeInv
  <2>2. \A q \in Requests : request'[q].st = "rehooked" /\ request'[q].token = u
                            /\ bot[u].connected => hook'[u] = q
    BY <1>4, <1>9 DEF SecretInv, AgreeInv
  <2>3. ASSUME bot[u] # Nothing, bot[u].connected,
               \A q \in Requests : ~(Working(q)' /\ request'[q].token = u)
        PROVE  hook'[u] = "row"
    <3>1. u # t
      BY <1>5, <2>3
    <3>2. \A q \in Requests : ~(Working(q) /\ request[q].token = u)
      BY <1>3, <1>6, <2>3
    <3> QED  BY <1>4, <2>3, <3>1, <3>2 DEF SecretInv, AgreeInv
  <2> QED  BY <2>1, <2>2, <2>3
<1> QED  BY <1>8, <1>10


LEMMA CommitBotSecret ==
    ASSUME O!SoundConstants, SecretInv, NEW r \in Requests, O!CommitBot(r)
    PROVE  ConnectInv' /\ AgreeInv'
<1> DEFINE t == request[r].token
<1>1. OnboardInv /\ Holds(r) /\ Hooked(r) /\ t \in BotTokens
  BY CommitBotRows, ConnectingFields DEF SecretInv, Holds, Hooked, O!Stages
<1>2. O!Set(r, O!Idle) /\ hook' = O!Stored(t, r) /\ UNCHANGED torn
  BY <1>1, CommitBotRows
<1>3. bot[t] = Nothing /\ hook[t] = r /\ \A q \in Requests : q # r /\ Holds(q) => request[q].token # t
  BY <1>1 DEF SecretInv, ConnectInv
<1>4. /\ \A u \in BotTokens : u # t => bot'[u] = bot[u] /\ hook'[u] = hook[u]
      /\ hook'[t] = "row"
  <2>1. bot' = [bot EXCEPT ![t] = [of |-> request[r].of, connected |-> TRUE]]
    BY <1>1, CommitBotRows
  <2>2. \A u \in BotTokens : u # t => bot'[u] = bot[u] /\ hook'[u] = hook[u]
    BY <1>1, <1>2, <2>1, OnboardTypes DEF O!Stored
  <2>3. r # "row"
    BY DEF O!SoundConstants
  <2>4. hook'[t] = "row"
    BY <1>1, <1>2, <1>3, <2>3, OnboardTypes DEF O!Stored
  <2> QED  BY <2>2, <2>4
<1>5. ~Holds(r)' /\ ~Hooked(r)' /\ ~Working(r)' /\ \A q \in Requests : q # r => request'[q] = request[q]
  BY <1>1, <1>2, Ends
<1>6. \A q \in Requests : q # r =>
          (Holds(q)' <=> Holds(q)) /\ (Hooked(q)' <=> Hooked(q)) /\ (Working(q)' <=> Working(q))
  BY <1>5 DEF Holds, Hooked, Working
<1>7. \A q \in Requests : /\ Hooked(q) => Holds(q)
                          /\ Holds(q) \/ Working(q) => request[q].token \in BotTokens
  BY <1>1, OnboardTypes, RequestKinds DEF Hooked, Holds, Working, O!Stages
<1>8. ConnectInv'
  BY <1>3, <1>4, <1>5, <1>6, <1>7 DEF SecretInv, ConnectInv
<1>9. \A q \in Requests : Working(q)' => q # r /\ Working(q) /\ request'[q] = request[q]
                                         /\ request[q].token # t
  BY <1>1, <1>3, <1>5, <1>6 DEF SecretInv, OnboardInv, WorkInv
<1>10. \A q \in Requests : request'[q].st = "rehooked" => Working(q)'
  BY DEF Working
<1>11. \A q \in Requests : Working(q) => Working(q)' /\ request'[q] = request[q]
  BY <1>1, <1>5, <1>6 DEF Holds, Working, O!Stages
<1>12. AgreeInv'
  <2> SUFFICES ASSUME NEW u \in BotTokens \ torn
               PROVE  /\ \A p, q \in Requests : Working(p)' /\ Working(q)' /\ request'[p].token = u
                                                /\ request'[q].token = u => p = q
                      /\ \A q \in Requests : request'[q].st = "rehooked" /\ request'[q].token = u
                                             /\ bot'[u].connected => hook'[u] = q
                      /\ bot'[u] # Nothing /\ bot'[u].connected
                           /\ (\A q \in Requests : ~(Working(q)' /\ request'[q].token = u))
                           => hook'[u] = "row"
    BY <1>2 DEF AgreeInv
  <2>1. CASE u = t
    BY <1>4, <1>9, <1>10, <2>1
  <2>2. CASE u # t
    BY <1>4, <1>9, <1>10, <1>11, <2>2 DEF SecretInv, AgreeInv
  <2> QED  BY <2>1, <2>2
<1> QED  BY <1>8, <1>12

\* A request that begins to work on a bot nobody else is working on, or that
\* makes the bot one of those two requests overlapped on.
LEMMA StartSecret ==
    ASSUME O!SoundConstants, SecretInv, NEW r \in Requests, NEW t \in BotTokens,
           O!StartRefresh(r, t) \/ O!StartOffboard(r, t)
    PROVE  ConnectInv' /\ AgreeInv'
<1> DEFINE work == {[st |-> "rehooked", token |-> t], [st |-> "unhooked", token |-> t]}
<1>1. OnboardInv /\ request[r] = O!Idle /\ bot[t] # Nothing /\ UNCHANGED bot /\ O!Overlap(t)
  BY DEF SecretInv, O!StartRefresh, O!StartOffboard, O!rows
<1>2. PICK d \in work : O!Set(r, d)
  BY DEF O!StartRefresh, O!StartOffboard
<1>3. d.st \in {"rehooked", "unhooked"} /\ d.token = t
  OBVIOUS
<1> HIDE DEF work
<1>4. request'[r] = d /\ \A q \in Requests : q # r => request'[q] = request[q]
  BY <1>1, <1>2, OnboardTypes DEF O!Set
<1>5. ~Holds(r) /\ ~Hooked(r) /\ ~Working(r) /\ ~Holds(r)' /\ ~Hooked(r)' /\ Working(r)'
  BY <1>1, <1>3, <1>4, RequestKinds DEF Holds, Hooked, Working, O!Stages
<1>6. \A q \in Requests : q # r =>
          (Holds(q)' <=> Holds(q)) /\ (Hooked(q)' <=> Hooked(q)) /\ (Working(q)' <=> Working(q))
  BY <1>4 DEF Holds, Hooked, Working
<1>7. /\ \A u \in BotTokens : u # t => hook'[u] = hook[u]
      /\ request'[r].st = "rehooked" /\ bot[t].connected => hook'[t] = r
  BY <1>1, <1>2, <1>4, OnboardTypes DEF O!StartRefresh, O!StartOffboard, O!Set
<1>8. \A q \in Requests : /\ Hooked(q) => Holds(q)
                          /\ Holds(q) => request[q].token \in BotTokens
                          /\ Working(q) => q \in O!Open
  BY <1>1, OnboardTypes, RequestKinds DEF Hooked, Holds, Working, O!Stages, O!Open
<1>9. \A q \in Requests : Holds(q) => request[q].token # t
  BY <1>1 DEF SecretInv, ConnectInv
<1>10. ConnectInv'
  BY <1>1, <1>4, <1>5, <1>6, <1>7, <1>8, <1>9 DEF SecretInv, ConnectInv
<1>11. torn \subseteq torn' /\ (t \notin torn' => \A q \in Requests : Working(q) => request[q].token # t)
  BY <1>1, <1>8 DEF O!Overlap
<1>12. \A q \in Requests : request'[q].st = "rehooked" /\ q # r => Working(q)
  BY <1>4 DEF Working
<1>13. AgreeInv'
  <2> SUFFICES ASSUME NEW u \in BotTokens \ torn'
               PROVE  /\ \A p, q \in Requests : Working(p)' /\ Working(q)' /\ request'[p].token = u
                                                /\ request'[q].token = u => p = q
                      /\ \A q \in Requests : request'[q].st = "rehooked" /\ request'[q].token = u
                                             /\ bot[u].connected => hook'[u] = q
                      /\ bot[u] # Nothing /\ bot[u].connected
                           /\ (\A q \in Requests : ~(Working(q)' /\ request'[q].token = u))
                           => hook'[u] = "row"
    BY <1>1 DEF AgreeInv
  <2>1. CASE u = t
    BY <1>3, <1>4, <1>5, <1>6, <1>7, <1>11, <1>12, <2>1
  <2>2. CASE u # t
    <3>1. u \in BotTokens \ torn /\ hook'[u] = hook[u]
      BY <1>7, <1>11, <2>2
    <3>2. \A q \in Requests : Working(q)' /\ request'[q].token = u <=>
                              Working(q) /\ request[q].token = u
      BY <1>3, <1>4, <1>5, <1>6, <2>2
    <3>3. \A q \in Requests : request'[q].st = "rehooked" /\ request'[q].token = u =>
                              request[q].st = "rehooked" /\ request[q].token = u
      BY <1>3, <1>4, <2>2
    <3> QED  BY <3>1, <3>2, <3>3 DEF SecretInv, AgreeInv
  <2> QED  BY <2>1, <2>2
<1> QED  BY <1>10, <1>13

\* The request that works on a bot commits.
LEMMA CommitSecret ==
    ASSUME O!SoundConstants, SecretInv, NEW r \in Requests, O!CommitRefresh(r) \/ O!CommitOffboard(r)
    PROVE  ConnectInv' /\ AgreeInv'
<1> DEFINE t == request[r].token
<1>1. OnboardInv /\ Working(r) /\ O!Set(r, O!Idle) /\ UNCHANGED torn
  BY DEF SecretInv, O!CommitRefresh, O!CommitOffboard, Working
<1>2. t \in BotTokens /\ bot[t] # Nothing
  BY <1>1, OnboardTypes, RequestKinds DEF Working, OnboardInv, WorkInv
<1>3. ~Holds(r)' /\ ~Hooked(r)' /\ ~Working(r)' /\ \A q \in Requests : q # r => request'[q] = request[q]
  BY <1>1, Ends
<1>4. \A q \in Requests : q # r =>
          (Holds(q)' <=> Holds(q)) /\ (Hooked(q)' <=> Hooked(q)) /\ (Working(q)' <=> Working(q))
  BY <1>3 DEF Holds, Hooked, Working
<1>5. \A q \in Requests : /\ Hooked(q) => Holds(q)
                          /\ Holds(q) => request[q].token \in BotTokens /\ request[q].token # t
  BY <1>1, <1>2, OnboardTypes, RequestKinds DEF Hooked, Holds, O!Stages, SecretInv, ConnectInv
<1>6. /\ \A u \in BotTokens : u # t => hook'[u] = hook[u] /\ bot'[u] = bot[u]
      /\ O!CommitRefresh(r) => bot' = bot /\ (hook[t] = r => hook'[t] = "row")
      /\ O!CommitOffboard(r) => ~bot'[t].connected
  <2>1. CASE O!CommitRefresh(r)
    <3>1. ~O!CommitOffboard(r)
      BY <2>1 DEF O!CommitRefresh, O!CommitOffboard
    <3> QED  BY <1>1, <1>2, <2>1, <3>1, OnboardTypes DEF O!CommitRefresh, O!Renewed, O!Stored, O!rows, O!SoundConstants
  <2>2. CASE O!CommitOffboard(r)
    <3>1. ~O!CommitRefresh(r)
      BY <2>2 DEF O!CommitRefresh, O!CommitOffboard
    <3>2. bot' = [bot EXCEPT ![t].connected = FALSE] /\ hook' = O!Erased(t)
      BY <2>2 DEF O!CommitOffboard
    <3>3. bot[t] \in BotRow
      BY <1>1, <1>2, OnboardTypes
    <3>4. [bot[t] EXCEPT !.connected = FALSE].connected = FALSE
      BY <3>3 DEF BotRow
    <3>5. bot'[t] = [bot[t] EXCEPT !.connected = FALSE] /\ \A u \in BotTokens : u # t => bot'[u] = bot[u]
      BY <1>1, <1>2, <3>2, OnboardTypes
    <3>6. \A u \in BotTokens : u # t => hook'[u] = hook[u]
      BY <1>1, <1>2, <3>2, OnboardTypes DEF O!Erased
    <3> QED  BY <3>1, <3>4, <3>5, <3>6
  <2> QED  BY <2>1, <2>2
<1>7. ConnectInv'
  BY <1>3, <1>4, <1>5, <1>6 DEF SecretInv, ConnectInv
<1>8. \A q \in Requests : request'[q].st = "rehooked" => q # r /\ request'[q] = request[q] /\ Working(q)
  BY <1>3 DEF Working
<1>9. AgreeInv'
  <2> SUFFICES ASSUME NEW u \in BotTokens \ torn
               PROVE  /\ \A p, q \in Requests : Working(p)' /\ Working(q)' /\ request'[p].token = u
                                                /\ request'[q].token = u => p = q
                      /\ \A q \in Requests : request'[q].st = "rehooked" /\ request'[q].token = u
                                             /\ bot'[u].connected => hook'[u] = q
                      /\ bot'[u] # Nothing /\ bot'[u].connected
                           /\ (\A q \in Requests : ~(Working(q)' /\ request'[q].token = u))
                           => hook'[u] = "row"
    BY <1>1 DEF AgreeInv
  <2>1. \A q \in Requests : Working(q)' => q # r /\ Working(q) /\ request'[q] = request[q]
    BY <1>3, <1>4
  <2>2. CASE u # t
    <3>1. \A q \in Requests : Working(q) /\ request[q].token = u => Working(q)' /\ request'[q].token = u
      BY <1>3, <1>4, <2>2
    <3> QED  BY <1>6, <1>8, <2>1, <2>2, <3>1 DEF SecretInv, AgreeInv
  <2>3. CASE u = t
    <3>1. \A q \in Requests : Working(q) /\ request[q].token = u => q = r
      BY <1>1, <2>3 DEF SecretInv, AgreeInv
    <3>2. \A q \in Requests : ~(Working(q)' /\ request'[q].token = u)
      BY <2>1, <3>1
    <3>3. bot'[u].connected => hook'[u] = "row"
      <4>1. CASE O!CommitOffboard(r)
        BY <1>6, <2>3, <4>1
      <4>2. CASE O!CommitRefresh(r)
        <5>1. request[r].st = "rehooked" /\ bot' = bot
          BY <1>6, <4>2 DEF O!CommitRefresh
        <5> QED  BY <1>6, <2>3, <4>2, <5>1 DEF SecretInv, AgreeInv
      <4> QED  BY <4>1, <4>2
    <3> QED  BY <3>2, <3>3 DEF Working
  <2> QED  BY <2>2, <2>3
<1> QED  BY <1>7, <1>9

LEMMA SecretNext == O!SoundConstants /\ SecretInv /\ [O!Next]_O!vars => SecretInv'
<1> SUFFICES ASSUME O!SoundConstants, SecretInv, [O!Next]_O!vars PROVE ConnectInv' /\ AgreeInv'
  BY OnboardNext DEF SecretInv
<1>1. OnboardInv /\ O!TypeOK
  BY DEF SecretInv, OnboardInv
<1>2. CASE UNCHANGED <<bot, hook, torn, request>>
  BY <1>2, KeepsSecret DEF Holds, Hooked, Working
<1>3. ASSUME NEW r \in Requests, O!Fund(r) \/ O!ReadPending(r) \/ O!Redeem(r) \/ O!RedeemHalf(r)
      PROVE  ConnectInv' /\ AgreeInv'
  <2>1. Holds(r) /\ Hooked(r) /\ request[r] # O!Idle /\ UNCHANGED bot
    BY <1>3, RequestKinds DEF O!Fund, O!ReadPending, O!Redeem, O!RedeemHalf, Holds, Hooked, O!Stages, O!rows
  <2>2. \/ O!Set(r, O!Idle) /\ O!Tear(r)
        \/ UNCHANGED <<bot, hook, torn>> /\ \E d : Goes(r, request[r], d)
    BY <1>1, <1>3, FundGoes, ReadPendingGoes, RedeemGoes, RedeemHalfGoes DEF O!rows
  <2>3. CASE UNCHANGED <<bot, hook, torn>> /\ \E d : Goes(r, request[r], d)
    <3>1. \E d : Goes(r, request[r], d) /\ d.st # "inserted"
      <4>1. CASE O!Fund(r)
        <5>1. ~O!Set(r, O!Idle)
          BY <1>1, <2>3, GoesOn, Ends, ConnectingFields DEF Goes, O!Stages
        <5> QED  BY <1>1, <4>1, <5>1, FundGoes
      <4>2. CASE O!ReadPending(r)
        BY <1>1, <4>2, ReadPendingGoes
      <4>3. CASE O!Redeem(r)
        BY <1>1, <4>3, RedeemGoes
      <4>4. CASE O!RedeemHalf(r)
        BY <1>1, <4>4, RedeemHalfGoes
      <4> QED  BY <1>3, <4>1, <4>2, <4>3, <4>4
    <3> QED  BY <2>1, <2>3, <3>1, QuietSecret
  <2> QED  BY <2>1, <2>2, <2>3, TearSecret
<1>4. ASSUME NEW r \in Requests, O!RedeemFails(r) \/ O!Fail(r) PROVE ConnectInv' /\ AgreeInv'
  <2>1. request[r] # O!Idle /\ O!Set(r, O!Idle) /\ UNCHANGED bot
    BY <1>4, RequestKinds DEF O!RedeemFails, O!Fail, O!rows
  <2>2. O!Tear(r) \/ (request[r].st \in O!Stages /\ UNCHANGED <<bot, hook, torn>>)
    BY <1>4, <2>1 DEF O!RedeemFails, O!Fail, O!Stages
  <2> QED  BY <2>1, <2>2, TearSecret, QuietSecret
<1>5. ASSUME NEW r \in Requests, NEW o \in Owners, NEW t \in BotTokens, O!Check(r, o, t)
      PROVE  ConnectInv' /\ AgreeInv'
  <2>1. PICK d \in O!Connecting : request' = [request EXCEPT ![r] = d] /\ d.st = "checked"
    BY <1>1, <1>5, CheckGoes
  <2>2. request[r] = O!Idle /\ UNCHANGED <<bot, hook, torn>>
    BY <1>5 DEF O!Check, O!rows
  <2>3. request'[r] = d /\ \A q \in Requests : q # r => request'[q] = request[q]
    BY <1>1, <2>1, OnboardTypes
  <2>4. ~Holds(r)' /\ ~Hooked(r)' /\ ~Working(r)' /\ ~Working(r)
    BY <2>1, <2>2, <2>3, RequestKinds DEF Holds, Hooked, Working
  <2> QED  BY <2>2, <2>3, <2>4, KeepsSecret DEF Holds, Hooked, Working
<1>6. ASSUME NEW o \in Owners, NEW p, O!CreateBusiness(o) \/ O!Tap(o, p) \/ O!ForgetTap(o) \/ O!SaveSettings(o)
      PROVE  UNCHANGED <<bot, hook, torn, request>>
  BY <1>6 DEF O!CreateBusiness, O!Tap, O!ForgetTap, O!SaveSettings
<1>7. ASSUME NEW l \in Links, O!Tap(l[1], l[2]) PROVE UNCHANGED <<bot, hook, torn, request>>
  BY <1>7 DEF O!Tap
<1>8. CASE UNCHANGED O!vars
  BY <1>2, <1>8 DEF O!vars
<1>9. CASE O!Next
  BY <1>9, <1>2, <1>3, <1>4, <1>5, <1>6, <1>7, InsertSecret, SetHookSecret, CommitBotSecret,
     StartSecret, CommitSecret DEF O!Next
<1> QED  BY <1>8, <1>9

\* The rows, the webhooks, the referrals and the requests keep their types.
THEOREM OnboardingTyped ==
    ASSUME O!SoundConstants
    PROVE  O!Spec => []O!TypeOK
<1>1. OnboardInv => O!TypeOK
  BY DEF OnboardInv
<1> QED  BY <1>1, OnboardInit, OnboardNext, PTL DEF O!Spec

\* The secret a connected bot's row holds is the one Telegram signs its updates
\* with, for any number of bots and requests, unless requests overlapped on the
\* bot or one was rolled back (onboard_bot, refresh_webhook, offboard_bot).
THEOREM SecretsHold ==
    ASSUME O!SoundConstants
    PROVE  O!Spec => []SecretsAgree
<1>1. SecretInv => SecretsAgree
  <2> SUFFICES ASSUME SecretInv, NEW t \in BotTokens \ torn, bot[t] # Nothing,
                      ~\E r \in O!Open : request[r].token = t, bot[t].connected
               PROVE  hook[t] = "row"
    BY DEF SecretsAgree, O!SecretsAgree
  <2>1. \A r \in Requests : Working(r) => r \in O!Open
    BY RequestKinds DEF Working, O!Open
  <2> QED  BY <2>1 DEF SecretInv, AgreeInv
<1> QED  BY <1>1, SecretInit, SecretNext, PTL DEF O!Spec


-----------------------------------------------------------------------------
(* Onboarding: referrals                                                   *)

Serves(r, o) == O!IsConnecting(r) /\ request[r].of = o

\* A referral of the owner's is credited in a session that may still commit.
Earning(o) == \E r \in Requests : Serves(r, o) /\ request[r].st = "ready" /\ "in" \in request[r].paid

\* A referral is stored, or being redeemed.
Awaiting(o) == pending[o] # Nothing \/ \E r \in Requests : Serves(r, o) /\ request[r].st = "redeeming"

Ones(b) == IF b THEN 1 ELSE 0

\* The referrer is paid only with the referred.
PairedInv ==
    \A r \in Requests : O!IsConnecting(r) =>
        /\ "out" \in request[r].paid => "in" \in request[r].paid
        /\ request[r].st = "redeeming" => "in" \in request[r].paid

\* Of an owner whose connections never overlapped one request at most may pay,
\* and what is paid, will be paid, or waits was tapped.
PaidInv ==
    \A o \in Owners \ unsure :
        /\ \A r, q \in Requests : Serves(r, o) /\ Serves(q, o) => r = q
        /\ bonus[o].out <= bonus[o].in
        /\ bonus[o].in + Ones(Earning(o)) + Ones(Awaiting(o)) <= taps[o]

ReferralInv == OnboardInv /\ PairedInv /\ PaidInv

LEMMA ReferralTypes ==
    ASSUME O!SoundConstants, OnboardInv
    PROVE  \A o \in Owners : /\ bonus[o].in \in Nat /\ bonus[o].out \in Nat /\ taps[o] \in Nat
                             /\ Ones(Earning(o)) \in {0, 1} /\ Ones(Awaiting(o)) \in {0, 1}
<1>1. \A o \in Owners : taps[o] \in Nat
  BY DEF O!SoundConstants, OnboardInv, O!TypeOK
<1>2. \A o \in Owners : bonus[o].in \in Nat /\ bonus[o].out \in Nat
  BY BonusType
<1> QED  BY <1>1, <1>2 DEF Ones

LEMMA ReferralInit == O!SoundConstants /\ O!Init => ReferralInv
<1> SUFFICES ASSUME O!SoundConstants, O!Init PROVE ReferralInv
  OBVIOUS
<1>1. \A r \in Requests : ~O!IsConnecting(r)
  BY RequestKinds DEF O!Init, O!IsConnecting, O!Stages
<1>2. \A o \in Owners : /\ bonus[o].in = 0 /\ bonus[o].out = 0 /\ taps[o] = 0
                        /\ ~Earning(o) /\ ~Awaiting(o)
  BY <1>1 DEF O!Init, Earning, Awaiting, Serves
<1> QED  BY <1>1, <1>2, OnboardInit DEF ReferralInv, PairedInv, PaidInv, Serves, Ones

\* A step that pays nothing, lets nobody wait who did not, and begins no
\* connection.
LEMMA QuietReferral ==
    ASSUME O!SoundConstants, ReferralInv, OnboardInv', PairedInv', unsure \subseteq unsure',
           NEW o \in Owners \ unsure', bonus'[o] = bonus[o],
           taps'[o] \in Nat, taps'[o] >= taps[o],
           \A r \in Requests : Serves(r, o)' => Serves(r, o),
           Earning(o)' => Earning(o), Awaiting(o)' => Awaiting(o) \/ taps'[o] > taps[o]
    PROVE  /\ \A r, q \in Requests : Serves(r, o)' /\ Serves(q, o)' => r = q
           /\ bonus'[o].out <= bonus'[o].in
           /\ bonus'[o].in + Ones(Earning(o)') + Ones(Awaiting(o)') <= taps'[o]
<1>1. \A r, q \in Requests : Serves(r, o)' /\ Serves(q, o)' => r = q
  BY DEF ReferralInv, PaidInv
<1>2. bonus[o].out <= bonus[o].in /\ bonus[o].in + Ones(Earning(o)) + Ones(Awaiting(o)) <= taps[o]
  BY DEF ReferralInv, PaidInv
<1>3. bonus[o].in \in Nat /\ taps[o] \in Nat /\ OnboardInv
  BY ReferralTypes DEF ReferralInv
<1>4. Ones(Earning(o)') <= Ones(Earning(o)) /\ Ones(Earning(o)) \in Nat /\ Ones(Earning(o)') \in Nat
  BY DEF Ones
<1>5. \/ Ones(Awaiting(o)') <= Ones(Awaiting(o))
      \/ taps'[o] > taps[o] /\ Ones(Awaiting(o)') <= Ones(Awaiting(o)) + 1
  BY DEF Ones
<1>6. Ones(Awaiting(o)) \in Nat /\ Ones(Awaiting(o)') \in Nat
  BY DEF Ones
<1> QED  BY <1>1, <1>2, <1>3, <1>4, <1>5, <1>6

\* A request that ends without its commit, or goes on before it redeems.
LEMMA EndReferral ==
    ASSUME O!SoundConstants, ReferralInv, OnboardInv', NEW r \in Requests, UNCHANGED <<bonus, taps>>,
           unsure \subseteq unsure',
           \A q \in Requests : q # r => request'[q] = request[q],
           O!IsConnecting(r)' => /\ O!IsConnecting(r) /\ request'[r].of = request[r].of
                                 /\ request'[r].paid = request[r].paid
                                 /\ request'[r].st = "ready" => request[r].st = "ready"
                                 /\ request'[r].st = "redeeming" => request[r].st = "redeeming",
           \A o \in Owners \ unsure' : pending'[o] # Nothing => pending[o] # Nothing
    PROVE  ReferralInv'
<1>1. \A q \in Requests : q # r => (O!IsConnecting(q)' <=> O!IsConnecting(q))
  BY DEF O!IsConnecting
<1>2. PairedInv'
  BY <1>1 DEF ReferralInv, PairedInv
<1>3. ASSUME NEW o \in Owners \ unsure'
      PROVE  /\ \A q \in Requests : Serves(q, o)' => Serves(q, o)
             /\ Earning(o)' => Earning(o)
             /\ Awaiting(o)' => Awaiting(o)
  <2>1. \A q \in Requests : Serves(q, o)' =>
            /\ Serves(q, o) /\ request'[q].paid = request[q].paid
            /\ request'[q].st = "ready" => request[q].st = "ready"
            /\ request'[q].st = "redeeming" => request[q].st = "redeeming"
    BY <1>1 DEF Serves
  <2> QED  BY <2>1 DEF Earning, Awaiting
<1>4. PaidInv'
  <2> SUFFICES ASSUME NEW o \in Owners \ unsure'
               PROVE  /\ \A p, q \in Requests : Serves(p, o)' /\ Serves(q, o)' => p = q
                      /\ bonus'[o].out <= bonus'[o].in
                      /\ bonus'[o].in + Ones(Earning(o)') + Ones(Awaiting(o)') <= taps'[o]
    BY DEF PaidInv, Ones
  <2>1. bonus'[o] = bonus[o] /\ taps'[o] = taps[o] /\ taps[o] \in Nat
    BY ReferralTypes DEF ReferralInv
  <2> QED  BY <1>2, <1>3, <2>1, QuietReferral
<1> QED  BY <1>2, <1>4 DEF ReferralInv

LEMMA CheckReferral ==
    ASSUME O!SoundConstants, ReferralInv, OnboardInv',
           NEW r \in Requests, NEW o \in Owners, NEW t \in BotTokens, O!Check(r, o, t)
    PROVE  ReferralInv'
<1>1. OnboardInv
  BY DEF ReferralInv
<1>2. PICK d \in O!Connecting : /\ request' = [request EXCEPT ![r] = d]
                                /\ d.st = "checked" /\ d.of = o /\ d.paid = {}
  BY <1>1, CheckGoes
<1>3. /\ request'[r] = d /\ \A q \in Requests : q # r => request'[q] = request[q]
      /\ UNCHANGED <<bonus, pending, taps>> /\ request[r] = O!Idle
      /\ unsure' \in {unsure, unsure \cup {o}}
      /\ o \notin unsure' => \A q \in O!Open : ~Serves(q, o)
  BY <1>1, <1>2, OnboardTypes DEF O!Check, O!rows, Serves
<1>4. \A q \in Requests : q # r => (O!IsConnecting(q)' <=> O!IsConnecting(q))
  BY <1>3 DEF O!IsConnecting
<1>5. PairedInv'
  BY <1>2, <1>3, <1>4 DEF ReferralInv, PairedInv
<1>6. \A q \in Requests : O!IsConnecting(q) => q \in O!Open
  BY RequestKinds DEF O!IsConnecting, O!Open, O!Stages
<1>7. ASSUME NEW p \in Owners \ unsure'
      PROVE  /\ \A s, q \in Requests : Serves(s, p)' /\ Serves(q, p)' => s = q
             /\ bonus'[p].out <= bonus'[p].in
             /\ bonus'[p].in + Ones(Earning(p)') + Ones(Awaiting(p)') <= taps'[p]
  <2>1. \A q \in Requests : Serves(q, p)' => q = r \/ Serves(q, p)
    BY <1>3, <1>4 DEF Serves
  <2>2. Serves(r, p)' => p = o
    BY <1>2, <1>3 DEF Serves
  <2>3. \A s, q \in Requests : Serves(s, p)' /\ Serves(q, p)' => s = q
    <3>1. CASE p = o
      BY <1>3, <1>6, <2>1, <3>1 DEF Serves
    <3>2. CASE p # o
      BY <1>3, <2>1, <2>2, <3>2 DEF ReferralInv, PaidInv
    <3> QED  BY <3>1, <3>2
  <2>4. (Earning(p)' => Earning(p)) /\ (Awaiting(p)' => Awaiting(p))
    BY <1>2, <1>3, <2>1 DEF Earning, Awaiting
  <2>5. p \in Owners \ unsure /\ bonus[p].in \in Nat /\ taps[p] \in Nat
    BY <1>1, <1>3, ReferralTypes
  <2>6. bonus[p].out <= bonus[p].in /\ bonus[p].in + Ones(Earning(p)) + Ones(Awaiting(p)) <= taps[p]
    BY <2>5 DEF ReferralInv, PaidInv
  <2>7. /\ Ones(Earning(p)') <= Ones(Earning(p)) /\ Ones(Awaiting(p)') <= Ones(Awaiting(p))
        /\ Ones(Earning(p)) \in Nat /\ Ones(Earning(p)') \in Nat
        /\ Ones(Awaiting(p)) \in Nat /\ Ones(Awaiting(p)') \in Nat
    BY <2>4 DEF Ones
  <2> QED  BY <1>3, <2>3, <2>5, <2>6, <2>7
<1>8. PaidInv'
  BY <1>7 DEF PaidInv, Ones
<1> QED  BY <1>5, <1>8 DEF ReferralInv

\* The referral is read; it stays where it is until it is redeemed.
LEMMA ReadReferral ==
    ASSUME O!SoundConstants, ReferralInv, OnboardInv', NEW r \in Requests, O!ReadPending(r)
    PROVE  ReferralInv'
<1>1. OnboardInv /\ O!TypeOK /\ UNCHANGED <<bonus, pending, taps, unsure>>
  BY DEF ReferralInv, OnboardInv, O!ReadPending, O!rows
<1>2. PICK d : /\ Goes(r, request[r], d)
               /\ \/ d.st = "ready" /\ d.paid = {}
                  \/ d.st = "redeeming" /\ d.paid = {"in"} /\ pending[d.of] # Nothing
  BY <1>1, ReadPendingGoes
<1>3. /\ request'[r] = d /\ \A q \in Requests : q # r => request'[q] = request[q]
      /\ d.of = request[r].of /\ O!IsConnecting(r)
  BY <1>1, <1>2, GoesOn, ConnectingFields DEF Goes, O!IsConnecting
<1>4. \A q \in Requests : q # r => (O!IsConnecting(q)' <=> O!IsConnecting(q))
  BY <1>3 DEF O!IsConnecting
<1>5. PairedInv'
  BY <1>2, <1>3, <1>4 DEF ReferralInv, PairedInv
<1>6. ASSUME NEW o \in Owners \ unsure'
      PROVE  /\ \A p, q \in Requests : Serves(p, o)' /\ Serves(q, o)' => p = q
             /\ bonus'[o].out <= bonus'[o].in
             /\ bonus'[o].in + Ones(Earning(o)') + Ones(Awaiting(o)') <= taps'[o]
  <2>1. \A q \in Requests : Serves(q, o)' => Serves(q, o)
    BY <1>3, <1>4 DEF Serves
  <2>2. Earning(o)' => Earning(o)
    BY <1>2, <1>3, <2>1 DEF Earning
  <2>3. Awaiting(o)' => Awaiting(o)
    BY <1>1, <1>2, <1>3, <2>1 DEF Awaiting, Serves
  <2>4. bonus'[o] = bonus[o] /\ taps'[o] = taps[o] /\ taps[o] \in Nat /\ unsure \subseteq unsure'
    BY <1>1, ReferralTypes
  <2> QED  BY <1>5, <2>1, <2>2, <2>3, <2>4, QuietReferral
<1> QED  BY <1>5, <1>6 DEF ReferralInv, PaidInv, Ones

\* What waited is now earned, and waits no longer.
LEMMA RedeemReferral ==
    ASSUME O!SoundConstants, ReferralInv, OnboardInv', NEW r \in Requests, O!Redeem(r) \/ O!RedeemHalf(r)
    PROVE  ReferralInv'
<1> DEFINE o == request[r].of
<1>1. OnboardInv /\ O!TypeOK /\ UNCHANGED <<bonus, taps>> /\ request[r].st = "redeeming"
  BY DEF ReferralInv, OnboardInv, O!Redeem, O!RedeemHalf, O!rows
<1>2. PICK d : /\ Goes(r, request[r], d) /\ d.st = "ready"
               /\ d.paid \in {request[r].paid, {"in", "out"}}
  BY <1>1, RedeemGoes, RedeemHalfGoes
<1>3. /\ request'[r] = d /\ \A q \in Requests : q # r => request'[q] = request[q]
      /\ d.of = o /\ O!IsConnecting(r) /\ o \in Owners
  BY <1>1, <1>2, GoesOn, ConnectingFields DEF Goes, O!IsConnecting
<1>4. \A q \in Requests : q # r => (O!IsConnecting(q)' <=> O!IsConnecting(q))
  BY <1>3 DEF O!IsConnecting
<1>5. PairedInv'
  BY <1>1, <1>2, <1>3, <1>4 DEF ReferralInv, PairedInv
<1>6. /\ unsure \subseteq unsure' /\ \A p \in Owners : p # o => pending'[p] = pending[p]
      /\ o \notin unsure' => pending'[o] = Nothing
  BY <1>1, <1>3 DEF O!Redeem, O!RedeemHalf, O!Gone, O!Stays, O!Redeemed, O!TypeOK
<1>7. \A p \in Owners : \A q \in Requests : Serves(q, p)' => Serves(q, p) /\ (q = r => p = o)
  BY <1>3, <1>4 DEF Serves
<1>8. ASSUME NEW p \in Owners \ unsure'
      PROVE  /\ \A s, q \in Requests : Serves(s, p)' /\ Serves(q, p)' => s = q
             /\ bonus'[p].out <= bonus'[p].in
             /\ bonus'[p].in + Ones(Earning(p)') + Ones(Awaiting(p)') <= taps'[p]
  <2>1. CASE p # o
    <3>1. Earning(p)' => Earning(p)
      BY <1>3, <1>7, <2>1 DEF Earning
    <3>2. Awaiting(p)' => Awaiting(p)
      BY <1>3, <1>6, <1>7, <2>1 DEF Awaiting
    <3>3. bonus'[p] = bonus[p] /\ taps'[p] = taps[p] /\ taps[p] \in Nat
      BY <1>1, ReferralTypes
    <3> QED  BY <1>5, <1>6, <1>7, <3>1, <3>2, <3>3, QuietReferral
  <2>2. CASE p = o
    <3>1. p \in Owners \ unsure /\ pending'[p] = Nothing /\ Serves(r, p)
      BY <1>3, <1>6, <2>2 DEF Serves
    <3>2. \A q \in Requests : Serves(q, p) => q = r
      BY <3>1 DEF ReferralInv, PaidInv
    <3>3. ~Earning(p) /\ Awaiting(p) /\ ~Awaiting(p)'
      BY <1>1, <1>2, <1>3, <1>7, <3>1, <3>2 DEF Earning, Awaiting
    <3>4. \A s, q \in Requests : Serves(s, p)' /\ Serves(q, p)' => s = q
      BY <1>7, <3>2
    <3>5. bonus[p].out <= bonus[p].in /\ bonus[p].in + Ones(Earning(p)) + Ones(Awaiting(p)) <= taps[p]
      BY <3>1 DEF ReferralInv, PaidInv
    <3>6. bonus[p].in \in Nat /\ taps[p] \in Nat
      BY <1>1, ReferralTypes
    <3>7. /\ Ones(Earning(p)) = 0 /\ Ones(Awaiting(p)) = 1 /\ Ones(Awaiting(p)') = 0
          /\ Ones(Earning(p)') \in {0, 1}
      BY <3>3 DEF Ones
    <3> QED  BY <1>1, <3>4, <3>5, <3>6, <3>7
  <2> QED  BY <2>1, <2>2
<1> QED  BY <1>5, <1>8 DEF ReferralInv, PaidInv, Ones

LEMMA CommitReferral ==
    ASSUME O!SoundConstants, ReferralInv, OnboardInv', NEW r \in Requests, O!CommitBot(r)
    PROVE  ReferralInv'
<1> DEFINE c == request[r]
<1>1. /\ OnboardInv /\ c \in O!Connecting /\ c.st = "ready" /\ c.of \in Owners /\ O!IsConnecting(r)
      /\ O!Set(r, O!Idle) /\ UNCHANGED <<pending, taps, unsure>> /\ bonus' = O!AddBonus(c)
  BY CommitBotRows, ConnectingFields DEF ReferralInv, O!IsConnecting
<1>2. ~O!IsConnecting(r)' /\ \A q \in Requests : q # r => request'[q] = request[q]
  BY <1>1, Ends DEF O!IsConnecting, O!Stages
<1>3. \A q \in Requests : q # r => (O!IsConnecting(q)' <=> O!IsConnecting(q))
  BY <1>2 DEF O!IsConnecting
<1>4. PairedInv'
  BY <1>2, <1>3 DEF ReferralInv, PairedInv
<1>5. \A p \in Owners :
          /\ bonus[p].in \in Nat /\ bonus[p].out \in Nat
          /\ bonus'[p].in = bonus[p].in + IF "in" \in c.paid /\ p = c.of THEN 1 ELSE 0
          /\ bonus'[p].out = bonus[p].out + IF "out" \in c.paid /\ p = c.of THEN 1 ELSE 0
  BY <1>1, BonusType
<1>6. ASSUME NEW p \in Owners \ unsure'
      PROVE  /\ \A s, q \in Requests : Serves(s, p)' /\ Serves(q, p)' => s = q
             /\ bonus'[p].out <= bonus'[p].in
             /\ bonus'[p].in + Ones(Earning(p)') + Ones(Awaiting(p)') <= taps'[p]
  <2>1. /\ bonus[p].out <= bonus[p].in /\ bonus[p].in + Ones(Earning(p)) + Ones(Awaiting(p)) <= taps[p]
        /\ \A s, q \in Requests : Serves(s, p) /\ Serves(q, p) => s = q
        /\ taps[p] \in Nat
    BY <1>1, ReferralTypes DEF ReferralInv, PaidInv
  <2>2. \A q \in Requests : Serves(q, p)' => q # r /\ Serves(q, p) /\ request'[q] = request[q]
    BY <1>2, <1>3 DEF Serves
  <2>3. (Earning(p)' => Earning(p)) /\ (Awaiting(p)' => Awaiting(p))
    BY <1>1, <2>2 DEF Earning, Awaiting
  <2>4. /\ Ones(Earning(p)') <= Ones(Earning(p)) /\ Ones(Awaiting(p)') <= Ones(Awaiting(p))
        /\ Ones(Earning(p)) \in Nat /\ Ones(Earning(p)') \in Nat
        /\ Ones(Awaiting(p)) \in Nat /\ Ones(Awaiting(p)') \in Nat
    BY <2>3 DEF Ones
  <2>5. CASE p # c.of
    <3>1. bonus'[p].in = bonus[p].in /\ bonus'[p].out = bonus[p].out
      BY <1>5, <2>5
    <3> QED  BY <1>1, <1>5, <2>1, <2>2, <2>4, <3>1
  <2>6. CASE p = c.of /\ "in" \in c.paid
    <3>1. Serves(r, p) /\ Earning(p)
      BY <1>1, <2>6 DEF Serves, Earning
    <3>2. ~Earning(p)'
      BY <2>1, <2>2, <3>1 DEF Earning
    <3>3. Ones(Earning(p)) = 1 /\ Ones(Earning(p)') = 0
      BY <3>1, <3>2 DEF Ones
    <3>4. bonus'[p].in = bonus[p].in + 1 /\ bonus'[p].out <= bonus[p].out + 1
      BY <1>5, <2>6
    <3>5. bonus'[p].out \in Nat
      BY <1>5
    <3> QED  BY <1>1, <1>5, <2>1, <2>2, <2>4, <3>3, <3>4, <3>5
  <2>7. CASE p = c.of /\ "in" \notin c.paid
    <3>1. "out" \notin c.paid
      BY <1>1, <2>7 DEF ReferralInv, PairedInv
    <3>2. bonus'[p].in = bonus[p].in /\ bonus'[p].out = bonus[p].out
      BY <1>5, <2>7, <3>1
    <3> QED  BY <1>1, <1>5, <2>1, <2>2, <2>4, <3>2
  <2> QED  BY <2>5, <2>6, <2>7
<1> QED  BY <1>4, <1>6 DEF ReferralInv, PaidInv, Ones

\* A tap stores a referral; one that is forgotten is not paid.
LEMMA TapReferral ==
    ASSUME O!SoundConstants, ReferralInv, OnboardInv', NEW o \in Owners, NEW p,
           O!CreateBusiness(o) \/ O!Tap(o, p) \/ O!ForgetTap(o) \/ O!SaveSettings(o)
    PROVE  ReferralInv'
<1>1. OnboardInv /\ UNCHANGED <<request, bonus, unsure>>
  BY DEF ReferralInv, O!CreateBusiness, O!Tap, O!ForgetTap, O!SaveSettings
<1>2. PairedInv'
  BY <1>1 DEF ReferralInv, PairedInv, O!IsConnecting
<1>3. ASSUME NEW u \in Owners
      PROVE  /\ taps'[u] \in Nat /\ taps'[u] >= taps[u]
             /\ pending'[u] # Nothing => pending[u] # Nothing \/ taps'[u] > taps[u]
  <2>1. taps[u] \in Nat
    BY <1>1, ReferralTypes
  <2>2. CASE O!Tap(o, p)
    BY <1>1, <2>1, <2>2 DEF O!Tap, OnboardInv, O!TypeOK
  <2>3. CASE UNCHANGED taps
    BY <1>1, <2>1, <2>3 DEF O!CreateBusiness, O!Tap, O!ForgetTap, O!SaveSettings, OnboardInv, O!TypeOK
  <2> QED  BY <2>2, <2>3 DEF O!CreateBusiness, O!ForgetTap, O!SaveSettings
<1>4. ASSUME NEW u \in Owners \ unsure'
      PROVE  /\ \A s, q \in Requests : Serves(s, u)' /\ Serves(q, u)' => s = q
             /\ bonus'[u].out <= bonus'[u].in
             /\ bonus'[u].in + Ones(Earning(u)') + Ones(Awaiting(u)') <= taps'[u]
  <2>1. \A q \in Requests : Serves(q, u)' => Serves(q, u)
    BY <1>1 DEF Serves, O!IsConnecting
  <2>2. Earning(u)' => Earning(u)
    BY <1>1, <2>1 DEF Earning
  <2>3. Awaiting(u)' => Awaiting(u) \/ taps'[u] > taps[u]
    BY <1>1, <1>3, <2>1 DEF Awaiting
  <2>4. unsure \subseteq unsure' /\ bonus'[u] = bonus[u]
    BY <1>1
  <2> QED  BY <1>2, <1>3, <2>1, <2>2, <2>3, <2>4, QuietReferral
<1> QED  BY <1>2, <1>4 DEF ReferralInv, PaidInv, Ones

LEMMA WorkReferral ==
    ASSUME O!SoundConstants, ReferralInv, OnboardInv', NEW r \in Requests, NEW d \in O!Request,
           O!Set(r, d), d.st \notin O!Stages, UNCHANGED <<bonus, pending, taps, unsure>>
    PROVE  ReferralInv'
<1>1. OnboardInv
  BY DEF ReferralInv
<1>2. request'[r] = d /\ \A q \in Requests : q # r => request'[q] = request[q]
  BY <1>1, OnboardTypes DEF O!Set
<1>3. ~O!IsConnecting(r)'
  BY <1>2 DEF O!IsConnecting
<1> QED  BY <1>2, <1>3, EndReferral

LEMMA ReferralNext == O!SoundConstants /\ ReferralInv /\ [O!Next]_O!vars => ReferralInv'
<1> SUFFICES ASSUME O!SoundConstants, ReferralInv, [O!Next]_O!vars PROVE ReferralInv'
  OBVIOUS
<1>1. OnboardInv /\ O!TypeOK /\ OnboardInv'
  BY OnboardNext DEF ReferralInv, OnboardInv
<1>2. CASE UNCHANGED O!vars
  BY <1>1, <1>2 DEF O!vars, ReferralInv, PairedInv, PaidInv, Serves, Earning, Awaiting, O!IsConnecting, Ones
<1>3. ASSUME NEW r \in Requests, O!Insert(r) \/ O!SetHook(r) \/ O!Fund(r) PROVE ReferralInv'
  <2>1. UNCHANGED <<bonus, pending, taps, unsure>>
    BY <1>3 DEF O!Insert, O!SetHook, O!Fund, O!rows
  <2>2. \/ O!Set(r, O!Idle)
        \/ \E d : /\ Goes(r, request[r], d) /\ d.st \notin {"ready", "redeeming"}
                  /\ d.paid = request[r].paid
    BY <1>1, <1>3, InsertGoes, SetHookGoes, FundGoes
  <2>3. CASE O!Set(r, O!Idle)
    BY <1>1, <2>1, <2>3, WorkReferral, RequestKinds DEF O!Stages
  <2>4. ASSUME NEW d, Goes(r, request[r], d), d.st \notin {"ready", "redeeming"},
               d.paid = request[r].paid
        PROVE  ReferralInv'
    <3>1. /\ request'[r] = d /\ \A q \in Requests : q # r => request'[q] = request[q]
          /\ d.of = request[r].of /\ O!IsConnecting(r)
      BY <1>1, <2>4, GoesOn, ConnectingFields DEF Goes, O!IsConnecting
    <3> QED  BY <1>1, <2>1, <2>4, <3>1, EndReferral
  <2> QED  BY <2>2, <2>3, <2>4
<1>4. ASSUME NEW r \in Requests, NEW t \in BotTokens,
             O!StartRefresh(r, t) \/ O!StartOffboard(r, t)
      PROVE  ReferralInv'
  <2>1. UNCHANGED <<bonus, pending, taps, unsure>>
    BY <1>4 DEF O!StartRefresh, O!StartOffboard, O!rows
  <2>2. /\ [st |-> "rehooked", token |-> t] \in O!Request
        /\ [st |-> "unhooked", token |-> t] \in O!Request
    BY DEF O!Request
  <2> QED  BY <1>1, <1>4, <2>1, <2>2, WorkReferral DEF O!StartRefresh, O!StartOffboard, O!Stages
<1>5. ASSUME NEW r \in Requests,
             O!CommitRefresh(r) \/ O!CommitOffboard(r) \/ O!RedeemFails(r) \/ O!Fail(r)
      PROVE  ReferralInv'
  <2>1. O!Set(r, O!Idle) /\ UNCHANGED <<bonus, pending, taps, unsure>>
    BY <1>5 DEF O!CommitRefresh, O!CommitOffboard, O!RedeemFails, O!Fail, O!rows
  <2> QED  BY <1>1, <2>1, WorkReferral, RequestKinds DEF O!Stages
<1>6. ASSUME NEW l \in Links, O!Tap(l[1], l[2]) PROVE ReferralInv'
  <2>1. l[1] \in Owners
    BY DEF O!SoundConstants
  <2> QED  BY <1>1, <1>6, <2>1, TapReferral
<1>7. CASE O!Next
  BY <1>1, <1>7, <1>3, <1>4, <1>5, <1>6, TapReferral, CheckReferral, ReadReferral,
     RedeemReferral, CommitReferral DEF O!Next
<1> QED  BY <1>2, <1>7

\* A stored referral is paid once at most, and its referrer only with the
\* referred, for any number of owners and requests, unless two of the owner's
\* bots were connected at once or Redis failed meanwhile (redeem, capture).
THEOREM ReferralPaidOnce ==
    ASSUME O!SoundConstants
    PROVE  O!Spec => []ReferralOnce
<1>1. ReferralInv => ReferralOnce
  <2> SUFFICES ASSUME ReferralInv, NEW o \in Owners \ unsure
               PROVE  bonus[o].out <= bonus[o].in /\ bonus[o].in <= taps[o]
    BY DEF ReferralOnce, O!ReferralOnce
  <2>1. bonus[o].out <= bonus[o].in /\ bonus[o].in + Ones(Earning(o)) + Ones(Awaiting(o)) <= taps[o]
    BY DEF ReferralInv, PaidInv
  <2>2. /\ bonus[o].in \in Nat /\ taps[o] \in Nat
        /\ Ones(Earning(o)) \in Nat /\ Ones(Awaiting(o)) \in Nat
    BY ReferralTypes DEF ReferralInv, Ones
  <2> QED  BY <2>1, <2>2
<1> QED  BY <1>1, ReferralInit, ReferralNext, PTL DEF O!Spec

=============================================================================
