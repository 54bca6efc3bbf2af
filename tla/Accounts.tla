------------------------------ MODULE Accounts ------------------------------
(***************************************************************************)
(* Accounts and their refresh sessions: registering, entering by password, *)
(* by Telegram's login widget or by the mini app, rotating a refresh       *)
(* token, logging out, and an administrator's suspension of an account.    *)
(*                                                                         *)
(* A request reads without locks and writes at its commit, so other        *)
(* requests may commit between the two.                                    *)
(***************************************************************************)
EXTENDS Naturals, FiniteSets

CONSTANTS
    Emails,      \* people who register with an e-mail address and a password
    TelegramIds, \* people who enter through Telegram
    SuperAdmins, \* settings.admin_telegram_ids, a subset of TelegramIds
    MaxIssued,   \* bound of the model: how many refresh tokens are issued
    Requests,    \* the requests that may overlap
    MaxExpired   \* bound of the model: how many tokens may expire

VARIABLES
    account,  \* the rows of users
    sessions, \* the rows of user_sessions, each with the login it descends from
    expired,  \* refresh tokens past their expires_at
    call,     \* the requests
    raced,    \* history: logins of which one token was used by two requests at once
    ended     \* history: logins whose token was given up by a logout

vars == <<account, sessions, expired, call, raced, ended>>

People == Emails \cup TelegramIds

Tokens == 1..MaxIssued

Rows == [tok : Tokens, of : People, login : Tokens, revoked : BOOLEAN]

Idle == [kind |-> "idle"]

Calls == {Idle}
    \cup [kind : {"enter"}, who : People, new : BOOLEAN, role : {"owner", "admin"}]
    \cup [kind : {"refresh", "logout"}, row : Rows]
    \cup [kind : {"suspend", "restore"}, who : People, seen : {"active", "suspended"}]

TypeOK ==
    /\ account \in [People -> [st : {"none", "active", "suspended"}, role : {"owner", "admin"}]]
    /\ sessions \subseteq Rows
    /\ \A s1, s2 \in sessions : s1.tok = s2.tok => s1 = s2
    /\ expired \subseteq Tokens
    /\ call \in [Requests -> Calls]
    /\ raced \subseteq Tokens /\ ended \subseteq Tokens

Init ==
    /\ account = [p \in People |-> [st |-> "none", role |-> "owner"]]
    /\ sessions = {} /\ expired = {}
    /\ call = [r \in Requests |-> Idle]
    /\ raced = {} /\ ended = {}

-----------------------------------------------------------------------------
Begin(r, c) ==
    /\ call[r] = Idle
    /\ call' = [call EXCEPT ![r] = c]
    /\ UNCHANGED <<account, sessions, expired, ended>>

Entering(p, role) ==
    [kind |-> "enter", who |-> p, new |-> account[p].st = "none", role |-> role]

\* register: no account has this address.
Register(r, p) ==
    /\ p \in Emails /\ account[p].st = "none"
    /\ Begin(r, Entering(p, "owner"))
    /\ UNCHANGED raced

\* login: the address is known, the password matches, the account is not suspended.
Login(r, p) ==
    /\ p \in Emails /\ account[p].st = "active"
    /\ Begin(r, Entering(p, account[p].role))
    /\ UNCHANGED raced

\* telegram_login finds the person by telegram_id or adds the account.
TelegramLogin(r, p) ==
    /\ p \in TelegramIds /\ account[p].st # "suspended"
    /\ Begin(r, Entering(p, account[p].role))
    /\ UNCHANGED raced

\* miniapp_login does the same and makes the platform's owners administrators.
MiniAppLogin(r, p) ==
    /\ p \in TelegramIds /\ account[p].st # "suspended"
    /\ Begin(r, Entering(p, IF p \in SuperAdmins THEN "admin" ELSE account[p].role))
    /\ UNCHANGED raced

Issued == {s.tok : s \in sessions}

\* Tokens are random; each is named by the order it is issued in.
Fresh == {t \in Tokens \ Issued : 1..(t - 1) \subseteq Issued}

\* e-mail and telegram_id are unique: of two requests that add the same person
\* the second to commit fails.
CommitEntry(r) ==
    /\ call[r].kind = "enter"
    /\ LET c == call[r] IN
       /\ c.new => account[c.who].st = "none"
       /\ account' = [account EXCEPT ![c.who] =
              [st |-> IF c.new THEN "active" ELSE @.st,
               role |-> IF c.role = "admin" THEN "admin" ELSE @.role]]
       /\ \E t \in Fresh : sessions' = sessions \cup
              {[tok |-> t, of |-> c.who, login |-> t, revoked |-> FALSE]}
    /\ call' = [call EXCEPT ![r] = Idle]
    /\ UNCHANGED <<expired, raced, ended>>

-----------------------------------------------------------------------------
\* Mutant: a rotated token is accepted again.
IsFresh(s) == s.tok \notin expired

\* UserSession.is_valid
IsValid(s) == ~s.revoked /\ s.tok \notin expired

\* History: another request is already using the same token.
Race(s) == raced' = IF \E r \in Requests : call[r].kind \in {"refresh", "logout"}
                                           /\ call[r].row.tok = s.tok
                    THEN raced \cup {s.login} ELSE raced

StartRefresh(r, s) ==
    /\ IsValid(s) /\ account[s.of].st = "active"
    /\ Begin(r, [kind |-> "refresh", row |-> s])
    /\ Race(s)

StartLogout(r, s) ==
    /\ ~s.revoked
    /\ Begin(r, [kind |-> "logout", row |-> s])
    /\ Race(s)

Revoked(s) ==
    {IF x.tok = s.tok THEN [x EXCEPT !.revoked = TRUE] ELSE x : x \in sessions}

\* The old session is revoked and a new one takes its place.
CommitRefresh(r) ==
    /\ call[r].kind = "refresh"
    /\ LET s == call[r].row IN
       \E t \in Fresh : sessions' = Revoked(s) \cup
            {[tok |-> t, of |-> s.of, login |-> s.login, revoked |-> FALSE]}
    /\ call' = [call EXCEPT ![r] = Idle]
    /\ UNCHANGED <<account, expired, raced, ended>>

CommitLogout(r) ==
    /\ call[r].kind = "logout"
    /\ sessions' = Revoked(call[r].row)
    /\ ended' = ended \cup {call[r].row.login}
    /\ call' = [call EXCEPT ![r] = Idle]
    /\ UNCHANGED <<account, expired, raced>>

-----------------------------------------------------------------------------
\* CurrentAdmin and _require_super_admin, from the row and not from the token.
MayAdminister(p) == p \in SuperAdmins /\ account[p] = [st |-> "active", role |-> "admin"]

StartSwitch(r, p, kind) ==
    /\ \E a \in People : MayAdminister(a)
    /\ account[p].st # "none"
    /\ Begin(r, [kind |-> kind, who |-> p, seen |-> account[p].st])
    /\ UNCHANGED raced

\* is_active is written only if it differs from the value the request has read.
CommitSwitch(r) ==
    /\ call[r].kind \in {"suspend", "restore"}
    /\ LET c == call[r]
           to == IF c.kind = "suspend" THEN "suspended" ELSE "active" IN
       account' = IF c.seen = to THEN account ELSE [account EXCEPT ![c.who].st = to]
    /\ call' = [call EXCEPT ![r] = Idle]
    /\ UNCHANGED <<sessions, expired, raced, ended>>

-----------------------------------------------------------------------------
\* The commit fails and the session is rolled back.
Fail(r) ==
    /\ call[r] # Idle
    /\ call' = [call EXCEPT ![r] = Idle]
    /\ UNCHANGED <<account, sessions, expired, raced, ended>>

\* The expiry of a revoked session changes nothing and is left out.
Expire(s) ==
    /\ IsValid(s) /\ Cardinality(expired) < MaxExpired
    /\ expired' = expired \cup {s.tok}
    /\ UNCHANGED <<account, sessions, call, raced, ended>>

Next ==
    \/ \E r \in Requests, p \in People : Register(r, p)
    \/ \E r \in Requests, p \in People : Login(r, p)
    \/ \E r \in Requests, p \in People : TelegramLogin(r, p)
    \/ \E r \in Requests, p \in People : MiniAppLogin(r, p)
    \/ \E r \in Requests : CommitEntry(r)
    \/ \E r \in Requests, s \in sessions : StartRefresh(r, s)
    \/ \E r \in Requests, s \in sessions : StartLogout(r, s)
    \/ \E r \in Requests : CommitRefresh(r)
    \/ \E r \in Requests : CommitLogout(r)
    \/ \E r \in Requests, p \in People, k \in {"suspend", "restore"} : StartSwitch(r, p, k)
    \/ \E r \in Requests : CommitSwitch(r)
    \/ \E r \in Requests : Fail(r)
    \/ \E s \in sessions : Expire(s)

Spec == Init /\ [][Next]_vars

-----------------------------------------------------------------------------
Live(l) == {s \in sessions : s.login = l /\ ~s.revoked}

\* However often a login's token is rotated, at most one of its sessions is
\* live, and none after the logout; two are possible only if two requests used
\* one token at the same time (refresh_token, logout).
OneSessionPerLogin ==
    \A l \in Tokens \ raced : Cardinality(Live(l)) <= (IF l \in ended THEN 0 ELSE 1)

=============================================================================
