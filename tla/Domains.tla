------------------------------- MODULE Domains -------------------------------
(***************************************************************************)
(* Custom domains: an owner connects a domain, publishes the TXT record    *)
(* with its token, and asks for verification, which looks the record up    *)
(* between reading the row and committing it.                              *)
(***************************************************************************)
EXTENDS Naturals, FiniteSets

CONSTANTS
    Tenants,   \* the businesses
    Hosts,     \* the domains
    MaxTokens, \* bound of the model: how many tokens are drawn
    Askers     \* the requests that may overlap

VARIABLES
    domains,  \* the rows of custom_domains, each named by its first token
    drawn,    \* the number of tokens drawn
    txt,      \* the token published under _ethiogram.<host>, 0 is none
    ask,      \* the open requests
    proved,   \* history: hosts and tokens a lookup has found
    raced,    \* history: rows that a connection changed during a verification
    doubled   \* history: businesses of which two connections overlapped

vars == <<domains, drawn, txt, ask, proved, raced, doubled>>

DomainRow == [id : 1..MaxTokens, of : Tenants, host : Hosts, token : 1..MaxTokens,
              verified : BOOLEAN]

Idle == [kind |-> "idle"]

TypeOK ==
    /\ domains \subseteq DomainRow
    /\ \A d, e \in domains : (d.id = e.id \/ d.host = e.host) => d = e
    /\ drawn \in 0..MaxTokens
    /\ txt \in [Hosts -> 0..MaxTokens]
    /\ ask \in [Askers -> {Idle}
           \cup [kind : {"add"}, row : DomainRow]
           \cup [kind : {"repoint"}, old : DomainRow, row : DomainRow]
           \cup [kind : {"verify", "found", "drop"}, old : DomainRow]]
    /\ proved \subseteq Hosts \X (1..MaxTokens)
    /\ raced \subseteq 1..MaxTokens /\ doubled \subseteq Tenants

Init ==
    /\ domains = {} /\ drawn = 0
    /\ txt = [h \in Hosts |-> 0]
    /\ ask = [a \in Askers |-> Idle]
    /\ proved = {} /\ raced = {} /\ doubled = {}

Answer(a, c) == ask' = [ask EXCEPT ![a] = c]

\* _get_domain; scalar_one_or_none raises for a business with two rows.
RowsOf(b) == {d \in domains : d.of = b}

-----------------------------------------------------------------------------
Taken(b, h) == \E d \in domains : d.host = h /\ d.of # b

Pointing(x, b) == \/ x.kind = "add" /\ x.row.of = b
                  \/ x.kind = "repoint" /\ x.row.of = b

Verifying(x, d) == x.kind \in {"verify", "found"} /\ x.old.id = d.id

\* Mutant: a row that points to another host stays verified.
Moved(d, h, t) == [d EXCEPT !.host = h, !.token = t]

Repointed(d, h, t) == [d EXCEPT !.host = h, !.token = t, !.verified = FALSE]

\* connect_domain adds the business's row or points it to another host.
StartConnect(a, b, h) ==
    /\ ask[a] = Idle /\ drawn < MaxTokens
    /\ ~Taken(b, h) /\ Cardinality(RowsOf(b)) <= 1
    /\ drawn' = drawn + 1
    /\ IF RowsOf(b) = {}
         THEN /\ Answer(a, [kind |-> "add", row |->
                   [id |-> drawn', of |-> b, host |-> h, token |-> drawn', verified |-> FALSE]])
              /\ UNCHANGED raced
         ELSE \E d \in RowsOf(b) :
                /\ Answer(a, [kind |-> "repoint", old |-> d, row |-> Repointed(d, h, drawn')])
                /\ raced' = IF \E x \in Askers : Verifying(ask[x], d)
                            THEN raced \cup {d.id} ELSE raced
    /\ doubled' = IF \E x \in Askers : Pointing(ask[x], b) THEN doubled \cup {b} ELSE doubled
    /\ UNCHANGED <<domains, txt, proved>>

Exists(d) == \E e \in domains : e.id = d.id

Current(d) == CHOOSE e \in domains : e.id = d.id

\* A host is unique: the commit fails if another row has it by now.
HostFree(d) == ~\E e \in domains : e.host = d.host /\ e.id # d.id

CommitAdd(a) ==
    /\ ask[a].kind = "add" /\ HostFree(ask[a].row)
    /\ domains' = domains \cup {ask[a].row}
    /\ Answer(a, Idle)
    /\ UNCHANGED <<drawn, txt, proved, raced, doubled>>

\* Only columns that differ from what the request has read are written.
CommitRepoint(a) ==
    /\ ask[a].kind = "repoint" /\ Exists(ask[a].old)
    /\ LET old == ask[a].old
           now == Current(old)
           new == [now EXCEPT
               !.host = IF ask[a].row.host = old.host THEN @ ELSE ask[a].row.host,
               !.token = ask[a].row.token,
               !.verified = IF ask[a].row.verified = old.verified THEN @ ELSE ask[a].row.verified] IN
       /\ HostFree(new)
       /\ domains' = (domains \ {now}) \cup {new}
    /\ Answer(a, Idle)
    /\ UNCHANGED <<drawn, txt, proved, raced, doubled>>

-----------------------------------------------------------------------------
\* verify_domain reads the row.
StartVerify(a, d) ==
    /\ ask[a] = Idle /\ RowsOf(d.of) = {d}
    /\ Answer(a, [kind |-> "verify", old |-> d])
    /\ raced' = IF \E x \in Askers : ask[x].kind = "repoint" /\ ask[x].old.id = d.id
                THEN raced \cup {d.id} ELSE raced
    /\ UNCHANGED <<domains, drawn, txt, proved, doubled>>

\* _txt_has_token runs in a thread of its own.
LookUp(a) ==
    /\ ask[a].kind = "verify"
    /\ LET d == ask[a].old IN
       IF txt[d.host] = d.token
         THEN /\ Answer(a, [ask[a] EXCEPT !.kind = "found"])
              /\ proved' = proved \cup {<<d.host, d.token>>}
         ELSE Answer(a, Idle) /\ UNCHANGED proved
    /\ UNCHANGED <<domains, drawn, txt, raced, doubled>>

\* A row already verified is not written; one that is gone fails the request.
CommitVerify(a) ==
    /\ ask[a].kind = "found" /\ (Exists(ask[a].old) \/ ask[a].old.verified)
    /\ LET old == ask[a].old IN
       domains' = IF old.verified THEN domains
                  ELSE (domains \ {Current(old)}) \cup {[Current(old) EXCEPT !.verified = TRUE]}
    /\ Answer(a, Idle)
    /\ UNCHANGED <<drawn, txt, proved, raced, doubled>>

\* disconnect_domain
StartDisconnect(a, d) ==
    /\ ask[a] = Idle /\ RowsOf(d.of) = {d}
    /\ Answer(a, [kind |-> "drop", old |-> d])
    /\ UNCHANGED <<domains, drawn, txt, proved, raced, doubled>>

CommitDisconnect(a) ==
    /\ ask[a].kind = "drop"
    /\ domains' = {d \in domains : d.id # ask[a].old.id}
    /\ Answer(a, Idle)
    /\ UNCHANGED <<drawn, txt, proved, raced, doubled>>

Fail(a) ==
    /\ ask[a] # Idle
    /\ Answer(a, Idle)
    /\ UNCHANGED <<domains, drawn, txt, proved, raced, doubled>>

\* The domain's holder publishes a token he was shown, or removes it.
Publish(h, t) ==
    /\ t # txt[h] /\ t <= drawn
    /\ txt' = [txt EXCEPT ![h] = t]
    /\ UNCHANGED <<domains, drawn, ask, proved, raced, doubled>>

Next ==
    \/ \E a \in Askers, b \in Tenants, h \in Hosts : StartConnect(a, b, h)
    \/ \E a \in Askers : CommitAdd(a)
    \/ \E a \in Askers : CommitRepoint(a)
    \/ \E a \in Askers, d \in domains : StartVerify(a, d)
    \/ \E a \in Askers : LookUp(a)
    \/ \E a \in Askers : CommitVerify(a)
    \/ \E a \in Askers, d \in domains : StartDisconnect(a, d)
    \/ \E a \in Askers : CommitDisconnect(a)
    \/ \E a \in Askers : Fail(a)
    \/ \E h \in Hosts, t \in 0..MaxTokens : Publish(h, t)

Spec == Init /\ [][Next]_vars

-----------------------------------------------------------------------------
\* A verified domain is one whose record was found to hold the row's token,
\* unless the row was pointed elsewhere while a verification was looking: each
\* of the two writes only the columns it has changed (verify_domain,
\* connect_domain).
VerifiedIsProved ==
    \A d \in domains : d.verified /\ d.id \notin raced => <<d.host, d.token>> \in proved

\* A business has one domain, unless two of its connections overlapped:
\* business_id is not unique, and with two rows every later request for the
\* domain fails (_get_domain).
OneDomainEach == \A b \in Tenants \ doubled : Cardinality(RowsOf(b)) <= 1

=============================================================================
