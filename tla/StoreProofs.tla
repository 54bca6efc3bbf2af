---------------------------- MODULE StoreProofs ----------------------------
(***************************************************************************)
(* What custom domains, the marketplace and the public pages of a business *)
(* promise, for any number of businesses, agents, pages and requests; and  *)
(* the types of all services side by side.                                 *)
(*                                                                         *)
(* Domains: a verification that no connection overlapped still looks at    *)
(* the row it has read.  Marketplace: the place a trial has found under    *)
(* the cap is not taken before it commits.  Storefront: the layout an edit *)
(* has read is still there when it commits, and between a drop and its     *)
(* commit there is no copy but those that slipped in.                      *)
(***************************************************************************)
EXTENDS PeopleProofs

LEMMA DomainsCardinality ==
    ASSUME NEW set
    PROVE  D!Cardinality(set) = Cardinality(set)
  BY DEF D!Cardinality, Cardinality, D!IsFiniteSet, IsFiniteSet

OldKinds == {"repoint", "verify", "found", "drop"}

\* An id is drawn once: that of a row to be added is nobody else's.
FreshIds ==
    /\ \A d \in domains : d.id <= drawn
    /\ \A a \in Askers : ask[a].kind \in OldKinds => ask[a].old.id <= drawn
    /\ \A a \in Askers : ask[a].kind = "add" =>
          /\ ask[a].row.id <= drawn
          /\ \A d \in domains : d.id # ask[a].row.id
          /\ \A c \in Askers : ask[c].kind \in OldKinds => ask[c].old.id # ask[a].row.id
          /\ \A c \in Askers : ask[c].kind = "add" /\ c # a => ask[c].row.id # ask[a].row.id

Unverified(a) == ask[a].kind \in {"add", "repoint"} => ask[a].row.verified = FALSE

\* A verification that no connection overlapped still looks at the row it read,
\* and a connection that no verification overlapped still writes over it.
UntouchedInv ==
    /\ \A a \in Askers : Unverified(a)
    /\ \A a, c \in Askers :
          ask[a].kind = "repoint" /\ ask[c].kind \in {"verify", "found"}
            /\ ask[a].old.id = ask[c].old.id => ask[a].old.id \in raced
    /\ \A a \in Askers, d \in domains : d.id \notin raced /\ d.id = ask[a].old.id =>
          /\ ask[a].kind \in {"verify", "found"} =>
                d.host = ask[a].old.host /\ d.token = ask[a].old.token
          /\ ask[a].kind = "repoint" /\ ~ask[a].old.verified => ~d.verified

FoundInv ==
    \A a \in Askers : ask[a].kind = "found" => <<ask[a].old.host, ask[a].old.token>> \in proved

ProofInv == UntouchedInv /\ FoundInv /\ D!VerifiedIsProved

\* Of two connections of a business that do not overlap the second finds a row.
SingleInv ==
    \A b \in Tenants \ doubled :
        /\ \A d, e \in domains : d.of = b /\ e.of = b => d = e
        /\ \A a \in Askers : ask[a].kind = "add" /\ ask[a].row.of = b =>
              /\ \A d \in domains : d.of # b
              /\ \A c \in Askers : ask[c].kind = "add" /\ ask[c].row.of = b => c = a

-----------------------------------------------------------------------------
(* Kinds                                                                   *)

Request ==
    {D!Idle} \cup [kind : {"add"}, row : D!DomainRow]
           \cup [kind : {"repoint"}, old : D!DomainRow, row : D!DomainRow]
           \cup [kind : {"verify", "found", "drop"}, old : D!DomainRow]

LEMMA AskKinds ==
    ASSUME NEW x \in Request
    PROVE  /\ x = D!Idle \/ x.kind # "idle"
           /\ x.kind = "add" => x.row \in D!DomainRow
           /\ x.kind \in OldKinds => x.old \in D!DomainRow
           /\ x.kind = "repoint" => x.row \in D!DomainRow
  BY DEF Request, D!Idle, OldKinds

LEMMA AskedKinds ==
    ASSUME D!TypeOK, NEW a \in Askers
    PROVE  /\ ask[a] \in Request
           /\ ask[a].kind = "add" => ask[a].row \in D!DomainRow
           /\ ask[a].kind \in OldKinds => ask[a].old \in D!DomainRow
           /\ ask[a].kind = "repoint" => ask[a].row \in D!DomainRow
<1>1. ask[a] \in Request
  BY DEF D!TypeOK, Request
<1> QED  BY <1>1, AskKinds

LEMMA Asks ==
    ASSUME D!TypeOK, NEW a \in Askers, NEW x, D!Answer(a, x)
    PROVE  /\ ask'[a] = x
           /\ \A c \in Askers : c # a => ask'[c] = ask[c]
           /\ x \in Request => ask' \in [Askers -> Request]
  BY DEF D!TypeOK, D!Answer, Request

LEMMA CurrentIsARow ==
    ASSUME D!TypeOK, NEW d, D!Exists(d)
    PROVE  /\ D!Current(d) \in domains /\ D!Current(d).id = d.id
           /\ \A e \in domains : e.id = d.id => e = D!Current(d)
  BY DEF D!TypeOK, D!Exists, D!Current

\* The rows after a repoint: the current one is replaced.
LEMMA RepointedRow ==
    ASSUME D!TypeOK, NEW a \in Askers, D!CommitRepoint(a)
    PROVE  /\ ask[a].kind = "repoint" /\ ask[a].old \in D!DomainRow /\ ask[a].row \in D!DomainRow
           /\ \E now, new \in D!DomainRow :
                /\ now \in domains /\ now.id = ask[a].old.id
                /\ domains' = (domains \ {now}) \cup {new}
                /\ new.id = now.id /\ new.of = now.of
                /\ new.verified => (ask[a].row.verified \/ (now.verified /\ ~ask[a].old.verified))
                /\ D!HostFree(new)
<1>1. ask[a].kind = "repoint" /\ ask[a].old \in D!DomainRow /\ ask[a].row \in D!DomainRow
  BY AskedKinds DEF D!CommitRepoint, OldKinds
<1> DEFINE old == ask[a].old
           now == D!Current(old)
           host == IF ask[a].row.host = old.host THEN now.host ELSE ask[a].row.host
           verified == IF ask[a].row.verified = old.verified THEN now.verified
                       ELSE ask[a].row.verified
           new == [now EXCEPT !.host = host, !.token = ask[a].row.token, !.verified = verified]
<1>2. now \in domains /\ now.id = old.id
  BY CurrentIsARow DEF D!CommitRepoint
<1>3. now \in D!DomainRow
  BY <1>2 DEF D!TypeOK
<1>4. domains' = (domains \ {now}) \cup {new} /\ D!HostFree(new)
  BY DEF D!CommitRepoint
<1> HIDE DEF now
<1>5. host \in Hosts /\ ask[a].row.token \in 1..MaxTokens
  BY <1>1, <1>3 DEF D!DomainRow
<1>6. verified \in BOOLEAN
  BY <1>1, <1>3 DEF D!DomainRow
<1>7. verified => (ask[a].row.verified \/ (now.verified /\ ~ask[a].old.verified))
  BY <1>1, <1>3 DEF D!DomainRow
<1> HIDE DEF host, verified
<1>8. new \in D!DomainRow /\ new.id = now.id /\ new.of = now.of /\ new.verified = verified
  BY <1>3, <1>5, <1>6 DEF D!DomainRow
<1> HIDE DEF new
<1> QED  BY <1>1, <1>2, <1>3, <1>4, <1>7, <1>8

\* The rows after a verification: none changes, or one becomes verified.
LEMMA VerifiedRow ==
    ASSUME D!TypeOK, NEW a \in Askers, D!CommitVerify(a)
    PROVE  /\ ask[a].kind = "found" /\ ask[a].old \in D!DomainRow
           /\ \/ domains' = domains
              \/ \E now, new \in D!DomainRow :
                   /\ now \in domains /\ now.id = ask[a].old.id
                   /\ domains' = (domains \ {now}) \cup {new}
                   /\ new.id = now.id /\ new.of = now.of
                   /\ new.host = now.host /\ new.token = now.token
<1>1. ask[a].kind = "found" /\ ask[a].old \in D!DomainRow
  BY AskedKinds DEF D!CommitVerify, OldKinds
<1>2. CASE ask[a].old.verified
  BY <1>1, <1>2 DEF D!CommitVerify
<1>3. CASE ~ask[a].old.verified
  <2> DEFINE now == D!Current(ask[a].old)
             new == [now EXCEPT !.verified = TRUE]
  <2>1. now \in domains /\ now.id = ask[a].old.id
    BY <1>3, CurrentIsARow DEF D!CommitVerify
  <2>2. now \in D!DomainRow
    BY <2>1 DEF D!TypeOK
  <2>3. domains' = (domains \ {now}) \cup {new}
    BY <1>3 DEF D!CommitVerify
  <2> HIDE DEF now
  <2>4. /\ new \in D!DomainRow /\ new.id = now.id /\ new.of = now.of
        /\ new.host = now.host /\ new.token = now.token
    BY <2>2 DEF D!DomainRow
  <2> HIDE DEF new
  <2> QED  BY <1>1, <2>1, <2>2, <2>3, <2>4
<1> QED  BY <1>2, <1>3
Inv == D!TypeOK /\ FreshIds /\ ProofInv /\ SingleInv

\* A request that ends and leaves the rows as they are.
LEMMA AskEnds ==
    ASSUME Inv, NEW a \in Askers, D!Answer(a, D!Idle),
           UNCHANGED <<domains, drawn, txt, proved, raced, doubled>>
    PROVE  Inv'
<1> USE DEF Inv
<1>1. /\ ask'[a] = D!Idle /\ \A c \in Askers : c # a => ask'[c] = ask[c]
      /\ ask' \in [Askers -> Request]
  BY Asks DEF Request
<1>2. D!Idle.kind = "idle"
  BY DEF D!Idle
<1>3. D!TypeOK'
  BY <1>1 DEF D!TypeOK, Request
<1>4. FreshIds'
  BY <1>1, <1>2 DEF FreshIds, OldKinds
<1>5. ProofInv'
  BY <1>1, <1>2 DEF ProofInv, UntouchedInv, FoundInv, D!VerifiedIsProved, Unverified
<1>6. SingleInv'
  BY <1>1, <1>2 DEF SingleInv
<1> QED  BY <1>3, <1>4, <1>5, <1>6

-----------------------------------------------------------------------------
(* A connection                                                            *)

LEMMA ConnectKinds ==
    ASSUME MaxTokens \in Nat, D!TypeOK, NEW a \in Askers, NEW b \in Tenants, NEW h \in Hosts,
           D!StartConnect(a, b, h)
    PROVE  /\ drawn' = drawn + 1 /\ drawn' \in 1..MaxTokens
           /\ \/ /\ D!RowsOf(b) = {} /\ raced' = raced
                 /\ ask'[a].kind = "add" /\ ask'[a] \in Request
                 /\ ask'[a].row.id = drawn' /\ ask'[a].row.of = b
                 /\ ask'[a].row.verified = FALSE
              \/ \E d \in domains :
                 /\ ask'[a].kind = "repoint" /\ ask'[a] \in Request
                 /\ ask'[a].old = d /\ ask'[a].row.verified = FALSE
                 /\ raced' = IF \E x \in Askers : D!Verifying(ask[x], d)
                             THEN raced \cup {d.id} ELSE raced
           /\ \A c \in Askers : c # a => ask'[c] = ask[c]
           /\ ask' \in [Askers -> Request]
           /\ UNCHANGED <<domains, txt, proved>>
<1>1. /\ drawn' = drawn + 1 /\ drawn' \in 1..MaxTokens
      /\ UNCHANGED <<domains, txt, proved>>
  BY DEF D!StartConnect, D!TypeOK
<1>2. CASE D!RowsOf(b) = {}
  <2> DEFINE row == [id |-> drawn', of |-> b, host |-> h, token |-> drawn', verified |-> FALSE]
             x == [kind |-> "add", row |-> row]
  <2>1. D!Answer(a, x) /\ raced' = raced
    BY <1>2 DEF D!StartConnect
  <2>2. row \in D!DomainRow
    BY <1>1 DEF D!DomainRow
  <2>3. x \in Request
    BY <2>2 DEF Request
  <2>4. x.kind = "add" /\ x.row.id = drawn' /\ x.row.of = b /\ x.row.verified = FALSE
    OBVIOUS
  <2> HIDE DEF x
  <2> QED  BY <1>1, <1>2, <2>1, <2>3, <2>4, Asks
<1>3. CASE D!RowsOf(b) # {}
  <2>1. PICK d \in D!RowsOf(b) :
          /\ D!Answer(a, [kind |-> "repoint", old |-> d, row |-> D!Repointed(d, h, drawn')])
          /\ raced' = IF \E x \in Askers : D!Verifying(ask[x], d) THEN raced \cup {d.id} ELSE raced
    BY <1>3 DEF D!StartConnect
  <2> DEFINE row == D!Repointed(d, h, drawn')
             x == [kind |-> "repoint", old |-> d, row |-> row]
  <2>2. d \in domains /\ d \in D!DomainRow
    BY DEF D!RowsOf, D!TypeOK
  <2>3. row \in D!DomainRow /\ row.verified = FALSE
    BY <1>1, <2>2 DEF D!DomainRow, D!Repointed
  <2> HIDE DEF row
  <2>4. x \in Request
    BY <2>2, <2>3 DEF Request
  <2>5. x.kind = "repoint" /\ x.old = d /\ x.row.verified = FALSE
    BY <2>3
  <2>6. D!Answer(a, x)
    BY <2>1 DEF row
  <2> HIDE DEF x
  <2> QED  BY <1>1, <2>1, <2>2, <2>4, <2>5, <2>6, Asks
<1> QED  BY <1>2, <1>3

LEMMA Connects ==
    ASSUME MaxTokens \in Nat, Inv, NEW a \in Askers, NEW b \in Tenants, NEW h \in Hosts,
           D!StartConnect(a, b, h)
    PROVE  Inv'
<1> USE DEF Inv
<1>1. /\ drawn' = drawn + 1 /\ drawn' \in 1..MaxTokens
      /\ \A c \in Askers : c # a => ask'[c] = ask[c]
      /\ ask' \in [Askers -> Request]
      /\ UNCHANGED <<domains, txt, proved>>
  BY ConnectKinds
<1>2. ask[a].kind = "idle"
  BY DEF D!StartConnect, D!Idle
<1>3. \A c \in Askers : /\ ask[c].kind = "add" => ask[c].row.id \in Nat
                        /\ ask[c].kind \in OldKinds => ask[c].old.id \in Nat
  BY AskedKinds DEF D!DomainRow
<1>4. drawn \in Nat /\ \A d \in domains : d.id \in 1..MaxTokens
  BY DEF D!TypeOK, D!DomainRow
<1>5. doubled' = IF \E x \in Askers : D!Pointing(ask[x], b) THEN doubled \cup {b} ELSE doubled
  BY DEF D!StartConnect
<1>6. CASE D!RowsOf(b) = {}
  <2>1. /\ raced' = raced
        /\ ask'[a].kind = "add" /\ ask'[a].row.id = drawn' /\ ask'[a].row.of = b
        /\ ask'[a].row.verified = FALSE
    <3>1. ~\E d \in domains : ask'[a].kind = "repoint" /\ ask'[a].old = d
      BY <1>6 DEF D!StartConnect, D!Answer, D!TypeOK
    <3> QED  BY <3>1, ConnectKinds
  <2>2. \A d \in domains : d.of # b
    BY <1>6 DEF D!RowsOf
  <2>3. D!TypeOK'
    BY <1>1, <1>5, <2>1 DEF D!TypeOK, Request
  <2>4. FreshIds'
    BY <1>1, <1>2, <1>3, <1>4, <2>1 DEF FreshIds, OldKinds
  <2>5. ProofInv'
    BY <1>1, <1>2, <2>1 DEF ProofInv, UntouchedInv, FoundInv, D!VerifiedIsProved, Unverified
  <2>6. SingleInv'
    BY <1>1, <1>2, <1>5, <2>1, <2>2 DEF SingleInv, D!Pointing
  <2> QED  BY <2>3, <2>4, <2>5, <2>6
<1>7. CASE D!RowsOf(b) # {}
  <2>1. PICK d \in domains :
          /\ ask'[a].kind = "repoint" /\ ask'[a].old = d /\ ask'[a].row.verified = FALSE
          /\ raced' = IF \E x \in Askers : D!Verifying(ask[x], d) THEN raced \cup {d.id} ELSE raced
    BY <1>7, ConnectKinds
  <2>2. /\ raced \subseteq raced' /\ raced' \subseteq raced \cup {d.id}
        /\ \A c \in Askers : ask[c].kind \in {"verify", "found"} /\ ask[c].old.id = d.id
               => d.id \in raced'
        /\ \A e \in domains : e.id = d.id => e = d
    BY <2>1 DEF D!Verifying, D!TypeOK
  <2>3. D!TypeOK'
    <3>1. raced' \subseteq 1..MaxTokens
      BY <1>4, <2>2 DEF D!TypeOK
    <3> QED  BY <1>1, <1>5, <3>1 DEF D!TypeOK, Request
  <2>4. FreshIds'
    BY <1>1, <1>2, <1>3, <1>4, <2>1 DEF FreshIds, OldKinds
  <2>5. UntouchedInv'
    BY <1>1, <1>2, <2>1, <2>2 DEF ProofInv, UntouchedInv, Unverified
  <2>6. FoundInv' /\ D!VerifiedIsProved'
    BY <1>1, <1>2, <2>1, <2>2 DEF ProofInv, FoundInv, D!VerifiedIsProved
  <2>7. SingleInv'
    BY <1>1, <1>2, <1>5, <2>1 DEF SingleInv
  <2> QED  BY <2>3, <2>4, <2>5, <2>6, <2>7 DEF ProofInv
<1> QED  BY <1>6, <1>7

LEMMA Adds ==
    ASSUME MaxTokens \in Nat, Inv, NEW a \in Askers, D!CommitAdd(a)
    PROVE  Inv'
<1> USE DEF Inv
<1> DEFINE row == ask[a].row
<1>1. ask[a].kind = "add" /\ row \in D!DomainRow
  BY AskedKinds DEF D!CommitAdd
<1>2. /\ domains' = domains \cup {row} /\ D!HostFree(row)
      /\ UNCHANGED <<drawn, txt, proved, raced, doubled>>
  BY DEF D!CommitAdd
<1>3. /\ ask'[a] = D!Idle /\ \A c \in Askers : c # a => ask'[c] = ask[c]
      /\ ask' \in [Askers -> Request]
  BY Asks DEF D!CommitAdd, Request
<1>4. /\ row.id <= drawn /\ \A d \in domains : d.id # row.id
      /\ \A c \in Askers : ask[c].kind \in OldKinds => ask[c].old.id # row.id
      /\ \A c \in Askers : ask[c].kind = "add" /\ c # a => ask[c].row.id # row.id
  BY <1>1 DEF FreshIds
<1>5. row.verified = FALSE
  BY <1>1 DEF ProofInv, UntouchedInv, Unverified
<1>6. ASSUME row.of \notin doubled
      PROVE  /\ \A d \in domains : d.of # row.of
             /\ \A c \in Askers : ask[c].kind = "add" /\ ask[c].row.of = row.of => c = a
  BY <1>1, <1>6 DEF SingleInv, D!DomainRow
<1> HIDE DEF row
<1>7. D!TypeOK'
  <2>1. \A d, e \in domains' : (d.id = e.id \/ d.host = e.host) => d = e
    BY <1>2, <1>4 DEF D!TypeOK, D!HostFree
  <2> QED  BY <1>1, <1>2, <1>3, <2>1 DEF D!TypeOK, Request
<1>8. D!Idle.kind = "idle"
  BY DEF D!Idle
<1>9. FreshIds'
  BY <1>2, <1>3, <1>4, <1>8 DEF FreshIds, OldKinds
<1>10. ProofInv'
  BY <1>2, <1>3, <1>4, <1>5, <1>8
     DEF ProofInv, UntouchedInv, FoundInv, D!VerifiedIsProved, Unverified, OldKinds
<1>11. SingleInv'
  BY <1>2, <1>3, <1>6, <1>8 DEF SingleInv
<1> QED  BY <1>7, <1>9, <1>10, <1>11

LEMMA Repoints ==
    ASSUME MaxTokens \in Nat, Inv, NEW a \in Askers, D!CommitRepoint(a)
    PROVE  Inv'
<1> USE DEF Inv
<1>1. PICK now, new \in D!DomainRow :
        /\ now \in domains /\ now.id = ask[a].old.id
        /\ domains' = (domains \ {now}) \cup {new}
        /\ new.id = now.id /\ new.of = now.of
        /\ new.verified => (ask[a].row.verified \/ (now.verified /\ ~ask[a].old.verified))
        /\ D!HostFree(new)
  BY RepointedRow
<1>2. ask[a].kind = "repoint"
  BY DEF D!CommitRepoint
<1>3. /\ ask'[a] = D!Idle /\ \A c \in Askers : c # a => ask'[c] = ask[c]
      /\ ask' \in [Askers -> Request]
      /\ UNCHANGED <<drawn, txt, proved, raced, doubled>>
  BY Asks DEF D!CommitRepoint, Request
<1>4. D!Idle.kind = "idle"
  BY DEF D!Idle
<1>5. \A d \in domains : d.id = new.id => d = now
  BY <1>1 DEF D!TypeOK
<1>6. D!TypeOK'
  <2>1. \A d, e \in domains' : (d.id = e.id \/ d.host = e.host) => d = e
    BY <1>1, <1>5 DEF D!TypeOK, D!HostFree
  <2> QED  BY <1>1, <1>3, <2>1 DEF D!TypeOK, Request
<1>7. FreshIds'
  BY <1>1, <1>3, <1>4 DEF FreshIds, OldKinds
<1>8. new.id \notin raced => ~new.verified
  BY <1>1, <1>2 DEF ProofInv, UntouchedInv, Unverified
<1>9. \A c \in Askers : ask[c].kind \in {"verify", "found"} /\ ask[c].old.id = new.id
          => new.id \in raced
  BY <1>1, <1>2 DEF ProofInv, UntouchedInv
<1>10. ProofInv'
  BY <1>1, <1>3, <1>4, <1>8, <1>9
     DEF ProofInv, UntouchedInv, FoundInv, D!VerifiedIsProved, Unverified
<1>11. SingleInv'
  BY <1>1, <1>3, <1>4 DEF SingleInv
<1> QED  BY <1>6, <1>7, <1>10, <1>11

-----------------------------------------------------------------------------
(* A verification                                                          *)

LEMMA VerifyStarts ==
    ASSUME MaxTokens \in Nat, Inv, NEW a \in Askers, NEW d \in domains, D!StartVerify(a, d)
    PROVE  Inv'
<1> USE DEF Inv
<1> DEFINE x == [kind |-> "verify", old |-> d]
<1>1. d \in D!DomainRow
  BY DEF D!TypeOK
<1>2. x \in Request
  BY <1>1 DEF Request
<1>3. x.kind = "verify" /\ x.old = d
  OBVIOUS
<1>4. D!Answer(a, x) /\ ask[a].kind = "idle" /\ UNCHANGED <<domains, drawn, txt, proved, doubled>>
  BY DEF D!StartVerify, D!Idle
<1>5. raced' = IF \E c \in Askers : ask[c].kind = "repoint" /\ ask[c].old.id = d.id
               THEN raced \cup {d.id} ELSE raced
  BY DEF D!StartVerify
<1> HIDE DEF x
<1>6. /\ ask'[a] = x /\ \A c \in Askers : c # a => ask'[c] = ask[c]
      /\ ask' \in [Askers -> Request]
  BY <1>2, <1>4, Asks
<1>7. D!TypeOK'
  BY <1>1, <1>4, <1>5, <1>6 DEF D!TypeOK, Request, D!DomainRow
<1>8. FreshIds'
  BY <1>3, <1>4, <1>6 DEF FreshIds, OldKinds
<1>9. ProofInv'
  BY <1>3, <1>4, <1>5, <1>6
     DEF ProofInv, UntouchedInv, FoundInv, D!VerifiedIsProved, Unverified, D!TypeOK
<1>10. SingleInv'
  BY <1>3, <1>4, <1>6 DEF SingleInv
<1> QED  BY <1>7, <1>8, <1>9, <1>10

LEMMA LooksUp ==
    ASSUME MaxTokens \in Nat, Inv, NEW a \in Askers, D!LookUp(a)
    PROVE  Inv'
<1> USE DEF Inv
<1>1. ask[a].kind = "verify" /\ ask[a].old \in D!DomainRow
  BY AskedKinds DEF D!LookUp, OldKinds
<1>2. ask[a] = [kind |-> "verify", old |-> ask[a].old]
  BY <1>1, AskedKinds DEF Request, D!Idle
<1> DEFINE x == [kind |-> "found", old |-> ask[a].old]
<1>3. UNCHANGED <<domains, drawn, txt, raced, doubled>>
  BY DEF D!LookUp
<1>4. CASE txt[ask[a].old.host] = ask[a].old.token
  <2>1. /\ D!Answer(a, [ask[a] EXCEPT !.kind = "found"])
        /\ proved' = proved \cup {<<ask[a].old.host, ask[a].old.token>>}
    BY <1>4 DEF D!LookUp
  <2>2. [ask[a] EXCEPT !.kind = "found"] = x
    BY <1>2
  <2>3. x \in Request
    BY <1>1 DEF Request
  <2>4. x.kind = "found" /\ x.old = ask[a].old
    OBVIOUS
  <2>5. D!Answer(a, x)
    BY <2>1, <2>2
  <2> HIDE DEF x
  <2>6. /\ ask'[a] = x /\ \A c \in Askers : c # a => ask'[c] = ask[c]
        /\ ask' \in [Askers -> Request]
    BY <2>3, <2>5, Asks
  <2>7. D!TypeOK'
    BY <1>1, <1>3, <2>1, <2>6 DEF D!TypeOK, Request, D!DomainRow
  <2>8. FreshIds'
    BY <1>1, <1>3, <2>4, <2>6 DEF FreshIds, OldKinds
  <2>9. ProofInv'
    BY <1>1, <1>3, <2>1, <2>4, <2>6
       DEF ProofInv, UntouchedInv, FoundInv, D!VerifiedIsProved, Unverified
  <2>10. SingleInv'
    BY <1>1, <1>3, <2>4, <2>6 DEF SingleInv
  <2> QED  BY <2>7, <2>8, <2>9, <2>10
<1>5. CASE txt[ask[a].old.host] # ask[a].old.token
  <2>1. D!Answer(a, D!Idle) /\ proved' = proved
    BY <1>5 DEF D!LookUp
  <2> QED  BY <1>3, <2>1, AskEnds
<1> QED  BY <1>4, <1>5

LEMMA Verifies ==
    ASSUME MaxTokens \in Nat, Inv, NEW a \in Askers, D!CommitVerify(a)
    PROVE  Inv'
<1> USE DEF Inv
<1>1. ask[a].kind = "found" /\ ask[a].old \in D!DomainRow
  BY VerifiedRow
<1>2. D!Answer(a, D!Idle) /\ UNCHANGED <<drawn, txt, proved, raced, doubled>>
  BY DEF D!CommitVerify
<1>3. CASE domains' = domains
  BY <1>2, <1>3, AskEnds
<1>4. CASE domains' # domains
  <2>1. PICK now, new \in D!DomainRow :
          /\ now \in domains /\ now.id = ask[a].old.id
          /\ domains' = (domains \ {now}) \cup {new}
          /\ new.id = now.id /\ new.of = now.of
          /\ new.host = now.host /\ new.token = now.token
    BY <1>4, VerifiedRow
  <2>2. /\ ask'[a] = D!Idle /\ \A c \in Askers : c # a => ask'[c] = ask[c]
        /\ ask' \in [Askers -> Request]
    BY <1>2, Asks DEF Request
  <2>3. D!Idle.kind = "idle"
    BY DEF D!Idle
  <2>4. \A d \in domains : d.id = new.id \/ d.host = new.host => d = now
    BY <2>1 DEF D!TypeOK
  <2>5. D!TypeOK'
    <3>1. \A d, e \in domains' : (d.id = e.id \/ d.host = e.host) => d = e
      BY <2>1, <2>4 DEF D!TypeOK
    <3> QED  BY <1>2, <2>1, <2>2, <3>1 DEF D!TypeOK, Request
  <2>6. FreshIds'
    BY <1>2, <2>1, <2>2, <2>3 DEF FreshIds, OldKinds
  <2>7. new.id \notin raced => <<new.host, new.token>> \in proved
    BY <1>1, <2>1 DEF ProofInv, UntouchedInv, FoundInv
  <2>8. \A c \in Askers : ask[c].kind = "repoint" /\ ask[c].old.id = new.id => new.id \in raced
    BY <1>1, <2>1 DEF ProofInv, UntouchedInv
  <2>9. ProofInv'
    BY <1>2, <2>1, <2>2, <2>3, <2>7, <2>8
       DEF ProofInv, UntouchedInv, FoundInv, D!VerifiedIsProved, Unverified
  <2>10. SingleInv'
    BY <1>2, <2>1, <2>2, <2>3 DEF SingleInv
  <2> QED  BY <2>5, <2>6, <2>9, <2>10
<1> QED  BY <1>3, <1>4
-----------------------------------------------------------------------------
(* The rest                                                                *)

LEMMA DisconnectStarts ==
    ASSUME MaxTokens \in Nat, Inv, NEW a \in Askers, NEW d \in domains, D!StartDisconnect(a, d)
    PROVE  Inv'
<1> USE DEF Inv
<1> DEFINE x == [kind |-> "drop", old |-> d]
<1>1. d \in D!DomainRow
  BY DEF D!TypeOK
<1>2. x \in Request
  BY <1>1 DEF Request
<1>3. x.kind = "drop" /\ x.old = d
  OBVIOUS
<1>4. D!Answer(a, x) /\ ask[a].kind = "idle"
      /\ UNCHANGED <<domains, drawn, txt, proved, raced, doubled>>
  BY DEF D!StartDisconnect, D!Idle
<1> HIDE DEF x
<1>5. /\ ask'[a] = x /\ \A c \in Askers : c # a => ask'[c] = ask[c]
      /\ ask' \in [Askers -> Request]
  BY <1>2, <1>4, Asks
<1>6. D!TypeOK'
  BY <1>4, <1>5 DEF D!TypeOK, Request
<1>7. FreshIds'
  BY <1>3, <1>4, <1>5 DEF FreshIds, OldKinds
<1>8. ProofInv'
  BY <1>3, <1>4, <1>5 DEF ProofInv, UntouchedInv, FoundInv, D!VerifiedIsProved, Unverified
<1>9. SingleInv'
  BY <1>3, <1>4, <1>5 DEF SingleInv
<1> QED  BY <1>6, <1>7, <1>8, <1>9

LEMMA Disconnects ==
    ASSUME MaxTokens \in Nat, Inv, NEW a \in Askers, D!CommitDisconnect(a)
    PROVE  Inv'
<1> USE DEF Inv
<1>1. /\ domains' \subseteq domains
      /\ UNCHANGED <<drawn, txt, proved, raced, doubled>>
  BY DEF D!CommitDisconnect
<1>2. /\ ask'[a] = D!Idle /\ \A c \in Askers : c # a => ask'[c] = ask[c]
      /\ ask' \in [Askers -> Request]
  BY Asks DEF D!CommitDisconnect, Request
<1>3. D!Idle.kind = "idle"
  BY DEF D!Idle
<1>4. D!TypeOK'
  BY <1>1, <1>2 DEF D!TypeOK, Request
<1>5. FreshIds'
  BY <1>1, <1>2, <1>3 DEF FreshIds, OldKinds
<1>6. ProofInv'
  BY <1>1, <1>2, <1>3
     DEF ProofInv, UntouchedInv, FoundInv, D!VerifiedIsProved, Unverified
<1>7. SingleInv'
  BY <1>1, <1>2, <1>3 DEF SingleInv
<1> QED  BY <1>4, <1>5, <1>6, <1>7

LEMMA Publishes ==
    ASSUME Inv, (\E h \in Hosts, t \in 0..MaxTokens : D!Publish(h, t)) \/ UNCHANGED D!vars
    PROVE  Inv'
<1>1. UNCHANGED <<domains, drawn, ask, proved, raced, doubled>>
  BY DEF D!Publish, D!vars
<1>2. txt' \in [Hosts -> 0..MaxTokens]
  BY DEF Inv, D!TypeOK, D!Publish, D!vars
<1>3. D!TypeOK'
  BY <1>1, <1>2 DEF Inv, D!TypeOK
<1> QED  BY <1>1, <1>3 DEF Inv, FreshIds, ProofInv, UntouchedInv, FoundInv, D!VerifiedIsProved,
                          Unverified, SingleInv

-----------------------------------------------------------------------------
LEMMA Steps ==
    ASSUME MaxTokens \in Nat, Inv, [D!Next]_D!vars
    PROVE  Inv'
<1>1. CASE \E a \in Askers, b \in Tenants, h \in Hosts : D!StartConnect(a, b, h)
  BY <1>1, Connects
<1>2. CASE \E a \in Askers : D!CommitAdd(a)
  BY <1>2, Adds
<1>3. CASE \E a \in Askers : D!CommitRepoint(a)
  BY <1>3, Repoints
<1>4. CASE \E a \in Askers, d \in domains : D!StartVerify(a, d)
  BY <1>4, VerifyStarts
<1>5. CASE \E a \in Askers : D!LookUp(a)
  BY <1>5, LooksUp
<1>6. CASE \E a \in Askers : D!CommitVerify(a)
  BY <1>6, Verifies
<1>7. CASE \E a \in Askers, d \in domains : D!StartDisconnect(a, d)
  BY <1>7, DisconnectStarts
<1>8. CASE \E a \in Askers : D!CommitDisconnect(a)
  BY <1>8, Disconnects
<1>9. CASE \E a \in Askers : D!Fail(a)
  BY <1>9, AskEnds DEF D!Fail
<1>10. CASE (\E h \in Hosts, t \in 0..MaxTokens : D!Publish(h, t)) \/ UNCHANGED D!vars
  BY <1>10, Publishes
<1> QED  BY <1>1, <1>2, <1>3, <1>4, <1>5, <1>6, <1>7, <1>8, <1>9, <1>10 DEF D!Next

LEMMA InvHolds ==
    ASSUME MaxTokens \in Nat
    PROVE  D!Spec => []Inv
<1>1. ASSUME D!Init
      PROVE  Inv
  <2>1. D!TypeOK
    BY <1>1 DEF D!Init, D!TypeOK
  <2>2. \A a \in Askers : ask[a].kind = "idle"
    BY <1>1 DEF D!Init, D!Idle
  <2>3. FreshIds /\ ProofInv /\ SingleInv
    BY <1>1, <2>2 DEF D!Init, FreshIds, OldKinds, ProofInv, UntouchedInv, FoundInv,
                      D!VerifiedIsProved, Unverified, SingleInv
  <2> QED  BY <2>1, <2>3 DEF Inv
<1> QED  BY <1>1, Steps, PTL DEF D!Spec

\* The rows of domains, the records and the requests keep their kinds.
THEOREM DomainsTyped ==
    ASSUME MaxTokens \in Nat
    PROVE  D!Spec => []D!TypeOK
<1>1. Inv => D!TypeOK
  BY DEF Inv
<1> QED  BY <1>1, InvHolds, PTL

\* A verified row is one whose TXT record a lookup found to hold its token,
\* unless the row was pointed elsewhere during a verification (verify_domain
\* reads, looks up and writes back only the column verified).
THEOREM VerificationIsProved ==
    ASSUME MaxTokens \in Nat
    PROVE  D!Spec => []VerifiedIsProved
<1>1. Inv => VerifiedIsProved
  BY DEF Inv, ProofInv, VerifiedIsProved
<1> QED  BY <1>1, InvHolds, PTL

\* A business whose connections do not overlap has one domain (connect_domain,
\* _get_domain).
THEOREM OneDomain ==
    ASSUME MaxTokens \in Nat
    PROVE  D!Spec => []D!OneDomainEach
<1>1. ASSUME Inv, NEW b \in Tenants \ doubled
      PROVE  Cardinality(D!RowsOf(b)) <= 1
  <2>1. CASE D!RowsOf(b) = {}
    BY <2>1, FS_EmptySet
  <2>2. CASE D!RowsOf(b) # {}
    <3>1. PICK d \in D!RowsOf(b) : TRUE
      BY <2>2
    <3>2. D!RowsOf(b) = {d}
      BY <1>1 DEF Inv, SingleInv, D!RowsOf
    <3> QED  BY <3>2, FS_Singleton
  <2> QED  BY <2>1, <2>2
<1>2. Inv => D!OneDomainEach
  BY <1>1, DomainsCardinality DEF D!OneDomainEach
<1> QED  BY <1>2, InvHolds, PTL

-----------------------------------------------------------------------------
(* The marketplace: the cap on deployed agents                             *)

LEMMA MarketCalls ==
    /\ M!Idle \in M!Calls /\ M!Idle.kind = "idle"
    /\ \A x \in M!Calls : x.kind \in {"trial", "unlock"} => x.on \in M!Pair /\ x.new \in BOOLEAN
    /\ \A x \in M!Calls : x.kind = "unlock" => x.id \in 1..MaxPurchases
    /\ \A x \in M!Calls : x.kind = "review" =>
          x.review \in M!Review /\ x.counted \in SUBSET M!Review
    /\ \A p \in M!Pair, n \in BOOLEAN : [kind |-> "trial", on |-> p, new |-> n] \in M!Calls
    /\ \A p \in M!Pair, n \in BOOLEAN, i \in 1..MaxPurchases :
          [kind |-> "unlock", on |-> p, new |-> n, id |-> i] \in M!Calls
    /\ \A x \in M!Review, s \in SUBSET M!Review :
          [kind |-> "review", review |-> x, counted |-> s] \in M!Calls
  BY DEF M!Idle, M!Calls

LEMMA MarketPairs ==
    /\ \A p \in M!Pair : p.agent \in Agents /\ p.of \in Shops
    /\ \A p \in M!Pair, s \in Ratings : [agent |-> p.agent, of |-> p.of, stars |-> s] \in M!Review
    /\ \A p \in M!Pair, k \in {"trial", "unlock"} :
          [agent |-> p.agent, of |-> p.of, by |-> k] \in M!Deployment
    /\ \A x \in M!Review : x.agent \in Agents
  BY DEF M!Pair, M!Review, M!Deployment

\* The unlock takes the number of its purchase, which the bound lets be.
LEMMA MarketNumbers ==
    ASSUME M!SoundConstants, M!TypeOK
    PROVE  /\ 0 \in 0..MaxPurchases
           /\ bought < MaxPurchases => bought + 1 \in 0..MaxPurchases
           /\ bought < MaxPurchases => bought + 1 \in 1..MaxPurchases
  BY DEF M!SoundConstants, M!TypeOK

LEMMA MarketInit == ASSUME M!SoundConstants, M!Init PROVE M!TypeOK
<1>1. 0 \in 0..MaxPurchases
  BY DEF M!SoundConstants
<1> QED  BY <1>1, MarketCalls DEF M!Init, M!TypeOK

LEMMA Deploys ==
    ASSUME M!TypeOK, NEW x \in M!Calls, x.kind \in {"trial", "unlock"}, M!Deploy(x)
    PROVE  /\ deployed' \subseteq M!Deployment
           /\ \A d, e \in deployed' : d.agent = e.agent /\ d.of = e.of => d = e
<1>1. x.on \in M!Pair /\ x.new \in BOOLEAN
  BY MarketCalls
<1> DEFINE new == [agent |-> x.on.agent, of |-> x.on.of, by |-> x.kind]
<1>2. new \in M!Deployment /\ new.agent = x.on.agent /\ new.of = x.on.of
  BY <1>1, MarketPairs
<1>3. deployed' = IF x.new THEN deployed \cup {new} ELSE deployed
  BY DEF M!Deploy
<1>4. x.new => \A d \in deployed : ~(d.agent = new.agent /\ d.of = new.of)
  BY <1>2 DEF M!Deploy, M!IsDeployed
<1> HIDE DEF new
<1> QED  BY <1>1, <1>2, <1>3, <1>4 DEF M!TypeOK

LEMMA MarketStep == ASSUME M!SoundConstants, M!TypeOK, [M!Next]_M!vars PROVE M!TypeOK'
<1>1. ASSUME NEW a \in Agents, M!PublishAgent(a) PROVE M!TypeOK'
  BY <1>1 DEF M!PublishAgent, M!TypeOK
<1>2. ASSUME NEW a \in Agents, M!Judge(a) PROVE M!TypeOK'
  BY <1>2 DEF M!Judge, M!TypeOK
<1>3. ASSUME NEW c \in Callers, NEW p \in M!Pair, M!StartTrial(c, p) PROVE M!TypeOK'
  <2>1. [kind |-> "trial", on |-> p, new |-> ~M!IsDeployed(p)] \in M!Calls
    <3>1. (~M!IsDeployed(p)) \in BOOLEAN
      BY DEF M!IsDeployed
    <3> QED  BY <3>1, MarketCalls, Zenon
  <2>2. caller' \in [Callers -> M!Calls]
    BY <1>3, <2>1 DEF M!StartTrial, M!Call, M!TypeOK
  <2>3. contended' \subseteq Shops
    BY <1>3, MarketPairs DEF M!StartTrial, M!Contend, M!TypeOK
  <2> QED  BY <1>3, <2>2, <2>3 DEF M!StartTrial, M!TypeOK, M!rows
<1>4. ASSUME NEW c \in Callers, NEW p \in M!Pair, M!StartUnlock(c, p) PROVE M!TypeOK'
  <2>1. bought' \in 0..MaxPurchases /\ bought' \in 1..MaxPurchases
    BY <1>4, MarketNumbers DEF M!StartUnlock
  <2>2. [kind |-> "unlock", on |-> p, new |-> ~M!IsDeployed(p), id |-> bought'] \in M!Calls
    <3>1. (~M!IsDeployed(p)) \in BOOLEAN
      BY DEF M!IsDeployed
    <3> QED  BY <3>1, <2>1, MarketCalls, Zenon
  <2>3. caller' \in [Callers -> M!Calls]
    BY <1>4, <2>2 DEF M!StartUnlock, M!Call, M!TypeOK
  <2>4. contended' \subseteq Shops
    BY <1>4, MarketPairs DEF M!StartUnlock, M!Contend, M!TypeOK
  <2> QED  BY <1>4, <2>1, <2>3, <2>4 DEF M!StartUnlock, M!TypeOK, M!rows
<1>5. ASSUME NEW c \in Callers, M!CommitTrial(c) PROVE M!TypeOK'
  <2>1. caller[c] \in M!Calls /\ caller[c].kind = "trial" /\ caller[c].on \in M!Pair
    BY <1>5, MarketCalls DEF M!CommitTrial, M!TypeOK
  <2>2. caller' \in [Callers -> M!Calls]
    BY <1>5, MarketCalls DEF M!CommitTrial, M!Call, M!TypeOK
  <2>3. /\ deployed' \subseteq M!Deployment
        /\ \A x, d \in deployed' : x.agent = d.agent /\ x.of = d.of => x = d
    BY <1>5, <2>1, Deploys DEF M!CommitTrial
  <2> QED  BY <1>5, <2>1, <2>2, <2>3 DEF M!CommitTrial, M!TypeOK
<1>6. ASSUME NEW c \in Callers, M!CommitUnlock(c) PROVE M!TypeOK'
  <2>1. caller[c] \in M!Calls /\ caller[c].kind = "unlock" /\ caller[c].on \in M!Pair
        /\ caller[c].id \in 1..MaxPurchases
    BY <1>6, MarketCalls DEF M!CommitUnlock, M!TypeOK
  <2>2. caller' \in [Callers -> M!Calls]
    BY <1>6, MarketCalls DEF M!CommitUnlock, M!Call, M!TypeOK
  <2>3. /\ deployed' \subseteq M!Deployment
        /\ \A x, d \in deployed' : x.agent = d.agent /\ x.of = d.of => x = d
    BY <1>6, <2>1, Deploys DEF M!CommitUnlock
  <2>4. unlocks' \subseteq [agent : Agents, of : Shops, id : 1..MaxPurchases]
    BY <1>6, <2>1, MarketPairs DEF M!CommitUnlock, M!TypeOK
  <2> QED  BY <1>6, <2>2, <2>3, <2>4 DEF M!CommitUnlock, M!TypeOK
<1>7. ASSUME NEW c \in Callers, NEW p \in M!Pair, NEW stars \in Ratings, M!StartReview(c, p, stars)
      PROVE  M!TypeOK'
  <2> DEFINE x == [agent |-> p.agent, of |-> p.of, stars |-> stars]
  <2>1. x \in M!Review
    BY MarketPairs
  <2>2. M!Counted(x) \in SUBSET M!Review
    BY <2>1 DEF M!Counted, M!ReviewsOf, M!TypeOK
  <2>3. [kind |-> "review", review |-> x, counted |-> M!Counted(x)] \in M!Calls
    BY <2>1, <2>2, MarketCalls, Zenon
  <2>4. caller' \in [Callers -> M!Calls]
    BY <1>7, <2>3 DEF M!StartReview, M!Call, M!TypeOK
  <2> QED  BY <1>7, <2>4 DEF M!StartReview, M!TypeOK, M!rows
<1>8. ASSUME NEW c \in Callers, M!CommitReview(c) PROVE M!TypeOK'
  <2> DEFINE x == caller[c]
  <2>1. x \in M!Calls /\ x.kind = "review" /\ x.review \in M!Review /\ x.counted \in SUBSET M!Review
    BY <1>8, MarketCalls DEF M!CommitReview, M!TypeOK
  <2>2. caller' \in [Callers -> M!Calls]
    BY <1>8, MarketCalls DEF M!CommitReview, M!Call, M!TypeOK
  <2>3. rating' \in [Agents -> SUBSET M!Review]
    BY <1>8, <2>1 DEF M!CommitReview, M!TypeOK
  <2>4. /\ reviews' = reviews \cup {x.review}
        /\ \A y \in reviews : ~(y.agent = x.review.agent /\ y.of = x.review.of)
    BY <1>8 DEF M!CommitReview, M!Reviewed
  <2> HIDE DEF x
  <2>5. /\ reviews' \subseteq M!Review
        /\ \A y, z \in reviews' : y.agent = z.agent /\ y.of = z.of => y = z
    BY <2>1, <2>4 DEF M!TypeOK
  <2> QED  BY <1>8, <2>2, <2>3, <2>5 DEF M!CommitReview, M!TypeOK
<1>9. ASSUME NEW c \in Callers, M!Fail(c) PROVE M!TypeOK'
  BY <1>9, MarketCalls DEF M!Fail, M!Call, M!TypeOK, M!rows
<1>10. CASE UNCHANGED M!vars
  BY <1>10 DEF M!vars, M!TypeOK
<1> QED  BY <1>1, <1>2, <1>3, <1>4, <1>5, <1>6, <1>7, <1>8, <1>9, <1>10 DEF M!Next

\* Every variable of the marketplace keeps its type: one deployment and one
\* review for an agent and a business, which the unique keys are for.
THEOREM MarketTyped == ASSUME M!SoundConstants PROVE M!Spec => []M!TypeOK
<1>1. ASSUME M!Init PROVE M!TypeOK
  BY <1>1, MarketInit
<1>2. ASSUME M!TypeOK, [M!Next]_M!vars PROVE M!TypeOK'
  BY <1>2, MarketStep
<1> QED  BY <1>1, <1>2, PTL DEF M!Spec

-----------------------------------------------------------------------------
At(b) == {d \in deployed : d.of = b}

ByTrial(b) == {d \in deployed : d.of = b /\ d.by = "trial"}

\* Where no two deployments overlapped: one is under way at most, and a trial
\* that will add an agent has found room for it which nothing takes meanwhile.
CapInv ==
    /\ M!IsFiniteSet(deployed)
    /\ \A b \in Shops \ contended : \A c, e \in Callers :
          M!Deploying(c, b) /\ M!Deploying(e, b) => c = e
    /\ \A b \in Shops \ contended : \A c \in Callers :
          M!Deploying(c, b) /\ caller[c].kind = "trial" /\ caller[c].new
          => M!Cardinality(At(b)) < Cap
    /\ \A b \in Shops \ contended : M!Cardinality(ByTrial(b)) <= Cap

LEMMA MarketFew ==
    /\ M!IsFiniteSet({}) /\ M!Cardinality({}) = 0
    /\ \A X, Y : M!IsFiniteSet(X) /\ Y \subseteq X =>
          M!IsFiniteSet(Y) /\ M!Cardinality(Y) <= M!Cardinality(X)
    /\ \A X, x : M!IsFiniteSet(X) =>
          /\ M!IsFiniteSet(X \cup {x})
          /\ M!Cardinality(X) \in Nat
          /\ M!Cardinality(X \cup {x}) <= M!Cardinality(X) + 1
<1>0. \A X : M!Cardinality(X) = Cardinality(X) /\ (M!IsFiniteSet(X) <=> IsFiniteSet(X))
  BY DEF M!Cardinality, Cardinality, M!IsFiniteSet, IsFiniteSet
<1>1. M!IsFiniteSet({}) /\ M!Cardinality({}) = 0
  BY <1>0, FS_EmptySet
<1>2. ASSUME NEW X, NEW Y, M!IsFiniteSet(X), Y \subseteq X
      PROVE  M!IsFiniteSet(Y) /\ M!Cardinality(Y) <= M!Cardinality(X)
  BY <1>0, <1>2, FS_Subset
<1>3. ASSUME NEW X, NEW x, M!IsFiniteSet(X)
      PROVE  /\ M!IsFiniteSet(X \cup {x})
             /\ M!Cardinality(X) \in Nat
             /\ M!Cardinality(X \cup {x}) <= M!Cardinality(X) + 1
  <2>1. M!Cardinality(X) \in Nat
    BY <1>0, <1>3, FS_CardinalityType
  <2>2. M!IsFiniteSet(X \cup {x})
        /\ (M!Cardinality(X \cup {x}) = M!Cardinality(X) \/ M!Cardinality(X \cup {x}) = M!Cardinality(X) + 1)
    BY <1>0, <1>3, FS_AddElement
  <2> QED  BY <2>1, <2>2
<1> QED  BY <1>1, <1>2, <1>3

LEMMA CapInit == ASSUME M!SoundConstants, M!Init PROVE CapInv
<1>1. deployed = {} /\ \A b \in Shops : ByTrial(b) = {}
  BY DEF M!Init, ByTrial
<1>2. \A b \in Shops : M!Cardinality(ByTrial(b)) <= Cap
  <2>1. Cap \in Nat
    BY DEF M!SoundConstants
  <2>2. M!Cardinality({}) = 0
    BY MarketFew
  <2> QED  BY <1>1, <2>1, <2>2
<1>3. \A c \in Callers, b \in Shops : ~M!Deploying(c, b)
  BY MarketCalls DEF M!Init, M!Deploying
<1> QED  BY <1>1, <1>2, <1>3, MarketFew DEF CapInv

\* What deploys nothing and begins no deployment.
LEMMA CapAside ==
    ASSUME CapInv, UNCHANGED <<deployed, contended>>,
           \A c \in Callers : caller'[c] = caller[c] \/ caller'[c].kind \notin {"trial", "unlock"}
    PROVE  CapInv'
<1>1. \A b \in Shops : At(b)' = At(b) /\ ByTrial(b)' = ByTrial(b)
  BY DEF At, ByTrial
<1>2. \A c \in Callers, b \in Shops : M!Deploying(c, b)' => M!Deploying(c, b) /\ caller'[c] = caller[c]
  BY DEF M!Deploying
<1> QED  BY <1>1, <1>2 DEF CapInv

\* A deployment that begins: of another business, or alone, or contended; and a
\* trial that adds an agent has found room.
LEMMA CapBegins ==
    ASSUME CapInv, UNCHANGED deployed, NEW c \in Callers, NEW p \in M!Pair, NEW x,
           M!TypeOK, M!Call(c, x), M!Contend(p.of), x.on = p,
           x.kind = "trial" /\ x.new => M!Room(p.of)
    PROVE  CapInv'
<1>1. \A b \in Shops : At(b)' = At(b) /\ ByTrial(b)' = ByTrial(b)
  BY DEF At, ByTrial
<1>2. /\ caller'[c] = x
      /\ \A e \in Callers : e # c => caller'[e] = caller[e]
  BY DEF M!Call, M!TypeOK
<1>3. \A e \in Callers, b \in Shops : e # c => (M!Deploying(e, b)' <=> M!Deploying(e, b))
  BY <1>2 DEF M!Deploying
<1>4. \A b \in Shops : M!Deploying(c, b)' => b = p.of
  BY <1>2 DEF M!Deploying
<1>5. contended \subseteq contended'
      /\ (p.of \notin contended' => \A e \in Callers : ~M!Deploying(e, p.of))
  BY MarketPairs DEF M!Contend
<1>6. M!Room(p.of) <=> M!Cardinality(At(p.of)) < Cap
  BY DEF M!Room, At
<1>7. M!IsFiniteSet(deployed)'
  BY DEF CapInv
<1>8. \A b \in Shops \ contended' : \A d, e \in Callers :
          M!Deploying(d, b)' /\ M!Deploying(e, b)' => d = e
  BY <1>3, <1>4, <1>5 DEF CapInv
<1>9. \A b \in Shops \ contended' : \A e \in Callers :
          M!Deploying(e, b)' /\ caller'[e].kind = "trial" /\ caller'[e].new
          => M!Cardinality(At(b)) < Cap
  BY <1>2, <1>3, <1>4, <1>5, <1>6 DEF CapInv
<1> QED  BY <1>1, <1>5, <1>7, <1>8, <1>9 DEF CapInv

\* A deployment that is committed.
LEMMA CapCommits ==
    ASSUME CapInv, M!TypeOK, UNCHANGED contended, NEW c \in Callers, M!SoundConstants,
           caller[c].kind \in {"trial", "unlock"}, M!Deploy(caller[c]), M!Call(c, M!Idle)
    PROVE  CapInv'
<1> DEFINE x == caller[c]
           new == [agent |-> x.on.agent, of |-> x.on.of, by |-> x.kind]
<1>1. x \in M!Calls /\ x.on.of \in Shops /\ x.new \in BOOLEAN
  BY MarketCalls, MarketPairs DEF M!TypeOK
<1>2. \A e \in Callers, b \in Shops : M!Deploying(e, b)' =>
          e # c /\ M!Deploying(e, b) /\ caller'[e] = caller[e]
  BY MarketCalls DEF M!Call, M!TypeOK, M!Deploying
<1>3. CASE ~x.new
  <2>1. deployed' = deployed
    BY <1>3 DEF M!Deploy
  <2>2. \A b \in Shops : At(b)' = At(b) /\ ByTrial(b)' = ByTrial(b)
    BY <2>1 DEF At, ByTrial
  <2> QED  BY <1>2, <2>1, <2>2 DEF CapInv
<1>4. CASE x.new
  <2>1. deployed' = deployed \cup {new} /\ new.of = x.on.of /\ new.by = x.kind
    BY <1>4 DEF M!Deploy
  <2> HIDE DEF new
  <2>2. M!IsFiniteSet(deployed)'
    BY <2>1, MarketFew DEF CapInv
  <2>3. \A b \in Shops : M!IsFiniteSet(At(b)) /\ M!Cardinality(At(b)) \in Nat
        /\ ByTrial(b) \subseteq At(b) /\ M!IsFiniteSet(ByTrial(b))
    <3>1. \A b \in Shops : At(b) \subseteq deployed /\ ByTrial(b) \subseteq At(b)
      BY DEF At, ByTrial
    <3> QED  BY <3>1, MarketFew DEF CapInv
  <2>4. \A b \in Shops : b # x.on.of => At(b)' = At(b) /\ ByTrial(b)' = ByTrial(b)
    BY <2>1 DEF At, ByTrial
  <2>5. \A b \in Shops \ contended : b = x.on.of => \A e \in Callers : ~M!Deploying(e, b)'
    BY <1>2 DEF CapInv, M!Deploying
  <2>6. ASSUME NEW b \in Shops, b = x.on.of, b \notin contended
        PROVE  M!Cardinality(ByTrial(b)') <= Cap
    <3>1. CASE x.kind = "trial"
      <4>1. M!Cardinality(At(b)) < Cap
        BY <1>1, <1>4, <2>6, <3>1 DEF CapInv, M!Deploying
      <4>2. ByTrial(b)' \subseteq At(b) \cup {new}
        BY <2>1, <2>6 DEF At, ByTrial
      <4>3. M!Cardinality(ByTrial(b)') <= M!Cardinality(At(b) \cup {new})
        BY <4>2, <1>1, <2>3, MarketFew
      <4>4. M!Cardinality(At(b) \cup {new}) <= M!Cardinality(At(b)) + 1 /\ M!Cardinality(At(b)) \in Nat
        BY <1>1, <2>3, MarketFew
      <4>5. M!Cardinality(ByTrial(b)') \in Nat /\ M!Cardinality(At(b) \cup {new}) \in Nat
        BY <4>2, <1>1, <2>3, MarketFew
      <4> QED  BY <4>1, <4>3, <4>4, <4>5 DEF M!SoundConstants
    <3>2. CASE x.kind # "trial"
      <4>1. ByTrial(b)' = ByTrial(b)
        BY <2>1, <2>6, <3>2 DEF ByTrial
      <4> QED  BY <1>1, <2>6, <4>1 DEF CapInv
    <3> QED  BY <3>1, <3>2
  <2>7. \A b \in Shops \ contended : M!Cardinality(ByTrial(b)') <= Cap
    BY <2>4, <2>6 DEF CapInv
  <2>8. \A b \in Shops \ contended : \A e, d \in Callers :
            M!Deploying(e, b)' /\ M!Deploying(d, b)' => e = d
    BY <1>2 DEF CapInv
  <2>9. \A b \in Shops \ contended : \A e \in Callers :
            M!Deploying(e, b)' /\ caller'[e].kind = "trial" /\ caller'[e].new
            => M!Cardinality(At(b)') < Cap
    BY <1>2, <2>4, <2>5 DEF CapInv
  <2> QED  BY <2>2, <2>7, <2>8, <2>9 DEF CapInv
<1> QED  BY <1>1, <1>3, <1>4

LEMMA CapStep == ASSUME M!SoundConstants, M!TypeOK, CapInv, [M!Next]_M!vars PROVE CapInv'
<1> DEFINE Aside == UNCHANGED <<deployed, contended>> /\ \A c \in Callers :
               caller'[c] = caller[c] \/ caller'[c].kind \notin {"trial", "unlock"}
<1>1. ASSUME NEW a \in Agents, M!PublishAgent(a) \/ M!Judge(a) PROVE Aside
  BY <1>1 DEF M!PublishAgent, M!Judge
<1>2. ASSUME NEW c \in Callers, NEW p \in M!Pair, M!StartTrial(c, p) PROVE CapInv'
  BY <1>2, CapBegins DEF M!StartTrial, M!rows
<1>3. ASSUME NEW c \in Callers, NEW p \in M!Pair, M!StartUnlock(c, p) PROVE CapInv'
  BY <1>3, CapBegins DEF M!StartUnlock, M!rows
<1>4. ASSUME NEW c \in Callers, M!CommitTrial(c) PROVE CapInv'
  BY <1>4, CapCommits DEF M!CommitTrial
<1>5. ASSUME NEW c \in Callers, M!CommitUnlock(c) PROVE CapInv'
  BY <1>5, CapCommits DEF M!CommitUnlock
<1>6. ASSUME NEW c \in Callers, NEW p \in M!Pair, NEW stars \in Ratings, M!StartReview(c, p, stars)
      PROVE  Aside
  <2>1. PICK x : x.kind = "review" /\ M!Call(c, x)
    BY <1>6 DEF M!StartReview
  <2> QED  BY <1>6, <2>1 DEF M!StartReview, M!Call, M!TypeOK, M!rows
<1>7. ASSUME NEW c \in Callers, M!CommitReview(c) \/ M!Fail(c) PROVE Aside
  BY <1>7, MarketCalls DEF M!CommitReview, M!Fail, M!Call, M!TypeOK, M!rows
<1>8. CASE UNCHANGED M!vars
  BY <1>8, CapAside DEF M!vars
<1>9. Aside => CapInv'
  BY CapAside
<1> QED  BY <1>1, <1>2, <1>3, <1>4, <1>5, <1>6, <1>7, <1>8, <1>9 DEF M!Next

\* The open requests that will add an agent to a business by trial.
Trying(b) == {c \in Callers : /\ M!Deploying(c, b)
                              /\ caller[c].kind = "trial" /\ caller[c].new}

\* Who begins a trial has found a place free; those that try beside him are the
\* other requests.
PastInv == \A b \in Shops :
    M!Cardinality(ByTrial(b)) + M!Cardinality(Trying(b)) < Cap + M!Cardinality(Callers)

LEMMA MarketCount ==
    ASSUME M!SoundConstants, CapInv, NEW b \in Shops
    PROVE  /\ M!IsFiniteSet(ByTrial(b)) /\ M!Cardinality(ByTrial(b)) \in Nat
           /\ M!IsFiniteSet(Trying(b)) /\ M!Cardinality(Trying(b)) \in Nat
           /\ M!Cardinality(ByTrial(b)) <= M!Cardinality(At(b)) /\ M!Cardinality(At(b)) \in Nat
           /\ M!Cardinality(Trying(b)) <= M!Cardinality(Callers)
           /\ M!Cardinality(Callers) \in Nat /\ Cap \in Nat
<1>1. M!IsFiniteSet(Callers) /\ M!IsFiniteSet(deployed) /\ Cap \in Nat
  BY DEF M!SoundConstants, CapInv
<1>2. Trying(b) \subseteq Callers /\ At(b) \subseteq deployed /\ ByTrial(b) \subseteq At(b)
  BY DEF Trying, At, ByTrial
<1>3. M!IsFiniteSet(At(b)) /\ M!IsFiniteSet(Trying(b))
  BY <1>1, <1>2, MarketFew
<1>4. M!IsFiniteSet(ByTrial(b))
  BY <1>2, <1>3, MarketFew
<1> QED  BY <1>1, <1>2, <1>3, <1>4, MarketFew

\* One fewer tries when one of them is done.
LEMMA TryingLess ==
    ASSUME NEW X, NEW x \in X, M!IsFiniteSet(X)
    PROVE  M!Cardinality(X \ {x}) + 1 = M!Cardinality(X) /\ M!Cardinality(X \ {x}) \in Nat
<1>0. \A Y : M!Cardinality(Y) = Cardinality(Y) /\ (M!IsFiniteSet(Y) <=> IsFiniteSet(Y))
  BY DEF M!Cardinality, Cardinality, M!IsFiniteSet, IsFiniteSet
<1>1. IsFiniteSet(X)
  BY <1>0
<1>2. IsFiniteSet(X \ {x}) /\ Cardinality(X \ {x}) = Cardinality(X) - 1
  BY <1>1, FS_RemoveElement
<1>3. Cardinality(X) \in Nat /\ Cardinality(X \ {x}) \in Nat
  BY <1>1, <1>2, FS_CardinalityType
<1> QED  BY <1>0, <1>2, <1>3

LEMMA PastInit == ASSUME M!SoundConstants, M!Init, CapInv PROVE PastInv
<1>1. ASSUME NEW b \in Shops PROVE ByTrial(b) = {} /\ Trying(b) = {}
  BY MarketCalls DEF M!Init, ByTrial, Trying, M!Deploying
<1>2. PICK c : c \in Callers
  BY DEF M!SoundConstants
<1>3. M!IsFiniteSet(Callers) /\ M!Cardinality(Callers) \in Nat /\ Cap \in Nat
  BY MarketFew DEF M!SoundConstants
<1>4. M!Cardinality(Callers) >= 1
  <2>1. /\ M!Cardinality(Callers \ {c}) + 1 = M!Cardinality(Callers)
        /\ M!Cardinality(Callers \ {c}) \in Nat
    BY <1>2, <1>3, TryingLess
  <2> QED  BY <1>3, <2>1
<1> QED  BY <1>1, <1>3, <1>4, MarketFew DEF PastInv

\* What deploys nothing by trial and begins no trial that will.
LEMMA PastAside ==
    ASSUME M!SoundConstants, CapInv, CapInv', PastInv, NEW b \in Shops,
           ByTrial(b)' = ByTrial(b), Trying(b)' \subseteq Trying(b)
    PROVE  (M!Cardinality(ByTrial(b)) + M!Cardinality(Trying(b)) < Cap + M!Cardinality(Callers))'
<1> DEFINE t == Trying(b)
           u == Trying(b)'
           n == M!Cardinality(ByTrial(b))
           k == M!Cardinality(Callers)
<1>1. n \in Nat /\ M!Cardinality(t) \in Nat /\ k \in Nat /\ Cap \in Nat /\ M!IsFiniteSet(t)
  BY MarketCount
<1>2. n + M!Cardinality(t) < Cap + k
  BY DEF PastInv
<1>3. u \subseteq t
  OBVIOUS
<1>4. M!Cardinality(u) <= M!Cardinality(t) /\ M!IsFiniteSet(u)
  BY <1>1, <1>3, MarketFew
<1>5. M!Cardinality(u) \in Nat
  BY <1>4, MarketFew
<1>6. M!Cardinality(ByTrial(b))' = n /\ M!Cardinality(Trying(b))' = M!Cardinality(u)
      /\ M!Cardinality(Callers)' = k
  OBVIOUS
<1> HIDE DEF t, u, n, k
<1> QED  BY <1>1, <1>2, <1>4, <1>5, <1>6

LEMMA PastTrial ==
    ASSUME M!SoundConstants, M!TypeOK, CapInv, CapInv', PastInv,
           NEW c \in Callers, NEW p \in M!Pair, M!StartTrial(c, p)
    PROVE  PastInv'
<1> SUFFICES ASSUME NEW b \in Shops
             PROVE  (M!Cardinality(ByTrial(b)) + M!Cardinality(Trying(b)) < Cap + M!Cardinality(Callers))'
  BY DEF PastInv
<1> DEFINE x == [kind |-> "trial", on |-> p, new |-> ~M!IsDeployed(p)]
<1>1. UNCHANGED deployed /\ M!Call(c, x) /\ (x.new => M!Room(p.of)) /\ x.on = p
  BY DEF M!StartTrial, M!rows
<1> HIDE DEF x
<1>2. caller'[c] = x /\ \A e \in Callers : e # c => caller'[e] = caller[e]
  BY <1>1 DEF M!Call, M!TypeOK
<1>3. ByTrial(b)' = ByTrial(b) /\ At(b)' = At(b)
  BY <1>1 DEF ByTrial, At
<1>4. CASE x.new /\ p.of = b
  <2>1. M!Cardinality(At(b)) < Cap
    BY <1>1, <1>4 DEF M!Room, At
  <2> DEFINE n == M!Cardinality(ByTrial(b))
             a == M!Cardinality(At(b))
             t == M!Cardinality(Trying(b))'
             k == M!Cardinality(Callers)
  <2>2. n <= a /\ n \in Nat /\ a \in Nat /\ Cap \in Nat /\ k \in Nat
    BY MarketCount
  <2>3. Trying(b)' \subseteq Callers /\ M!IsFiniteSet(Callers)
    BY DEF Trying, M!SoundConstants
  <2>4. t <= k /\ t \in Nat /\ M!Cardinality(ByTrial(b))' = n /\ M!Cardinality(Callers)' = k
    BY <1>3, <2>3, MarketFew
  <2> HIDE DEF n, a, t, k
  <2>5. n + t < Cap + k
    BY <2>1, <2>2, <2>4 DEF a
  <2> QED  BY <2>4, <2>5 DEF t
<1>5. CASE ~(x.new /\ p.of = b)
  <2>1. Trying(b)' \subseteq Trying(b)
    BY <1>1, <1>2, <1>5 DEF Trying, M!Deploying
  <2> QED  BY <1>3, <2>1, PastAside
<1> QED  BY <1>4, <1>5

\* One more is deployed, one fewer tries.
LEMMA PastCommits ==
    ASSUME M!SoundConstants, M!TypeOK, CapInv, CapInv', PastInv, NEW c \in Callers,
           caller[c].kind \in {"trial", "unlock"}, M!Deploy(caller[c]), M!Call(c, M!Idle)
    PROVE  PastInv'
<1> SUFFICES ASSUME NEW b \in Shops
             PROVE  (M!Cardinality(ByTrial(b)) + M!Cardinality(Trying(b)) < Cap + M!Cardinality(Callers))'
  BY DEF PastInv
<1> DEFINE x == caller[c]
           new == [agent |-> x.on.agent, of |-> x.on.of, by |-> x.kind]
<1>1. \A e \in Callers : M!Deploying(e, b)' => e # c /\ M!Deploying(e, b) /\ caller'[e] = caller[e]
  BY MarketCalls DEF M!Call, M!TypeOK, M!Deploying
<1>2. Trying(b)' \subseteq Trying(b) \ {c}
  BY <1>1 DEF Trying
<1>3. deployed' = deployed \/ (x.new /\ deployed' = deployed \cup {new})
  BY DEF M!Deploy
<1>4. CASE x.new /\ x.kind = "trial" /\ x.on.of = b
  <2> DEFINE n == M!Cardinality(ByTrial(b))
             m == M!Cardinality(ByTrial(b)')
             t == M!Cardinality(Trying(b))
             s == M!Cardinality(Trying(b) \ {c})
             u == M!Cardinality(Trying(b)')
             k == M!Cardinality(Callers)
  <2>1. c \in Trying(b)
    BY <1>4 DEF Trying, M!Deploying
  <2>2. ByTrial(b)' \subseteq ByTrial(b) \cup {new}
    BY <1>3 DEF ByTrial
  <2>3. /\ M!IsFiniteSet(ByTrial(b)) /\ M!IsFiniteSet(Trying(b))
        /\ n \in Nat /\ t \in Nat /\ k \in Nat /\ Cap \in Nat
    BY MarketCount
  <2> HIDE DEF new
  <2>4. M!IsFiniteSet(ByTrial(b) \cup {new}) /\ M!Cardinality(ByTrial(b) \cup {new}) <= n + 1
    BY <2>3, MarketFew
  <2>5. M!IsFiniteSet(ByTrial(b)') /\ m <= M!Cardinality(ByTrial(b) \cup {new})
    BY <2>2, <2>4, MarketFew
  <2>6. M!Cardinality(ByTrial(b) \cup {new}) \in Nat /\ m \in Nat
    BY <2>4, <2>5, MarketFew
  <2>7. s + 1 = t /\ s \in Nat
    BY <2>1, <2>3, TryingLess
  <2>8. M!IsFiniteSet(Trying(b) \ {c})
    BY <2>3, MarketFew
  <2>9. u <= s /\ M!IsFiniteSet(Trying(b)')
    BY <1>2, <2>8, MarketFew
  <2>10. u \in Nat
    BY <2>9, MarketFew
  <2>11. n + t < Cap + k
    BY DEF PastInv
  <2>12. M!Cardinality(ByTrial(b))' = m /\ M!Cardinality(Trying(b))' = u /\ M!Cardinality(Callers)' = k
    OBVIOUS
  <2> HIDE DEF n, m, t, s, u, k
  <2>13. m + u < Cap + k
    BY <2>3, <2>4, <2>5, <2>6, <2>7, <2>9, <2>10, <2>11
  <2> QED  BY <2>12, <2>13
<1>5. CASE ~(x.new /\ x.kind = "trial" /\ x.on.of = b)
  <2>1. ByTrial(b)' = ByTrial(b)
    BY <1>3, <1>5 DEF ByTrial
  <2> QED  BY <1>2, <2>1, PastAside
<1> QED  BY <1>4, <1>5

LEMMA PastStep ==
    ASSUME M!SoundConstants, M!TypeOK, CapInv, CapInv', PastInv, [M!Next]_M!vars
    PROVE  PastInv'
<1> DEFINE Quiet == UNCHANGED deployed /\ \A b \in Shops : Trying(b)' \subseteq Trying(b)
<1>1. ASSUME NEW a \in Agents, M!PublishAgent(a) \/ M!Judge(a) PROVE Quiet
  BY <1>1 DEF M!PublishAgent, M!Judge, Trying, M!Deploying
<1>2. ASSUME NEW c \in Callers, NEW p \in M!Pair, M!StartTrial(c, p) PROVE PastInv'
  BY <1>2, PastTrial
<1>3. ASSUME NEW c \in Callers, NEW x, M!Call(c, x), x.kind # "trial", UNCHANGED deployed PROVE Quiet
  BY <1>3 DEF M!Call, M!TypeOK, Trying, M!Deploying
<1>4. ASSUME NEW c \in Callers, M!CommitTrial(c) PROVE PastInv'
  BY <1>4, PastCommits DEF M!CommitTrial
<1>5. ASSUME NEW c \in Callers, M!CommitUnlock(c) PROVE PastInv'
  BY <1>5, PastCommits DEF M!CommitUnlock
<1>6. ASSUME NEW c \in Callers, NEW p \in M!Pair, M!StartUnlock(c, p) PROVE Quiet
  <2>1. PICK x : x.kind = "unlock" /\ M!Call(c, x)
    BY <1>6 DEF M!StartUnlock
  <2> QED  BY <1>3, <1>6, <2>1 DEF M!StartUnlock, M!rows
<1>7. ASSUME NEW c \in Callers, NEW p \in M!Pair, NEW stars \in Ratings, M!StartReview(c, p, stars)
      PROVE  Quiet
  <2>1. PICK x : x.kind = "review" /\ M!Call(c, x)
    BY <1>7 DEF M!StartReview
  <2> QED  BY <1>3, <1>7, <2>1 DEF M!StartReview, M!rows
<1>8. ASSUME NEW c \in Callers, M!CommitReview(c) \/ M!Fail(c) PROVE Quiet
  BY <1>3, <1>8, MarketCalls DEF M!CommitReview, M!Fail, M!rows
<1>9. ASSUME UNCHANGED M!vars PROVE Quiet
  <2>1. deployed' = deployed /\ caller' = caller
    BY <1>9 DEF M!vars
  <2> QED  BY <2>1 DEF Trying, M!Deploying
<1>10. Quiet => PastInv'
  <2> SUFFICES ASSUME Quiet, NEW b \in Shops
      PROVE  (M!Cardinality(ByTrial(b)) + M!Cardinality(Trying(b)) < Cap + M!Cardinality(Callers))'
    BY DEF PastInv
  <2>1. ByTrial(b)' = ByTrial(b)
    BY DEF ByTrial
  <2> QED  BY <2>1, PastAside
<1> QED  BY <1>1, <1>2, <1>4, <1>5, <1>6, <1>7, <1>8, <1>9, <1>10 DEF M!Next

\* Trials deploy no more agents at a business than the cap unless two of its
\* deployments overlapped, and then at most one fewer past it than there are
\* requests, for any cap and any number of requests, agents and businesses
\* (start_trial).
THEOREM Capped == ASSUME M!SoundConstants PROVE M!Spec => []CapKept
<1>1. ASSUME M!Init PROVE M!TypeOK /\ CapInv /\ PastInv
  BY <1>1, MarketInit, CapInit, PastInit
<1>2. ASSUME M!TypeOK /\ CapInv /\ PastInv, [M!Next]_M!vars PROVE (M!TypeOK /\ CapInv /\ PastInv)'
  BY <1>2, MarketStep, CapStep, PastStep
<1>3. ASSUME CapInv, PastInv PROVE CapKept
  <2>1. ASSUME NEW b \in Shops
        PROVE  /\ M!ByTrial(b) = ByTrial(b)
               /\ b \notin contended => M!Cardinality(ByTrial(b)) <= Cap
               /\ M!Cardinality(ByTrial(b)) < Cap + M!Cardinality(Callers)
    <3> DEFINE n == M!Cardinality(ByTrial(b))
               t == M!Cardinality(Trying(b))
               k == M!Cardinality(Callers)
    <3>1. n \in Nat /\ t \in Nat /\ k \in Nat /\ Cap \in Nat
      BY <1>3, MarketCount
    <3>2. n + t < Cap + k
      BY <1>3 DEF PastInv
    <3> HIDE DEF n, t, k
    <3>3. n < Cap + k
      BY <3>1, <3>2
    <3> QED  BY <1>3, <3>3 DEF CapInv, n, k, M!ByTrial, ByTrial
  <2> QED  BY <2>1 DEF CapKept, M!CapKept
<1> QED  BY <1>1, <1>2, <1>3, PTL DEF M!Spec

-----------------------------------------------------------------------------
(* The storefront: what is saved and what is shown                         *)

LEMMA StoreEdits ==
    /\ \A x \in S!Edit : /\ x.st \in {"read", "dropped"} /\ x.kind \in S!Kinds
                         /\ x.new \in S!Versions /\ x.had \in BOOLEAN
                         /\ x.layout \in [Keys -> S!Versions] /\ x.keys \in SUBSET Keys
                         /\ [x EXCEPT !.st = "dropped"] \in S!Edit
    /\ \A k \in S!Kinds, n \in S!Versions, h \in BOOLEAN, l \in [Keys -> S!Versions], s \in SUBSET Keys :
          [st |-> "read", kind |-> k, new |-> n, had |-> h, layout |-> l, keys |-> s] \in S!Edit
  BY DEF S!Edit

LEMMA StoreSwitches ==
    /\ \A x \in S!Switch : /\ x.st \in {"read", "dropped"} /\ x.kind \in {"suspend", "restore", "delete"}
                           /\ x.was \in {"live", "suspended"}
                           /\ [x EXCEPT !.st = "dropped"] \in S!Switch
    /\ \A k \in {"suspend", "restore", "delete"}, s \in {"live", "suspended"} :
          [st |-> "read", kind |-> k, was |-> s] \in S!Switch
    /\ \A x \in S!Switch : x.kind \notin S!LayoutEdits
    /\ S!Idle.st = "idle"
  BY DEF S!Switch, S!LayoutEdits, S!Idle

LEMMA StoreContent ==
    /\ \A x \in S!Content : /\ x.config \in BOOLEAN /\ x.layout \in [Keys -> S!Versions]
                            /\ x.items \in S!Versions /\ x.site \in S!Versions
                            /\ x.bot \in S!Versions
    /\ \A g \in BOOLEAN, l \in [Keys -> S!Versions], i, j, b \in S!Versions :
          [config |-> g, layout |-> l, items |-> i, site |-> j, bot |-> b] \in S!Content
  BY DEF S!Content

LEMMA StoreShown ==
    ASSUME S!TypeOK, S!SoundConstants, NEW p \in S!Pages
    PROVE  S!Shown(p) \in S!Content
<1>1. 0 \in S!Versions
  BY DEF S!Versions, S!SoundConstants
<1>2. content \in S!Content
  BY DEF S!TypeOK
<1>3. [content EXCEPT !.site = 0] \in S!Content
  BY <1>1, <1>2 DEF S!Content
<1> QED  BY <1>2, <1>3 DEF S!Shown, S!StoreOf, S!PageOf

LEMMA StoreInit == ASSUME S!SoundConstants, S!Init PROVE S!TypeOK
<1>1. 0 \in S!Versions
  BY DEF S!Versions, S!SoundConstants
<1>2. content \in S!Content
  BY <1>1, StoreContent DEF S!Init
<1> QED  BY <1>1, <1>2 DEF S!Init, S!TypeOK

\* What an edit writes.
LEMMA StoreWritten ==
    ASSUME S!TypeOK, NEW x \in S!Edit
    PROVE  /\ S!Written(x) \in S!Content
           /\ [k \in Keys |-> IF k \in x.keys THEN x.new ELSE wanted[k]] \in [Keys -> S!Versions]
<1>1. S!Merged(x.layout, x.keys, x.new) \in [Keys -> S!Versions]
  BY StoreEdits DEF S!Merged
<1>2. (content.config \/ x.keys # {}) \in BOOLEAN
  BY StoreContent DEF S!TypeOK
<1>3. content \in S!Content
  BY DEF S!TypeOK
<1>4. (IF x.keys = {} THEN content.layout ELSE S!Merged(x.layout, x.keys, x.new))
      \in [Keys -> S!Versions]
  BY <1>1, <1>3, StoreContent
<1>5. S!Written(x) \in S!Content
  <2> DEFINE i == IF x.kind \in S!CatalogEdits THEN x.new ELSE content.items
             j == IF x.kind \in S!SiteEdits THEN x.new ELSE content.site
             g == content.config \/ x.keys # {}
             l == IF x.keys = {} THEN content.layout ELSE S!Merged(x.layout, x.keys, x.new)
             b == content.bot
  <2>1. /\ i \in S!Versions /\ j \in S!Versions /\ b \in S!Versions
        /\ g \in BOOLEAN /\ l \in [Keys -> S!Versions]
    BY <1>2, <1>3, <1>4, StoreContent, StoreEdits
  <2>2. S!Written(x) = [config |-> g, layout |-> l, items |-> i, site |-> j, bot |-> b]
    BY DEF S!Written
  <2> HIDE DEF g, i, j, l, b
  <2>3. [config |-> g, layout |-> l, items |-> i, site |-> j, bot |-> b] \in S!Content
    BY <2>1 DEF S!Content
  <2> QED  BY <2>2, <2>3
<1> QED  BY <1>5, StoreEdits DEF S!TypeOK

LEMMA StoreStep == ASSUME S!SoundConstants, S!TypeOK, [S!Next]_S!vars PROVE S!TypeOK'
<1>1. ASSUME NEW e \in Editors, NEW keys \in SUBSET Keys, NEW kind \in S!Kinds, S!StartEdit(e, kind, keys)
      PROVE  S!TypeOK'
  <2>1. edits + 1 \in S!Versions /\ edits' = edits + 1
    BY <1>1 DEF S!StartEdit, S!Versions, S!SoundConstants, S!TypeOK
  <2>2. [st |-> "read", kind |-> kind, new |-> edits + 1, had |-> content.config,
         layout |-> content.layout, keys |-> keys] \in S!Edit
    <3>1. content.config \in BOOLEAN /\ content.layout \in [Keys -> S!Versions]
      BY StoreContent DEF S!TypeOK
    <3> QED  BY <2>1, <3>1, StoreEdits, Zenon
  <2>3. editor' \in [Editors -> {S!Idle} \cup S!Edit \cup S!Switch]
    BY <1>1, <2>2 DEF S!StartEdit, S!TypeOK
  <2>4. overlaid' \in BOOLEAN
    BY <1>1, Zenon DEF S!StartEdit, S!TypeOK
  <2> QED  BY <1>1, <2>1, <2>3, <2>4 DEF S!StartEdit, S!TypeOK, S!rows
<1>2. ASSUME NEW e \in Editors, NEW kind \in {"suspend", "restore", "delete"}, S!StartSwitch(e, kind)
      PROVE  S!TypeOK'
  <2>1. [st |-> "read", kind |-> kind, was |-> status] \in S!Switch
    BY <1>2, StoreSwitches DEF S!StartSwitch, S!TypeOK
  <2>2. editor' \in [Editors -> {S!Idle} \cup S!Edit \cup S!Switch]
    BY <1>2, <2>1 DEF S!StartSwitch, S!TypeOK
  <2> QED  BY <1>2, <2>2 DEF S!StartSwitch, S!TypeOK, S!rows
<1>3. ASSUME NEW e \in Editors, S!Drop(e) PROVE S!TypeOK'
  <2>1. editor[e] \in S!Edit \cup S!Switch
    BY <1>3, StoreSwitches DEF S!Drop, S!TypeOK
  <2>2. [editor[e] EXCEPT !.st = "dropped"] \in S!Edit \cup S!Switch
    BY <2>1, StoreEdits, StoreSwitches
  <2>3. editor' \in [Editors -> {S!Idle} \cup S!Edit \cup S!Switch]
    BY <1>3, <2>2 DEF S!Drop, S!TypeOK
  <2> QED  BY <1>3, <2>3 DEF S!Drop, S!Dropped, S!TypeOK, S!rows
<1>4. ASSUME NEW part \in S!Parts, S!MarkLate(part)
      PROVE  visitor' \in [Visitors -> {S!Idle} \cup S!Copying]
  <2>1. ASSUME NEW v \in Visitors, visitor[v].st = "built"
        PROVE  [visitor[v] EXCEPT !.late = @ \cup {part}] \in S!Copying
    <3>1. visitor[v] \in S!Copying
      BY <2>1, StoreSwitches DEF S!TypeOK
    <3> QED  BY <3>1 DEF S!Copying
  <2> QED  BY <1>4, <2>1 DEF S!MarkLate, S!TypeOK
<1>5. ASSUME NEW e \in Editors, S!CommitEdit(e) PROVE S!TypeOK'
  <2>1. editor[e] \in S!Edit /\ content' = S!Written(editor[e])
        /\ wanted' = [k \in Keys |-> IF k \in editor[e].keys THEN editor[e].new ELSE wanted[k]]
    BY <1>5 DEF S!CommitEdit
  <2>2. content' \in S!Content /\ wanted' \in [Keys -> S!Versions]
    BY <2>1, StoreWritten
  <2>3. editor' \in [Editors -> {S!Idle} \cup S!Edit \cup S!Switch]
    BY <1>5 DEF S!CommitEdit, S!TypeOK
  <2> QED  BY <1>4, <1>5, <2>2, <2>3 DEF S!CommitEdit, S!TypeOK, S!Parts
<1>6. ASSUME NEW e \in Editors, S!CommitSwitch(e) PROVE S!TypeOK'
  <2>1. status' \in {"live", "suspended", "gone"}
    BY <1>6, StoreSwitches DEF S!CommitSwitch, S!TypeOK
  <2>2. editor' \in [Editors -> {S!Idle} \cup S!Edit \cup S!Switch]
    BY <1>6 DEF S!CommitSwitch, S!TypeOK
  <2> QED  BY <1>4, <1>6, <2>1, <2>2 DEF S!CommitSwitch, S!TypeOK, S!Parts
<1>7. ASSUME NEW e \in Editors, S!Fail(e) PROVE S!TypeOK'
  BY <1>7 DEF S!Fail, S!TypeOK, S!rows
<1>8. ASSUME NEW v \in Visitors, NEW p \in S!Pages, S!Build(v, p) PROVE S!TypeOK'
  <2>1. [st |-> "built", page |-> p, copy |-> S!Shown(p), late |-> {}] \in S!Copying
    BY StoreShown DEF S!Copying
  <2>2. visitor' \in [Visitors -> {S!Idle} \cup S!Copying]
    BY <1>8, <2>1 DEF S!Build, S!TypeOK
  <2> QED  BY <1>8, <2>2 DEF S!Build, S!TypeOK, S!rows
<1>9. ASSUME NEW v \in Visitors, S!Fill(v) PROVE S!TypeOK'
  <2>1. visitor[v] \in S!Copying /\ visitor[v].page \in S!Pages /\ visitor[v].copy \in S!Content
    BY <1>9, StoreSwitches DEF S!Fill, S!TypeOK, S!Copying
  <2>2. /\ cache' = [cache EXCEPT ![visitor[v].page] = visitor[v].copy]
        /\ slipped' \subseteq slipped \cup ({visitor[v].page} \X S!Parts)
        /\ visitor' = [visitor EXCEPT ![v] = S!Idle]
    BY <1>9, <2>1 DEF S!Fill, S!Copying, S!Parts
  <2>3. cache' \in [S!Pages -> {S!None} \cup S!Content] /\ slipped' \subseteq S!Pages \X S!Parts
    BY <2>1, <2>2 DEF S!TypeOK
  <2> QED  BY <1>9, <2>2, <2>3 DEF S!Fill, S!TypeOK, S!rows
<1>10. ASSUME NEW p \in S!Pages, S!Expire(p) PROVE S!TypeOK'
  BY <1>10 DEF S!Expire, S!TypeOK, S!rows
<1>11. CASE UNCHANGED S!vars
  BY <1>11 DEF S!vars, S!TypeOK
<1>12. ASSUME S!ChangeBot PROVE S!TypeOK'
  <2>1. edits + 1 \in S!Versions
    BY <1>12 DEF S!ChangeBot, S!Versions, S!SoundConstants, S!TypeOK
  <2>2. content' \in S!Content
    <3>1. content \in S!Content /\ content' = [content EXCEPT !.bot = edits + 1]
      BY <1>12 DEF S!ChangeBot, S!TypeOK
    <3> QED  BY <2>1, <3>1 DEF S!Content
  <2>3. slipped' \subseteq S!Pages \X S!Parts
    BY <1>12 DEF S!ChangeBot, S!TypeOK, S!Parts
  <2> QED  BY <1>4, <1>12, <2>1, <2>2, <2>3 DEF S!ChangeBot, S!TypeOK, S!Parts
<1> QED
  BY <1>1, <1>2, <1>3, <1>5, <1>6, <1>7, <1>8, <1>9, <1>10, <1>11, <1>12 DEF S!Next

\* Every variable of the storefront keeps its type.
THEOREM StorefrontTyped == ASSUME S!SoundConstants PROVE S!Spec => []S!TypeOK
<1>1. ASSUME S!Init PROVE S!TypeOK
  BY <1>1, StoreInit
<1>2. ASSUME S!TypeOK, [S!Next]_S!vars PROVE S!TypeOK'
  BY <1>2, StoreStep
<1> QED  BY <1>1, <1>2, PTL DEF S!Spec

-----------------------------------------------------------------------------
\* An edit has keys if and only if it is one of the layout.  Where no two of
\* those overlapped there is one at most, and the layout it read is the one that
\* is there.
LayoutInv ==
    /\ \A e \in Editors : editor[e] \in S!Edit =>
          (editor[e].keys # {} <=> editor[e].kind \in S!LayoutEdits)
    /\ ~overlaid => \A e, x \in Editors : S!OnLayout(editor[e]) /\ S!OnLayout(editor[x]) => e = x
    /\ ~overlaid => \A e \in Editors : S!OnLayout(editor[e]) => editor[e].layout = content.layout
    /\ NoEditLost

LEMMA LayoutKinds ==
    ASSUME S!TypeOK, NEW e \in Editors, S!OnLayout(editor[e])
    PROVE  editor[e] \in S!Edit
  BY StoreSwitches DEF S!OnLayout, S!TypeOK

LEMMA LayoutInit == ASSUME S!Init PROVE LayoutInv
<1>1. \A e \in Editors : editor[e] = S!Idle /\ S!Idle.st = "idle"
  BY StoreSwitches DEF S!Init
<1>2. S!Idle \notin S!Edit
  BY StoreEdits, StoreSwitches
<1> QED  BY <1>1, <1>2 DEF S!Init, LayoutInv, S!OnLayout, NoEditLost, S!NoEditLost

\* What leaves the layout as it is and begins no edit.
LEMMA LayoutAside ==
    ASSUME S!TypeOK, LayoutInv, UNCHANGED <<content, wanted, overlaid>>, NEW e \in Editors, NEW x,
           editor' = [editor EXCEPT ![e] = x], x.st = "idle" \/ x.kind \notin S!LayoutEdits,
           x \in S!Edit => x.keys = {}
    PROVE  LayoutInv'
<1>1. editor'[e] = x /\ \A d \in Editors : d # e => editor'[d] = editor[d]
  BY DEF S!TypeOK
<1>2. \A d \in Editors : S!OnLayout(editor'[d]) => S!OnLayout(editor[d]) /\ editor'[d] = editor[d]
  BY <1>1 DEF S!OnLayout
<1>3. \A d \in Editors : editor'[d] \in S!Edit =>
          (editor'[d].keys # {} <=> editor'[d].kind \in S!LayoutEdits)
  <2>1. x \in S!Edit => x.st # "idle"
    BY StoreEdits
  <2> QED  BY <1>1, <2>1 DEF LayoutInv
<1>4. NoEditLost'
  BY DEF LayoutInv, NoEditLost, S!NoEditLost
<1> QED  BY <1>2, <1>3, <1>4 DEF LayoutInv

LEMMA LayoutStays ==
    ASSUME LayoutInv, UNCHANGED <<content.layout, wanted, overlaid, editor>>
    PROVE  LayoutInv'
  BY DEF LayoutInv, NoEditLost, S!NoEditLost, S!OnLayout

LEMMA LayoutBegins ==
    ASSUME S!TypeOK, LayoutInv, NEW e \in Editors, NEW keys \in SUBSET Keys, NEW kind \in S!Kinds,
           S!StartEdit(e, kind, keys)
    PROVE  LayoutInv'
<1> DEFINE x == [st |-> "read", kind |-> kind, new |-> edits + 1, had |-> content.config,
                 layout |-> content.layout, keys |-> keys]
<1>1. /\ editor' = [editor EXCEPT ![e] = x]
      /\ x.st = "read" /\ x.kind = kind /\ x.keys = keys /\ x.layout = content.layout
      /\ keys # {} <=> kind \in S!LayoutEdits
      /\ overlaid' = (overlaid \/ (keys # {} /\ \E d \in Editors : S!OnLayout(editor[d])))
      /\ UNCHANGED <<content, wanted>>
  BY DEF S!StartEdit, S!rows
<1> HIDE DEF x
<1>2. editor'[e] = x /\ \A d \in Editors : d # e => editor'[d] = editor[d]
  BY <1>1 DEF S!TypeOK
<1>3. S!OnLayout(x) <=> keys # {}
  BY <1>1 DEF S!OnLayout
<1>4. \A d \in Editors : editor'[d] \in S!Edit =>
          (editor'[d].keys # {} <=> editor'[d].kind \in S!LayoutEdits)
  BY <1>1, <1>2 DEF LayoutInv
<1>5. ASSUME ~overlaid'
      PROVE  /\ ~overlaid
             /\ \A d \in Editors : keys # {} => ~S!OnLayout(editor[d])
  BY <1>1, <1>5
<1>6. ASSUME ~overlaid', NEW d \in Editors, NEW c \in Editors, S!OnLayout(editor'[d]), S!OnLayout(editor'[c])
      PROVE  d = c
  BY <1>2, <1>3, <1>5, <1>6 DEF LayoutInv
<1>7. ASSUME ~overlaid', NEW d \in Editors, S!OnLayout(editor'[d])
      PROVE  editor'[d].layout = content'.layout
  BY <1>1, <1>2, <1>5, <1>7 DEF LayoutInv
<1>8. NoEditLost'
  BY <1>1, <1>5 DEF LayoutInv, NoEditLost, S!NoEditLost
<1> QED  BY <1>4, <1>6, <1>7, <1>8 DEF LayoutInv

LEMMA LayoutDrops ==
    ASSUME S!TypeOK, LayoutInv, NEW e \in Editors, S!Drop(e)
    PROVE  LayoutInv'
<1> DEFINE x == [editor[e] EXCEPT !.st = "dropped"]
<1>1. editor[e] \in S!Edit \cup S!Switch /\ editor[e].st = "read"
  BY StoreSwitches DEF S!Drop, S!TypeOK
<1>2. editor' = [editor EXCEPT ![e] = x] /\ UNCHANGED <<content, wanted, overlaid>>
  BY DEF S!Drop, S!rows
<1>3. CASE editor[e] \in S!Edit
  <2>1. /\ x \in S!Edit /\ x.st = "dropped" /\ x.kind = editor[e].kind
        /\ x.keys = editor[e].keys /\ x.layout = editor[e].layout
    BY <1>3, StoreEdits DEF S!Edit
  <2> HIDE DEF x
  <2>2. editor'[e] = x /\ \A d \in Editors : d # e => editor'[d] = editor[d]
    BY <1>2 DEF S!TypeOK
  <2>3. \A d \in Editors : (S!OnLayout(editor'[d]) <=> S!OnLayout(editor[d]))
                           /\ (S!OnLayout(editor[d]) => editor'[d].layout = editor[d].layout)
    BY <1>1, <2>1, <2>2 DEF S!OnLayout
  <2>4. \A d \in Editors : editor'[d] \in S!Edit =>
            (editor'[d].keys # {} <=> editor'[d].kind \in S!LayoutEdits)
    BY <1>3, <2>1, <2>2 DEF LayoutInv
  <2> QED  BY <1>2, <2>3, <2>4 DEF LayoutInv, NoEditLost, S!NoEditLost
<1>4. CASE editor[e] \in S!Switch /\ editor[e] \notin S!Edit
  <2>1. x \in S!Switch /\ x.kind \notin S!LayoutEdits
    BY <1>4, StoreSwitches
  <2>2. x \notin S!Edit
    <3>1. x.kind = editor[e].kind /\ x.kind \notin S!Kinds
      BY <1>4, <2>1, StoreSwitches DEF S!Switch, S!Kinds, S!LayoutEdits, S!CatalogEdits, S!SiteEdits
    <3> QED  BY <3>1, StoreEdits
  <2> HIDE DEF x
  <2> QED  BY <1>2, <2>1, <2>2, LayoutAside
<1> QED  BY <1>1, <1>3, <1>4

LEMMA LayoutSaved ==
    ASSUME S!TypeOK, LayoutInv, NEW e \in Editors, S!CommitEdit(e)
    PROVE  LayoutInv'
<1> DEFINE x == editor[e]
<1>1. /\ x \in S!Edit /\ x.st = "dropped" /\ x.keys \in SUBSET Keys
      /\ x.layout \in [Keys -> S!Versions]
      /\ x.keys # {} <=> x.kind \in S!LayoutEdits
      /\ content' = S!Written(x)
      /\ wanted' = [k \in Keys |-> IF k \in x.keys THEN x.new ELSE wanted[k]]
      /\ editor' = [editor EXCEPT ![e] = S!Idle] /\ overlaid' = overlaid
  BY StoreEdits DEF S!CommitEdit, LayoutInv
<1>2. content'.layout = IF x.keys = {} THEN content.layout ELSE S!Merged(x.layout, x.keys, x.new)
  BY <1>1 DEF S!Written
<1>3. wanted \in [Keys -> S!Versions] /\ content.layout \in [Keys -> S!Versions]
  BY StoreContent DEF S!TypeOK
<1>4. \A d \in Editors : S!OnLayout(editor'[d]) => d # e /\ S!OnLayout(editor[d]) /\ editor'[d] = editor[d]
  BY <1>1, StoreSwitches DEF S!OnLayout, S!TypeOK
<1>5. \A d \in Editors : editor'[d] \in S!Edit =>
          (editor'[d].keys # {} <=> editor'[d].kind \in S!LayoutEdits)
  <2>1. S!Idle \notin S!Edit
    BY StoreEdits, StoreSwitches
  <2> QED  BY <1>1, <2>1 DEF LayoutInv, S!TypeOK
<1>6. S!OnLayout(x) <=> x.keys # {}
  BY <1>1 DEF S!OnLayout
<1>7. CASE x.keys = {}
  <2>1. content'.layout = content.layout
    BY <1>2, <1>7
  <2>2. wanted' = wanted
    BY <1>1, <1>3, <1>7
  <2>3. NoEditLost'
    BY <1>1, <2>1, <2>2 DEF LayoutInv, NoEditLost, S!NoEditLost
  <2> QED  BY <1>1, <1>4, <1>5, <2>1, <2>3 DEF LayoutInv
<1>8. CASE x.keys # {}
  <2>1. ~overlaid => x.layout = content.layout /\ content.layout = wanted
    BY <1>6, <1>8 DEF LayoutInv, NoEditLost, S!NoEditLost
  <2>2. ~overlaid => content'.layout = wanted'
    BY <1>1, <1>2, <1>8, <2>1 DEF S!Merged
  <2>3. ~overlaid => \A d \in Editors : ~S!OnLayout(editor'[d])
    BY <1>4, <1>6, <1>8 DEF LayoutInv
  <2> QED  BY <1>1, <1>5, <2>2, <2>3 DEF LayoutInv, NoEditLost, S!NoEditLost
<1> QED  BY <1>7, <1>8

LEMMA LayoutStep == ASSUME S!TypeOK, LayoutInv, [S!Next]_S!vars PROVE LayoutInv'
<1>0. S!Idle.st = "idle" /\ S!Idle \notin S!Edit
  BY StoreSwitches, StoreEdits
<1>1. ASSUME NEW e \in Editors, NEW keys \in SUBSET Keys, NEW kind \in S!Kinds, S!StartEdit(e, kind, keys)
      PROVE  LayoutInv'
  BY <1>1, LayoutBegins
<1>2. ASSUME NEW e \in Editors, NEW kind \in {"suspend", "restore", "delete"}, S!StartSwitch(e, kind)
      PROVE  LayoutInv'
  <2> DEFINE x == [st |-> "read", kind |-> kind, was |-> status]
  <2>1. x \in S!Switch
    BY <1>2, StoreSwitches DEF S!StartSwitch, S!TypeOK
  <2>2. x.kind \notin S!LayoutEdits /\ x \notin S!Edit
    <3>1. x.kind \notin S!Kinds
      BY DEF S!Kinds, S!LayoutEdits, S!CatalogEdits, S!SiteEdits
    <3> QED  BY <2>1, <3>1, StoreEdits, StoreSwitches
  <2>3. editor' = [editor EXCEPT ![e] = x] /\ UNCHANGED <<content, wanted, overlaid>>
    BY <1>2 DEF S!StartSwitch, S!rows
  <2> HIDE DEF x
  <2> QED  BY <2>2, <2>3, LayoutAside
<1>3. ASSUME NEW e \in Editors, S!Drop(e) PROVE LayoutInv'
  BY <1>3, LayoutDrops
<1>4. ASSUME NEW e \in Editors, S!CommitEdit(e) PROVE LayoutInv'
  BY <1>4, LayoutSaved
<1>5. ASSUME NEW e \in Editors, S!CommitSwitch(e) \/ S!Fail(e) PROVE LayoutInv'
  <2>1. editor' = [editor EXCEPT ![e] = S!Idle] /\ UNCHANGED <<content, wanted, overlaid>>
    BY <1>5 DEF S!CommitSwitch, S!Fail, S!rows
  <2> QED  BY <1>0, <2>1, LayoutAside
<1>6. ASSUME NEW v \in Visitors, NEW p \in S!Pages, S!Build(v, p) PROVE LayoutInv'
  BY <1>6, LayoutStays DEF S!Build, S!rows
<1>7. CASE UNCHANGED S!vars
  BY <1>7, LayoutStays DEF S!vars
<1>8. ASSUME NEW v \in Visitors, S!Fill(v) PROVE LayoutInv'
  BY <1>8, LayoutStays DEF S!Fill, S!rows
<1>9. ASSUME NEW p \in S!Pages, S!Expire(p) PROVE LayoutInv'
  BY <1>9, LayoutStays DEF S!Expire, S!rows
<1>10. ASSUME S!ChangeBot PROVE LayoutInv'
  <2>1. content' = [content EXCEPT !.bot = edits + 1] /\ content \in S!Content
    BY <1>10 DEF S!ChangeBot, S!TypeOK
  <2>2. content'.layout = content.layout
    BY <2>1 DEF S!Content
  <2> QED  BY <1>10, <2>2, LayoutStays DEF S!ChangeBot
<1> QED  BY <1>1, <1>2, <1>3, <1>4, <1>5, <1>6, <1>7, <1>8, <1>9, <1>10 DEF S!Next

\* What was last saved under a key of the layout is there, for any number of
\* keys and editors, unless two edits of the layout overlapped
\* (update_storefront_config, bootstrap).
THEOREM LayoutKept == ASSUME S!SoundConstants PROVE S!Spec => []NoEditLost
<1>1. ASSUME S!Init PROVE S!TypeOK /\ LayoutInv
  BY <1>1, StoreInit, LayoutInit
<1>2. ASSUME S!TypeOK /\ LayoutInv, [S!Next]_S!vars PROVE (S!TypeOK /\ LayoutInv)'
  BY <1>2, StoreStep, LayoutStep
<1>3. LayoutInv => NoEditLost
  BY DEF LayoutInv
<1> QED  BY <1>1, <1>2, <1>3, PTL DEF S!Spec

-----------------------------------------------------------------------------
\* Between a request's drop and its commit every copy slipped in, and what a
\* visitor has built is what the rows say, but for what was committed since.
BuiltFresh(v) ==
    /\ "rows" \notin visitor[v].late =>
          status = "live" /\ S!SameButBot(visitor[v].copy, S!Shown(visitor[v].page))
    /\ "bot" \notin visitor[v].late => visitor[v].copy.bot = content.bot

CopyFresh(p) ==
    /\ <<p, "rows">> \notin slipped => status = "live" /\ S!SameButBot(cache[p], S!Shown(p))
    /\ <<p, "bot">> \notin slipped => cache[p].bot = content.bot

FreshInv ==
    /\ (\E e \in Editors : editor[e].st = "dropped") =>
          \A p \in S!Pages : <<p, "rows">> \notin slipped => cache[p] = S!None
    /\ \A v \in Visitors : visitor[v].st = "built" => BuiltFresh(v)
    /\ \A p \in S!Pages : cache[p] # S!None => CopyFresh(p)

LEMMA FreshInit == ASSUME S!Init PROVE FreshInv
  BY StoreSwitches DEF S!Init, FreshInv

LEMMA ShownSame ==
    ASSUME UNCHANGED content
    PROVE  \A p : S!Shown(p)' = S!Shown(p)
  BY DEF S!Shown, S!StoreOf, S!PageOf

\* What is shown has the active bot.
LEMMA ShownBot ==
    ASSUME S!SoundConstants, S!TypeOK, NEW p \in S!Pages
    PROVE  S!Shown(p).bot = content.bot
<1>1. content \in S!Content
  BY DEF S!TypeOK
<1> QED  BY <1>1 DEF S!Shown, S!StoreOf, S!PageOf, S!Content

\* What commits nothing, stores nothing and drops nothing.
LEMMA FreshAside ==
    ASSUME FreshInv, UNCHANGED <<status, content, visitor, cache, slipped>>,
           \A e \in Editors : editor'[e].st = "dropped" => editor[e].st = "dropped"
    PROVE  FreshInv'
<1>1. \A p : S!Shown(p)' = S!Shown(p)
  BY ShownSame
<1> QED  BY <1>1 DEF FreshInv, BuiltFresh, CopyFresh, S!SameButBot

\* What a commit leaves of the copies a visitor holds.
LEMMA LateMarks ==
    ASSUME S!TypeOK, NEW part \in S!Parts, S!MarkLate(part), NEW v \in Visitors, visitor'[v].st = "built"
    PROVE  /\ visitor[v].st = "built" /\ visitor'[v].late = visitor[v].late \cup {part}
           /\ visitor'[v].copy = visitor[v].copy /\ visitor'[v].page = visitor[v].page
           /\ visitor[v] \in S!Copying
<1>1. visitor[v].st = "built" /\ visitor'[v] = [visitor[v] EXCEPT !.late = @ \cup {part}]
  BY DEF S!MarkLate
<1>2. visitor[v] \in S!Copying
  BY <1>1, StoreSwitches DEF S!TypeOK
<1> QED  BY <1>1, <1>2 DEF S!Copying

LEMMA FreshCommit ==
    ASSUME S!TypeOK, FreshInv, NEW e \in Editors, editor[e].st = "dropped", S!MarkLate("rows"),
           content'.bot = content.bot, UNCHANGED <<cache, slipped>>
    PROVE  FreshInv'
<1>1. \A p \in S!Pages : <<p, "rows">> \notin slipped => cache[p] = S!None
  BY DEF FreshInv
<1>2. ASSUME NEW v \in Visitors, visitor'[v].st = "built" PROVE BuiltFresh(v)'
  BY <1>2, LateMarks DEF FreshInv, BuiltFresh, S!Parts
<1>3. ASSUME NEW p \in S!Pages, cache'[p] # S!None PROVE CopyFresh(p)'
  BY <1>1, <1>3 DEF FreshInv, CopyFresh
<1> QED  BY <1>1, <1>2, <1>3 DEF FreshInv

LEMMA FreshBot ==
    ASSUME S!SoundConstants, S!TypeOK, FreshInv, S!ChangeBot
    PROVE  FreshInv'
<1>1. /\ content \in S!Content /\ content' = [content EXCEPT !.bot = edits + 1]
      /\ slipped' = slipped \cup ({p \in S!Pages : cache[p] # S!None} \X {"bot"})
      /\ S!MarkLate("bot") /\ UNCHANGED <<status, editor, cache>>
  BY DEF S!ChangeBot, S!TypeOK
<1>2. ASSUME NEW copy, NEW p \in S!Pages, S!SameButBot(copy, S!Shown(p))
      PROVE  S!SameButBot(copy, S!Shown(p)')
  <2>1. S!Shown(p)' = [S!Shown(p) EXCEPT !.bot = edits + 1]
    BY <1>1 DEF S!Shown, S!StoreOf, S!PageOf, S!Content
  <2>2. [S!Shown(p) EXCEPT !.bot = copy.bot] = [S!Shown(p)' EXCEPT !.bot = copy.bot]
    BY <1>1, <2>1 DEF S!Shown, S!StoreOf, S!PageOf, S!Content
  <2> QED  BY <1>2, <2>2 DEF S!SameButBot
<1>3. \A p : <<p, "rows">> \in slipped' <=> <<p, "rows">> \in slipped
  BY <1>1
<1>4. ASSUME NEW v \in Visitors, visitor'[v].st = "built" PROVE BuiltFresh(v)'
  <2>1. /\ visitor[v].st = "built" /\ visitor'[v].late = visitor[v].late \cup {"bot"}
        /\ visitor'[v].copy = visitor[v].copy /\ visitor'[v].page = visitor[v].page
        /\ visitor[v].page \in S!Pages
    BY <1>1, <1>4, LateMarks DEF S!Parts, S!Copying
  <2>2. BuiltFresh(v)
    BY <2>1 DEF FreshInv
  <2>3. S!SameButBot(visitor[v].copy, S!Shown(visitor[v].page)) =>
            S!SameButBot(visitor[v].copy, S!Shown(visitor[v].page)')
    BY <1>2, <2>1
  <2>4. S!SameButBot(visitor[v].copy, S!Shown(visitor[v].page)') <=>
            S!SameButBot(visitor[v].copy, S!Shown(visitor[v].page))'
    BY <2>1 DEF S!SameButBot, S!Shown, S!StoreOf, S!PageOf
  <2> QED  BY <1>1, <2>1, <2>2, <2>3, <2>4 DEF BuiltFresh, S!SameButBot, S!Shown, S!StoreOf, S!PageOf
<1>5. ASSUME NEW p \in S!Pages, cache'[p] # S!None PROVE CopyFresh(p)'
  <2>1. CopyFresh(p) /\ <<p, "bot">> \in slipped'
    BY <1>1, <1>5 DEF FreshInv
  <2> QED  BY <1>1, <1>2, <1>3, <2>1 DEF CopyFresh, S!SameButBot
<1> QED  BY <1>1, <1>3, <1>4, <1>5 DEF FreshInv

LEMMA FreshFill ==
    ASSUME S!SoundConstants, S!TypeOK, FreshInv, NEW v \in Visitors, S!Fill(v)
    PROVE  FreshInv'
<1> DEFINE p == visitor[v].page
           gap == IF \E e \in Editors : editor[e].st = "dropped" THEN {"rows"} ELSE {}
           late == visitor[v].late \cup gap
<1>1. /\ visitor[v].st = "built" /\ visitor[v] \in S!Copying
      /\ cache' = [cache EXCEPT ![p] = visitor[v].copy]
      /\ slipped' = (slipped \ ({p} \X S!Parts)) \cup ({p} \X late)
      /\ visitor' = [visitor EXCEPT ![v] = S!Idle]
      /\ UNCHANGED <<status, content, editor>>
  BY StoreSwitches DEF S!Fill, S!rows, S!TypeOK
<1>2. \A q : S!Shown(q)' = S!Shown(q)
  BY <1>1, ShownSame
<1>3. p \in S!Pages /\ late \subseteq S!Parts
  BY <1>1 DEF S!Copying, S!Parts
<1>4. cache'[p] = visitor[v].copy /\ \A q \in S!Pages : q # p => cache'[q] = cache[q]
  BY <1>1, <1>3 DEF S!TypeOK
<1>5. \A part : <<p, part>> \in slipped' <=> (part \in late \/ (part \notin S!Parts /\ <<p, part>> \in slipped))
  BY <1>1
<1>6. \A q, part : q # p => (<<q, part>> \in slipped' <=> <<q, part>> \in slipped)
  BY <1>1
<1>7. BuiltFresh(v)
  BY <1>1 DEF FreshInv
<1>8. \A u \in Visitors : visitor'[u].st = "built" => visitor'[u] = visitor[u] /\ visitor[u].st = "built"
  BY <1>1, StoreSwitches DEF S!TypeOK
<1>9. (\E e \in Editors : editor[e].st = "dropped") => "rows" \in late
  OBVIOUS
<1>10. ASSUME NEW u \in Visitors, visitor'[u].st = "built" PROVE BuiltFresh(u)'
  BY <1>1, <1>2, <1>8, <1>10 DEF FreshInv, BuiltFresh, S!SameButBot
<1>11. visitor[v].late \subseteq late
  OBVIOUS
<1>12. ASSUME NEW q \in S!Pages, cache'[q] # S!None PROVE CopyFresh(q)'
  <2> HIDE DEF gap, late
  <2>1. CASE q = p
    <3>1. /\ "rows" \notin late => status = "live" /\ S!SameButBot(cache'[p], S!Shown(p))
          /\ "bot" \notin late => cache'[p].bot = content.bot
      BY <1>4, <1>7, <1>11 DEF BuiltFresh
    <3> HIDE DEF p
    <3> QED  BY <1>1, <1>2, <1>5, <2>1, <3>1 DEF CopyFresh, S!SameButBot, S!Parts
  <2>2. CASE q # p
    <3> HIDE DEF p
    <3>1. CopyFresh(q) /\ cache'[q] = cache[q]
      BY <1>4, <1>12, <2>2 DEF FreshInv
    <3> QED  BY <1>1, <1>2, <1>6, <2>2, <3>1 DEF CopyFresh, S!SameButBot
  <2> QED  BY <2>1, <2>2
<1>13. ASSUME \E e \in Editors : editor'[e].st = "dropped", NEW q \in S!Pages, <<q, "rows">> \notin slipped'
       PROVE  cache'[q] = S!None
  <2> HIDE DEF gap, late, p
  <2>1. "rows" \in late /\ \E e \in Editors : editor[e].st = "dropped"
    BY <1>1, <1>9, <1>13
  <2>2. q # p
    BY <1>5, <1>13, <2>1
  <2> QED  BY <1>4, <1>6, <1>13, <2>1, <2>2 DEF FreshInv
<1> QED  BY <1>10, <1>12, <1>13 DEF FreshInv

LEMMA FreshStep == ASSUME S!SoundConstants, S!TypeOK, FreshInv, [S!Next]_S!vars PROVE FreshInv'
<1>1. ASSUME NEW e \in Editors, NEW keys \in SUBSET Keys, NEW kind \in S!Kinds, S!StartEdit(e, kind, keys)
      PROVE  FreshInv'
  <2>1. UNCHANGED <<status, content, visitor, cache, slipped>>
    BY <1>1 DEF S!StartEdit, S!rows
  <2>2. \A d \in Editors : editor'[d].st = "dropped" => editor[d].st = "dropped"
    BY <1>1 DEF S!StartEdit, S!TypeOK
  <2> QED  BY <2>1, <2>2, FreshAside
<1>2. ASSUME NEW e \in Editors, NEW kind \in {"suspend", "restore", "delete"}, S!StartSwitch(e, kind)
      PROVE  FreshInv'
  <2>1. UNCHANGED <<status, content, visitor, cache, slipped>>
    BY <1>2 DEF S!StartSwitch, S!rows
  <2>2. \A d \in Editors : editor'[d].st = "dropped" => editor[d].st = "dropped"
    BY <1>2 DEF S!StartSwitch, S!TypeOK
  <2> QED  BY <2>1, <2>2, FreshAside
<1>3. ASSUME NEW e \in Editors, S!Drop(e) PROVE FreshInv'
  <2>1. \A p \in S!Pages : cache'[p] = S!None
    BY <1>3 DEF S!Drop, S!Dropped
  <2>2. UNCHANGED <<status, content, visitor>> /\ \A p : S!Shown(p)' = S!Shown(p)
    BY <1>3, ShownSame DEF S!Drop, S!rows
  <2> QED  BY <2>1, <2>2 DEF FreshInv, BuiltFresh, S!SameButBot
<1>4. ASSUME NEW e \in Editors, S!CommitEdit(e) PROVE FreshInv'
  <2>1. content'.bot = content.bot
    BY <1>4 DEF S!CommitEdit, S!Written
  <2> QED  BY <1>4, <2>1, FreshCommit DEF S!CommitEdit
<1>5. ASSUME NEW e \in Editors, S!CommitSwitch(e) PROVE FreshInv'
  BY <1>5, FreshCommit DEF S!CommitSwitch
<1>6. ASSUME NEW e \in Editors, S!Fail(e) PROVE FreshInv'
  <2>1. UNCHANGED <<status, content, visitor, cache, slipped>>
    BY <1>6 DEF S!Fail, S!rows
  <2>2. \A d \in Editors : editor'[d].st = "dropped" => editor[d].st = "dropped"
    BY <1>6, StoreSwitches DEF S!Fail, S!TypeOK
  <2> QED  BY <2>1, <2>2, FreshAside
<1>7. ASSUME S!ChangeBot PROVE FreshInv'
  BY <1>7, FreshBot
<1>8. ASSUME NEW v \in Visitors, NEW p \in S!Pages, S!Build(v, p) PROVE FreshInv'
  <2>1. /\ visitor'[v] = [st |-> "built", page |-> p, copy |-> S!Shown(p), late |-> {}]
        /\ status = "live"
        /\ \A u \in Visitors : u # v => visitor'[u] = visitor[u]
    BY <1>8 DEF S!Build, S!TypeOK
  <2>2. UNCHANGED <<status, content, editor, cache, slipped>>
    BY <1>8 DEF S!Build, S!rows
  <2>3. \A q : S!Shown(q)' = S!Shown(q)
    BY <2>2, ShownSame
  <2>4. S!SameButBot(S!Shown(p), S!Shown(p)) /\ S!Shown(p).bot = content.bot
    <3>1. S!Shown(p) \in S!Content
      BY StoreShown
    <3> QED  BY <3>1, ShownBot DEF S!SameButBot, S!Content
  <2>5. BuiltFresh(v)'
    BY <2>1, <2>2, <2>3, <2>4 DEF BuiltFresh, S!SameButBot
  <2>6. ASSUME NEW u \in Visitors, visitor'[u].st = "built" PROVE BuiltFresh(u)'
    <3>1. CASE u = v
      BY <2>5, <3>1
    <3>2. CASE u # v
      BY <2>1, <2>2, <2>3, <2>6, <3>2 DEF FreshInv, BuiltFresh, S!SameButBot
    <3> QED  BY <3>1, <3>2
  <2>7. ASSUME NEW q \in S!Pages, cache'[q] # S!None PROVE CopyFresh(q)'
    BY <2>2, <2>3, <2>7 DEF FreshInv, CopyFresh, S!SameButBot
  <2> QED  BY <2>2, <2>6, <2>7 DEF FreshInv
<1>9. ASSUME NEW v \in Visitors, S!Fill(v) PROVE FreshInv'
  BY <1>9, FreshFill
<1>10. ASSUME NEW p \in S!Pages, S!Expire(p) PROVE FreshInv'
  <2>1. /\ cache'[p] = S!None /\ \A q \in S!Pages : q # p => cache'[q] = cache[q]
        /\ slipped' = slipped \ ({p} \X S!Parts)
        /\ UNCHANGED <<status, content, editor, visitor>>
    BY <1>10 DEF S!Expire, S!rows, S!TypeOK
  <2>2. \A q : S!Shown(q)' = S!Shown(q)
    BY <2>1, ShownSame
  <2>3. \A q, part : q # p => (<<q, part>> \in slipped' <=> <<q, part>> \in slipped)
    BY <2>1
  <2>4. ASSUME NEW q \in S!Pages, cache'[q] # S!None PROVE CopyFresh(q)'
    BY <2>1, <2>2, <2>3, <2>4 DEF FreshInv, CopyFresh, S!SameButBot
  <2>5. ASSUME NEW v \in Visitors, visitor'[v].st = "built" PROVE BuiltFresh(v)'
    BY <2>1, <2>2, <2>5 DEF FreshInv, BuiltFresh, S!SameButBot
  <2> QED  BY <2>1, <2>3, <2>4, <2>5 DEF FreshInv
<1>11. CASE UNCHANGED S!vars
  BY <1>11, FreshAside DEF S!vars
<1> QED
  BY <1>1, <1>2, <1>3, <1>4, <1>5, <1>6, <1>7, <1>8, <1>9, <1>10, <1>11 DEF S!Next

\* A copy in Redis is what the business's rows say now, for any number of
\* editors and visitors, unless it slipped in around a commit; and the bot it
\* shows is the active one, unless that changed behind it, which drops nothing
\* (bust_storefront_cache, get_storefront, _render_landing, _build_payload).
THEOREM CopiesFresh == ASSUME S!SoundConstants PROVE S!Spec => []FreshUnlessSlipped
<1>1. ASSUME S!Init PROVE S!TypeOK /\ FreshInv
  BY <1>1, StoreInit, FreshInit
<1>2. ASSUME S!TypeOK /\ FreshInv, [S!Next]_S!vars PROVE (S!TypeOK /\ FreshInv)'
  BY <1>2, StoreStep, FreshStep
<1>3. FreshInv => FreshUnlessSlipped
  BY DEF FreshInv, CopyFresh, FreshUnlessSlipped, S!FreshUnlessSlipped
<1> QED  BY <1>1, <1>2, <1>3, PTL DEF S!Spec

-----------------------------------------------------------------------------
\* All services side by side, however their steps interleave.
THEOREM ServicesTyped ==
    ASSUME O!SoundConstants, S!SoundConstants, M!SoundConstants, MaxTokens \in Nat
    PROVE  Spec /\ A!Spec /\ O!Spec /\ S!Spec /\ D!Spec /\ M!Spec => []TypesOK
<1>1. TypeOK /\ A!TypeOK /\ O!TypeOK /\ S!TypeOK /\ D!TypeOK /\ M!TypeOK => TypesOK
  BY DEF TypesOK
<1> QED
  BY <1>1, TypeCorrect, AccountsTyped, OnboardingTyped, StorefrontTyped, DomainsTyped,
     MarketTyped, PTL

=============================================================================
