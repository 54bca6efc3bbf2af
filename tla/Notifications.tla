---------------------------- MODULE Notifications ----------------------------
(***************************************************************************)
(* The notifications table and the workers that dispatch it.  A worker     *)
(* locks the oldest rows that are not finished, skipping those another     *)
(* worker holds, sends them one after the other, and records what it sent  *)
(* in one commit at the end of the batch.                                  *)
(***************************************************************************)
EXTENDS Naturals, Sequences, FiniteSets

CONSTANTS
    Users,     \* the people who are notified
    OnTelegram,\* those with a telegram_id
    Senders,   \* processes that run dispatch_pending
    BatchSize, \* _BATCH_SIZE
    MaxNotes,  \* bound of the model: rows of notifications
    MaxCrashes \* bound of the model: batches that are never committed

VARIABLES
    note,      \* the rows of notifications, by created_at
    reachable, \* people with an active bot that Telegram lets write to them
    batch,     \* the rows each worker holds and has still to send
    held,      \* the rows each worker holds
    newly,     \* those it has sent through Telegram
    told,      \* history: how often a row was sent through Telegram
    lost,      \* history: how often a sent row was not recorded
    crashes    \* history: how many batches were not committed

vars == <<note, reachable, batch, held, newly, told, lost, crashes>>

Ids == 1 .. MaxNotes

\* The table holds no more rows than the model's bound, the readers are many but
\* not without end.
SoundConstants ==
    IsFiniteSet(Users) /\ BatchSize \in Nat /\ MaxNotes \in Nat /\ MaxCrashes \in Nat

Channels == {"dashboard", "telegram"}

Rows == [to : Users, sent : SUBSET Channels, done : BOOLEAN]

TypeOK ==
    /\ note \in Seq(Rows) /\ Len(note) <= MaxNotes
    /\ reachable \subseteq OnTelegram
    /\ batch \in [Senders -> SUBSET Ids]
    /\ held \in [Senders -> SUBSET Ids] /\ newly \in [Senders -> SUBSET Ids]
    /\ told \in [Ids -> Nat] /\ lost \in [Ids -> Nat] /\ crashes \in 0 .. MaxCrashes

Init ==
    /\ note = <<>>
    /\ reachable \in SUBSET OnTelegram
    /\ batch = [w \in Senders |-> {}]
    /\ held = [w \in Senders |-> {}] /\ newly = [w \in Senders |-> {}]
    /\ told = [n \in Ids |-> 0] /\ lost = [n \in Ids |-> 0]
    /\ crashes = 0

-----------------------------------------------------------------------------
Row(u) == [to |-> u, sent |-> {}, done |-> FALSE]

\* A service notifies one person ...
Notify(u) ==
    /\ Len(note) < MaxNotes
    /\ note' = Append(note, Row(u))
    /\ UNCHANGED <<reachable, batch, held, newly, told, lost, crashes>>

\* ... and a broadcast everyone, in one commit.
Broadcast(order) ==
    /\ Len(note) + Len(order) <= MaxNotes
    /\ note' = note \o [i \in DOMAIN order |-> Row(order[i])]
    /\ UNCHANGED <<reachable, batch, held, newly, told, lost, crashes>>

Everyone == {s \in [1 .. Cardinality(Users) -> Users] : \A u \in Users : \E i \in DOMAIN s : s[i] = u}

\* A bot is connected, paused, suspended, or blocked by its owner.
ChangeReach(u) ==
    /\ reachable' = IF u \in reachable THEN reachable \ {u} ELSE reachable \cup {u}
    /\ UNCHANGED <<note, batch, held, newly, told, lost, crashes>>

-----------------------------------------------------------------------------
\* Mutant: rows that another worker holds are not skipped.
Locked == {}

Held == UNION {held[w] : w \in Senders}

\* The rows the query finds, and the first of them in its order, up to the limit.
Pending == {n \in DOMAIN note : ~note[n].done /\ n \notin Held}

Oldest == {n \in Pending : Cardinality({m \in Pending : m < n}) < BatchSize}

Lock(w) ==
    /\ held[w] = {} /\ Oldest # {}
    /\ batch' = [batch EXCEPT ![w] = Oldest]
    /\ held' = [held EXCEPT ![w] = Oldest]
    /\ UNCHANGED <<note, reachable, newly, told, lost, crashes>>

\* Mutant: readers who are not on Telegram wait for it.
AllChannels(n) == {"dashboard", "telegram"}

Intended(n) == {"dashboard"} \cup (IF note[n].to \in OnTelegram THEN {"telegram"} ELSE {})

\* Telegram if it is intended and was not recorded before.
Sends(n) == "telegram" \in Intended(n) \ note[n].sent /\ note[n].to \in reachable

\* _dispatch_notification for the next row.
Dispatch(w) ==
    /\ \E n \in batch[w] :
       /\ \A m \in batch[w] : n <= m
       /\ newly' = IF Sends(n) THEN [newly EXCEPT ![w] = @ \cup {n}] ELSE newly
       /\ told' = IF Sends(n) THEN [told EXCEPT ![n] = @ + 1] ELSE told
       /\ batch' = [batch EXCEPT ![w] = @ \ {n}]
    /\ UNCHANGED <<note, reachable, held, lost, crashes>>

\* The channels a row has been sent through, and whether none is missing.
Finished(w, n) ==
    LET sent == note[n].sent \cup {"dashboard"} \cup (IF n \in newly[w] THEN {"telegram"} ELSE {})
    IN [note[n] EXCEPT !.sent = sent, !.done = Intended(n) \subseteq sent]

Commit(w) ==
    /\ held[w] # {} /\ batch[w] = {}
    /\ note' = [n \in DOMAIN note |-> IF n \in held[w] THEN Finished(w, n) ELSE note[n]]
    /\ held' = [held EXCEPT ![w] = {}]
    /\ newly' = [newly EXCEPT ![w] = {}]
    /\ UNCHANGED <<reachable, batch, told, lost, crashes>>

\* The worker is killed or its commit fails: the locks go, the messages stay sent.
Crash(w) ==
    /\ held[w] # {} /\ crashes < MaxCrashes
    /\ crashes' = crashes + 1
    /\ batch' = [batch EXCEPT ![w] = {}]
    /\ held' = [held EXCEPT ![w] = {}]
    /\ newly' = [newly EXCEPT ![w] = {}]
    /\ lost' = [n \in Ids |-> IF n \in newly[w] THEN lost[n] + 1 ELSE lost[n]]
    /\ UNCHANGED <<note, reachable, told>>

Next ==
    \/ \E u \in Users : Notify(u)
    \/ \E order \in Everyone : Broadcast(order)
    \/ \E u \in OnTelegram : ChangeReach(u)
    \/ \E w \in Senders : Lock(w)
    \/ \E w \in Senders : Dispatch(w)
    \/ \E w \in Senders : Commit(w)
    \/ \E w \in Senders : Crash(w)

Spec == Init /\ [][Next]_vars

\* The worker polls in a loop and its process is restarted.
Fairness == \A w \in Senders : WF_vars(Lock(w)) /\ WF_vars(Dispatch(w)) /\ WF_vars(Commit(w))

-----------------------------------------------------------------------------
\* A notification is sent to its reader again only if the worker that had sent
\* it died before its commit, however many workers run; and a finished one has
\* reached every reader who is on Telegram (dispatch_pending).
ToldOnceUnlessLost ==
    \A n \in 1 .. Len(note) :
        /\ told[n] <= 1 + lost[n]
        /\ note[n].done /\ note[n].to \in OnTelegram => told[n] = 1 + lost[n]

Deliverable(n) == n \in DOMAIN note /\ note[n].to \in reachable \cup (Users \ OnTelegram)

Stuck == {n \in DOMAIN note : ~note[n].done /\ ~Deliverable(n)}

\* Once readers no longer come and go, every row whose reader can be reached is
\* finished, as long as the rows that cannot be delivered do not fill a batch
\* (dispatch_pending, _BATCH_SIZE).
ReachableIsTold ==
    \A n \in Ids :
        /\ <>[][UNCHANGED reachable]_vars
        /\ <>[](Deliverable(n) /\ Cardinality(Stuck) < BatchSize)
        => <>(n \in DOMAIN note /\ note[n].done)

=============================================================================
