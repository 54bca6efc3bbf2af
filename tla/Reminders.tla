----------------------------- MODULE Reminders -----------------------------
(***************************************************************************)
(* The worker that reminds customers of their appointments a day and an    *)
(* hour before.  A run reads the confirmed bookings of the next day once,  *)
(* sends what is due at that moment through the business's bot, one        *)
(* message after the other, and commits its marks at the end; the          *)
(* scheduler may start a run while an earlier one is still sending.        *)
(***************************************************************************)
EXTENDS Integers

CONSTANTS
    Bookings,  \* the rows of bookings
    Runs,      \* the runs of the worker that may overlap
    Starts,    \* when appointments may start, after 0
    DayLen,    \* ticks of 24 hours
    Hour,      \* ticks of an hour
    MaxTime,   \* bound of the model: the last tick
    MaxSent    \* bound of the model: how often one reminder is sent

SoundConstants ==
    /\ Starts \subseteq Nat
    /\ DayLen \in Nat /\ Hour \in Nat /\ MaxTime \in Nat /\ MaxSent \in Nat

VARIABLES
    now,
    row,    \* the committed rows of bookings
    run,    \* the runs of the worker
    sent,   \* history: how often each reminder of each row was sent
    loose   \* history: runs overlapped, or one ended before its commit

vars == <<now, row, run, sent, loose>>

Kinds == {"24h", "1h"}

NoRun == [st |-> "idle", due |-> {}, marked |-> {}]

TypeOK ==
    /\ now \in 0..MaxTime
    /\ row \in [Bookings -> [status : {"none", "confirmed", "closed"}, start : Starts \cup {0},
                             marks : SUBSET Kinds]]
    /\ run \in [Runs -> [st : {"idle", "sending"}, due : SUBSET (Bookings \X Kinds),
                         marked : SUBSET (Bookings \X Kinds)]]
    /\ \A r \in Runs : run[r].st = "idle" => run[r] = NoRun
    /\ sent \in [Bookings -> [Kinds -> 0..MaxSent]]
    /\ loose \in BOOLEAN

-----------------------------------------------------------------------------
Init ==
    /\ now = 0
    /\ row = [b \in Bookings |-> [status |-> "none", start |-> 0, marks |-> {}]]
    /\ run = [r \in Runs |-> NoRun]
    /\ sent = [b \in Bookings |-> [k \in Kinds |-> 0]]
    /\ loose = FALSE

Tick ==
    /\ now < MaxTime
    /\ now' = now + 1
    /\ UNCHANGED <<row, run, sent, loose>>

\* A booking is confirmed, see Booking.
Book(b, start) ==
    /\ row[b].status = "none"
    /\ start > now
    /\ row' = [row EXCEPT ![b] = [status |-> "confirmed", start |-> start, marks |-> {}]]
    /\ UNCHANGED <<now, run, sent, loose>>

\* The owner closes the booking, or sets it back to confirmed.
UpdateStatus(b, status) ==
    /\ row[b].status \notin {"none", status}
    /\ row' = [row EXCEPT ![b].status = status]
    /\ UNCHANGED <<now, run, sent, loose>>

Confirmed == {b \in Bookings : row[b].status = "confirmed"}

DueReminder(b) ==
    LET delta == row[b].start - now IN
    {k \in Kinds \ row[b].marks : \/ k = "1h" /\ 0 < delta /\ delta <= Hour
                                  \/ k = "24h" /\ Hour < delta /\ delta <= DayLen}

\* A run reads the confirmed bookings of the next day.
Scan(r) ==
    LET due == UNION {{b} \X DueReminder(b) : b \in Confirmed} IN
    /\ run[r].st = "idle"
    /\ due # {}
    /\ run' = [run EXCEPT ![r] = [st |-> "sending", due |-> due, marked |-> {}]]
    /\ loose' = (loose \/ \E q \in Runs : run[q].st # "idle")
    /\ UNCHANGED <<now, row, sent>>

\* Reminders go out in the order of the appointments.
Send(r, b, k) ==
    /\ <<b, k>> \in run[r].due
    /\ \A x \in run[r].due : row[b].start <= row[x[1]].start
    /\ sent[b][k] < MaxSent
    /\ sent' = [sent EXCEPT ![b][k] = @ + 1]
    /\ run' = [run EXCEPT ![r].due = @ \ {<<b, k>>}, ![r].marked = @ \cup {<<b, k>>}]
    /\ UNCHANGED <<now, row, loose>>

\* No active bot, or Telegram refuses: the reminder stays due.
SendFails(r, b, k) ==
    /\ <<b, k>> \in run[r].due
    /\ run' = [run EXCEPT ![r].due = @ \ {<<b, k>>}]
    /\ UNCHANGED <<now, row, sent, loose>>

\* Mutant: the marks are not written.
Unmarked(b, r) == row[b].marks

Marked(b, r) == row[b].marks \cup {k \in Kinds : <<b, k>> \in run[r].marked}

\* The run's session commits the marks of all that was sent.
CommitRun(r) ==
    /\ run[r].st = "sending" /\ run[r].due = {}
    /\ row' = [b \in Bookings |-> [row[b] EXCEPT !.marks = Marked(b, r)]]
    /\ run' = [run EXCEPT ![r] = NoRun]
    /\ UNCHANGED <<now, sent, loose>>

\* The job is killed, or its commit fails: every mark is lost.
KillRun(r) ==
    /\ run[r].st = "sending"
    /\ run' = [run EXCEPT ![r] = NoRun]
    /\ loose' = TRUE
    /\ UNCHANGED <<now, row, sent>>

Next ==
    \/ Tick
    \/ \E b \in Bookings : \/ \E start \in Starts : Book(b, start)
                          \/ \E status \in {"confirmed", "closed"} : UpdateStatus(b, status)
    \/ \E r \in Runs :
        \/ \E b \in Bookings, k \in Kinds : Send(r, b, k) \/ SendFails(r, b, k)
        \/ Scan(r) \/ CommitRun(r) \/ KillRun(r)

Spec == Init /\ [][Next]_vars

-----------------------------------------------------------------------------
\* A reminder is not sent a second time, and nobody is told "tomorrow" after "in
\* about an hour", unless runs overlapped or one ended before it had committed
\* its marks (due_reminder, booking_reminders.scan_and_send).
RemindedInOrder ==
    [][ \A b \in Bookings, k \in Kinds : sent'[b][k] > sent[b][k] =>
           loose \/ (sent[b][k] = 0 /\ sent[b]["1h"] = 0) ]_vars

=============================================================================
