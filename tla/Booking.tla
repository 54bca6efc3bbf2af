------------------------------ MODULE Booking ------------------------------
(***************************************************************************)
(* Appointments of one business: the slots its bot offers, the taps that   *)
(* book one, and the owner's changes of an appointment's status.  Reminders *)
(* of the appointments are in Reminders.                                   *)
(*                                                                         *)
(* Offers live in Redis under a session key with a time to live; a tap     *)
(* reads the key, looks for a conflicting row and inserts its own, all     *)
(* without a lock, and the insert is seen by others when the request's     *)
(* session commits.                                                        *)
(***************************************************************************)
EXTENDS Integers, FiniteSets

CONSTANTS
    Bookings,   \* the rows that may be inserted
    Sessions,   \* the session keys of offers
    Handlers,   \* the requests of taps that may overlap
    DayLen,     \* ticks of a day
    Hour,       \* ticks of an hour, the time an offer lives
    Open,       \* open_hour, in ticks from midnight
    Close,      \* close_hour
    Durations,  \* durations of the services, in ticks
    NumSlots,   \* num_slots
    MaxTime,    \* bound of the model: the last tick
    NoBooking   \* a handler without a row

ASSUME BookingAssumption ==
    /\ DayLen \in Nat \ {0} /\ Hour \in 1..DayLen
    /\ Open \in 0..(DayLen - 1) /\ Close \in (Open + 1)..(DayLen - 1)
    /\ Durations \subseteq Nat \ {0}
    /\ NumSlots \in Nat /\ MaxTime \in Nat
    /\ NoBooking \notin Bookings

VARIABLES
    now,
    row,      \* the committed rows of bookings
    offer,    \* the keys book:<bot>:<session> in Redis
    handler,  \* the requests of taps
    unsure    \* history: rows whose check another request or the owner passed by

vars == <<now, row, offer, handler, unsure>>

Times == 0..(MaxTime + 2 * DayLen)

NoRow == [status |-> "none", start |-> 0, end |-> 0]

Idle == [st |-> "idle", key |-> "none", slot |-> [start |-> 0, end |-> 0], booking |-> NoBooking]

Slot == [start : Times, end : Times]

TypeOK ==
    /\ now \in 0..MaxTime
    /\ row \in [Bookings -> [status : {"none", "confirmed", "closed"}, start : Times, end : Times]]
    /\ offer \in [Sessions -> [slots : SUBSET Slot, until : Times]]
    /\ \A h \in Handlers :
        /\ handler[h].st \in {"idle", "tapped", "inserted", "told"}
        /\ handler[h].slot \in Slot
        /\ handler[h].booking \in Bookings <=> handler[h].st \in {"inserted", "told"}
    /\ unsure \subseteq Bookings

-----------------------------------------------------------------------------
Confirmed == {b \in Bookings : row[b].status = "confirmed"}

Overlaps(s, t) == s.start < t.end /\ t.start < s.end

Conflict(slot) == \E b \in Confirmed : Overlaps(row[b], slot)

SlotAt(c, dur) == [start |-> c, end |-> c + dur]

\* Mutant: a slot is free when nobody is busy as it starts.
RoundByStart(slots, c, dur, last) ==
    IF /\ c + dur <= last /\ Cardinality(slots) < NumSlots
       /\ c > now
       /\ \A b \in Confirmed : ~(row[b].start <= c /\ c < row[b].end)
    THEN slots \cup {SlotAt(c, dur)}
    ELSE slots

\* A round of compute_free_slots with its cursor at c: the slot there is added
\* if the day and the list have room for it, it is still to come and free.
Round(slots, c, dur, last) ==
    IF /\ c + dur <= last /\ Cardinality(slots) < NumSlots
       /\ c > now /\ ~Conflict(SlotAt(c, dur))
    THEN slots \cup {SlotAt(c, dur)}
    ELSE slots

Rounds == Close - Open

\* compute_free_slots with the confirmed rows of that day as busy: what is
\* found after each round as the cursor walks from opening to closing hour in
\* steps of the duration.  The rounds after the loop has ended add nothing.
Walk(day, dur) ==
    LET found[k \in 0..Rounds] ==
            IF k = 0 THEN {}
            ELSE Round(found[k - 1], day * DayLen + Open + (k - 1) * dur, dur,
                       day * DayLen + Close)
    IN  found

FreeSlots(day, dur) == Walk(day, dur)[Rounds]

Tomorrow == now \div DayLen + 1

-----------------------------------------------------------------------------
Init ==
    /\ now = 0
    /\ row = [b \in Bookings |-> NoRow]
    /\ offer = [s \in Sessions |-> [slots |-> {}, until |-> 0]]
    /\ handler = [h \in Handlers |-> Idle]
    /\ unsure = {}

Tick ==
    /\ now < MaxTime
    /\ now' = now + 1
    /\ UNCHANGED <<row, offer, handler, unsure>>

Live(s) == offer[s].slots # {} /\ now <= offer[s].until

\* _present_slots: tomorrow's slots are put under a new session key, one that
\* no earlier offer and no request still holds.
Present(s, dur) ==
    /\ ~Live(s)
    /\ \A h \in Handlers : handler[h].key # s
    /\ FreeSlots(Tomorrow, dur) # {}
    /\ offer' = [offer EXCEPT ![s] = [slots |-> FreeSlots(Tomorrow, dur), until |-> now + Hour]]
    /\ UNCHANGED <<now, row, handler, unsure>>

\* A slot is tapped; the request finds the session key.
Tap(h, s, slot) ==
    /\ handler[h].st = "idle"
    /\ Live(s)
    /\ slot \in offer[s].slots
    /\ handler' = [handler EXCEPT ![h] =
           [st |-> "tapped", key |-> s, slot |-> slot, booking |-> NoBooking]]
    /\ UNCHANGED <<now, row, offer, unsure>>

Consumed(s) == [offer EXCEPT ![s] = [slots |-> {}, until |-> 0]]

\* Someone else has the time: the customer is told, the offers are consumed.
Taken(h) ==
    /\ handler[h].st = "tapped"
    /\ Conflict(handler[h].slot)
    /\ offer' = Consumed(handler[h].key)
    /\ handler' = [handler EXCEPT ![h] = Idle]
    /\ UNCHANGED <<now, row, unsure>>

Uncommitted == {h \in Handlers : handler[h].st \in {"inserted", "told"}}

\* Mutant: inserted without looking for a conflict.
NoConflict(slot) == TRUE

Admitted(slot) == ~Conflict(slot)

\* create_booking finds no conflict and flushes its row.
Insert(h, b) ==
    /\ handler[h].st = "tapped"
    /\ Admitted(handler[h].slot)
    /\ row[b].status = "none"
    /\ \A g \in Handlers : handler[g].booking # b
    /\ handler' = [handler EXCEPT ![h].st = "inserted", ![h].booking = b]
    /\ unsure' = IF Uncommitted # {} THEN unsure \cup {b} ELSE unsure
    /\ UNCHANGED <<now, row, offer>>

\* The customer is told and the session key deleted, before the commit.
Tell(h) ==
    /\ handler[h].st = "inserted"
    /\ offer' = Consumed(handler[h].key)
    /\ handler' = [handler EXCEPT ![h].st = "told"]
    /\ UNCHANGED <<now, row, unsure>>

Commit(h) ==
    /\ handler[h].st = "told"
    /\ row' = [row EXCEPT ![handler[h].booking] =
                  [status |-> "confirmed", start |-> handler[h].slot.start,
                   end |-> handler[h].slot.end]]
    /\ handler' = [handler EXCEPT ![h] = Idle]
    /\ UNCHANGED <<now, offer, unsure>>

\* Mutant: the flushed row outlives the failed request.
FailKeepsRow(h) ==
    /\ handler[h].st # "idle"
    /\ handler' = [handler EXCEPT ![h].st = "idle"]
    /\ UNCHANGED <<now, row, offer, unsure>>

\* A crash or a failure, before or after the customer was told.
Fail(h) ==
    /\ handler[h].st # "idle"
    /\ handler' = [handler EXCEPT ![h] = Idle]
    /\ UNCHANGED <<now, row, offer, unsure>>

\* The owner cancels, completes or marks a no-show ("closed", all alike to the
\* slots), or sets the booking back to confirmed, unchecked.
UpdateStatus(b, status) ==
    /\ row[b].status \notin {"none", status}
    /\ row' = [row EXCEPT ![b].status = status]
    /\ unsure' = IF status = "confirmed" THEN unsure \cup {b} ELSE unsure
    /\ UNCHANGED <<now, offer, handler>>

Next ==
    \/ Tick
    \/ \E s \in Sessions, dur \in Durations : Present(s, dur)
    \/ \E h \in Handlers :
        \/ \E s \in Sessions : \E slot \in offer[s].slots : Tap(h, s, slot)
        \/ \E b \in Bookings : Insert(h, b)
        \/ Taken(h) \/ Tell(h) \/ Commit(h) \/ Fail(h)
    \/ \E b \in Bookings, status \in {"confirmed", "closed"} : UpdateStatus(b, status)

Spec == Init /\ [][Next]_vars

-----------------------------------------------------------------------------
Clashing == {b \in Confirmed : \E c \in Confirmed \ {b} : Overlaps(row[b], row[c])}

\* Two confirmed bookings overlap only when one was checked while another
\* request held an insert nobody could see, or the owner set a booking back
\* to confirmed (create_booking, update_appointment_status).
ClashOnlyIfUnsure ==
    \A b, c \in Clashing : b # c /\ Overlaps(row[b], row[c]) => {b, c} \cap unsure # {}

Grid(day, dur) ==
    LET first == day * DayLen + Open
        last  == day * DayLen + Close
    IN  {[start |-> c, end |-> c + dur] :
            c \in {x \in first .. (last - dur) : (x - first) % dur = 0}}

\* What compute_free_slots returns, for every set of bookings reached: slots of
\* the day's grid that are still to come and free, at most num_slots of them,
\* and none is passed over unless that many earlier ones are offered.
SlotsAreFirstFree ==
    \A day \in {now \div DayLen, Tomorrow}, dur \in Durations :
        LET slots == FreeSlots(day, dur)
            free  == {s \in Grid(day, dur) : s.start > now /\ ~Conflict(s)}
        IN  /\ slots \subseteq free /\ Cardinality(slots) <= NumSlots
            /\ \A s \in free \ slots :
                 Cardinality({t \in slots : t.start < s.start}) = NumSlots

\* What create_booking and the tests of the booking callback say: a time that
\* is taken is rejected, not booked twice.
NoDoubleBooking == Clashing = {}

=============================================================================
