---------------------------- MODULE ChatsProofs ----------------------------
(***************************************************************************)
(* What booking, reminders, the choice of models and conversations         *)
(* promise, for any number of requests, appointments, models and updates.  *)
(*                                                                         *)
(* Booking: an insert holds a row of its own, and of two open inserts one  *)
(* was not sure of its check.  After k rounds compute_free_slots has found *)
(* all the free slots before its cursor, or as many as it was asked for,   *)
(* all before the ones it leaves out.                                      *)
(* Reminders: what was sent is marked in the row or in the run that sent   *)
(* it.  ModelRouter: what is first in a chain was available when chosen,   *)
(* or is the emergency model.  Conversations: an update has one request    *)
(* and one answer while its mark lasts; a request that is alone holds the  *)
(* row as it is.                                                           *)
(***************************************************************************)
EXTENDS Chats, SequenceTheorems, FiniteSetTheorems, WellFoundedInduction, TLAPS

\* Rows and requests are records with these fields, whatever the times are.
Shape ==
    /\ row = [b \in Bookings |-> [status |-> row[b].status, start |-> row[b].start,
                                  end |-> row[b].end]]
    /\ handler = [h \in Handlers |-> [st |-> handler[h].st, key |-> handler[h].key,
                                      slot |-> handler[h].slot, booking |-> handler[h].booking]]

\* A request holds a row exactly between its insert and its end, and that row
\* is not committed and no other request's.
Holds ==
    \A h \in Uncommitted :
        /\ handler[h].booking \in Bookings
        /\ row[handler[h].booking].status = "none"
        /\ \A g \in Uncommitted \ {h} : handler[g].booking # handler[h].booking

Sure(h) == h \in Uncommitted /\ handler[h].booking \notin unsure

\* Of two uncommitted inserts one was not sure of its check, and a sure one
\* overlaps no confirmed row that is sure as well.
Checked ==
    /\ \A h, g \in Handlers : Sure(h) /\ Sure(g) => h = g
    /\ \A h \in Handlers : Sure(h) =>
         \A c \in Confirmed \ unsure : ~Overlaps(row[c], handler[h].slot)

Apart == \A b, c \in Confirmed \ unsure : b # c => ~Overlaps(row[b], row[c])

Inv == Shape /\ Holds /\ Checked /\ Apart

LEMMA OverlapsIsSymmetric ==
    ASSUME NEW s, NEW t
    PROVE  Overlaps(s, t) <=> Overlaps(t, s)
  BY DEF Overlaps

LEMMA InitInv == Init => Inv
  BY DEF Init, Inv, Shape, Holds, Checked, Apart, Sure, Uncommitted, Confirmed, NoRow, Idle

-----------------------------------------------------------------------------
\* Neither rows nor inserts are touched by a step that leaves the rows alone
\* and changes one request that holds nothing before and after.
LEMMA NothingHeld ==
    ASSUME Inv, NEW h \in Handlers, NEW rec,
           handler[h].st \notin {"inserted", "told"},
           rec = [st |-> rec.st, key |-> rec.key, slot |-> rec.slot, booking |-> rec.booking],
           rec.st \notin {"inserted", "told"},
           handler' = [handler EXCEPT ![h] = rec],
           UNCHANGED <<row, unsure>>
    PROVE  Inv'
<1>1. \A g \in Handlers : handler'[g] = IF g = h THEN rec ELSE handler[g]
  BY DEF Inv, Shape
<1>2. Uncommitted' = Uncommitted
  BY <1>1 DEF Uncommitted
<1>3. \A g \in Uncommitted : handler'[g] = handler[g]
  BY <1>1 DEF Uncommitted
<1>4. Shape'
  BY <1>1 DEF Inv, Shape
<1>5. Holds'
  BY <1>2, <1>3 DEF Inv, Holds
<1>6. \A g \in Handlers : Sure(g)' <=> Sure(g)
  BY <1>2, <1>3 DEF Sure
<1>7. Checked'
  BY <1>2, <1>3, <1>6 DEF Inv, Checked, Sure, Confirmed
<1>8. Apart'
  BY DEF Inv, Apart, Confirmed
<1> QED  BY <1>4, <1>5, <1>7, <1>8 DEF Inv

\* A request that leaves the insert it may hold.
LEMMA LetGo ==
    ASSUME Inv, NEW h \in Handlers, handler' = [handler EXCEPT ![h] = Idle],
           UNCHANGED <<row, unsure>>
    PROVE  Inv'
<1>1. \A g \in Handlers : handler'[g] = IF g = h THEN Idle ELSE handler[g]
  BY DEF Inv, Shape
<1>2. Uncommitted' = Uncommitted \ {h}
  BY <1>1 DEF Uncommitted, Idle
<1>3. Shape'
  BY <1>1 DEF Inv, Shape, Idle
<1>4. Holds'
  BY <1>1, <1>2 DEF Inv, Holds
<1>5. \A g \in Handlers : Sure(g)' => Sure(g) /\ g # h
  BY <1>1, <1>2 DEF Sure
<1>6. Checked'
  BY <1>1, <1>5 DEF Inv, Checked, Confirmed
<1>7. Apart'
  BY DEF Inv, Apart, Confirmed
<1> QED  BY <1>3, <1>4, <1>6, <1>7 DEF Inv

LEMMA TapInv ==
    ASSUME Inv, NEW h \in Handlers, NEW s \in Sessions, NEW slot, Tap(h, s, slot)
    PROVE  Inv'
<1> DEFINE rec == [st |-> "tapped", key |-> s, slot |-> slot, booking |-> NoBooking]
<1>1. handler[h].st = "idle" /\ handler' = [handler EXCEPT ![h] = rec] /\ UNCHANGED <<row, unsure>>
  BY DEF Tap
<1> QED  BY <1>1, NothingHeld

LEMMA TakenInv ==
    ASSUME Inv, NEW h \in Handlers, Taken(h)
    PROVE  Inv'
  BY LetGo DEF Taken

LEMMA FailInv ==
    ASSUME Inv, NEW h \in Handlers, Fail(h)
    PROVE  Inv'
  BY LetGo DEF Fail

\* The row inserted was free of conflict with everything committed; it is sure
\* only if nobody else holds an insert.
LEMMA InsertInv ==
    ASSUME Inv, NEW h \in Handlers, NEW b \in Bookings, Insert(h, b)
    PROVE  Inv'
<1>1. /\ handler[h].st = "tapped" /\ ~Conflict(handler[h].slot) /\ row[b].status = "none"
      /\ \A g \in Handlers : handler[g].booking # b
      /\ unsure' = IF Uncommitted # {} THEN unsure \cup {b} ELSE unsure
      /\ row' = row
  BY DEF Insert, Admitted
<1>2. /\ \A g \in Handlers : handler'[g] =
           IF g = h THEN [st |-> "inserted", key |-> handler[h].key, slot |-> handler[h].slot,
                          booking |-> b]
           ELSE handler[g]
      /\ handler' = [g \in Handlers |-> handler'[g]]
  <2>1. handler = [g \in Handlers |-> [st |-> handler[g].st, key |-> handler[g].key,
                                       slot |-> handler[g].slot, booking |-> handler[g].booking]]
    BY DEF Inv, Shape
  <2>2. handler' = [handler EXCEPT ![h].st = "inserted", ![h].booking = b]
    BY DEF Insert
  <2>3. handler[h] = [st |-> handler[h].st, key |-> handler[h].key, slot |-> handler[h].slot,
                      booking |-> handler[h].booking]
    BY <2>1
  <2>4. handler'[h] = [st |-> "inserted", key |-> handler[h].key, slot |-> handler[h].slot,
                       booking |-> b]
    BY <2>1, <2>2, <2>3
  <2>5. \A g \in Handlers \ {h} : handler'[g] = handler[g]
    BY <2>1, <2>2
  <2>6. handler' = [g \in Handlers |-> handler'[g]]
    BY <2>1, <2>2
  <2> QED  BY <2>4, <2>5, <2>6
<1>3. Uncommitted' = Uncommitted \cup {h} /\ h \notin Uncommitted
  BY <1>1, <1>2 DEF Uncommitted
<1>4. Shape'
  <2>1. \A g \in Handlers : handler'[g] = [st |-> handler'[g].st, key |-> handler'[g].key,
                                           slot |-> handler'[g].slot, booking |-> handler'[g].booking]
    BY <1>2 DEF Inv, Shape
  <2> QED  BY <1>1, <1>2, <2>1 DEF Inv, Shape
<1>5. Holds'
  <2> SUFFICES ASSUME NEW g \in Uncommitted'
               PROVE  /\ handler'[g].booking \in Bookings
                      /\ row'[handler'[g].booking].status = "none"
                      /\ \A f \in Uncommitted' \ {g} : handler'[f].booking # handler'[g].booking
    BY DEF Holds
  <2>1. CASE g = h
    BY <2>1, <1>1, <1>2, <1>3 DEF Uncommitted
  <2>2. CASE g # h
    BY <2>2, <1>1, <1>2, <1>3 DEF Inv, Holds, Uncommitted
  <2> QED  BY <2>1, <2>2
<1>6. \A g \in Handlers : Sure(g)' /\ g # h => Sure(g)
  BY <1>1, <1>2, <1>3 DEF Sure
<1>7. Sure(h)' => Uncommitted = {}
  BY <1>1, <1>2 DEF Sure
<1>8. \A f, g \in Handlers : Sure(f)' /\ Sure(g)' => f = g
  <2>1. ASSUME NEW g \in Handlers, Sure(g)', Sure(h)' PROVE g = h
    BY <2>1, <1>6, <1>7 DEF Sure
  <2> QED  BY <2>1, <1>6 DEF Inv, Checked
<1>9. ASSUME NEW g \in Handlers, Sure(g)', NEW c \in (Confirmed \ unsure)'
      PROVE  ~Overlaps(row'[c], handler'[g].slot)
  <2>1. c \in Confirmed \ unsure
    BY <1>1, <1>9 DEF Confirmed
  <2>2. CASE g = h
    BY <2>1, <2>2, <1>1, <1>2 DEF Conflict
  <2>3. CASE g # h
    BY <2>1, <2>3, <1>1, <1>2, <1>6, <1>9 DEF Inv, Checked
  <2> QED  BY <2>2, <2>3
<1>10. Checked'
  BY <1>8, <1>9 DEF Checked
<1>11. Apart'
  BY <1>1 DEF Inv, Apart, Confirmed
<1> QED  BY <1>4, <1>5, <1>10, <1>11 DEF Inv

LEMMA TellInv ==
    ASSUME Inv, NEW h \in Handlers, Tell(h)
    PROVE  Inv'
<1>1. /\ handler[h].st = "inserted" /\ handler' = [handler EXCEPT ![h].st = "told"]
      /\ row' = row /\ unsure' = unsure
  BY DEF Tell
<1>2. \A g \in Handlers : handler'[g] =
          IF g = h THEN [st |-> "told", key |-> handler[h].key, slot |-> handler[h].slot,
                         booking |-> handler[h].booking]
          ELSE handler[g]
  BY <1>1 DEF Inv, Shape
<1>3. Uncommitted' = Uncommitted
  BY <1>1, <1>2 DEF Uncommitted
<1>4. \A g \in Handlers : handler'[g].booking = handler[g].booking /\ handler'[g].slot = handler[g].slot
  BY <1>2
<1>5. Shape'
  BY <1>1, <1>2 DEF Inv, Shape
<1>6. Holds'
  BY <1>1, <1>3, <1>4 DEF Inv, Holds, Uncommitted
<1>7. \A g \in Handlers : Sure(g)' <=> Sure(g)
  BY <1>1, <1>3, <1>4 DEF Sure
<1>8. Checked'
  BY <1>1, <1>4, <1>7 DEF Inv, Checked, Confirmed
<1>9. Apart'
  BY <1>1 DEF Inv, Apart, Confirmed
<1> QED  BY <1>5, <1>6, <1>8, <1>9 DEF Inv

\* The row that becomes visible: if it is sure, it was checked against every
\* other sure row, those confirmed since included.
LEMMA CommitInv ==
    ASSUME Inv, NEW h \in Handlers, Commit(h)
    PROVE  Inv'
<1> DEFINE b == handler[h].booking
<1>1. /\ handler[h].st = "told" /\ handler' = [handler EXCEPT ![h] = Idle] /\ unsure' = unsure
      /\ row' = [row EXCEPT ![b] = [status |-> "confirmed", start |-> handler[h].slot.start,
                                    end |-> handler[h].slot.end]]
  BY DEF Commit
<1>2. h \in Uncommitted /\ b \in Bookings /\ row[b].status = "none"
  BY <1>1 DEF Inv, Holds, Uncommitted
<1>3. \A g \in Handlers : handler'[g] = IF g = h THEN Idle ELSE handler[g]
  BY <1>1 DEF Inv, Shape
<1>4. \A c \in Bookings : row'[c] =
          IF c = b THEN [status |-> "confirmed", start |-> handler[h].slot.start,
                         end |-> handler[h].slot.end]
          ELSE row[c]
  BY <1>1 DEF Inv, Shape
<1>5. Uncommitted' = Uncommitted \ {h}
  BY <1>3 DEF Uncommitted, Idle
<1>6. Confirmed' = Confirmed \cup {b} /\ b \notin Confirmed
  BY <1>2, <1>4 DEF Confirmed
<1>7. \A t : Overlaps(row'[b], t) <=> Overlaps(handler[h].slot, t)
  BY <1>2, <1>4 DEF Overlaps
<1>8. Shape'
  <2>1. row' = [c \in Bookings |-> row'[c]]
    BY <1>1 DEF Inv, Shape
  <2>2. handler' = [g \in Handlers |-> handler'[g]]
    BY <1>1 DEF Inv, Shape
  <2>3. \A c \in Bookings : row'[c] = [status |-> row'[c].status, start |-> row'[c].start,
                                       end |-> row'[c].end]
    <3> SUFFICES ASSUME NEW c \in Bookings
                 PROVE  row'[c] = [status |-> row'[c].status, start |-> row'[c].start,
                                   end |-> row'[c].end]
      OBVIOUS
    <3>1. CASE c = b
      <4>1. row'[c] = [status |-> "confirmed", start |-> handler[h].slot.start,
                       end |-> handler[h].slot.end]
        BY <3>1, <1>4
      <4> QED  BY <4>1
    <3>2. CASE c # b
      <4>1. row'[c] = row[c]
        BY <3>2, <1>4
      <4>2. row[c] = [status |-> row[c].status, start |-> row[c].start, end |-> row[c].end]
        BY DEF Inv, Shape
      <4> QED  BY <4>1, <4>2
    <3> QED  BY <3>1, <3>2
  <2>4. \A g \in Handlers : handler'[g] = [st |-> handler'[g].st, key |-> handler'[g].key,
                                           slot |-> handler'[g].slot, booking |-> handler'[g].booking]
    BY <1>3 DEF Inv, Shape, Idle
  <2> QED  BY <2>1, <2>2, <2>3, <2>4 DEF Shape
<1>9. Holds'
  BY <1>2, <1>3, <1>4, <1>5 DEF Inv, Holds, Uncommitted
<1>10. \A g \in Handlers : Sure(g)' => Sure(g) /\ g # h
  BY <1>1, <1>3, <1>5 DEF Sure
<1>11. ASSUME NEW g \in Handlers, Sure(g)', NEW c \in (Confirmed \ unsure)'
       PROVE  ~Overlaps(row'[c], handler'[g].slot)
  <2>1. CASE c = b
    BY <2>1, <1>1, <1>2, <1>10, <1>11 DEF Inv, Checked, Sure
  <2>2. CASE c # b
    BY <2>2, <1>1, <1>3, <1>4, <1>6, <1>10, <1>11 DEF Inv, Checked, Confirmed
  <2> QED  BY <2>1, <2>2
<1>12. Checked'
  BY <1>10, <1>11 DEF Inv, Checked
<1>13. ASSUME b \notin unsure, NEW c \in Confirmed \ unsure
       PROVE  ~Overlaps(row[c], handler[h].slot) /\ c # b /\ row'[c] = row[c]
  BY <1>13, <1>2, <1>4, <1>6 DEF Inv, Checked, Sure, Uncommitted, Confirmed
<1>14. ASSUME NEW c \in (Confirmed \ unsure)', NEW d \in (Confirmed \ unsure)', c # d
       PROVE  ~Overlaps(row'[c], row'[d])
  <2>1. CASE c = b
    BY <2>1, <1>1, <1>6, <1>7, <1>13, <1>14, OverlapsIsSymmetric
  <2>2. CASE d = b
    BY <2>2, <1>1, <1>6, <1>7, <1>13, <1>14, OverlapsIsSymmetric
  <2>3. CASE c # b /\ d # b
    BY <2>3, <1>1, <1>4, <1>6, <1>14 DEF Inv, Apart, Confirmed
  <2> QED  BY <2>1, <2>2, <2>3
<1>15. Apart'
  BY <1>14 DEF Apart
<1> QED  BY <1>8, <1>9, <1>12, <1>15 DEF Inv

LEMMA UpdateStatusInv ==
    ASSUME Inv, NEW b \in Bookings, NEW status \in {"confirmed", "closed"},
           UpdateStatus(b, status)
    PROVE  Inv'
<1>1. /\ row[b].status # "none" /\ row' = [row EXCEPT ![b].status = status]
      /\ unsure' = IF status = "confirmed" THEN unsure \cup {b} ELSE unsure
      /\ handler' = handler
  BY DEF UpdateStatus
<1>2. \A c \in Bookings : row'[c] =
          IF c = b THEN [status |-> status, start |-> row[b].start, end |-> row[b].end] ELSE row[c]
  BY <1>1 DEF Inv, Shape
<1>3. (Confirmed \ unsure)' \subseteq Confirmed \ unsure
  BY <1>1, <1>2 DEF Confirmed
<1>4. b \notin (Confirmed \ unsure)'
  BY <1>1, <1>2 DEF Confirmed
<1>5. \A c \in (Confirmed \ unsure)' : row'[c] = row[c]
  BY <1>2, <1>4 DEF Confirmed
<1>6. Uncommitted' = Uncommitted
  BY <1>1 DEF Uncommitted
<1>7. Shape'
  <2>1. row' = [c \in Bookings |-> row'[c]]
    BY <1>1 DEF Inv, Shape
  <2>2. \A c \in Bookings : row'[c] = [status |-> row'[c].status, start |-> row'[c].start,
                                       end |-> row'[c].end]
    BY <1>2 DEF Inv, Shape
  <2> QED  BY <2>1, <2>2, <1>1 DEF Inv, Shape
<1>8. Holds'
  BY <1>1, <1>2, <1>6 DEF Inv, Holds
<1>9. \A g \in Handlers : Sure(g)' => Sure(g)
  BY <1>1, <1>6 DEF Sure
<1>10. Checked'
  BY <1>1, <1>3, <1>5, <1>9 DEF Inv, Checked
<1>11. Apart'
  BY <1>3, <1>5 DEF Inv, Apart
<1> QED  BY <1>7, <1>8, <1>10, <1>11 DEF Inv

LEMMA Untouched ==
    ASSUME Inv, UNCHANGED <<row, handler, unsure>>
    PROVE  Inv'
<1>1. Uncommitted' = Uncommitted /\ Confirmed' = Confirmed
  BY DEF Uncommitted, Confirmed
<1>2. \A h : Sure(h)' <=> Sure(h)
  BY <1>1 DEF Sure
<1> QED  BY <1>1, <1>2 DEF Inv, Shape, Holds, Checked, Apart

LEMMA NextInv == Inv /\ [Next]_vars => Inv'
<1> SUFFICES ASSUME Inv, [Next]_vars PROVE Inv'
  OBVIOUS
<1>1. CASE Tick
  BY <1>1, Untouched DEF Tick
<1>2. ASSUME NEW s \in Sessions, NEW dur \in Durations, Present(s, dur) PROVE Inv'
  BY <1>2, Untouched DEF Present
<1>3. ASSUME NEW h \in Handlers, NEW s \in Sessions, NEW slot \in offer[s].slots, Tap(h, s, slot)
      PROVE  Inv'
  BY <1>3, TapInv
<1>4. ASSUME NEW h \in Handlers, NEW b \in Bookings, Insert(h, b) PROVE Inv'
  BY <1>4, InsertInv
<1>5. ASSUME NEW h \in Handlers, Taken(h) \/ Tell(h) \/ Commit(h) \/ Fail(h) PROVE Inv'
  BY <1>5, TakenInv, TellInv, CommitInv, FailInv
<1>6. ASSUME NEW b \in Bookings, NEW status \in {"confirmed", "closed"}, UpdateStatus(b, status)
      PROVE  Inv'
  BY <1>6, UpdateStatusInv
<1>7. CASE UNCHANGED vars
  BY <1>7, Untouched DEF vars
<1> QED  BY <1>1, <1>2, <1>3, <1>4, <1>5, <1>6, <1>7 DEF Next

-----------------------------------------------------------------------------
\* For any bookings, offers, services and overlapping requests: two confirmed
\* appointments overlap only if one of them was checked while another insert
\* was under way or was set back to confirmed (create_booking,
\* update_appointment_status).
THEOREM ClashNeedsAnOverlap == Spec => []ClashOnlyIfUnsure
<1>1. Inv => ClashOnlyIfUnsure
  BY DEF Inv, Apart, ClashOnlyIfUnsure, Clashing
<1> QED  BY <1>1, InitInv, NextInv, PTL DEF Spec

\* The owner does not set appointments back to confirmed.
Careful == Next /\ ~\E b \in Bookings : UpdateStatus(b, "confirmed")

\* Where taps are served one at a time and the owner sets no appointment back
\* to confirmed, no time is booked twice, as create_booking and its tests say:
\* old offers, repeated taps, failures and cancellations do not break it.
THEOREM NoDoubleBookingWhenAlone ==
    ASSUME \A g, h \in Handlers : g = h
    PROVE  Init /\ [][Careful]_vars => []NoDoubleBooking
<1>1. Init => unsure = {}
  BY DEF Init
<1>2. unsure = {} /\ [Careful]_vars => (unsure = {})'
  <2> SUFFICES ASSUME unsure = {}, [Careful]_vars PROVE unsure' = {}
    OBVIOUS
  <2>1. ASSUME NEW h \in Handlers, NEW b \in Bookings, Insert(h, b) PROVE unsure' = {}
    <3>1. Uncommitted = {}
      BY <2>1 DEF Insert, Uncommitted
    <3> QED  BY <2>1, <3>1 DEF Insert
  <2>2. ASSUME NEW b \in Bookings, UpdateStatus(b, "closed") PROVE unsure' = {}
    BY <2>2 DEF UpdateStatus
  <2> QED
    BY <2>1, <2>2 DEF Careful, Next, vars, Tick, Present, Tap, Taken, Tell, Commit, Fail
<1>3. unsure = {} /\ Inv => NoDoubleBooking
  BY DEF Inv, Apart, NoDoubleBooking, Clashing
<1>4. [Careful]_vars => [Next]_vars
  BY DEF Careful
<1> QED  BY <1>1, <1>2, <1>3, <1>4, InitInv, NextInv, PTL

-----------------------------------------------------------------------------
(* The slots that are offered                                              *)

LEMMA LeastPlace ==
    ASSUME NEW these, these \subseteq Nat, these # {}
    PROVE  \E x \in these : \A y \in these : x <= y
<1>0. \A x, y \in Nat : <<x, y>> \in OpToRel(<, Nat) <=> x < y
  BY DEF OpToRel
<1>1. PICK x \in these : \A y \in these : ~(<<y, x>> \in OpToRel(<, Nat))
  BY NatLessThanWellFounded, WFMin
<1>2. \A y \in these : ~(y < x)
  BY <1>0, <1>1
<1> QED  BY <1>2

LEMMA DivRest ==
    ASSUME NEW x \in Nat, NEW d \in Nat \ {0}
    PROVE  /\ x \div d \in Nat /\ x % d \in 0..(d - 1)
           /\ x = d * (x \div d) + (x % d)
  OBVIOUS

LEMMA MultiplesApart ==
    ASSUME NEW j \in Nat, NEW k \in Nat, NEW d \in Nat \ {0}, k * d <= j * d, j * d < (k + 1) * d
    PROVE  j = k
<1>1. j <= k - 1 => k * d - j * d >= d
  <2>1. k * d - j * d = (k - j) * d
    OBVIOUS
  <2>2. ASSUME NEW i \in Nat \ {0} PROVE i * d >= d
    OBVIOUS
  <2> QED  BY <2>1, <2>2
<1>2. j >= k + 1 => j * d >= (k + 1) * d
  <2>1. j * d - (k + 1) * d = (j - (k + 1)) * d
    OBVIOUS
  <2>2. ASSUME NEW i \in Nat PROVE i * d >= 0
    OBVIOUS
  <2> QED  BY <2>1, <2>2
<1> QED  BY <1>1, <1>2

First(day) == day * DayLen + Open
Last(day) == day * DayLen + Close

\* What found[k] is, given what an earlier round found.
After(day, dur, found, k) ==
    IF k = 0 THEN {} ELSE Round(found[k - 1], First(day) + (k - 1) * dur, dur, Last(day))

LEMMA WalkExists ==
    ASSUME NEW day, NEW dur, Rounds \in Nat
    PROVE  \E f : f = [k \in 0..Rounds |-> After(day, dur, f, k)]
<1> DEFINE Sol(f, n) == f = [k \in 0..n |-> After(day, dur, f, k)]
           Bad == {n \in 0..Rounds : ~\E f : Sol(f, n)}
<1>1. SUFFICES ASSUME Bad # {} PROVE FALSE
  OBVIOUS
<1>2. PICK n \in Bad : \A m \in Bad : n <= m
  <2>1. Bad \subseteq Nat
    OBVIOUS
  <2> HIDE DEF Bad
  <2> QED  BY <1>1, <2>1, LeastPlace
<1>3. n # 0
  <2>1. Sol([k \in 0..0 |-> {}], 0)
    BY DEF After
  <2> QED  BY <2>1
<1>4. n - 1 \in 0..Rounds /\ n - 1 \notin Bad
  BY <1>2, <1>3
<1>5. PICK f : Sol(f, n - 1)
  BY <1>4
<1> DEFINE g == [k \in 0..n |-> IF k = n THEN After(day, dur, f, n) ELSE f[k]]
<1>6. \A k \in 0..n : k # 0 => g[k - 1] = f[k - 1]
  BY <1>4
<1>7. \A k \in 0..n : After(day, dur, g, k) = After(day, dur, f, k)
  BY <1>6 DEF After
<1>8. \A k \in 0..(n - 1) : f[k] = After(day, dur, f, k)
  BY <1>5
<1>9. \A k \in 0..n : g[k] = After(day, dur, g, k)
  BY <1>4, <1>7, <1>8
<1>10. Sol(g, n)
  BY <1>9
<1> QED  BY <1>10

LEMMA WalkIs ==
    ASSUME NEW day, NEW dur, Rounds \in Nat
    PROVE  Walk(day, dur) = [k \in 0..Rounds |-> After(day, dur, Walk(day, dur), k)]
<1> DEFINE E(f) == f = [k \in 0..Rounds |-> After(day, dur, f, k)]
<1>1. Walk(day, dur) = CHOOSE f : E(f)
  BY DEF Walk, After, First, Last
<1>2. \E f : E(f)
  BY WalkExists
<1>3. E(CHOOSE f : E(f))
  BY <1>2
<1> QED  BY <1>1, <1>3

\* The free slots of the grid that start before the cursor of round k.
Early(day, dur, k) ==
    {s \in Grid(day, dur) : s.start > now /\ ~Conflict(s) /\ s.start < First(day) + k * dur}

LEMMA DayIs ==
    ASSUME BookingAssumption, NEW day \in Nat
    PROVE  /\ First(day) \in Nat /\ Last(day) \in Nat /\ Last(day) - First(day) = Rounds
           /\ Rounds \in Nat
  BY DEF BookingAssumption, First, Last, Rounds

LEMMA GridIs ==
    ASSUME BookingAssumption, NEW day \in Nat, NEW dur \in Durations, NEW s
    PROVE  s \in Grid(day, dur) <=>
               \E j \in 0..Rounds : /\ s = SlotAt(First(day) + j * dur, dur)
                                    /\ First(day) + j * dur + dur <= Last(day)
<1>0. dur \in Nat \ {0}
  BY DEF BookingAssumption
<1>d. First(day) \in Nat /\ Last(day) \in Nat /\ Last(day) - First(day) = Rounds /\ Rounds \in Nat
  BY DayIs
<1> DEFINE OnGrid(c) == (c - First(day)) % dur = 0
<1>1. Grid(day, dur) = {SlotAt(c, dur) : c \in {x \in First(day)..(Last(day) - dur) : OnGrid(x)}}
  BY DEF Grid, First, Last, SlotAt
<1>2. ASSUME NEW c \in First(day)..(Last(day) - dur), OnGrid(c)
      PROVE  \E j \in 0..Rounds : c = First(day) + j * dur /\ First(day) + j * dur + dur <= Last(day)
  <2> DEFINE x == c - First(day)
             j == x \div dur
  <2>1. x \in Nat /\ x + dur <= Rounds /\ c = First(day) + x
    BY <1>0, <1>2, <1>d
  <2>2. x % dur = 0
    BY <1>2
  <2> HIDE DEF x
  <2>3. j \in Nat /\ x = dur * j + (x % dur)
    BY <1>0, <2>1, DivRest
  <2> HIDE DEF j
  <2>4. x = j * dur
    BY <1>0, <2>1, <2>2, <2>3
  <2>5. j <= j * dur
    BY <1>0, <2>3
  <2>6. j \in 0..Rounds
    BY <1>0, <1>d, <2>1, <2>3, <2>4, <2>5
  <2> QED  BY <1>0, <1>d, <2>1, <2>4, <2>6
<1>3. ASSUME NEW j \in 0..Rounds, First(day) + j * dur + dur <= Last(day)
      PROVE  /\ First(day) + j * dur \in First(day)..(Last(day) - dur)
             /\ OnGrid(First(day) + j * dur)
  <2> DEFINE x == j * dur
  <2>1. x \in Nat
    BY <1>0, <1>d, <1>3
  <2>2. x % dur = 0
    <3> DEFINE q == x \div dur
    <3>1. q \in Nat /\ x % dur \in 0..(dur - 1) /\ x = dur * q + (x % dur)
      BY <1>0, <2>1, DivRest
    <3> DEFINE r == x % dur
    <3> HIDE DEF q
    <3>2. r \in 0..(dur - 1) /\ j * dur = dur * q + r
      BY <3>1
    <3> HIDE DEF r
    <3>3. q * dur <= j * dur /\ j * dur < (q + 1) * dur
      <4>1. dur * q = q * dur /\ (q + 1) * dur = q * dur + dur /\ q * dur \in Nat
        BY <1>0, <3>1
      <4> QED  BY <1>0, <1>d, <3>2, <4>1
    <3>4. j = q
      BY <1>0, <3>1, <3>3, MultiplesApart
    <3>5. r = 0
      BY <1>0, <3>1, <3>2, <3>4
    <3> QED  BY <3>5 DEF r
  <2> HIDE DEF x
  <2>3. (First(day) + x) - First(day) = x
    BY <1>d, <2>1
  <2>4. First(day) + x \in First(day)..(Last(day) - dur)
    BY <1>0, <1>d, <1>3, <2>1 DEF x
  <2>5. ((First(day) + x) - First(day)) % dur = 0
    BY <2>2, <2>3
  <2> QED  BY <2>4, <2>5 DEF x
<1> HIDE DEF OnGrid
<1>4. ASSUME s \in Grid(day, dur)
      PROVE  \E j \in 0..Rounds : /\ s = SlotAt(First(day) + j * dur, dur)
                                  /\ First(day) + j * dur + dur <= Last(day)
  <2>1. PICK c \in First(day)..(Last(day) - dur) : OnGrid(c) /\ s = SlotAt(c, dur)
    BY <1>1, <1>4
  <2>2. PICK j \in 0..Rounds : c = First(day) + j * dur /\ First(day) + j * dur + dur <= Last(day)
    BY <1>2, <2>1
  <2> QED  BY <2>1, <2>2
<1>5. ASSUME NEW j \in 0..Rounds, s = SlotAt(First(day) + j * dur, dur),
             First(day) + j * dur + dur <= Last(day)
      PROVE  s \in Grid(day, dur)
  BY <1>1, <1>3, <1>5
<1> QED  BY <1>4, <1>5

-----------------------------------------------------------------------------
\* After k rounds: what is found is free and early; it is all there is, or the
\* list is full and the rest comes later.
Found(day, dur, k) ==
    LET found == Walk(day, dur)[k]
    IN  /\ found \subseteq Early(day, dur, k)
        /\ IsFiniteSet(found) /\ Cardinality(found) <= NumSlots
        /\ \A s \in Early(day, dur, k) \ found :
             /\ Cardinality(found) = NumSlots
             /\ \A t \in found : t.start < s.start

LEMMA EarlyGrows ==
    ASSUME BookingAssumption, now \in Nat, NEW day \in Nat, NEW dur \in Durations,
           NEW k \in 0..Rounds
    PROVE  LET c == First(day) + k * dur
           IN  Early(day, dur, k + 1) =
                   IF c + dur <= Last(day) /\ c > now /\ ~Conflict(SlotAt(c, dur))
                   THEN Early(day, dur, k) \cup {SlotAt(c, dur)}
                   ELSE Early(day, dur, k)
<1> DEFINE c == First(day) + k * dur
<1>0. dur \in Nat \ {0}
  BY DEF BookingAssumption
<1>d. First(day) \in Nat /\ Last(day) \in Nat /\ Rounds \in Nat
  BY DayIs
<1>1. k * dur \in Nat /\ (k + 1) * dur = k * dur + dur
  BY <1>0, <1>d
<1>2. \A s \in Grid(day, dur) :
         s.start < First(day) + (k + 1) * dur <=> s.start < c \/ s = SlotAt(c, dur)
  <2> SUFFICES ASSUME NEW s \in Grid(day, dur)
               PROVE  s.start < First(day) + (k + 1) * dur <=> s.start < c \/ s = SlotAt(c, dur)
    OBVIOUS
  <2>1. PICK j \in 0..Rounds : s = SlotAt(First(day) + j * dur, dur)
    BY GridIs
  <2>2. s.start = First(day) + j * dur /\ j * dur \in Nat
    BY <1>0, <1>d, <2>1 DEF SlotAt
  <2>3. k * dur <= j * dur /\ j * dur < (k + 1) * dur => j = k
    BY <1>0, <1>d, MultiplesApart
  <2>4. s = SlotAt(c, dur) => s.start = c
    BY DEF SlotAt
  <2>5. j = k => s = SlotAt(c, dur)
    BY <2>1
  <2> QED  BY <1>0, <1>1, <1>d, <2>2, <2>3, <2>4, <2>5
<1>3. SlotAt(c, dur) \in Grid(day, dur) <=> c + dur <= Last(day)
  <2>1. c + dur <= Last(day) => SlotAt(c, dur) \in Grid(day, dur)
    BY GridIs
  <2>2. ASSUME SlotAt(c, dur) \in Grid(day, dur) PROVE c + dur <= Last(day)
    <3>1. PICK j \in 0..Rounds : /\ SlotAt(c, dur) = SlotAt(First(day) + j * dur, dur)
                                 /\ First(day) + j * dur + dur <= Last(day)
      BY <2>2, GridIs
    <3> QED  BY <3>1 DEF SlotAt
  <2> QED  BY <2>1, <2>2
<1>4. SlotAt(c, dur).start = c
  BY DEF SlotAt
<1> HIDE DEF c
<1> SUFFICES Early(day, dur, k + 1) =
                 IF c + dur <= Last(day) /\ c > now /\ ~Conflict(SlotAt(c, dur))
                 THEN Early(day, dur, k) \cup {SlotAt(c, dur)}
                 ELSE Early(day, dur, k)
  BY DEF c
<1>5. Early(day, dur, k) = {s \in Grid(day, dur) : s.start > now /\ ~Conflict(s) /\ s.start < c}
  BY DEF Early, c
<1>6. Early(day, dur, k + 1) =
         {s \in Grid(day, dur) : s.start > now /\ ~Conflict(s) /\ (s.start < c \/ s = SlotAt(c, dur))}
  BY <1>2 DEF Early
<1> QED  BY <1>3, <1>4, <1>5, <1>6

LEMMA FoundGrows ==
    ASSUME BookingAssumption, now \in Nat, NEW day \in Nat, NEW dur \in Durations,
           NEW k \in 0..Rounds, k # 0, Found(day, dur, k - 1)
    PROVE  Found(day, dur, k)
<1> DEFINE c == First(day) + (k - 1) * dur
           old == Walk(day, dur)[k - 1]
           new == Walk(day, dur)[k]
           slot == SlotAt(c, dur)
           Room == c + dur <= Last(day) /\ c > now /\ ~Conflict(slot)
           early == Early(day, dur, k - 1)
<1>0. /\ Rounds \in Nat /\ k - 1 \in 0..Rounds /\ k - 1 + 1 = k /\ NumSlots \in Nat
      /\ First(day) \in Nat /\ dur \in Nat \ {0} /\ (k - 1) * dur \in Nat
  BY DayIs DEF BookingAssumption
<1>1. new = Round(old, c, dur, Last(day))
  BY <1>0, WalkIs DEF After
<1>2. new = IF Room /\ Cardinality(old) < NumSlots THEN old \cup {slot} ELSE old
  BY <1>1 DEF Round
<1>3. Early(day, dur, k) = IF Room THEN early \cup {slot} ELSE early
  BY <1>0, EarlyGrows
<1>4. /\ old \subseteq early /\ IsFiniteSet(old) /\ Cardinality(old) <= NumSlots
      /\ \A s \in early \ old : Cardinality(old) = NumSlots /\ \A t \in old : t.start < s.start
  BY DEF Found
<1>5. slot.start = c /\ \A s \in early : s.start < c
  BY DEF Early, SlotAt
<1>6. c \in Nat
  BY <1>0
<1>7. slot \notin early
  BY <1>5, <1>6
<1> HIDE DEF c, old, new, slot, early
<1>8. CASE Room /\ Cardinality(old) < NumSlots
  <2>1. slot \notin old
    BY <1>4, <1>7
  <2>2. IsFiniteSet(new) /\ Cardinality(new) = Cardinality(old) + 1
    BY <1>2, <1>4, <1>8, <2>1, FS_AddElement
  <2>3. Cardinality(old) \in Nat
    BY <1>4, FS_CardinalityType
  <2>4. early \ old = {}
    BY <1>0, <1>4, <1>8, <2>3
  <2>5. new = early \cup {slot} /\ Early(day, dur, k) = early \cup {slot}
    BY <1>2, <1>3, <1>4, <1>8, <2>4
  <2> QED  BY <1>0, <1>8, <2>2, <2>3, <2>5 DEF Found, new
<1>9. CASE ~(Room /\ Cardinality(old) < NumSlots)
  <2>1. new = old
    BY <1>2, <1>9
  <2>2. ASSUME NEW s \in Early(day, dur, k) \ new
        PROVE  Cardinality(new) = NumSlots /\ \A t \in new : t.start < s.start
    <3>1. CASE s \in early
      BY <1>4, <2>1, <2>2, <3>1
    <3>2. CASE s \notin early
      <4>1. s = slot /\ Room
        BY <1>3, <2>2, <3>2
      <4>2. Cardinality(old) = NumSlots
        BY <1>0, <1>4, <1>9, <4>1, FS_CardinalityType
      <4> QED  BY <1>4, <1>5, <2>1, <4>1, <4>2
    <3> QED  BY <3>1, <3>2
  <2>3. new \subseteq Early(day, dur, k)
    BY <1>3, <1>4, <2>1
  <2> QED  BY <1>4, <2>1, <2>2, <2>3 DEF Found, new
<1> QED  BY <1>8, <1>9

LEMMA FoundHolds ==
    ASSUME BookingAssumption, now \in Nat, NEW day \in Nat, NEW dur \in Durations
    PROVE  \A k \in 0..Rounds : Found(day, dur, k)
<1> DEFINE Bad == {k \in 0..Rounds : ~Found(day, dur, k)}
<1>0. Rounds \in Nat
  BY DayIs
<1>1. SUFFICES ASSUME Bad # {} PROVE FALSE
  OBVIOUS
<1>2. PICK k \in Bad : \A m \in Bad : k <= m
  <2>1. Bad \subseteq Nat
    OBVIOUS
  <2> HIDE DEF Bad
  <2> QED  BY <1>1, <2>1, LeastPlace
<1>3. Found(day, dur, 0)
  <2>1. Walk(day, dur)[0] = {}
    BY <1>0, WalkIs DEF After
  <2>2. Early(day, dur, 0) = {}
    <3> SUFFICES ASSUME NEW s \in Early(day, dur, 0) PROVE FALSE
      OBVIOUS
    <3>1. dur \in Nat \ {0} /\ First(day) \in Nat
      BY DayIs DEF BookingAssumption
    <3>2. PICK j \in 0..Rounds : s = SlotAt(First(day) + j * dur, dur)
      BY GridIs DEF Early
    <3>3. s.start = First(day) + j * dur /\ s.start < First(day) + 0 * dur
      BY <3>2 DEF SlotAt, Early
    <3>4. j * dur \in Nat /\ 0 * dur = 0
      BY <1>0, <3>1
    <3> QED  BY <3>1, <3>3, <3>4
  <2>3. IsFiniteSet({}) /\ Cardinality({}) = 0 /\ NumSlots \in Nat
    BY FS_EmptySet DEF BookingAssumption
  <2> QED  BY <2>1, <2>2, <2>3 DEF Found
<1>4. k # 0 /\ k - 1 \in 0..Rounds /\ k - 1 \notin Bad
  BY <1>0, <1>2, <1>3
<1> QED  BY <1>2, <1>4, FoundGrows

\* All the free slots of the day have been looked at after the last round.
LEMMA AllIsEarly ==
    ASSUME BookingAssumption, now \in Nat, NEW day \in Nat, NEW dur \in Durations
    PROVE  Early(day, dur, Rounds) = {s \in Grid(day, dur) : s.start > now /\ ~Conflict(s)}
<1>0. dur \in Nat \ {0} /\ Rounds \in Nat /\ First(day) \in Nat /\ Last(day) - First(day) = Rounds
      /\ Last(day) \in Nat
  BY DayIs DEF BookingAssumption
<1>1. ASSUME NEW s \in Grid(day, dur) PROVE s.start < First(day) + Rounds * dur
  <2>1. PICK j \in 0..Rounds : s = SlotAt(First(day) + j * dur, dur) /\ First(day) + j * dur + dur <= Last(day)
    BY <1>1, GridIs
  <2>2. s.start = First(day) + j * dur /\ j * dur \in Nat
    BY <1>0, <2>1 DEF SlotAt
  <2>3. Rounds * dur >= Rounds
    BY <1>0
  <2>4. Rounds * dur \in Nat
    BY <1>0
  <2> QED  BY <1>0, <2>1, <2>2, <2>3, <2>4
<1> QED  BY <1>1 DEF Early

LEMMA FreeSlotsAre ==
    ASSUME BookingAssumption, now \in Nat, NEW day \in Nat, NEW dur \in Durations
    PROVE  LET slots == FreeSlots(day, dur)
               free == {s \in Grid(day, dur) : s.start > now /\ ~Conflict(s)}
           IN  /\ slots \subseteq free /\ IsFiniteSet(slots) /\ Cardinality(slots) <= NumSlots
               /\ \A s \in free \ slots :
                    Cardinality(slots) = NumSlots /\ \A t \in slots : t.start < s.start
<1>1. Rounds \in 0..Rounds
  BY DayIs
<1>2. Found(day, dur, Rounds)
  BY <1>1, FoundHolds
<1> QED  BY <1>2, AllIsEarly DEF Found, FreeSlots

\* The days that are looked at lie within the times of the model.
LEMMA SlotsAreTyped ==
    ASSUME BookingAssumption, now \in 0..MaxTime, NEW day \in {now \div DayLen, Tomorrow},
           NEW dur \in Durations
    PROVE  day \in Nat /\ FreeSlots(day, dur) \subseteq Slot
<1>0. DayLen \in Nat \ {0} /\ now \in Nat /\ now <= MaxTime /\ MaxTime \in Nat
  BY DEF BookingAssumption
<1> DEFINE q == now \div DayLen
<1>1. q \in Nat /\ now % DayLen \in 0..(DayLen - 1) /\ now = DayLen * q + (now % DayLen)
  BY <1>0, DivRest
<1>2. day \in Nat /\ (day = q \/ day = q + 1)
  BY <1>1 DEF Tomorrow
<1> HIDE DEF q
<1>3. day * DayLen <= now + DayLen
  <2>1. DayLen * q <= now /\ DayLen * q = q * DayLen /\ (q + 1) * DayLen = q * DayLen + DayLen
    BY <1>0, <1>1
  <2>2. day * DayLen = q * DayLen \/ day * DayLen = q * DayLen + DayLen
    BY <1>2, <2>1
  <2> QED  BY <1>0, <1>1, <2>1, <2>2
<1>4. day * DayLen \in Nat
  BY <1>0, <1>2
<1>5. Last(day) <= MaxTime + 2 * DayLen
  BY <1>0, <1>3, <1>4 DEF BookingAssumption, Last
<1>6. ASSUME NEW s \in Grid(day, dur) PROVE s \in Slot
  <2>1. PICK j \in 0..Rounds : s = SlotAt(First(day) + j * dur, dur) /\ First(day) + j * dur + dur <= Last(day)
    BY <1>2, <1>6, GridIs
  <2>2. dur \in Nat \ {0} /\ First(day) \in Nat /\ Rounds \in Nat /\ Last(day) \in Nat
    BY <1>2, DayIs DEF BookingAssumption
  <2>3. j * dur \in Nat
    BY <2>2
  <2> DEFINE c == First(day) + j * dur
  <2>4. c \in Nat /\ c + dur <= MaxTime + 2 * DayLen
    BY <1>0, <1>5, <2>1, <2>2, <2>3
  <2> HIDE DEF c
  <2>5. c \in Times /\ c + dur \in Times
    BY <1>0, <2>2, <2>4 DEF Times
  <2>6. s = SlotAt(c, dur)
    BY <2>1 DEF c
  <2> QED  BY <2>5, <2>6 DEF SlotAt, Slot
<1>7. FreeSlots(day, dur) \subseteq Grid(day, dur)
  BY <1>0, <1>2, FreeSlotsAre
<1> QED  BY <1>2, <1>6, <1>7

LEMMA NowIs == BookingAssumption /\ TypeOK => now \in Nat /\ now \in 0..MaxTime /\ now \in Times
                  /\ now + Hour \in Times /\ 0 \in Times
  BY DEF BookingAssumption, TypeOK, Times

\* The state of a request, with TypeOK's facts about each.
Requests == handler = [h \in Handlers |-> handler[h]]

Typed == TypeOK /\ Requests

LEMMA TypedInit == Init => Typed
<1>1. BookingAssumption
  BY BookingAssumption
<1>2. MaxTime \in Nat /\ DayLen \in Nat
  BY <1>1 DEF BookingAssumption
<1>3. 0 \in Times /\ 0 \in 0..MaxTime
  BY <1>2 DEF Times
<1> SUFFICES ASSUME Init PROVE Typed
  OBVIOUS
<1>4. row \in [Bookings -> [status : {"none", "confirmed", "closed"}, start : Times, end : Times]]
  BY <1>3 DEF Init, NoRow
<1>5. offer \in [Sessions -> [slots : SUBSET Slot, until : Times]]
  BY <1>3 DEF Init
<1>6. \A h \in Handlers : /\ handler[h].st = "idle" /\ handler[h].slot \in Slot
                           /\ handler[h].booking \notin Bookings
  BY <1>1, <1>3 DEF Init, Idle, Slot, BookingAssumption
<1>7. unsure \subseteq Bookings /\ now \in 0..MaxTime /\ Requests
  BY <1>3 DEF Init, Requests
<1> QED  BY <1>4, <1>5, <1>6, <1>7 DEF TypeOK, Typed

\* A request that holds a row between its insert and its end, and no other.
Request(rec) ==
    /\ rec.st \in {"idle", "tapped", "inserted", "told"} /\ rec.slot \in Slot
    /\ rec.booking \in Bookings <=> rec.st \in {"inserted", "told"}

LEMMA TypedRequest ==
    ASSUME Typed, NEW h \in Handlers, NEW rec, Request(rec),
           handler' = [handler EXCEPT ![h] = rec]
    PROVE  /\ \A g \in Handlers : Request(handler[g])'
           /\ Requests'
  BY DEF Typed, TypeOK, Requests, Request

LEMMA IdleRequest == BookingAssumption => Request(Idle)
  BY DEF BookingAssumption, Request, Idle, Slot, Times

LEMMA ConsumedTyped ==
    ASSUME BookingAssumption, TypeOK, NEW s
    PROVE  Consumed(s) \in [Sessions -> [slots : SUBSET Slot, until : Times]]
<1>1. [slots |-> {}, until |-> 0] \in [slots : SUBSET Slot, until : Times]
  BY NowIs
<1> QED  BY <1>1 DEF Consumed, TypeOK

LEMMA PresentTyped ==
    ASSUME Typed, NEW s \in Sessions, NEW dur \in Durations, Present(s, dur)
    PROVE  Typed'
<1>1. BookingAssumption /\ now \in 0..MaxTime /\ now + Hour \in Times
  BY BookingAssumption, NowIs DEF Typed
<1>2. FreeSlots(Tomorrow, dur) \subseteq Slot
  BY <1>1, SlotsAreTyped
<1>3. offer' \in [Sessions -> [slots : SUBSET Slot, until : Times]]
  BY <1>1, <1>2 DEF Present, Typed, TypeOK
<1> QED  BY <1>3 DEF Present, Typed, TypeOK, Requests

LEMMA RequestMoves ==
    ASSUME Typed, NEW h \in Handlers, NEW rec, Request(rec),
           handler' = [handler EXCEPT ![h] = rec],
           now' = now, row' \in [Bookings -> [status : {"none", "confirmed", "closed"}, start : Times, end : Times]],
           offer' \in [Sessions -> [slots : SUBSET Slot, until : Times]], unsure' \subseteq Bookings
    PROVE  Typed'
<1>1. (\A g \in Handlers : Request(handler[g])') /\ Requests'
  BY TypedRequest
<1> QED  BY <1>1 DEF Typed, TypeOK, Request

LEMMA TypedStep == Typed /\ [Next]_vars => Typed'
<1> SUFFICES ASSUME Typed, [Next]_vars PROVE Typed'
  OBVIOUS
<1>0. BookingAssumption
  BY BookingAssumption
<1>1. CASE UNCHANGED vars
  BY <1>1 DEF vars, Typed, TypeOK, Requests
<1>2. CASE Tick
  BY <1>0, <1>2 DEF Tick, Typed, TypeOK, Requests, BookingAssumption
<1>3. CASE \E s \in Sessions, dur \in Durations : Present(s, dur)
  BY <1>3, PresentTyped
<1>r. \A h \in Handlers : Request(handler[h])
  BY DEF Typed, TypeOK, Request
<1>4. ASSUME NEW h \in Handlers, NEW s \in Sessions, NEW slot \in offer[s].slots, Tap(h, s, slot) PROVE Typed'
  <2> DEFINE rec == [st |-> "tapped", key |-> s, slot |-> slot, booking |-> NoBooking]
  <2>1. slot \in Slot
    BY <1>4 DEF Typed, TypeOK
  <2>2. Request(rec)
    BY <1>0, <2>1 DEF Request, BookingAssumption
  <2>3. handler' = [handler EXCEPT ![h] = rec] /\ UNCHANGED <<now, row, offer, unsure>>
    BY <1>4 DEF Tap
  <2> HIDE DEF rec
  <2> QED  BY <2>2, <2>3, RequestMoves DEF Typed, TypeOK
<1>5. ASSUME NEW h \in Handlers, NEW b \in Bookings, Insert(h, b) PROVE Typed'
  <2> DEFINE rec == [handler[h] EXCEPT !.st = "inserted", !.booking = b]
  <2>1. handler' = [handler EXCEPT ![h] = rec] /\ UNCHANGED <<now, row, offer>>
    BY <1>5 DEF Insert, Typed, Requests
  <2>2. Request(rec)
    BY <1>r, <1>5 DEF Insert, Request
  <2>3. unsure' \subseteq Bookings
    BY <1>5 DEF Insert, Typed, TypeOK
  <2> HIDE DEF rec
  <2> QED  BY <2>1, <2>2, <2>3, RequestMoves DEF Typed, TypeOK
<1>6. ASSUME NEW h \in Handlers, Taken(h) PROVE Typed'
  BY <1>0, <1>6, IdleRequest, ConsumedTyped, RequestMoves DEF Taken, Typed, TypeOK
<1>7. ASSUME NEW h \in Handlers, Tell(h) PROVE Typed'
  <2> DEFINE rec == [handler[h] EXCEPT !.st = "told"]
  <2>1. handler' = [handler EXCEPT ![h] = rec] /\ UNCHANGED <<now, row, unsure>>
    BY <1>7 DEF Tell, Typed, Requests
  <2>2. Request(rec)
    BY <1>r, <1>7 DEF Tell, Request
  <2>3. offer' \in [Sessions -> [slots : SUBSET Slot, until : Times]]
    BY <1>0, <1>7, ConsumedTyped DEF Tell, Typed
  <2> HIDE DEF rec
  <2> QED  BY <2>1, <2>2, <2>3, RequestMoves DEF Typed, TypeOK
<1>8. ASSUME NEW h \in Handlers, Commit(h) PROVE Typed'
  <2>1. handler[h].slot.start \in Times /\ handler[h].slot.end \in Times
    BY DEF Typed, TypeOK, Slot
  <2>2. row' \in [Bookings -> [status : {"none", "confirmed", "closed"}, start : Times, end : Times]]
    BY <1>8, <2>1 DEF Commit, Typed, TypeOK
  <2>3. handler' = [handler EXCEPT ![h] = Idle] /\ UNCHANGED <<now, offer, unsure>>
    BY <1>8 DEF Commit
  <2> QED  BY <1>0, <2>2, <2>3, IdleRequest, RequestMoves DEF Typed, TypeOK
<1>9. ASSUME NEW h \in Handlers, Fail(h) PROVE Typed'
  BY <1>0, <1>9, IdleRequest, RequestMoves DEF Fail, Typed, TypeOK
<1>10. ASSUME NEW b \in Bookings, NEW status \in {"confirmed", "closed"}, UpdateStatus(b, status) PROVE Typed'
  BY <1>10 DEF UpdateStatus, Typed, TypeOK, Requests
<1> QED  BY <1>1, <1>2, <1>3, <1>4, <1>5, <1>6, <1>7, <1>8, <1>9, <1>10 DEF Next

\* Offers, rows and requests stay well formed; that the offered slots lie
\* within the times of the model is what the loop of compute_free_slots shows.
THEOREM BookingTyped == Spec => []TypeOK
<1>1. Init => Typed
  BY TypedInit
<1>2. Typed /\ [Next]_vars => Typed'
  BY TypedStep
<1>3. Typed => TypeOK
  BY DEF Typed
<1> QED  BY <1>1, <1>2, <1>3, PTL DEF Spec

\* compute_free_slots, for every table of bookings, opening hours, duration and
\* number of slots: it returns slots of the day's grid that are still to come
\* and free, no more than it was asked for, and passes none over unless that
\* many earlier ones are returned.
THEOREM SlotsFirstFree == Spec => []SlotsAreFirstFree
<1>1. TypeOK => SlotsAreFirstFree
  <2> SUFFICES ASSUME TypeOK, NEW day \in {now \div DayLen, Tomorrow}, NEW dur \in Durations
               PROVE  LET slots == FreeSlots(day, dur)
                          free  == {s \in Grid(day, dur) : s.start > now /\ ~Conflict(s)}
                      IN  /\ slots \subseteq free /\ Cardinality(slots) <= NumSlots
                          /\ \A s \in free \ slots :
                               Cardinality({t \in slots : t.start < s.start}) = NumSlots
    BY DEF SlotsAreFirstFree
  <2>1. BookingAssumption /\ now \in 0..MaxTime /\ now \in Nat
    BY BookingAssumption, NowIs
  <2>2. day \in Nat
    BY <2>1, SlotsAreTyped
  <2> DEFINE slots == FreeSlots(day, dur)
             free  == {s \in Grid(day, dur) : s.start > now /\ ~Conflict(s)}
  <2>3. /\ slots \subseteq free /\ Cardinality(slots) <= NumSlots
        /\ \A s \in free \ slots :
             Cardinality(slots) = NumSlots /\ \A t \in slots : t.start < s.start
    BY <2>1, <2>2, FreeSlotsAre
  <2> HIDE DEF slots, free
  <2>4. ASSUME NEW s \in free \ slots
        PROVE  Cardinality({t \in slots : t.start < s.start}) = NumSlots
    <3>1. {t \in slots : t.start < s.start} = slots
      BY <2>3
    <3> QED  BY <2>3, <3>1
  <2> QED  BY <2>3, <2>4 DEF slots, free
<1> QED  BY <1>1, BookingTyped, PTL

-----------------------------------------------------------------------------
(* Reminders                                                               *)

\* A reminder that was sent is marked, in the row or in the run that will write
\* the mark; what a run still has to send was not sent, and not both reminders
\* of one appointment are due.
MarkedInv ==
    /\ \A q, r \in Runs : run[q].st = "sending" /\ run[r].st = "sending" => q = r
    /\ \A b \in Bookings, k \in R!Kinds : sent[b][k] > 0 =>
          k \in appointment[b].marks \/ \E r \in Runs : <<b, k>> \in run[r].marked
    /\ \A r \in Runs, b \in Bookings, k \in R!Kinds : <<b, k>> \in run[r].due => sent[b][k] = 0
    /\ \A r \in Runs, b \in Bookings : <<b, "24h">> \in run[r].due =>
          sent[b]["1h"] = 0 /\ <<b, "1h">> \notin run[r].due

\* Only appointments that were made have reminders, and once the reminder of the
\* last hour is due the last hour has begun and stays.
LastHourInv ==
    /\ \A b \in Bookings, k \in R!Kinds :
          sent[b][k] > 0 \/ (\E r \in Runs : <<b, k>> \in run[r].due) => appointment[b].status # "none"
    /\ \A b \in Bookings :
          sent[b]["1h"] > 0 \/ (\E r \in Runs : <<b, "1h">> \in run[r].due) =>
              appointment[b].start - clock <= Hour

OrderInv == R!TypeOK /\ LastHourInv /\ (loose \/ MarkedInv)

RowSet == [status : {"none", "confirmed", "closed"}, start : Starts \cup {0}, marks : SUBSET R!Kinds]
RunSet == [st : {"idle", "sending"}, due : SUBSET (Bookings \X R!Kinds),
           marked : SUBSET (Bookings \X R!Kinds)]

LEMMA NoRunIsIdle ==
    R!NoRun \in RunSet /\ R!NoRun.st = "idle" /\ R!NoRun.due = {} /\ R!NoRun.marked = {}
  BY DEF R!NoRun, RunSet

\* What the types say of one booking and one run.
LEMMA OrderTypes ==
    ASSUME R!SoundConstants, OrderInv
    PROVE  /\ clock \in Nat /\ appointment \in [Bookings -> RowSet] /\ run \in [Runs -> RunSet]
           /\ loose \in BOOLEAN
           /\ \A b \in Bookings :
                 /\ appointment[b].start \in Nat /\ appointment[b].marks \subseteq R!Kinds
                 /\ appointment[b].status \in {"none", "confirmed", "closed"}
                 /\ \A k \in R!Kinds : sent[b][k] \in Nat
                 /\ sent[b]["1h"] \in Nat /\ sent[b]["24h"] \in Nat
           /\ \A r \in Runs : /\ run[r].st \in {"idle", "sending"}
                              /\ run[r].due \subseteq Bookings \X R!Kinds
                              /\ run[r].marked \subseteq Bookings \X R!Kinds
                              /\ run[r].st = "idle" => run[r].due = {} /\ run[r].marked = {}
<1>1. clock \in Nat /\ loose \in BOOLEAN /\ appointment \in [Bookings -> RowSet] /\ run \in [Runs -> RunSet]
  BY DEF R!SoundConstants, OrderInv, R!TypeOK, RowSet, RunSet
<1>2. \A b \in Bookings : /\ appointment[b].start \in Nat /\ appointment[b].marks \subseteq R!Kinds
                          /\ appointment[b].status \in {"none", "confirmed", "closed"}
  <2> TAKE b \in Bookings
  <2>1. appointment[b] \in RowSet
    BY <1>1
  <2>2. appointment[b].start \in Starts \cup {0}
    BY <2>1 DEF RowSet
  <2>3. appointment[b].start \in Nat
    <3>1. CASE appointment[b].start = 0
      BY <3>1
    <3>2. CASE appointment[b].start \in Starts
      BY <3>2 DEF R!SoundConstants
    <3> QED  BY <2>2, <3>1, <3>2
  <2>4. appointment[b].marks \in SUBSET R!Kinds /\ appointment[b].status \in {"none", "confirmed", "closed"}
    BY <2>1 DEF RowSet
  <2> QED  BY <2>3, <2>4
<1>3. \A b \in Bookings : \A k \in R!Kinds : sent[b][k] \in Nat
  BY DEF R!SoundConstants, OrderInv, R!TypeOK
<1>4. \A b \in Bookings : sent[b]["1h"] \in Nat /\ sent[b]["24h"] \in Nat
  BY <1>3 DEF R!Kinds
<1>5. \A r \in Runs : /\ run[r].st \in {"idle", "sending"}
                      /\ run[r].due \subseteq Bookings \X R!Kinds
                      /\ run[r].marked \subseteq Bookings \X R!Kinds
  BY <1>1 DEF RunSet
<1>6. \A r \in Runs : run[r].st = "idle" => run[r].due = {} /\ run[r].marked = {}
  BY NoRunIsIdle DEF OrderInv, R!TypeOK
<1> QED  BY <1>1, <1>2, <1>3, <1>4, <1>5, <1>6

LEMMA OrderInit == R!SoundConstants /\ R!Init => OrderInv
<1> SUFFICES ASSUME R!SoundConstants, R!Init PROVE OrderInv
  OBVIOUS
<1>1. appointment \in [Bookings -> RowSet] /\ run \in [Runs -> RunSet]
  BY NoRunIsIdle DEF R!Init, RowSet
<1>2. sent \in [Bookings -> [R!Kinds -> 0..MaxSent]]
  <2>1. [k \in R!Kinds |-> 0] \in [R!Kinds -> 0..MaxSent]
    BY DEF R!SoundConstants
  <2> QED  BY <2>1 DEF R!Init
<1>3. R!TypeOK
  <2>1. clock \in 0..LastTick /\ loose \in BOOLEAN
    <3>1. 0 \in 0..LastTick
      BY DEF R!SoundConstants
    <3> QED  BY <3>1 DEF R!Init
  <2>2. \A r \in Runs : run[r] = R!NoRun
    BY DEF R!Init
  <2> QED  BY <1>1, <1>2, <2>1, <2>2 DEF R!TypeOK, RowSet, RunSet
<1>4. \A b \in Bookings, k \in R!Kinds : ~(sent[b][k] > 0)
  BY DEF R!Init
<1>5. \A r \in Runs : run[r].due = {} /\ run[r].marked = {} /\ run[r].st = "idle"
  BY NoRunIsIdle DEF R!Init
<1> QED  BY <1>3, <1>4, <1>5 DEF OrderInv, LastHourInv, MarkedInv, R!Kinds

LEMMA TickOrder ==
    ASSUME R!SoundConstants, OrderInv, R!Tick
    PROVE  OrderInv'
<1>1. R!TypeOK'
  BY DEF R!SoundConstants, OrderInv, R!TypeOK, R!Tick
<1>2. clock' = clock + 1 /\ UNCHANGED <<appointment, run, sent, loose>>
  BY DEF R!Tick
<1>3. \A b \in Bookings : appointment[b].start - clock <= Hour => appointment[b].start - clock' <= Hour
  BY <1>2, OrderTypes DEF R!SoundConstants
<1>4. LastHourInv'
  BY <1>2, <1>3 DEF OrderInv, LastHourInv
<1>5. (loose \/ MarkedInv)'
  BY <1>2 DEF OrderInv, MarkedInv
<1> QED  BY <1>1, <1>4, <1>5 DEF OrderInv

LEMMA BookOrder ==
    ASSUME R!SoundConstants, OrderInv, NEW b \in Bookings, NEW start \in Starts, R!Book(b, start)
    PROVE  OrderInv'
<1> DEFINE new == [status |-> "confirmed", start |-> start, marks |-> {}]
<1>1. /\ appointment[b].status = "none" /\ appointment'[b] = new
      /\ \A c \in Bookings : c # b => appointment'[c] = appointment[c]
      /\ UNCHANGED <<clock, run, sent, loose>>
  BY DEF R!Book, OrderInv, R!TypeOK
<1>2. R!TypeOK'
  BY DEF R!SoundConstants, OrderInv, R!TypeOK, R!Book
<1>3. LastHourInv'
  BY <1>1 DEF OrderInv, LastHourInv, R!Kinds
<1>4. \A k \in R!Kinds : sent[b][k] = 0
  <2>1. \A k \in R!Kinds : ~(sent[b][k] > 0)
    BY <1>1 DEF OrderInv, LastHourInv
  <2> QED  BY <2>1, OrderTypes
<1>5. (loose \/ MarkedInv)'
  BY <1>1, <1>4 DEF OrderInv, MarkedInv
<1> QED  BY <1>2, <1>3, <1>5 DEF OrderInv

LEMMA StatusOrder ==
    ASSUME R!SoundConstants, OrderInv, NEW b \in Bookings,
           NEW status \in {"confirmed", "closed"}, R!UpdateStatus(b, status)
    PROVE  OrderInv'
<1>1. /\ appointment[b].status # "none" /\ appointment'[b] = [appointment[b] EXCEPT !.status = status]
      /\ \A c \in Bookings : c # b => appointment'[c] = appointment[c]
      /\ UNCHANGED <<clock, run, sent, loose>>
  BY DEF R!UpdateStatus, OrderInv, R!TypeOK
<1>2. appointment[b] \in RowSet
  BY OrderTypes
<1>3. appointment'[b] \in RowSet /\ appointment'[b].marks = appointment[b].marks /\ appointment'[b].start = appointment[b].start
      /\ appointment'[b].status = status
  BY <1>1, <1>2 DEF RowSet
<1>4. \A c \in Bookings : /\ appointment'[c].marks = appointment[c].marks /\ appointment'[c].start = appointment[c].start
                          /\ appointment[c].status # "none" => appointment'[c].status # "none"
  BY <1>1, <1>3
<1>5. appointment' \in [Bookings -> RowSet]
  BY <1>1, <1>3, OrderTypes DEF R!UpdateStatus
<1>6. R!TypeOK'
  BY <1>1, <1>5 DEF OrderInv, R!TypeOK, RowSet
<1>7. LastHourInv' /\ (loose \/ MarkedInv)'
  BY <1>1, <1>4 DEF OrderInv, LastHourInv, MarkedInv
<1> QED  BY <1>6, <1>7 DEF OrderInv

LEMMA ScanOrder ==
    ASSUME R!SoundConstants, OrderInv, NEW r \in Runs, R!Scan(r)
    PROVE  OrderInv'
<1> DEFINE due == UNION {{b} \X R!DueReminder(b) : b \in R!Confirmed}
<1>1. /\ run[r].st = "idle" /\ run'[r] = [st |-> "sending", due |-> due, marked |-> {}]
      /\ \A q \in Runs : q # r => run'[q] = run[q]
      /\ loose' = (loose \/ \E q \in Runs : run[q].st # "idle")
      /\ UNCHANGED <<clock, appointment, sent>>
  BY DEF R!Scan, OrderInv, R!TypeOK
<1>2. \A b, k : <<b, k>> \in due =>
          /\ b \in Bookings /\ k \in R!Kinds /\ appointment[b].status = "confirmed" /\ k \notin appointment[b].marks
          /\ k = "1h" => appointment[b].start - clock <= Hour
          /\ k = "24h" => appointment[b].start - clock > Hour
  BY DEF R!Confirmed, R!DueReminder, OrderInv, R!TypeOK, R!SoundConstants
<1>3. due \subseteq Bookings \X R!Kinds
  BY DEF R!Confirmed, R!DueReminder
<1> HIDE DEF due
<1>4. R!TypeOK'
  BY <1>1, <1>3 DEF OrderInv, R!TypeOK, R!Scan
<1>5. LastHourInv'
  BY <1>1, <1>2 DEF OrderInv, LastHourInv, R!Kinds
<1>6. ASSUME ~loose' PROVE MarkedInv'
  <2>1. MarkedInv /\ \A q \in Runs : run[q].st = "idle"
    BY <1>1, <1>6 DEF OrderInv
  <2>2. \A q \in Runs : run[q].due = {} /\ run[q].marked = {}
    BY <2>1, OrderTypes
  <2>3. \A b \in Bookings, k \in R!Kinds : sent[b][k] > 0 => k \in appointment[b].marks
    BY <2>1, <2>2 DEF MarkedInv
  <2>4. \A b \in Bookings, k \in R!Kinds : <<b, k>> \in due => sent[b][k] = 0
    BY <1>2, <2>3, OrderTypes
  <2>5. ASSUME NEW b \in Bookings, <<b, "24h">> \in due
        PROVE  sent[b]["1h"] = 0 /\ <<b, "1h">> \notin due
    <3>1. appointment[b].start - clock > Hour
      BY <1>2, <2>5
    <3>2. ~(appointment[b].start - clock <= Hour)
      BY <3>1, OrderTypes DEF R!SoundConstants
    <3>3. <<b, "1h">> \notin due
      BY <1>2, <3>2
    <3>4. ~(sent[b]["1h"] > 0)
      BY <3>2 DEF OrderInv, LastHourInv
    <3> QED  BY <3>3, <3>4, OrderTypes
  <2> QED  BY <1>1, <2>1, <2>2, <2>3, <2>4, <2>5 DEF MarkedInv
<1> QED  BY <1>4, <1>5, <1>6 DEF OrderInv

\* What is sent was due, so it was not sent before.
LEMMA SendOrder ==
    ASSUME R!SoundConstants, OrderInv, NEW r \in Runs, NEW b \in Bookings, NEW k \in R!Kinds,
           R!Send(r, b, k)
    PROVE  OrderInv'
<1>1. <<b, k>> \in run[r].due /\ run[r].st = "sending" /\ run[r] \in RunSet
  BY OrderTypes DEF R!Send
<1>2. /\ run'[r] = [run[r] EXCEPT !.due = @ \ {<<b, k>>}, !.marked = @ \cup {<<b, k>>}]
      /\ \A q \in Runs : q # r => run'[q] = run[q]
      /\ UNCHANGED <<clock, appointment, loose>>
  BY OrderTypes DEF R!Send
<1>3. /\ run'[r].due = run[r].due \ {<<b, k>>} /\ run'[r].st = "sending"
      /\ run'[r].marked = run[r].marked \cup {<<b, k>>} /\ run'[r] \in RunSet
  <2> DEFINE one == {<<b, k>>}
  <2>1. one \subseteq Bookings \X R!Kinds
    OBVIOUS
  <2>2. run'[r] = [run[r] EXCEPT !.due = @ \ one, !.marked = @ \cup one]
    BY <1>2
  <2> HIDE DEF one
  <2>3. /\ run'[r].due = run[r].due \ one /\ run'[r].st = "sending"
        /\ run'[r].marked = run[r].marked \cup one /\ run'[r] \in RunSet
    BY <1>1, <2>1, <2>2 DEF RunSet
  <2> QED  BY <2>3 DEF one
<1>4. \A c \in Bookings, j \in R!Kinds :
          sent'[c][j] = IF c = b /\ j = k THEN sent[b][k] + 1 ELSE sent[c][j]
  BY DEF R!Send, OrderInv, R!TypeOK
<1>5. R!TypeOK'
  <2>1. run' \in [Runs -> RunSet]
    BY <1>2, <1>3, OrderTypes DEF R!Send
  <2>2. sent' \in [Bookings -> [R!Kinds -> 0..MaxSent]]
    BY DEF R!SoundConstants, OrderInv, R!TypeOK, R!Send
  <2>3. \A q \in Runs : run'[q].st = "idle" => run'[q] = R!NoRun
    BY <1>2, <1>3 DEF OrderInv, R!TypeOK
  <2> QED  BY <1>2, <2>1, <2>2, <2>3 DEF OrderInv, R!TypeOK, RunSet
<1>6. \A q \in Runs : run'[q].due \subseteq run[q].due
  BY <1>2, <1>3
<1>7. LastHourInv'
  <2>1. \A c \in Bookings, j \in R!Kinds : sent'[c][j] > 0 =>
            sent[c][j] > 0 \/ \E q \in Runs : <<c, j>> \in run[q].due
    BY <1>1, <1>4
  <2>2. \A c \in Bookings : sent'[c]["1h"] > 0 =>
            sent[c]["1h"] > 0 \/ \E q \in Runs : <<c, "1h">> \in run[q].due
    BY <2>1 DEF R!Kinds
  <2> QED  BY <1>2, <1>6, <2>1, <2>2 DEF OrderInv, LastHourInv
<1>8. ASSUME ~loose PROVE MarkedInv'
  <2>1. MarkedInv
    BY <1>8 DEF OrderInv
  <2>2. \A q \in Runs : q # r => run[q].due = {} /\ run[q].marked = {} /\ run[q].st = "idle"
    BY <1>1, <2>1, OrderTypes DEF MarkedInv
  <2>3. \A q \in Runs, c \in Bookings, j \in R!Kinds : <<c, j>> \in run'[q].due =>
            q = r /\ <<c, j>> \in run[r].due /\ <<c, j>> # <<b, k>>
    BY <1>2, <1>3, <2>2
  <2>4. ASSUME NEW c \in Bookings, <<c, "24h">> \in run'[r].due PROVE sent'[c]["1h"] = 0
    <3>1. /\ <<c, "24h">> \in run[r].due /\ sent[c]["1h"] = 0 /\ <<c, "1h">> \notin run[r].due
      BY <1>3, <2>1, <2>4 DEF MarkedInv
    <3>2. ~(c = b /\ k = "1h")
      BY <1>1, <3>1
    <3> QED  BY <1>4, <3>1, <3>2 DEF R!Kinds
  <2>5. ASSUME NEW c \in Bookings, NEW j \in R!Kinds, sent'[c][j] > 0
        PROVE  j \in appointment[c].marks \/ \E q \in Runs : <<c, j>> \in run'[q].marked
    <3>1. CASE c = b /\ j = k
      BY <1>3, <3>1
    <3>2. CASE ~(c = b /\ j = k)
      <4>1. sent[c][j] > 0
        BY <1>4, <2>5, <3>2
      <4>2. j \in appointment[c].marks \/ \E q \in Runs : <<c, j>> \in run[q].marked
        BY <2>1, <4>1 DEF MarkedInv
      <4> QED  BY <1>2, <1>3, <4>2
    <3> QED  BY <3>1, <3>2
  <2>6. \A q \in Runs, c \in Bookings, j \in R!Kinds : <<c, j>> \in run'[q].due => sent'[c][j] = 0
    BY <1>4, <2>1, <2>3 DEF MarkedInv
  <2>7. \A q, p \in Runs : run'[q].st = "sending" /\ run'[p].st = "sending" => q = p
    BY <1>2, <2>2
  <2>8. \A q \in Runs, c \in Bookings : <<c, "24h">> \in run'[q].due =>
            sent'[c]["1h"] = 0 /\ <<c, "1h">> \notin run'[q].due
    BY <1>6, <2>1, <2>3, <2>4 DEF MarkedInv, R!Kinds
  <2> QED  BY <1>2, <2>5, <2>6, <2>7, <2>8 DEF MarkedInv
<1> QED  BY <1>2, <1>5, <1>7, <1>8 DEF OrderInv

\* A run that forgets something it had to send, or ends without its marks.
LEMMA ForgetOrder ==
    ASSUME R!SoundConstants, OrderInv, NEW r \in Runs,
           \/ \E b \in Bookings, k \in R!Kinds : R!SendFails(r, b, k)
           \/ R!KillRun(r)
    PROVE  OrderInv'
<1>1. /\ run' \in [Runs -> RunSet] /\ run'[r].due \subseteq run[r].due
      /\ \A q \in Runs : q # r => run'[q] = run[q]
      /\ UNCHANGED <<clock, appointment, sent>>
      /\ run'[r].st = "idle" => run'[r] = R!NoRun
      /\ loose' \in BOOLEAN
      /\ loose' \/ (loose' = loose /\ run'[r].marked = run[r].marked /\ run'[r].st = run[r].st)
  <2>1. CASE \E b \in Bookings, k \in R!Kinds : R!SendFails(r, b, k)
    <3>1. PICK b \in Bookings, k \in R!Kinds : R!SendFails(r, b, k)
      BY <2>1
    <3>2. run'[r] = [run[r] EXCEPT !.due = @ \ {<<b, k>>}] /\ <<b, k>> \in run[r].due
          /\ \A q \in Runs : q # r => run'[q] = run[q]
      BY <3>1, OrderTypes DEF R!SendFails
    <3>3. run[r] \in RunSet /\ run[r].st = "sending"
      BY <3>2, OrderTypes
    <3>4. /\ run'[r] \in RunSet /\ run'[r].due = run[r].due \ {<<b, k>>}
          /\ run'[r].marked = run[r].marked /\ run'[r].st = run[r].st
      BY <3>2, <3>3 DEF RunSet
    <3>5. run' \in [Runs -> RunSet]
      BY <3>1, <3>2, <3>4, OrderTypes DEF R!SendFails
    <3> QED  BY <3>1, <3>2, <3>3, <3>4, <3>5, OrderTypes DEF R!SendFails
  <2>2. CASE R!KillRun(r)
    BY <2>2, NoRunIsIdle, OrderTypes DEF R!KillRun
  <2> QED  BY <2>1, <2>2
<1>2. R!TypeOK'
  BY <1>1 DEF OrderInv, R!TypeOK, RunSet
<1>3. LastHourInv'
  BY <1>1 DEF OrderInv, LastHourInv
<1>4. ASSUME ~loose' PROVE MarkedInv'
  <2>1. MarkedInv /\ \A q \in Runs : /\ run'[q].due \subseteq run[q].due
                                     /\ run'[q].marked = run[q].marked /\ run'[q].st = run[q].st
    BY <1>1, <1>4 DEF OrderInv
  <2> QED  BY <1>1, <2>1 DEF MarkedInv
<1> QED  BY <1>2, <1>3, <1>4 DEF OrderInv

LEMMA CommitOrder ==
    ASSUME R!SoundConstants, OrderInv, NEW r \in Runs, R!CommitRun(r)
    PROVE  OrderInv'
<1>1. /\ run[r].st = "sending" /\ run[r].due = {} /\ run'[r] = R!NoRun
      /\ \A q \in Runs : q # r => run'[q] = run[q]
      /\ UNCHANGED <<clock, sent, loose>>
  BY OrderTypes DEF R!CommitRun
<1>2. \A b \in Bookings : appointment'[b] = [appointment[b] EXCEPT !.marks = R!Marked(b, r)]
  BY DEF R!CommitRun
<1>3. \A b \in Bookings : R!Marked(b, r) \subseteq R!Kinds /\ appointment[b] \in RowSet
  BY OrderTypes DEF R!Marked
<1>4. \A b \in Bookings : /\ appointment'[b].status = appointment[b].status /\ appointment'[b].start = appointment[b].start
                          /\ appointment'[b].marks = R!Marked(b, r) /\ appointment'[b] \in RowSet
  <2> TAKE b \in Bookings
  <2> DEFINE m == R!Marked(b, r)
  <2>1. m \subseteq R!Kinds /\ appointment[b] \in RowSet /\ appointment'[b] = [appointment[b] EXCEPT !.marks = m]
    BY <1>2, <1>3
  <2> HIDE DEF m
  <2>2. appointment'[b].status = appointment[b].status /\ appointment'[b].start = appointment[b].start /\ appointment'[b].marks = m
        /\ appointment'[b] \in RowSet
    BY <2>1 DEF RowSet
  <2> QED  BY <2>2 DEF m
<1>5. R!TypeOK'
  <2>1. appointment' \in [Bookings -> RowSet]
    BY <1>4 DEF R!CommitRun
  <2>2. run' \in [Runs -> RunSet]
    BY NoRunIsIdle, OrderTypes DEF R!CommitRun
  <2>3. \A q \in Runs : run'[q].st = "idle" => run'[q] = R!NoRun
    BY <1>1 DEF OrderInv, R!TypeOK
  <2> QED  BY <1>1, <2>1, <2>2, <2>3 DEF OrderInv, R!TypeOK, RowSet, RunSet
<1>6. LastHourInv'
  BY <1>1, <1>4, NoRunIsIdle DEF OrderInv, LastHourInv
<1>7. ASSUME ~loose PROVE MarkedInv'
  <2>1. MarkedInv
    BY <1>7 DEF OrderInv
  <2>2. \A q \in Runs : q # r => run[q].due = {} /\ run[q].marked = {} /\ run[q].st = "idle"
    BY <1>1, <2>1, OrderTypes DEF MarkedInv
  <2>3. \A b \in Bookings, k \in R!Kinds : sent[b][k] > 0 => k \in appointment'[b].marks
    BY <1>4, <2>1, <2>2 DEF MarkedInv, R!Marked
  <2> QED  BY <1>1, <2>2, <2>3, NoRunIsIdle DEF MarkedInv
<1> QED  BY <1>1, <1>5, <1>6, <1>7 DEF OrderInv

LEMMA OrderNext == R!SoundConstants /\ OrderInv /\ [R!Next]_R!vars => OrderInv'
<1> SUFFICES ASSUME R!SoundConstants, OrderInv, [R!Next]_R!vars PROVE OrderInv'
  OBVIOUS
<1>1. CASE UNCHANGED R!vars
  <2>1. R!TypeOK' /\ LastHourInv' /\ loose' = loose
    BY <1>1 DEF R!vars, OrderInv, R!TypeOK, LastHourInv
  <2>2. MarkedInv => MarkedInv'
    BY <1>1 DEF R!vars, MarkedInv
  <2> QED  BY <2>1, <2>2 DEF OrderInv
<1>2. CASE R!Next
  BY <1>2, TickOrder, BookOrder, StatusOrder, ScanOrder, SendOrder, ForgetOrder, CommitOrder
     DEF R!Next
<1> QED  BY <1>1, <1>2

LEMMA OnlySends ==
    ASSUME OrderInv, R!Next, NEW b \in Bookings, NEW k \in R!Kinds, sent'[b][k] > sent[b][k]
    PROVE  \E r \in Runs : R!Send(r, b, k)
<1>1. sent' # sent
  BY DEF OrderInv, R!TypeOK
<1>2. PICK r \in Runs, c \in Bookings, j \in R!Kinds : R!Send(r, c, j)
  BY <1>1 DEF R!Next, R!Tick, R!Book, R!UpdateStatus, R!Scan, R!SendFails, R!CommitRun, R!KillRun
<1>3. c = b /\ j = k
  BY <1>2 DEF R!Send, OrderInv, R!TypeOK
<1> QED  BY <1>2, <1>3

\* The rows, the runs and the counts keep their types.
THEOREM RemindersTyped ==
    ASSUME R!SoundConstants
    PROVE  R!Spec => []R!TypeOK
<1>1. OrderInv => R!TypeOK
  BY DEF OrderInv
<1> QED  BY <1>1, OrderInit, OrderNext, PTL DEF R!Spec

\* No reminder is sent twice and "tomorrow" never follows "in about an hour",
\* however the runs, the owner and time interleave, unless runs overlapped or
\* one was killed (due_reminder, booking_reminders.scan_and_send).
THEOREM Reminded ==
    ASSUME R!SoundConstants
    PROVE  R!Spec => RemindedInOrder
<1>1. R!Init => OrderInv
  BY OrderInit
<1>2. OrderInv /\ [R!Next]_R!vars => OrderInv'
  BY OrderNext
<1>3. OrderInv /\ [R!Next]_R!vars =>
        [ \A b \in Bookings, k \in R!Kinds : sent'[b][k] > sent[b][k] =>
              loose \/ (sent[b][k] = 0 /\ sent[b]["1h"] = 0) ]_R!vars
  <2> SUFFICES ASSUME OrderInv, R!Next, NEW b \in Bookings, NEW k \in R!Kinds,
                      sent'[b][k] > sent[b][k], ~loose
               PROVE  sent[b][k] = 0 /\ sent[b]["1h"] = 0
    OBVIOUS
  <2>1. PICK r \in Runs : R!Send(r, b, k)
    BY OnlySends
  <2>2. MarkedInv /\ <<b, k>> \in run[r].due
    BY <2>1 DEF OrderInv, R!Send
  <2> QED  BY <2>2 DEF MarkedInv, R!Kinds
<1> QED  BY <1>1, <1>2, <1>3, PTL DEF R!Spec, RemindedInOrder, R!RemindedInOrder

-----------------------------------------------------------------------------
(* The model router: the first model of a chain                            *)

LEMMA ForemostIsLeast ==
    ASSUME NEW these, these \subseteq Nat, these # {}
    PROVE  M!Foremost(these) \in these /\ \A y \in these : M!Foremost(these) <= y
<1>1. \E x \in these : \A y \in these : x <= y
  BY LeastPlace
<1> QED  BY <1>1 DEF M!Foremost

\* A model that is in a chain has a first place there.
LEMMA PlaceOf ==
    ASSUME NEW chain \in Seq(Models \cup {NoModel}), NEW i \in DOMAIN chain, chain[i] # NoModel
    PROVE  \E j \in M!Places(chain) : j <= i /\ chain[j] = chain[i]
<1> DEFINE same == {j \in DOMAIN chain : chain[j] = chain[i]}
<1>1. DOMAIN chain = 1 .. Len(chain) /\ Len(chain) \in Nat
  OBVIOUS
<1>2. same \subseteq Nat /\ i \in same
  BY <1>1
<1>3. PICK j \in same : \A k \in same : j <= k
  BY <1>2, LeastPlace
<1>4. j \in DOMAIN chain /\ chain[j] = chain[i] /\ j <= i
  BY <1>2, <1>3
<1>5. \A k \in 1 .. j - 1 : chain[k] # chain[j]
  <2> SUFFICES ASSUME NEW k \in 1 .. j - 1, chain[k] = chain[j] PROVE FALSE
    OBVIOUS
  <2>1. k \in DOMAIN chain /\ k < j
    BY <1>1, <1>4
  <2> QED  BY <1>1, <1>3, <1>4, <2>1
<1> QED  BY <1>4, <1>5 DEF M!Places

LEMMA PlacesAre ==
    ASSUME NEW chain \in Seq(Models \cup {NoModel})
    PROVE  /\ M!Places(chain) \subseteq DOMAIN chain /\ M!Places(chain) \in SUBSET Nat
           /\ \A i \in M!Places(chain) : chain[i] \in Models
<1>1. DOMAIN chain = 1 .. Len(chain) /\ \A i \in DOMAIN chain : chain[i] \in Models \cup {NoModel}
  OBVIOUS
<1> QED  BY <1>1 DEF M!Places

LEMMA GeminiAre ==
    ASSUME M!SoundConstants, NEW amharic \in BOOLEAN
    PROVE  /\ M!Gemini(amharic) \in Seq(Models \cup {NoModel})
           /\ \A i \in DOMAIN M!Gemini(amharic) :
                 M!Gemini(amharic)[i] # NoModel => M!IsAvailable(M!Gemini(amharic)[i])
<1>1. CASE ~amharic
  <2>1. M!Gemini(amharic) = <<>>
    BY <1>1 DEF M!Gemini
  <2> QED  BY <2>1
<1>2. CASE amharic
  <2> DEFINE g(i) == IF M!IsAvailable(Amharic[i]) THEN Amharic[i] ELSE NoModel
  <2>1. M!Gemini(amharic) = [i \in DOMAIN Amharic |-> g(i)]
    BY <1>2 DEF M!Gemini
  <2>2. Amharic \in Seq(Models) /\ DOMAIN Amharic = 1 .. Len(Amharic) /\ Len(Amharic) \in Nat
    BY DEF M!SoundConstants
  <2>3. \A i \in DOMAIN Amharic : g(i) \in Models \cup {NoModel}
    BY <2>2
  <2>4. \A i \in DOMAIN Amharic : g(i) # NoModel => M!IsAvailable(g(i))
    OBVIOUS
  <2> HIDE DEF g
  <2>5. M!Gemini(amharic) \in [1 .. Len(Amharic) -> Models \cup {NoModel}]
    BY <2>1, <2>2, <2>3
  <2>6. M!Gemini(amharic) \in Seq(Models \cup {NoModel})
    BY <2>2, <2>5
  <2>7. \A i \in DOMAIN M!Gemini(amharic) : i \in DOMAIN Amharic /\ M!Gemini(amharic)[i] = g(i)
    BY <2>1
  <2> QED  BY <2>4, <2>6, <2>7
<1> QED  BY <1>1, <1>2

LEMMA NormalIs ==
    ASSUME M!SoundConstants, M!TypeOK
    PROVE  M!Normal \o <<Emergency>> \in Seq(Models \cup {NoModel})
<1>1. <<Default, Fallback, Emergency>> \in Seq(Models \cup {NoModel})
  BY DEF M!SoundConstants
<1>2. custom \in Seq(Models \cup {NoModel})
  BY DEF M!TypeOK
<1>3. M!Normal \in Seq(Models \cup {NoModel})
  BY <1>1, <1>2 DEF M!Normal
<1>4. <<Emergency>> \in Seq(Models \cup {NoModel})
  BY DEF M!SoundConstants
<1> QED  BY <1>3, <1>4, ConcatProperties

\* What a chain is made of, and who comes first in it: a model for Amharic that
\* is available, or the primary one (_build_failover_chain).
LEMMA FirstOfChain ==
    ASSUME M!SoundConstants, M!TypeOK, NEW primary \in Models, NEW amharic \in BOOLEAN
    PROVE  LET chain == M!Chain(primary, amharic)
               first == chain[M!Foremost(M!Places(chain))] IN
           /\ chain \in Seq(Models \cup {NoModel})
           /\ M!Places(chain) \in SUBSET Nat /\ M!Places(chain) # {}
           /\ first \in Models
           /\ first = primary \/ M!IsAvailable(first)
<1> DEFINE g == M!Gemini(amharic)
           t == M!Normal \o <<Emergency>>
           r == <<primary>> \o t
           chain == M!Chain(primary, amharic)
           p == Len(g) + 1
<1>1. g \in Seq(Models \cup {NoModel}) /\ Len(g) \in Nat /\ DOMAIN g = 1 .. Len(g)
  BY GeminiAre
<1>2. t \in Seq(Models \cup {NoModel}) /\ <<primary>> \in Seq(Models \cup {NoModel})
      /\ Len(<<primary>>) = 1 /\ <<primary>>[1] = primary
  BY NormalIs
<1>3. chain = g \o r
  BY DEF M!Chain
<1> HIDE DEF g, t
<1>4. r \in Seq(Models \cup {NoModel}) /\ Len(r) = 1 + Len(t) /\ r[1] = primary /\ Len(t) \in Nat
  <2>1. /\ r \in Seq(Models \cup {NoModel}) /\ Len(r) = Len(<<primary>>) + Len(t)
        /\ \A i \in 1 .. Len(<<primary>>) + Len(t) :
              r[i] = IF i <= Len(<<primary>>) THEN <<primary>>[i] ELSE t[i - Len(<<primary>>)]
    BY <1>2, ConcatProperties
  <2>2. Len(t) \in Nat
    BY <1>2
  <2>3. 1 \in 1 .. Len(<<primary>>) + Len(t)
    BY <1>2, <2>2
  <2> QED  BY <1>2, <2>1, <2>2, <2>3
<1> HIDE DEF r, chain
<1>5. /\ chain \in Seq(Models \cup {NoModel}) /\ Len(chain) = Len(g) + Len(r)
      /\ \A i \in 1 .. Len(g) + Len(r) : chain[i] = IF i <= Len(g) THEN g[i] ELSE r[i - Len(g)]
  <2>1. /\ g \o r \in Seq(Models \cup {NoModel}) /\ Len(g \o r) = Len(g) + Len(r)
        /\ \A i \in 1 .. Len(g) + Len(r) : (g \o r)[i] = IF i <= Len(g) THEN g[i] ELSE r[i - Len(g)]
    BY <1>1, <1>4, ConcatProperties
  <2> QED  BY <1>3, <2>1
<1>6. p \in DOMAIN chain /\ DOMAIN chain = 1 .. Len(chain) /\ p \in Nat
  BY <1>1, <1>4, <1>5
<1>7. chain[p] = primary
  <2>1. p \in 1 .. Len(g) + Len(r) /\ ~(p <= Len(g)) /\ p - Len(g) = 1
    BY <1>1, <1>4
  <2> QED  BY <1>4, <1>5, <2>1
<1> DEFINE i == M!Foremost(M!Places(chain))
<1>8. PICK j \in M!Places(chain) : j <= p
  <2>1. chain[p] # NoModel
    BY <1>7 DEF M!SoundConstants
  <2> QED  BY <1>5, <1>6, <2>1, PlaceOf
<1>9. M!Places(chain) \subseteq DOMAIN chain /\ M!Places(chain) \in SUBSET Nat
      /\ \A k \in M!Places(chain) : chain[k] \in Models
  BY <1>5, PlacesAre
<1>10. i \in M!Places(chain) /\ i <= j
  BY <1>8, <1>9, ForemostIsLeast
<1> HIDE DEF p, i
<1>11. i <= p /\ i \in Nat /\ chain[i] \in Models /\ i \in 1 .. Len(g) + Len(r)
  BY <1>5, <1>6, <1>8, <1>9, <1>10
<1>12. CASE i = p
  BY <1>5, <1>7, <1>8, <1>9, <1>11, <1>12 DEF i, chain
<1>13. CASE i # p
  <2>1. i <= Len(g) /\ i \in DOMAIN g
    BY <1>1, <1>11, <1>13 DEF p
  <2>2. chain[i] = g[i] /\ g[i] # NoModel
    BY <1>5, <1>11, <2>1 DEF M!SoundConstants
  <2>3. M!IsAvailable(chain[i])
    BY <2>1, <2>2, GeminiAre DEF g
  <2> QED  BY <1>5, <1>8, <1>9, <1>11, <2>3 DEF i, chain
<1> QED  BY <1>12, <1>13

-----------------------------------------------------------------------------
\* A model that is barred for a call that still chooses is disabled; once it has
\* chosen, what comes first is not barred.
RouterInv ==
    /\ M!TypeOK
    /\ \A c \in Calls : call[c].st = "choosing" => call[c].barred \subseteq disabled
    /\ \A c \in Calls : call[c] \in M!Answering => call[c].first \notin call[c].barred \ {Emergency}

LEMMA RouterStates ==
    /\ M!Idle.st = "idle"
    /\ \A x \in M!Choosing : /\ x.st = "choosing" /\ x.amharic \in BOOLEAN
                             /\ x.barred \in SUBSET Models /\ x.list \in Seq(Models)
    /\ \A x \in M!Answering :
          /\ x.st \in {"calling", "failing", "counting", "recovering", "healing"}
          /\ x.barred \in SUBSET Models /\ x.first \in Models
          /\ x.chain \in Seq(Models \cup {NoModel}) /\ x.left \in SUBSET Nat
  BY DEF M!Idle, M!Choosing, M!Answering

LEMMA RouterApart ==
    ASSUME M!TypeOK, NEW c \in Calls
    PROVE  /\ call[c] = M!Idle \/ call[c] \in M!Choosing \/ call[c] \in M!Answering
           /\ call[c].st = "choosing" <=> call[c] \in M!Choosing
           /\ call[c].st \in {"calling", "failing", "counting", "recovering", "healing"}
              <=> call[c] \in M!Answering
           /\ call[c] = M!Idle => call[c] \notin M!Choosing /\ call[c] \notin M!Answering
  BY RouterStates DEF M!TypeOK

LEMMA RouterInit == ASSUME M!SoundConstants, M!Init PROVE RouterInv
<1>1. M!TypeOK
  BY DEF M!Init, M!TypeOK, M!SoundConstants
<1> QED  BY <1>1, RouterStates DEF M!Init, RouterInv

\* One call moves, and what it has come to bars what was barred.
LEMMA RouterMoves ==
    ASSUME RouterInv, NEW c \in Calls, NEW x \in {M!Idle} \cup M!Choosing \cup M!Answering,
           call' = [call EXCEPT ![c] = x], UNCHANGED <<override, custom, disabled, switching>>,
           health' \in [Models -> {"healthy", "degraded", "down"}],
           fails' \in [Models -> 0 .. FailThreshold],
           x.st = "choosing" => x.barred \subseteq disabled,
           x \in M!Answering => x.first \notin x.barred \ {Emergency}
    PROVE  RouterInv'
<1>1. M!TypeOK'
  BY DEF RouterInv, M!TypeOK
<1>2. call'[c] = x /\ \A d \in Calls : d # c => call'[d] = call[d]
  BY DEF RouterInv, M!TypeOK
<1> QED  BY <1>1, <1>2 DEF RouterInv

LEMMA RouterAside ==
    ASSUME RouterInv, M!TypeOK', UNCHANGED call, disabled \subseteq disabled'
    PROVE  RouterInv'
  BY DEF RouterInv

LEMMA RouterHealth ==
    ASSUME M!TypeOK, M!SoundConstants, NEW m
    PROVE  /\ \A s \in {"healthy", "degraded", "down"} :
                 [health EXCEPT ![m] = s] \in [Models -> {"healthy", "degraded", "down"}]
           /\ \A n \in 0 .. FailThreshold :
                 [fails EXCEPT ![m] = n] \in [Models -> 0 .. FailThreshold]
           /\ 0 \in 0 .. FailThreshold /\ FailThreshold \in 0 .. FailThreshold
           /\ fails[m] \in 0 .. FailThreshold /\ fails[m] < FailThreshold
              => fails[m] + 1 \in 0 .. FailThreshold
<1>1. ASSUME NEW s \in {"healthy", "degraded", "down"}
      PROVE  [health EXCEPT ![m] = s] \in [Models -> {"healthy", "degraded", "down"}]
  BY DEF M!TypeOK
<1>2. ASSUME NEW n \in 0 .. FailThreshold
      PROVE  [fails EXCEPT ![m] = n] \in [Models -> 0 .. FailThreshold]
  BY DEF M!TypeOK
<1>3. 0 \in 0 .. FailThreshold /\ FailThreshold \in 0 .. FailThreshold
  BY DEF M!SoundConstants
<1>4. fails[m] \in 0 .. FailThreshold /\ fails[m] < FailThreshold => fails[m] + 1 \in 0 .. FailThreshold
  BY DEF M!SoundConstants
<1> QED  BY <1>1, <1>2, <1>3, <1>4

\* A call in progress goes on, or ends.
LEMMA RouterAdvances ==
    ASSUME RouterInv, NEW c \in Calls, call[c] \in M!Answering, M!Advance(c),
           UNCHANGED <<override, custom, disabled, switching>>,
           health' \in [Models -> {"healthy", "degraded", "down"}],
           fails' \in [Models -> 0 .. FailThreshold]
    PROVE  RouterInv'
<1> DEFINE left == call[c].left \ {M!Foremost(call[c].left)}
           x == IF left = {} THEN M!Idle ELSE [call[c] EXCEPT !.st = "calling", !.left = left]
<1>1. call' = [call EXCEPT ![c] = x]
  BY DEF M!Advance
<1>2. left \in SUBSET Nat
  BY RouterStates
<1> HIDE DEF left
<1>3. x \in {M!Idle} \cup M!Answering /\ x.st # "choosing"
      /\ (x \in M!Answering => x.first \notin x.barred \ {Emergency})
  <2>1. CASE left = {}
    BY <2>1, RouterStates
  <2>2. CASE left # {}
    <3>1. x = [call[c] EXCEPT !.st = "calling", !.left = left]
      BY <2>2
    <3> HIDE DEF x
    <3>2. /\ x \in M!Answering /\ x.st = "calling"
          /\ x.first = call[c].first /\ x.barred = call[c].barred
      BY <1>2, <3>1 DEF M!Answering
    <3> QED  BY <3>2 DEF RouterInv
  <2> QED  BY <2>1, <2>2
<1> HIDE DEF x
<1> QED  BY <1>1, <1>3, RouterMoves

LEMMA RouterStarts ==
    ASSUME M!SoundConstants, RouterInv, NEW c \in Calls, NEW wish \in Wishes, NEW amharic \in BOOLEAN,
           M!Start(c, wish, amharic)
    PROVE  RouterInv'
<1> DEFINE list == M!Set("global") \o (M!Set("business") \o (wish \o <<Default, Fallback>>))
           x == [st |-> "choosing", amharic |-> amharic, barred |-> disabled, list |-> list]
<1>1. list \in Seq(Models)
  <2>1. \A k \in {"global", "business"} : M!Set(k) \in Seq(Models)
    BY DEF RouterInv, M!TypeOK, M!Set
  <2>2. wish \in Seq(Models) /\ <<Default, Fallback>> \in Seq(Models)
    BY DEF M!SoundConstants
  <2>3. wish \o <<Default, Fallback>> \in Seq(Models)
    BY <2>2, ConcatProperties
  <2> HIDE DEF M!Set
  <2>4. M!Set("business") \o (wish \o <<Default, Fallback>>) \in Seq(Models)
    BY <2>1, <2>3, ConcatProperties
  <2> QED  BY <2>1, <2>4, ConcatProperties
<1>2. call' = [call EXCEPT ![c] = x] /\ UNCHANGED <<override, custom, disabled, health, fails, switching>>
  BY DEF M!Start
<1> HIDE DEF list
<1>3. x \in M!Choosing /\ x.barred = disabled /\ x.st = "choosing"
  BY <1>1 DEF M!Choosing, RouterInv, M!TypeOK
<1>4. x \notin M!Answering
  BY <1>3, RouterStates
<1> HIDE DEF x
<1> QED  BY <1>2, <1>3, <1>4, RouterMoves DEF RouterInv, M!TypeOK

\* A model that is chosen is available, or is the emergency model.
LEMMA RouterDecides ==
    ASSUME M!SoundConstants, RouterInv, NEW c \in Calls, call[c] \in M!Choosing, NEW primary \in Models,
           M!IsAvailable(primary) \/ primary = Emergency, M!Decide(c, primary),
           UNCHANGED <<override, custom, disabled, health, fails, switching>>
    PROVE  RouterInv'
<1> DEFINE chain == M!Chain(primary, call[c].amharic)
           first == chain[M!Foremost(M!Places(chain))]
           x == [st |-> "calling", chain |-> chain, left |-> M!Places(chain),
                 first |-> first, barred |-> call[c].barred]
<1>1. call[c].amharic \in BOOLEAN /\ call[c].barred \in SUBSET Models /\ call[c].st = "choosing"
  BY RouterStates
<1>2. /\ chain \in Seq(Models \cup {NoModel}) /\ M!Places(chain) \in SUBSET Nat
      /\ first \in Models /\ (first = primary \/ M!IsAvailable(first))
  BY <1>1, FirstOfChain DEF RouterInv
<1>3. call' = [call EXCEPT ![c] = x]
  BY DEF M!Decide
<1>4. call[c].barred \subseteq disabled
  BY <1>1 DEF RouterInv
<1> HIDE DEF chain, first
<1>5. first \notin call[c].barred \ {Emergency}
  BY <1>2, <1>4 DEF M!IsAvailable
<1>6. x \in M!Answering /\ x.first = first /\ x.barred = call[c].barred /\ x.st = "calling"
  BY <1>1, <1>2 DEF M!Answering
<1> HIDE DEF x
<1> QED  BY <1>3, <1>5, <1>6, RouterMoves DEF RouterInv, M!TypeOK

LEMMA RouterChooses ==
    ASSUME M!SoundConstants, RouterInv, NEW c \in Calls, M!Choose(c)
    PROVE  RouterInv'
<1> DEFINE list == call[c].list
<1>1. /\ call[c] \in M!Choosing /\ list \in Seq(Models) /\ call[c].barred \subseteq disabled
      /\ UNCHANGED <<override, custom, disabled, health, fails, switching>>
  BY RouterApart, RouterStates DEF M!Choose, RouterInv
<1>2. CASE list = <<>>
  <2>1. M!Decide(c, Emergency) /\ Emergency \in Models
    BY <1>2 DEF M!Choose, M!SoundConstants
  <2> QED  BY <1>1, <2>1, RouterDecides
<1>3. CASE list # <<>> /\ M!IsAvailable(Head(list))
  <2>1. M!Decide(c, Head(list)) /\ Head(list) \in Models
    BY <1>1, <1>3 DEF M!Choose
  <2> QED  BY <1>1, <1>3, <2>1, RouterDecides
<1>4. CASE list # <<>> /\ ~M!IsAvailable(Head(list))
  <2> DEFINE x == [call[c] EXCEPT !.list = Tail(list)]
  <2>1. call' = [call EXCEPT ![c] = x]
    BY <1>4 DEF M!Choose
  <2>2. Tail(list) \in Seq(Models)
    BY <1>1, <1>4
  <2>3. x \in M!Choosing /\ x.barred = call[c].barred
    BY <1>1, <2>2 DEF M!Choosing
  <2>4. x \notin M!Answering
    BY <2>3, RouterStates
  <2> HIDE DEF x
  <2> QED  BY <1>1, <2>1, <2>3, <2>4, RouterMoves DEF RouterInv, M!TypeOK
<1> QED  BY <1>2, <1>3, <1>4

\* What a model that answered, or failed, leaves behind.
LEMMA RouterAnswers ==
    ASSUME M!SoundConstants, RouterInv, NEW c \in Calls,
           \/ \E ok \in BOOLEAN : M!Answer(c, ok)
           \/ M!CountFailure(c) \/ M!Degrade(c) \/ M!ForgetFailures(c) \/ M!Heal(c)
    PROVE  RouterInv'
<1>1. call[c] \in M!Answering
  BY RouterApart DEF RouterInv, M!Answer, M!CountFailure, M!Degrade, M!ForgetFailures, M!Heal
<1>2. UNCHANGED <<override, custom, disabled, switching>>
  BY DEF M!Answer, M!CountFailure, M!Degrade, M!ForgetFailures, M!Heal
<1>3. M!TypeOK
  BY DEF RouterInv
<1>4. health' \in [Models -> {"healthy", "degraded", "down"}]
  <2>1. CASE UNCHANGED health
    BY <1>3, <2>1 DEF M!TypeOK
  <2>2. CASE \E s \in {"healthy", "degraded"} : health' = [health EXCEPT ![M!Asked(c)] = s]
    BY <1>3, <2>2, RouterHealth
  <2> QED  BY <2>1, <2>2 DEF M!Answer, M!CountFailure, M!Degrade, M!ForgetFailures, M!Heal
<1>5. fails' \in [Models -> 0 .. FailThreshold]
  <2>1. CASE UNCHANGED fails
    BY <1>3, <2>1 DEF M!TypeOK
  <2>2. CASE fails' = [fails EXCEPT ![M!Asked(c)] = 0]
    BY <1>3, <2>2, RouterHealth
  <2>3. CASE M!CountFailure(c)
    <3>1. CASE M!Asked(c) \in Models
      <4>1. fails[M!Asked(c)] \in 0 .. FailThreshold
        BY <1>3, <3>1 DEF M!TypeOK
      <4> DEFINE n == IF fails[M!Asked(c)] < FailThreshold THEN fails[M!Asked(c)] + 1 ELSE FailThreshold
      <4>2. n \in 0 .. FailThreshold
        BY <1>3, <4>1, RouterHealth
      <4>3. fails' = [fails EXCEPT ![M!Asked(c)] = n]
        BY <2>3 DEF M!CountFailure
      <4> HIDE DEF n
      <4> QED  BY <1>3, <4>2, <4>3, RouterHealth
    <3>2. CASE M!Asked(c) \notin Models
      BY <1>3, <2>3, <3>2 DEF M!CountFailure, M!TypeOK
    <3> QED  BY <3>1, <3>2
  <2> QED  BY <2>1, <2>2, <2>3 DEF M!Answer, M!Degrade, M!ForgetFailures, M!Heal
<1>6. \/ M!Advance(c)
      \/ \E st \in {"calling", "failing", "counting", "recovering", "healing"} : M!Move(c, st)
      \/ call' = [call EXCEPT ![c] = M!Idle]
  BY DEF M!Answer, M!CountFailure, M!Degrade, M!ForgetFailures, M!Heal
<1>7. CASE M!Advance(c)
  BY <1>1, <1>2, <1>4, <1>5, <1>7, RouterAdvances
<1>8. ASSUME NEW st \in {"calling", "failing", "counting", "recovering", "healing"}, M!Move(c, st)
      PROVE  RouterInv'
  <2> DEFINE x == [call[c] EXCEPT !.st = st]
  <2>1. x \in M!Answering /\ x.st = st /\ x.first \notin x.barred \ {Emergency}
    <3>1. x = [call[c] EXCEPT !.st = st]
      OBVIOUS
    <3> HIDE DEF x
    <3>2. x \in M!Answering /\ x.st = st /\ x.first = call[c].first /\ x.barred = call[c].barred
      BY <1>1, <3>1 DEF M!Answering
    <3> QED  BY <1>1, <3>2 DEF RouterInv
  <2>2. call' = [call EXCEPT ![c] = x]
    BY <1>8 DEF M!Move
  <2> HIDE DEF x
  <2> QED  BY <1>2, <1>4, <1>5, <2>1, <2>2, RouterMoves
<1>9. CASE call' = [call EXCEPT ![c] = M!Idle]
  <2>1. M!Idle.st # "choosing" /\ M!Idle \notin M!Answering
    BY RouterStates
  <2> QED  BY <1>2, <1>4, <1>5, <1>9, <2>1, RouterMoves
<1> QED  BY <1>6, <1>7, <1>8, <1>9

\* An enabled model is barred for nobody.
LEMMA RouterEnables ==
    ASSUME M!SoundConstants, RouterInv, NEW m \in Switched, M!EnableModel(m)
    PROVE  RouterInv'
<1>1. /\ disabled' = disabled \ {m} /\ switching' = [to |-> "healthy", model |-> m]
      /\ call' = [c \in Calls |-> IF call[c] = M!Idle THEN M!Idle
                                  ELSE [call[c] EXCEPT !.barred = @ \ {m}]]
      /\ UNCHANGED <<override, custom, health, fails>>
  BY DEF M!EnableModel
<1>2. ASSUME NEW c \in Calls
      PROVE  /\ call[c] = M!Idle => call'[c] = M!Idle
             /\ call[c] \in M!Choosing => /\ call'[c] \in M!Choosing
                                          /\ call'[c].barred = call[c].barred \ {m}
             /\ call[c] \in M!Answering => /\ call'[c] \in M!Answering
                                           /\ call'[c].first = call[c].first
                                           /\ call'[c].barred = call[c].barred \ {m}
  <2> DEFINE x == [call[c] EXCEPT !.barred = @ \ {m}]
  <2>1. call'[c] = IF call[c] = M!Idle THEN M!Idle ELSE x
    BY <1>1
  <2>2. call[c] \in M!Choosing => x \in M!Choosing /\ x.barred = call[c].barred \ {m}
    BY DEF M!Choosing
  <2>3. call[c] \in M!Answering => x \in M!Answering /\ x.first = call[c].first
                                 /\ x.barred = call[c].barred \ {m}
    BY DEF M!Answering
  <2> HIDE DEF x
  <2> QED  BY <2>1, <2>2, <2>3, RouterApart DEF RouterInv
<1>3. call' \in [Calls -> {M!Idle} \cup M!Choosing \cup M!Answering]
  <2>1. \A c \in Calls : call'[c] \in {M!Idle} \cup M!Choosing \cup M!Answering
    BY <1>2, RouterApart DEF RouterInv
  <2> QED  BY <1>1, <2>1
<1>4. M!TypeOK'
  <2>1. m \in Models
    BY DEF M!SoundConstants
  <2>2. switching' \in [to : {"down", "healthy"}, model : Models]
    BY <1>1, <2>1
  <2> QED  BY <1>1, <1>3, <2>2 DEF RouterInv, M!TypeOK
<1>5. ASSUME NEW c \in Calls, call'[c].st = "choosing" PROVE call'[c].barred \subseteq disabled'
  <2>1. call[c] \in M!Choosing
    BY <1>2, <1>5, RouterApart, RouterStates DEF RouterInv
  <2>2. call[c].barred \subseteq disabled
    BY <2>1, RouterStates DEF RouterInv
  <2> QED  BY <1>1, <1>2, <2>1, <2>2
<1>6. ASSUME NEW c \in Calls, call'[c] \in M!Answering
      PROVE  call'[c].first \notin call'[c].barred \ {Emergency}
  <2>1. call[c] \in M!Answering
    BY <1>2, <1>6, RouterApart, RouterStates DEF RouterInv
  <2> QED  BY <1>2, <2>1 DEF RouterInv
<1> QED  BY <1>4, <1>5, <1>6 DEF RouterInv

LEMMA RouterStep == ASSUME M!SoundConstants, RouterInv, [M!Next]_M!vars PROVE RouterInv'
<1>0. M!TypeOK
  BY DEF RouterInv
<1>1. ASSUME NEW k \in {"global", "business"}, NEW m \in Overrides \cup {NoModel}, M!SetOverride(k, m)
      PROVE  RouterInv'
  <2>1. M!TypeOK'
    BY <1>0, <1>1 DEF M!TypeOK, M!SetOverride, M!SoundConstants
  <2> QED  BY <1>1, <2>1, RouterAside DEF M!SetOverride
<1>2. ASSUME NEW chain \in Chains, M!SetFailoverChain(chain) PROVE RouterInv'
  <2>1. M!TypeOK'
    BY <1>0, <1>2 DEF M!TypeOK, M!SetFailoverChain, M!SoundConstants
  <2> QED  BY <1>2, <2>1, RouterAside DEF M!SetFailoverChain
<1>3. ASSUME NEW m \in Switched, M!DisableModel(m) PROVE RouterInv'
  <2>1. m \in Models
    BY DEF M!SoundConstants
  <2>2. M!TypeOK'
    BY <1>0, <1>3, <2>1 DEF M!TypeOK, M!DisableModel
  <2> QED  BY <1>3, <2>2, RouterAside DEF M!DisableModel
<1>4. ASSUME M!FinishSwitch PROVE RouterInv'
  <2>1. switching \in [to : {"down", "healthy"}, model : Models]
    BY <1>0, <1>4 DEF M!FinishSwitch, M!TypeOK
  <2>2. switching.to \in {"healthy", "degraded", "down"}
    BY <2>1
  <2>3. health' \in [Models -> {"healthy", "degraded", "down"}]
    BY <1>0, <1>4, <2>2, RouterHealth DEF M!FinishSwitch
  <2>4. fails' \in [Models -> 0 .. FailThreshold]
    <3>1. [fails EXCEPT ![switching.model] = 0] \in [Models -> 0 .. FailThreshold]
      BY <1>0, RouterHealth
    <3> QED  BY <1>0, <1>4, <3>1 DEF M!FinishSwitch, M!TypeOK
  <2>5. M!TypeOK'
    BY <1>0, <1>4, <2>3, <2>4 DEF M!FinishSwitch, M!TypeOK
  <2> QED  BY <1>4, <2>5, RouterAside DEF M!FinishSwitch
<1>5. ASSUME NEW m \in Models, M!ForgetCount(m) PROVE RouterInv'
  <2>1. fails' \in [Models -> 0 .. FailThreshold]
    BY <1>0, <1>5, RouterHealth DEF M!ForgetCount
  <2>2. M!TypeOK'
    BY <1>0, <1>5, <2>1 DEF M!ForgetCount, M!TypeOK
  <2> QED  BY <1>5, <2>2, RouterAside DEF M!ForgetCount
<1>6. CASE UNCHANGED M!vars
  <2>1. M!TypeOK'
    BY <1>0, <1>6 DEF M!TypeOK, M!vars
  <2> QED  BY <1>6, <2>1, RouterAside DEF M!vars
<1>7. ASSUME NEW c \in Calls,
             \/ \E ok \in BOOLEAN : M!Answer(c, ok)
             \/ M!CountFailure(c) \/ M!Degrade(c) \/ M!ForgetFailures(c) \/ M!Heal(c)
      PROVE  RouterInv'
  BY <1>7, RouterAnswers
<1> QED
  BY <1>1, <1>2, <1>3, <1>4, <1>5, <1>6, <1>7, RouterStarts, RouterChooses, RouterEnables DEF M!Next

LEMMA RouterHolds == ASSUME M!SoundConstants PROVE M!Spec => []RouterInv
<1>1. ASSUME M!Init PROVE RouterInv
  BY <1>1, RouterInit
<1>2. ASSUME RouterInv, [M!Next]_M!vars PROVE RouterInv'
  BY <1>2, RouterStep
<1> QED  BY <1>1, <1>2, PTL DEF M!Spec

\* Every variable of the router keeps its type.
THEOREM RouterTyped == ASSUME M!SoundConstants PROVE M!Spec => []M!TypeOK
<1>1. RouterInv => M!TypeOK
  BY DEF RouterInv
<1> QED  BY <1>1, RouterHolds, PTL

\* Whatever the models, chains, overrides and wishes, and however many messages
\* are answered at once: a message that arrives after a model was disabled is
\* not given to that model first, unless it has been enabled since or is the
\* emergency model (resolve, _build_failover_chain).
THEOREM DisabledNeverFirst == ASSUME M!SoundConstants PROVE M!Spec => []DisabledIsNeverFirst
<1>1. ASSUME RouterInv PROVE DisabledIsNeverFirst
  BY <1>1, RouterApart DEF RouterInv, DisabledIsNeverFirst, M!DisabledIsNeverFirst
<1> QED  BY <1>1, RouterHolds, PTL

-----------------------------------------------------------------------------
(* Kinds                                                                   *)

LEMMA ReplyCostsAreNatural ==
    ASSUME C!SoundConstants
    PROVE  C!ReplyCosts \subseteq Nat
<1>1. ASSUME NEW t, t.input \in Nat, t.output \in Nat, NEW u, u[1] \in Nat, u[2] \in Nat
      PROVE  C!ReplyCost(t, u) \in Nat
  <2>1. C!CeilDiv(u[1] * t.input, 1000) \in Int /\ C!CeilDiv(u[2] * t.output, 1000) \in Int
    BY <1>1 DEF C!CeilDiv
  <2> QED  BY <2>1 DEF C!ReplyCost
<1>2. \A t \in Tariffs, u \in Usage : C!ReplyCost(t, u) \in Nat
  BY <1>1 DEF C!SoundConstants
<1>3. C!ReplyCost(C!Unanswered, <<0, 0>>) \in Nat
  <2>1. C!Unanswered.input \in Nat /\ C!Unanswered.output \in Nat
    BY DEF C!Unanswered
  <2> QED  BY <1>1, <2>1
<1> QED  BY <1>2, <1>3 DEF C!ReplyCosts

LEMMA PriceIsNatural ==
    ASSUME C!SoundConstants, NEW t \in Terms \cup {C!FirstTerms}
    PROVE  t.price \in Nat
  BY DEF C!SoundConstants, C!FirstTerms

LEMMA KindOfJob ==
    ASSUME NEW j \in C!Job
    PROVE  /\ j = C!Waiting \/ j \in C!Reading \/ j \in C!Paying \/ j \in C!Done
           /\ j.st \in {"read", "open"} => j \in C!Reading
           /\ j.st = "paying" => j \in C!Paying
           /\ j.st = "done" => j \in C!Done
           /\ j.st = "idle" => j = C!Waiting
           /\ j # C!Waiting => j.old \in C!Row
  BY DEF C!Job, C!Waiting, C!Reading, C!Paying, C!Done

LEMMA NewRowIsRow ==
    ASSUME C!SoundConstants
    PROVE  C!NewRow \in C!Row
<1>1. 0 \in 0..MaxMonth
  BY DEF C!SoundConstants
<1> QED  BY <1>1 DEF C!NewRow, C!Row

LEMMA ResetKinds ==
    ASSUME C!SoundConstants, month \in 1..MaxMonth, NEW r \in C!Row
    PROVE  /\ C!Reset(r) \in C!Row
           /\ C!Reset(r).exists = r.exists /\ C!Reset(r).balance = r.balance
           /\ C!Reset(r).reset = month
           /\ r.reset = month => C!Reset(r) = r
           /\ r.reset # month => C!Reset(r).used = 0
<1>1. month \in 0..MaxMonth
  BY DEF C!SoundConstants
<1>2. CASE r.reset = month
  BY <1>2 DEF C!Reset
<1>3. CASE r.reset # month
  <2>1. C!Reset(r) = [r EXCEPT !.used = 0, !.reset = month]
    BY <1>3 DEF C!Reset
  <2>2. C!Reset(r) = [exists |-> r.exists, balance |-> r.balance, used |-> 0, reset |-> month]
    BY <2>1 DEF C!Row
  <2> QED  BY <1>1, <1>3, <2>2 DEF C!Row
<1> QED  BY <1>2, <1>3

LEMMA DecidedPayer ==
    ASSUME NEW r, NEW t
    PROVE  /\ C!DecidePayer(r, t).payer \in {"business", "user", "both"}
           /\ C!DecidePayer(r, t).payer # "business" /\ ~C!DecidePayer(r, t).block
                => ~(r.balance < t.price)
  BY DEF C!DecidePayer, C!UserOrRecharge
LEMMA FetchedKinds ==
    ASSUME C!SoundConstants, C!TypeOK, NEW h \in Handlers, work[h] # C!Waiting
    PROVE  C!Fetched(h) \in C!Row
  BY KindOfJob, NewRowIsRow DEF C!TypeOK, C!Fetched

LEMMA PartsAreNatural ==
    ASSUME C!SoundConstants, NEW payer, NEW t \in Terms \cup {C!FirstTerms}, NEW cost \in Nat
    PROVE  C!CustomerPart(payer, t) \in Nat /\ C!BusinessPart(payer, cost) \in Nat
  BY PriceIsNatural DEF C!CustomerPart, C!BusinessPart

LEMMA RowIsItsColumns ==
    ASSUME NEW r \in C!Row
    PROVE  r = [exists |-> r.exists, balance |-> r.balance, used |-> r.used, reset |-> r.reset]
  BY DEF C!Row

LEMMA ChargeKinds ==
    ASSUME NEW r \in C!Row, NEW mine \in Nat, NEW theirs \in Nat
    PROVE  /\ [r EXCEPT !.balance = @ - mine, !.used = @ + theirs]
                = [exists |-> r.exists, balance |-> r.balance - mine,
                   used |-> r.used + theirs, reset |-> r.reset]
           /\ [r EXCEPT !.balance = @ - mine, !.used = @ + theirs] \in C!Row
<1> DEFINE b == r.balance - mine
           n == r.used + theirs
<1>1. b \in Int /\ n \in Nat
  BY DEF C!Row
<1> HIDE DEF b, n
<1> DEFINE next == [r EXCEPT !.balance = b, !.used = n]
<1>2. next \in C!Row
  BY <1>1 DEF C!Row
<1>3. next.balance = b /\ next.used = n /\ next.exists = r.exists /\ next.reset = r.reset
  BY <1>1 DEF C!Row
<1> HIDE DEF next
<1>4. next = [exists |-> r.exists, balance |-> b, used |-> n, reset |-> r.reset]
  BY <1>2, <1>3, RowIsItsColumns
<1> QED  BY <1>2, <1>4 DEF b, n, next

\* The other variables keep their kinds when one request moves on.
LEMMA Moves ==
    ASSUME C!TypeOK, NEW h \in Handlers, NEW j \in C!Job, work' = [work EXCEPT ![h] = j],
           UNCHANGED <<terms, conv, month, credits, tally, paid, forgotten>>,
           seen' \subseteq Updates, answered' \in [Updates -> Nat], crossed' \in BOOLEAN
    PROVE  C!TypeOK'
<1>1. work' \in [Handlers -> C!Job]
  BY DEF C!TypeOK
<1> QED  BY <1>1 DEF C!TypeOK

LEMMA FinishKinds ==
    ASSUME C!TypeOK, NEW h \in Handlers, work[h] # C!Waiting, NEW r \in C!Row,
           NEW gain \in Int, NEW cost \in Nat, C!Finish(h, r, gain, cost)
    PROVE  \E j \in C!Job : /\ work' = [work EXCEPT ![h] = j]
                            /\ j = [st |-> "done", old |-> work[h].old, row |-> r,
                                    gain |-> gain, cost |-> cost]
<1> DEFINE j == [st |-> "done", old |-> work[h].old, row |-> r, gain |-> gain, cost |-> cost]
<1>1. j \in C!Done
  BY KindOfJob DEF C!TypeOK, C!Done
<1>2. work' = [work EXCEPT ![h] = j]
  BY DEF C!Finish
<1> QED  BY <1>1, <1>2 DEF C!Job

LEMMA DeliverKinds ==
    ASSUME C!SoundConstants, C!TypeOK, NEW h \in Handlers, NEW u \in Updates, C!Deliver(h, u)
    PROVE  C!TypeOK'
<1> DEFINE j == [st |-> IF conv.exists THEN "open" ELSE "read", update |-> u, terms |-> terms,
                 old |-> conv]
<1>1. j \in C!Job
  BY DEF C!TypeOK, C!Reading, C!Job
<1>2. work' = [work EXCEPT ![h] = j] /\ seen' \subseteq Updates /\ crossed' \in BOOLEAN
      /\ UNCHANGED <<terms, conv, month, forgotten, answered, credits, tally, paid>>
  BY DEF C!Deliver, C!Marked, C!TypeOK
<1>3. answered' \in [Updates -> Nat]
  BY <1>2 DEF C!TypeOK
<1> HIDE DEF j
<1> QED  BY <1>1, <1>2, <1>3, Moves

LEMMA CreateKinds ==
    ASSUME C!SoundConstants, C!TypeOK, NEW h \in Handlers, C!Create(h)
    PROVE  C!TypeOK'
<1> DEFINE j == IF conv.exists THEN C!Waiting ELSE [work[h] EXCEPT !.st = "open"]
<1>1. work[h] \in C!Reading
  BY KindOfJob DEF C!Create, C!TypeOK
<1>2. [work[h] EXCEPT !.st = "open"] \in C!Reading
  BY <1>1 DEF C!Reading
<1>3. j \in C!Job
  BY <1>2 DEF C!Job
<1>4. work' = [work EXCEPT ![h] = j]
      /\ UNCHANGED <<terms, conv, month, seen, forgotten, answered, credits, tally, paid, crossed>>
  BY DEF C!Create
<1> HIDE DEF j
<1> QED  BY <1>3, <1>4, Moves DEF C!TypeOK

LEMMA ExcuseKinds ==
    ASSUME C!SoundConstants, C!TypeOK, NEW h \in Handlers, C!Excuse(h)
    PROVE  C!TypeOK'
<1>1. work[h] # C!Waiting /\ C!Finish(h, C!Fetched(h), 0, 0)
      /\ UNCHANGED <<terms, conv, month, seen, forgotten, answered, credits, tally, paid, crossed>>
  BY DEF C!Excuse, C!Waiting
<1>2. C!Fetched(h) \in C!Row
  BY <1>1, FetchedKinds
<1>3. PICK j \in C!Job : work' = [work EXCEPT ![h] = j]
  BY <1>1, <1>2, FinishKinds
<1> QED  BY <1>1, <1>3, Moves DEF C!TypeOK

\* What billing's precheck leaves: everything to be written, or the payer.
LEMMA PrecheckKinds ==
    ASSUME C!SoundConstants, C!TypeOK, NEW h \in Handlers, C!Precheck(h)
    PROVE  /\ C!TypeOK'
           /\ LET r == C!Reset(C!Fetched(h))
                  verdict == C!DecidePayer(r, work[h].terms) IN
              work' = [work EXCEPT ![h] =
                  IF verdict.block
                  THEN [st |-> "done", old |-> work[h].old, row |-> r, gain |-> 0, cost |-> 0]
                  ELSE [st |-> "paying", update |-> work[h].update, terms |-> work[h].terms,
                        old |-> work[h].old, row |-> r, payer |-> verdict.payer]]
<1> DEFINE r == C!Reset(C!Fetched(h))
           verdict == C!DecidePayer(r, work[h].terms)
           done == [st |-> "done", old |-> work[h].old, row |-> r, gain |-> 0, cost |-> 0]
           pays == [st |-> "paying", update |-> work[h].update, terms |-> work[h].terms,
                    old |-> work[h].old, row |-> r, payer |-> verdict.payer]
<1>1. work[h] \in C!Reading
  BY KindOfJob DEF C!Precheck, C!TypeOK
<1>2. work[h] # C!Waiting
  BY <1>1 DEF C!Reading, C!Waiting
<1>3. r \in C!Row
  BY <1>2, FetchedKinds, ResetKinds DEF C!TypeOK
<1>4. verdict.payer \in {"business", "user", "both"}
  BY DecidedPayer
<1>5. /\ work' = [work EXCEPT ![h] = IF verdict.block THEN done ELSE pays]
      /\ UNCHANGED <<terms, conv, month, seen, forgotten, answered, credits, tally, paid, crossed>>
  BY DEF C!Precheck, C!Finish
<1> HIDE DEF r, verdict
<1>6. done \in C!Done
  BY <1>1, <1>3 DEF C!Done, C!Reading
<1>7. pays \in C!Paying
  BY <1>1, <1>3, <1>4 DEF C!Paying, C!Reading
<1>8. (IF verdict.block THEN done ELSE pays) \in C!Job
  BY <1>6, <1>7 DEF C!Job
<1> HIDE DEF done, pays
<1>9. C!TypeOK'
  BY <1>5, <1>8, Moves DEF C!TypeOK
<1> QED  BY <1>5, <1>9 DEF r, verdict, done, pays

LEMMA SpareKinds ==
    ASSUME C!SoundConstants, C!TypeOK, NEW h \in Handlers, C!Spare(h)
    PROVE  C!TypeOK'
<1>1. work[h] \in C!Paying
  BY KindOfJob DEF C!Spare, C!TypeOK
<1>2. work[h] # C!Waiting /\ work[h].row \in C!Row
  BY <1>1 DEF C!Paying, C!Waiting
<1>3. C!Finish(h, work[h].row, 0, 0)
      /\ UNCHANGED <<terms, conv, month, seen, forgotten, answered, credits, tally, paid, crossed>>
  BY DEF C!Spare
<1> QED  BY <1>2, <1>3, FinishKinds, Moves DEF C!TypeOK

\* A reply: what its request has to write, and whom it was sent to.
LEMMA AnswerKinds ==
    ASSUME C!SoundConstants, C!TypeOK, NEW h \in Handlers, C!Answer(h)
    PROVE  /\ C!TypeOK'
           /\ \E cost \in Nat :
                LET w == work[h]
                    mine == C!CustomerPart(w.payer, w.terms)
                    theirs == C!BusinessPart(w.payer, cost)
                    r == [exists |-> w.row.exists, balance |-> w.row.balance - mine,
                            used |-> w.row.used + theirs, reset |-> w.row.reset] IN
                work' = [work EXCEPT ![h] =
                    [st |-> "done", old |-> w.old, row |-> r, gain |-> -mine, cost |-> theirs]]
<1>1. work[h] \in C!Paying
  BY KindOfJob DEF C!Answer, C!TypeOK
<1>2. PICK cost \in Nat :
        C!Finish(h, [work[h].row EXCEPT !.balance = @ - C!CustomerPart(work[h].payer, work[h].terms),
                                      !.used = @ + C!BusinessPart(work[h].payer, cost)],
               -C!CustomerPart(work[h].payer, work[h].terms), C!BusinessPart(work[h].payer, cost))
  BY ReplyCostsAreNatural DEF C!Answer
<1> DEFINE mine == C!CustomerPart(work[h].payer, work[h].terms)
           theirs == C!BusinessPart(work[h].payer, cost)
           r == [work[h].row EXCEPT !.balance = @ - mine, !.used = @ + theirs]
<1>3. work[h] # C!Waiting /\ work[h].row \in C!Row /\ work[h].terms \in Terms \cup {C!FirstTerms}
      /\ work[h].update \in Updates
  BY <1>1 DEF C!Paying, C!Waiting
<1>4. mine \in Nat /\ theirs \in Nat
  BY <1>3, PartsAreNatural
<1>5. C!Finish(h, r, -mine, theirs)
  BY <1>2
<1> HIDE DEF mine, theirs
<1>6. -mine \in Int
  BY <1>4
<1>7. /\ r \in C!Row
      /\ r = [exists |-> work[h].row.exists, balance |-> work[h].row.balance - mine,
                used |-> work[h].row.used + theirs, reset |-> work[h].row.reset]
  BY <1>3, <1>4, ChargeKinds
<1> HIDE DEF r
<1>8. \E j \in C!Job : /\ work' = [work EXCEPT ![h] = j]
                       /\ j = [st |-> "done", old |-> work[h].old, row |-> r,
                               gain |-> -mine, cost |-> theirs]
  BY <1>3, <1>4, <1>7, <1>5, <1>6, FinishKinds
<1>9. answered' \in [Updates -> Nat]
  BY <1>3 DEF C!Answer, C!TypeOK
<1>10. UNCHANGED <<terms, conv, month, seen, forgotten, credits, tally, paid, crossed>>
  BY DEF C!Answer
<1>11. C!TypeOK'
  BY <1>8, <1>9, <1>10, Moves DEF C!TypeOK
<1> QED  BY <1>7, <1>8, <1>11 DEF mine, theirs, r
LEMMA CreditKinds ==
    ASSUME C!SoundConstants, C!TypeOK, NEW h \in Handlers, NEW amount \in Credits,
           C!StartCredit(h, amount)
    PROVE  /\ C!TypeOK'
           /\ amount \in Nat
           /\ work' = [work EXCEPT ![h] =
                  [st |-> "done", old |-> conv, gain |-> amount, cost |-> 0,
                   row |-> [exists |-> conv.exists, balance |-> conv.balance + amount,
                            used |-> conv.used, reset |-> conv.reset]]]
<1> DEFINE b == conv.balance + amount
           r == [conv EXCEPT !.balance = b]
           j == [st |-> "done", old |-> conv, row |-> r, gain |-> amount, cost |-> 0]
<1>1. amount \in Nat /\ conv \in C!Row
  BY DEF C!SoundConstants, C!TypeOK
<1>2. b \in Int
  BY <1>1 DEF C!Row
<1>3. work' = [work EXCEPT ![h] = j] /\ credits' = credits + 1 /\ credits < MaxCredits
      /\ crossed' = (crossed \/ C!Busy # {})
      /\ UNCHANGED <<terms, conv, month, seen, forgotten, answered, tally, paid>>
  BY DEF C!StartCredit
<1> HIDE DEF b
<1>4. r = [exists |-> conv.exists, balance |-> b, used |-> conv.used, reset |-> conv.reset]
  BY <1>1, <1>2 DEF C!Row
<1>5. r \in C!Row
  BY <1>1, <1>2, <1>4 DEF C!Row
<1> HIDE DEF r
<1>6. j \in C!Job
  BY <1>1, <1>5 DEF C!Job, C!Done
<1> HIDE DEF j
<1>7. work' \in [Handlers -> C!Job]
  BY <1>3, <1>6 DEF C!TypeOK
<1>8. credits' \in 0..MaxCredits
  BY <1>3 DEF C!TypeOK, C!SoundConstants
<1>9. C!TypeOK'
  BY <1>3, <1>7, <1>8 DEF C!TypeOK
<1> QED  BY <1>1, <1>3, <1>4, <1>9 DEF b, j

LEMMA StoreKinds ==
    ASSUME C!SoundConstants, C!TypeOK, NEW h \in Handlers, C!Store(h)
    PROVE  C!TypeOK'
<1>1. work[h] \in C!Done
  BY KindOfJob DEF C!Store, C!TypeOK
<1>2. /\ work[h].old \in C!Row /\ work[h].row \in C!Row
      /\ work[h].gain \in Int /\ work[h].cost \in Nat
  BY <1>1 DEF C!Done
<1>3. conv' \in C!Row
  <2>1. conv' = [exists  |-> TRUE,
          balance |-> IF work[h].row.balance = work[h].old.balance THEN conv.balance
                      ELSE work[h].row.balance,
          used    |-> IF work[h].row.used = work[h].old.used THEN conv.used
                      ELSE work[h].row.used,
          reset   |-> IF work[h].row.reset = work[h].old.reset THEN conv.reset
                      ELSE work[h].row.reset]
    BY DEF C!Store, C!Stored
  <2>2. conv \in C!Row
    BY DEF C!TypeOK
  <2> QED  BY <1>2, <2>1, <2>2 DEF C!Row
<1>4. tally' \in Int
  BY <1>2 DEF C!Store, C!TypeOK
<1>5. paid' \in [0..MaxMonth -> Nat]
  <2>1. work[h].row.reset \in 0..MaxMonth
    BY <1>2 DEF C!Row
  <2> QED  BY <1>2, <2>1 DEF C!Store, C!TypeOK
<1>6. work' \in [Handlers -> C!Job]
  BY DEF C!Store, C!TypeOK, C!Job
<1> QED  BY <1>3, <1>4, <1>5, <1>6 DEF C!Store, C!TypeOK

LEMMA OtherKinds ==
    ASSUME C!SoundConstants, C!TypeOK,
           \/ \E h \in Handlers : C!Abort(h)
           \/ \E t \in Terms : C!UpdateBilling(t)
           \/ C!NextMonth
           \/ \E u \in Updates : C!Forget(u)
           \/ UNCHANGED C!vars
    PROVE  C!TypeOK'
<1>1. CASE \E h \in Handlers : C!Abort(h)
  BY <1>1 DEF C!Abort, C!TypeOK, C!Job
<1>2. CASE \E t \in Terms : C!UpdateBilling(t)
  BY <1>2 DEF C!UpdateBilling, C!TypeOK
<1>3. CASE C!NextMonth
  BY <1>3 DEF C!NextMonth, C!TypeOK, C!SoundConstants
<1>4. CASE \E u \in Updates : C!Forget(u)
  BY <1>4 DEF C!Forget, C!TypeOK
<1>5. CASE UNCHANGED C!vars
  BY <1>5 DEF C!vars, C!TypeOK
<1> QED  BY <1>1, <1>2, <1>3, <1>4, <1>5

LEMMA InitKinds ==
    ASSUME C!SoundConstants, C!Init
    PROVE  C!TypeOK
<1>1. conv = [exists |-> FALSE, balance |-> 0, used |-> 0, reset |-> 0]
  BY DEF C!Init, C!NewRow
<1>2. conv \in C!Row
  BY <1>1 DEF C!Row, C!SoundConstants
<1>3. work \in [Handlers -> C!Job]
  BY DEF C!Init, C!Job
<1>4. month \in 1..MaxMonth /\ credits \in 0..MaxCredits
  BY DEF C!Init, C!SoundConstants
<1>5. paid \in [0..MaxMonth -> Nat] /\ answered \in [Updates -> Nat]
  BY DEF C!Init
<1>6. tally \in Int /\ terms \in Terms \cup {C!FirstTerms}
  BY DEF C!Init
<1>7. crossed \in BOOLEAN /\ seen \subseteq Updates /\ forgotten \subseteq Updates
  BY DEF C!Init
<1> QED  BY <1>2, <1>3, <1>4, <1>5, <1>6, <1>7 DEF C!TypeOK

LEMMA StepKinds ==
    ASSUME C!SoundConstants, C!TypeOK, [C!Next]_C!vars
    PROVE  C!TypeOK'
<1>1. CASE \E h \in Handlers, u \in Updates : C!Deliver(h, u)
  BY <1>1, DeliverKinds
<1>2. CASE \E h \in Handlers : C!Create(h)
  BY <1>2, CreateKinds
<1>3. CASE \E h \in Handlers : C!Excuse(h)
  BY <1>3, ExcuseKinds
<1>4. CASE \E h \in Handlers : C!Precheck(h)
  BY <1>4, PrecheckKinds
<1>5. CASE \E h \in Handlers : C!Spare(h)
  BY <1>5, SpareKinds
<1>6. CASE \E h \in Handlers : C!Answer(h)
  BY <1>6, AnswerKinds
<1>7. CASE \E h \in Handlers, amount \in Credits : C!StartCredit(h, amount)
  BY <1>7, CreditKinds
<1>8. CASE \E h \in Handlers : C!Store(h)
  BY <1>8, StoreKinds
<1>9. CASE \/ \E h \in Handlers : C!Abort(h)
           \/ \E t \in Terms : C!UpdateBilling(t)
           \/ C!NextMonth
           \/ \E u \in Updates : C!Forget(u)
           \/ UNCHANGED C!vars
  BY <1>9, OtherKinds
<1> QED  BY <1>1, <1>2, <1>3, <1>4, <1>5, <1>6, <1>7, <1>8, <1>9 DEF C!Next

\* The rows of conversations, the open requests and the histories keep their
\* kinds: no allowance is ever negative.
THEOREM ConversationTyped ==
    ASSUME C!SoundConstants
    PROVE  C!Spec => []C!TypeOK
  BY InitKinds, StepKinds, PTL DEF C!Spec

\* Everything around a chat stays well formed: booking, reminders,
\* conversations with their charges, and the choice of a model.
THEOREM ChatsTyped ==
    ASSUME R!SoundConstants, C!SoundConstants, M!SoundConstants
    PROVE  Spec /\ R!Spec /\ C!Spec /\ M!Spec => []TypesOK
<1>1. TypeOK /\ R!TypeOK /\ C!TypeOK /\ M!TypeOK => TypesOK
  BY DEF TypesOK
<1> QED  BY <1>1, BookingTyped, RemindersTyped, ConversationTyped, RouterTyped, PTL

-----------------------------------------------------------------------------
(* One answer for an update                                                *)

Serves(w, u) == w.st \in {"read", "open", "paying"} /\ w.update = u

\* While its mark lasts an update has one request, and the reply is its last
\* step but for the commit.
OnceInv ==
    \A u \in Updates \ forgotten :
        /\ answered[u] <= 1
        /\ u \notin seen => answered[u] = 0 /\ \A h \in Handlers : ~Serves(work[h], u)
        /\ \A h \in Handlers : Serves(work[h], u) => answered[u] = 0
        /\ \A g, h \in Handlers : Serves(work[g], u) /\ Serves(work[h], u) => g = h

\* A request that goes on with its update, or ends, serves none it did not.
LEMMA OnceMoves ==
    ASSUME OnceInv, NEW h \in Handlers, UNCHANGED <<seen, forgotten, answered>>,
           \A g \in Handlers : g # h => work'[g] = work[g],
           \A u \in Updates : Serves(work'[h], u) => Serves(work[h], u)
    PROVE  OnceInv'
<1>1. \A u \in Updates, g \in Handlers : Serves(work'[g], u) => Serves(work[g], u)
  OBVIOUS
<1> QED  BY <1>1 DEF OnceInv, Serves

LEMMA OnceDelivered ==
    ASSUME C!TypeOK, OnceInv, NEW h \in Handlers, NEW u \in Updates, C!Deliver(h, u)
    PROVE  OnceInv'
<1> DEFINE j == [st |-> IF conv.exists THEN "open" ELSE "read", update |-> u, terms |-> terms,
                 old |-> conv]
<1>1. /\ u \notin seen /\ seen' = seen \cup {u}
      /\ forgotten' = forgotten /\ answered' = answered
      /\ \A g \in Handlers : work'[g] = IF g = h THEN j ELSE work[g]
  BY DEF C!Deliver, C!Marked, C!TypeOK
<1>2. \A v \in Updates, g \in Handlers :
          Serves(work'[g], v) => Serves(work[g], v) \/ (g = h /\ v = u)
  BY <1>1 DEF Serves
<1> HIDE DEF j
<1> QED  BY <1>1, <1>2 DEF OnceInv, Serves

LEMMA OnceAnswered ==
    ASSUME C!SoundConstants, C!TypeOK, OnceInv, NEW h \in Handlers, C!Answer(h)
    PROVE  OnceInv'
<1>1. /\ work'[h].st = "done"
      /\ \A g \in Handlers : g # h => work'[g] = work[g]
  BY DEF C!Answer, C!Finish, C!TypeOK
<1>2. work[h] \in C!Paying
  BY KindOfJob DEF C!Answer, C!TypeOK
<1> DEFINE u == work[h].update
<1>3. u \in Updates /\ Serves(work[h], u)
  BY <1>2 DEF Serves, C!Paying
<1>4. /\ seen' = seen /\ forgotten' = forgotten
      /\ answered' = [answered EXCEPT ![u] = @ + 1]
  BY DEF C!Answer
<1>5. \A g \in Handlers, v \in Updates :
          /\ Serves(work'[g], v) => Serves(work[g], v)
          /\ ~Serves(work'[h], v)
  BY <1>1 DEF Serves
<1>6. \A v \in Updates : /\ answered[v] \in Nat /\ answered'[v] \in Nat
                         /\ v # u => answered'[v] = answered[v]
                         /\ v = u => answered'[v] = answered[v] + 1
  BY <1>3, <1>4 DEF C!TypeOK
<1> HIDE DEF u
<1> SUFFICES ASSUME NEW v \in Updates \ forgotten
             PROVE  /\ answered'[v] <= 1
                    /\ v \notin seen => answered'[v] = 0
                         /\ \A g \in Handlers : ~Serves(work'[g], v)
                    /\ \A g \in Handlers : Serves(work'[g], v) => answered'[v] = 0
                    /\ \A g, k \in Handlers : Serves(work'[g], v) /\ Serves(work'[k], v) => g = k
  BY <1>4 DEF OnceInv, Serves
<1>7. CASE v = u
  BY <1>3, <1>5, <1>6, <1>7 DEF OnceInv
<1>8. CASE v # u
  BY <1>3, <1>5, <1>6, <1>8 DEF OnceInv
<1> QED  BY <1>7, <1>8

LEMMA OnceKept ==
    ASSUME C!SoundConstants, C!TypeOK, OnceInv, [C!Next]_C!vars
    PROVE  OnceInv'
<1>1. CASE \E h \in Handlers, u \in Updates : C!Deliver(h, u)
  BY <1>1, OnceDelivered
<1>2. ASSUME NEW h \in Handlers, C!Create(h)
      PROVE  OnceInv'
  <2> DEFINE j == IF conv.exists THEN C!Waiting ELSE [work[h] EXCEPT !.st = "open"]
  <2>1. work[h] \in C!Reading
    BY <1>2, KindOfJob DEF C!Create, C!TypeOK
  <2>2. \A u \in Updates : Serves(j, u) => Serves(work[h], u)
    BY <2>1 DEF Serves, C!Reading, C!Waiting
  <2>3. /\ work'[h] = j /\ \A g \in Handlers : g # h => work'[g] = work[g]
        /\ UNCHANGED <<seen, forgotten, answered>>
    BY <1>2 DEF C!Create, C!TypeOK
  <2> HIDE DEF j
  <2> QED  BY <2>2, <2>3, OnceMoves
<1>3. ASSUME NEW h \in Handlers, C!Excuse(h) \/ C!Spare(h)
      PROVE  OnceInv'
  <2>1. /\ work'[h].st = "done" /\ \A g \in Handlers : g # h => work'[g] = work[g]
        /\ UNCHANGED <<seen, forgotten, answered>>
    BY <1>3 DEF C!Excuse, C!Spare, C!Finish, C!TypeOK
  <2> QED  BY <2>1, OnceMoves DEF Serves
<1>4. ASSUME NEW h \in Handlers, C!Precheck(h)
      PROVE  OnceInv'
  <2>1. /\ work'[h].st = "done" \/ work'[h].update = work[h].update
        /\ \A g \in Handlers : g # h => work'[g] = work[g]
        /\ UNCHANGED <<seen, forgotten, answered>>
    BY <1>4 DEF C!Precheck, C!Finish, C!TypeOK
  <2>2. \A u \in Updates : Serves(work'[h], u) => Serves(work[h], u)
    BY <1>4, <2>1 DEF C!Precheck, Serves
  <2> QED  BY <2>1, <2>2, OnceMoves
<1>5. CASE \E h \in Handlers : C!Answer(h)
  BY <1>5, OnceAnswered
<1>6. ASSUME NEW h \in Handlers, NEW amount \in Credits, C!StartCredit(h, amount)
      PROVE  OnceInv'
  <2>1. /\ work'[h].st = "done" /\ \A g \in Handlers : g # h => work'[g] = work[g]
        /\ UNCHANGED <<seen, forgotten, answered>>
    BY <1>6 DEF C!StartCredit, C!TypeOK
  <2> QED  BY <2>1, OnceMoves DEF Serves
<1>7. ASSUME NEW h \in Handlers, C!Store(h) \/ C!Abort(h)
      PROVE  OnceInv'
  <2>1. /\ work'[h] = C!Waiting /\ \A g \in Handlers : g # h => work'[g] = work[g]
        /\ UNCHANGED <<seen, forgotten, answered>>
    BY <1>7 DEF C!Store, C!Abort, C!TypeOK
  <2>2. \A u \in Updates : ~Serves(C!Waiting, u)
    BY DEF Serves, C!Waiting
  <2> QED  BY <2>1, <2>2, OnceMoves
<1>8. CASE (\E t \in Terms : C!UpdateBilling(t)) \/ C!NextMonth \/ UNCHANGED C!vars
  BY <1>8 DEF C!UpdateBilling, C!NextMonth, C!vars, OnceInv, Serves
<1>9. ASSUME NEW u \in Updates, C!Forget(u)
      PROVE  OnceInv'
  <2>1. /\ forgotten' = forgotten \cup {u} /\ seen' = seen \ {u}
        /\ answered' = answered /\ work' = work
    BY <1>9 DEF C!Forget
  <2> QED  BY <2>1 DEF OnceInv, Serves
<1> QED  BY <1>1, <1>2, <1>3, <1>4, <1>5, <1>6, <1>7, <1>8, <1>9 DEF C!Next

\* However often Telegram repeats an update and whatever fails, while the mark
\* lasts the update is answered at most once (telegram_webhook).
THEOREM OneAnswer ==
    ASSUME C!SoundConstants
    PROVE  C!Spec => []AnsweredOnce
<1>1. ASSUME C!Init
      PROVE  OnceInv
  <2>1. \A u \in Updates : answered[u] = 0 /\ answered[u] <= 1
    <3>1. \A u \in Updates : answered[u] = 0
      BY <1>1 DEF C!Init
    <3>2. 0 <= 1
      OBVIOUS
    <3> QED  BY <3>1, <3>2
  <2>2. \A h \in Handlers : work[h] = C!Waiting
    BY <1>1 DEF C!Init
  <2>3. \A h \in Handlers, u \in Updates : ~Serves(work[h], u)
    BY <2>2 DEF Serves, C!Waiting
  <2> QED  BY <2>1, <2>3 DEF OnceInv
<1>2. OnceInv => AnsweredOnce
  BY DEF OnceInv, AnsweredOnce, C!AnsweredOnce
<1> QED  BY <1>1, <1>2, InitKinds, StepKinds, OnceKept, PTL DEF C!Spec

-----------------------------------------------------------------------------
(* The customer's account                                                  *)

\* What a request holds while no other does: the committed row, brought
\* to some month since and changed by what it gains and costs.
Ready(r, gain, cost) ==
    /\ r.balance = conv.balance + gain /\ r.balance >= 0
    /\ conv.reset <= r.reset /\ r.reset <= month
    /\ r.used = paid[r.reset] + cost

Sound(w) ==
    /\ w # C!Waiting => w.old = conv
    /\ w.st = "paying" => /\ Ready(w.row, 0, 0)
                          /\ w.payer # "business" => w.row.balance >= w.terms.price
    /\ w.st = "done" => Ready(w.row, w.gain, w.cost)

Account ==
    /\ conv.balance = tally /\ conv.balance >= 0
    /\ conv.used = paid[conv.reset] /\ conv.reset <= month
    /\ \A m \in 0..MaxMonth : m > conv.reset => paid[m] = 0
    /\ ~conv.exists => conv.balance = 0 /\ conv.used = 0 /\ conv.reset = 0
    /\ \A g, h \in Handlers : work[g] # C!Waiting /\ work[h] # C!Waiting => g = h
    /\ \A h \in Handlers : Sound(work[h])

AccountInv == crossed \/ Account

\* A request moves on by itself.
LEMMA AccountMoves ==
    ASSUME Account, NEW h \in Handlers, work[h] # C!Waiting,
           UNCHANGED <<conv, month, tally, paid>>,
           \A g \in Handlers : g # h => work'[g] = work[g],
           Sound(work[h])'
    PROVE  Account'
<1>1. \A g \in Handlers : Sound(work[g])'
  BY DEF Account, Sound, Ready
<1> QED  BY <1>1 DEF Account

LEMMA FetchedIsCommitted ==
    ASSUME C!SoundConstants, C!TypeOK, Account, NEW h \in Handlers, work[h] # C!Waiting
    PROVE  /\ C!Fetched(h) \in C!Row
           /\ C!Fetched(h).balance = conv.balance /\ C!Fetched(h).used = conv.used
           /\ C!Fetched(h).reset = conv.reset
<1>1. work[h].old = conv
  BY DEF Account, Sound
<1> QED  BY <1>1, FetchedKinds DEF C!Fetched, C!NewRow, Account

LEMMA AccountCredited ==
    ASSUME C!SoundConstants, C!TypeOK, AccountInv, NEW h \in Handlers, NEW amount \in Credits,
           C!StartCredit(h, amount)
    PROVE  AccountInv'
<1> DEFINE r == [exists |-> conv.exists, balance |-> conv.balance + amount,
                   used |-> conv.used, reset |-> conv.reset]
           j == [st |-> "done", old |-> conv, gain |-> amount, cost |-> 0, row |-> r]
<1>1. /\ work'[h] = j /\ amount \in Nat
      /\ \A g \in Handlers : g # h => work'[g] = work[g]
  BY CreditKinds DEF C!TypeOK
<1>2. /\ crossed' = (crossed \/ C!Busy # {})
      /\ UNCHANGED <<conv, month, tally, paid>>
  BY DEF C!StartCredit
<1>3. CASE crossed \/ C!Busy # {}
  BY <1>2, <1>3 DEF AccountInv
<1>4. CASE ~crossed /\ C!Busy = {}
  <2>1. Account /\ \A g \in Handlers : work[g] = C!Waiting
    BY <1>4 DEF AccountInv, C!Busy
  <2>2. conv \in C!Row /\ paid \in [0..MaxMonth -> Nat]
    BY DEF C!TypeOK
  <2>3. Ready(r, amount, 0)
    BY <1>1, <2>1, <2>2 DEF Ready, Account, C!Row
  <2>4. Sound(j)
    BY <2>3 DEF Sound
  <2> HIDE DEF j
  <2>5. Sound(work[h])'
    BY <1>1, <1>2, <2>4 DEF Sound, Ready
  <2>6. \A g \in Handlers : Sound(work[g])'
    BY <1>1, <1>2, <2>1, <2>5 DEF Account, Sound, Ready
  <2>7. Account'
    BY <1>1, <1>2, <2>1, <2>6 DEF Account
  <2> QED  BY <2>7 DEF AccountInv
<1> QED  BY <1>3, <1>4

LEMMA AccountDelivered ==
    ASSUME C!SoundConstants, C!TypeOK, AccountInv, NEW h \in Handlers, NEW u \in Updates, C!Deliver(h, u)
    PROVE  AccountInv'
<1>1. /\ work'[h].old = conv /\ work'[h].st \in {"read", "open"}
      /\ \A g \in Handlers : g # h => work'[g] = work[g]
  BY DEF C!Deliver, C!TypeOK
<1>2. /\ crossed' = (crossed \/ C!Busy # {})
      /\ UNCHANGED <<conv, month, tally, paid>>
  BY DEF C!Deliver
<1>3. CASE crossed \/ C!Busy # {}
  BY <1>2, <1>3 DEF AccountInv
<1>4. CASE ~crossed /\ C!Busy = {}
  <2>1. Account /\ \A g \in Handlers : work[g] = C!Waiting
    BY <1>4 DEF AccountInv, C!Busy
  <2>2. \A g \in Handlers : Sound(work[g])'
    BY <1>1, <1>2, <2>1 DEF Account, Sound, Ready
  <2>3. Account'
    BY <1>1, <1>2, <2>1, <2>2 DEF Account
  <2> QED  BY <2>3 DEF AccountInv
<1> QED  BY <1>3, <1>4

LEMMA AccountChecked ==
    ASSUME C!SoundConstants, C!TypeOK, Account, NEW h \in Handlers, C!Precheck(h)
    PROVE  Account'
<1> DEFINE r == C!Reset(C!Fetched(h))
           verdict == C!DecidePayer(r, work[h].terms)
<1>1. work[h] \in C!Reading
  BY KindOfJob DEF C!Precheck, C!TypeOK
<1>2. work[h] # C!Waiting /\ work[h].old = conv
  BY <1>1 DEF C!Reading, C!Waiting, Account, Sound
<1>3. /\ \A g \in Handlers : g # h => work'[g] = work[g]
      /\ work'[h] = IF verdict.block
           THEN [st |-> "done", old |-> work[h].old, row |-> r, gain |-> 0, cost |-> 0]
           ELSE [st |-> "paying", update |-> work[h].update, terms |-> work[h].terms,
                 old |-> work[h].old, row |-> r, payer |-> verdict.payer]
  BY PrecheckKinds DEF C!TypeOK
<1>4. UNCHANGED <<conv, month, tally, paid>>
  BY DEF C!Precheck
<1>5. conv \in C!Row /\ paid \in [0..MaxMonth -> Nat] /\ month \in 1..MaxMonth
  BY DEF C!TypeOK
<1>6. /\ r.balance = conv.balance /\ r.reset = month /\ r \in C!Row
      /\ conv.reset = month => r.used = conv.used
      /\ conv.reset # month => r.used = 0
  BY <1>2, <1>5, FetchedIsCommitted, ResetKinds
<1>7. ~verdict.block /\ verdict.payer # "business" => ~(r.balance < work[h].terms.price)
  BY DecidedPayer
<1>8. work[h].terms.price \in Nat
  BY <1>1, PriceIsNatural DEF C!Reading
<1> HIDE DEF r, verdict
<1>9. Ready(r, 0, 0)
  BY <1>5, <1>6 DEF Ready, Account, C!Row
<1>10. ~verdict.block /\ verdict.payer # "business" => r.balance >= work[h].terms.price
  BY <1>6, <1>7, <1>8 DEF C!Row
<1>11. Sound(work'[h])
  BY <1>2, <1>3, <1>9, <1>10 DEF Sound
<1>12. Sound(work[h])'
  BY <1>4, <1>11 DEF Sound, Ready
<1> QED  BY <1>2, <1>3, <1>4, <1>12, AccountMoves

LEMMA AccountAnswered ==
    ASSUME C!SoundConstants, C!TypeOK, Account, NEW h \in Handlers, C!Answer(h)
    PROVE  Account'
<1>1. work[h] \in C!Paying
  BY KindOfJob DEF C!Answer, C!TypeOK
<1>2. /\ work[h].row \in C!Row /\ work[h].terms \in Terms \cup {C!FirstTerms}
      /\ work[h] # C!Waiting /\ work[h].st = "paying"
  BY <1>1 DEF C!Paying, C!Waiting
<1>3. PICK cost \in Nat :
        LET w == work[h]
            mine == C!CustomerPart(w.payer, w.terms)
            theirs == C!BusinessPart(w.payer, cost)
            r == [exists |-> w.row.exists, balance |-> w.row.balance - mine,
                    used |-> w.row.used + theirs, reset |-> w.row.reset] IN
        work' = [work EXCEPT ![h] =
            [st |-> "done", old |-> w.old, row |-> r, gain |-> -mine, cost |-> theirs]]
  BY AnswerKinds
<1> DEFINE mine == C!CustomerPart(work[h].payer, work[h].terms)
           theirs == C!BusinessPart(work[h].payer, cost)
           r == [exists |-> work[h].row.exists, balance |-> work[h].row.balance - mine,
                   used |-> work[h].row.used + theirs, reset |-> work[h].row.reset]
<1>4. mine \in Nat /\ theirs \in Nat
  BY <1>2, PartsAreNatural
<1>5. mine <= work[h].row.balance
  <2>1. /\ Ready(work[h].row, 0, 0)
        /\ work[h].payer # "business" => work[h].row.balance >= work[h].terms.price
    BY <1>2 DEF Account, Sound
  <2>2. work[h].terms.price \in Nat
    BY <1>2, PriceIsNatural
  <2> QED  BY <1>2, <2>1, <2>2 DEF C!CustomerPart, Ready, C!Row
<1>6. /\ work'[h] = [st |-> "done", old |-> work[h].old, row |-> r, gain |-> -mine,
                     cost |-> theirs]
      /\ \A g \in Handlers : g # h => work'[g] = work[g]
  BY <1>3 DEF C!TypeOK
<1>7. UNCHANGED <<conv, month, tally, paid>>
  BY DEF C!Answer
<1> HIDE DEF mine, theirs
<1>8. Ready(r, -mine, theirs)
  <2>1. Ready(work[h].row, 0, 0)
    BY <1>2 DEF Account, Sound
  <2>2. conv \in C!Row /\ paid \in [0..MaxMonth -> Nat]
    BY DEF C!TypeOK
  <2> QED  BY <1>2, <1>4, <1>5, <2>1, <2>2 DEF Ready, C!Row
<1> HIDE DEF r
<1>9. Sound(work'[h])
  BY <1>2, <1>6, <1>8 DEF Account, Sound
<1>10. Sound(work[h])'
  BY <1>7, <1>9 DEF Sound, Ready
<1> QED  BY <1>2, <1>6, <1>7, <1>10, AccountMoves

\* The commit of the only request writes its row whole.
LEMMA AccountStored ==
    ASSUME C!SoundConstants, C!TypeOK, Account, NEW h \in Handlers, C!Store(h)
    PROVE  Account'
<1> DEFINE w == work[h]
<1>1. w \in C!Done /\ w # C!Waiting /\ w.st = "done"
  BY KindOfJob DEF C!Store, C!TypeOK, C!Waiting
<1>2. w.row \in C!Row /\ w.gain \in Int /\ w.cost \in Nat
  BY <1>1 DEF C!Done
<1>3. w.old = conv /\ Ready(w.row, w.gain, w.cost)
  BY <1>1 DEF Account, Sound
<1>4. conv' = [exists |-> TRUE, balance |-> w.row.balance, used |-> w.row.used,
               reset |-> w.row.reset]
  BY <1>3 DEF C!Store, C!Stored
<1>5. /\ month' = month /\ tally' = tally + w.gain
      /\ paid' = [paid EXCEPT ![w.row.reset] = @ + w.cost]
      /\ work' = [work EXCEPT ![h] = C!Waiting]
  BY DEF C!Store
<1>6. \A g \in Handlers : work'[g] = C!Waiting
  BY <1>1, <1>5 DEF Account, C!TypeOK
<1>7. conv \in C!Row /\ paid \in [0..MaxMonth -> Nat] /\ month \in 1..MaxMonth /\ tally \in Int
  BY DEF C!TypeOK
<1>8. /\ paid'[w.row.reset] = paid[w.row.reset] + w.cost
      /\ \A m \in 0..MaxMonth : m > w.row.reset => paid'[m] = paid[m]
  BY <1>2, <1>5, <1>7 DEF C!Row
<1> HIDE DEF w
<1>9. conv'.balance = tally' /\ conv'.balance >= 0
  BY <1>2, <1>3, <1>4, <1>5, <1>7 DEF Account, Ready, C!Row
<1>10. conv'.used = paid'[conv'.reset] /\ conv'.reset <= month'
  BY <1>3, <1>4, <1>5, <1>8 DEF Ready
<1>11. \A m \in 0..MaxMonth : m > conv'.reset => paid'[m] = 0
  BY <1>2, <1>3, <1>4, <1>7, <1>8 DEF Account, Ready, C!Row
<1>12. \A g \in Handlers : Sound(work[g])'
  BY <1>6 DEF Sound, C!Waiting
<1> QED  BY <1>4, <1>6, <1>9, <1>10, <1>11, <1>12 DEF Account

LEMMA AccountKept ==
    ASSUME C!SoundConstants, C!TypeOK, AccountInv, [C!Next]_C!vars
    PROVE  AccountInv'
<1>1. CASE \E h \in Handlers, u \in Updates : C!Deliver(h, u)
  BY <1>1, AccountDelivered
<1>2. CASE \E h \in Handlers, amount \in Credits : C!StartCredit(h, amount)
  BY <1>2, AccountCredited
<1> SUFFICES ASSUME ~\E h \in Handlers, u \in Updates : C!Deliver(h, u),
                    ~\E h \in Handlers, amount \in Credits : C!StartCredit(h, amount)
             PROVE  AccountInv'
  BY <1>1, <1>2
<1>3. crossed' = crossed
  BY DEF C!Next, C!Create, C!Excuse, C!Precheck, C!Spare, C!Answer, C!Store, C!Abort, C!UpdateBilling, C!NextMonth,
         C!Forget, C!vars
<1>4. CASE crossed
  BY <1>3, <1>4 DEF AccountInv
<1>5. CASE ~crossed
  <2>1. Account
    BY <1>5 DEF AccountInv
  <2> SUFFICES Account'
    BY DEF AccountInv
  <2>2. ASSUME NEW h \in Handlers, C!Create(h)
        PROVE  Account'
    <3>1. work[h] \in C!Reading
      BY <2>2, KindOfJob DEF C!Create, C!TypeOK
    <3>2. /\ \A g \in Handlers : g # h => work'[g] = work[g]
          /\ work'[h] = IF conv.exists THEN C!Waiting ELSE [work[h] EXCEPT !.st = "open"]
          /\ UNCHANGED <<conv, month, tally, paid>>
      BY <2>2 DEF C!Create, C!TypeOK
    <3>3. [work[h] EXCEPT !.st = "open"].st = "open"
          /\ [work[h] EXCEPT !.st = "open"].old = work[h].old
      BY <3>1 DEF C!Reading
    <3>4. work[h] # C!Waiting /\ work[h].old = conv
      BY <2>1, <3>1 DEF Account, Sound, C!Reading, C!Waiting
    <3>5. Sound(work[h])'
      BY <3>2, <3>3, <3>4 DEF Sound, C!Waiting
    <3> QED  BY <2>1, <3>2, <3>4, <3>5, AccountMoves
  <2>3. ASSUME NEW h \in Handlers, C!Excuse(h)
        PROVE  Account'
    <3>1. work[h] # C!Waiting
      BY <2>3 DEF C!Excuse, C!Waiting
    <3>2. /\ \A g \in Handlers : g # h => work'[g] = work[g]
          /\ work'[h] = [st |-> "done", old |-> work[h].old, row |-> C!Fetched(h), gain |-> 0,
                         cost |-> 0]
          /\ UNCHANGED <<conv, month, tally, paid>>
      BY <2>3 DEF C!Excuse, C!Finish, C!TypeOK
    <3>3. conv \in C!Row /\ paid \in [0..MaxMonth -> Nat]
      BY DEF C!TypeOK
    <3>4. Ready(C!Fetched(h), 0, 0)
      BY <2>1, <3>1, <3>3, FetchedIsCommitted DEF Ready, Account, C!Row
    <3>5. work[h].old = conv
      BY <2>1, <3>1 DEF Account, Sound
    <3>6. Sound(work'[h])
      BY <3>2, <3>4, <3>5 DEF Sound
    <3>7. Sound(work[h])'
      BY <3>2, <3>6 DEF Sound, Ready
    <3> QED  BY <2>1, <3>1, <3>2, <3>7, AccountMoves
  <2>4. ASSUME NEW h \in Handlers, C!Spare(h)
        PROVE  Account'
    <3>1. work[h] # C!Waiting /\ work[h].st = "paying"
      BY <2>4 DEF C!Spare, C!Waiting
    <3>2. /\ \A g \in Handlers : g # h => work'[g] = work[g]
          /\ work'[h] = [st |-> "done", old |-> work[h].old, row |-> work[h].row, gain |-> 0,
                         cost |-> 0]
          /\ UNCHANGED <<conv, month, tally, paid>>
      BY <2>4 DEF C!Spare, C!Finish, C!TypeOK
    <3>3. work[h].old = conv /\ Ready(work[h].row, 0, 0)
      BY <2>1, <3>1 DEF Account, Sound
    <3>4. Sound(work'[h])
      BY <3>2, <3>3 DEF Sound
    <3>5. Sound(work[h])'
      BY <3>2, <3>4 DEF Sound, Ready
    <3> QED  BY <2>1, <3>1, <3>2, <3>5, AccountMoves
  <2>5. ASSUME NEW h \in Handlers, C!Abort(h)
        PROVE  Account'
    <3>1. /\ \A g \in Handlers : g # h => work'[g] = work[g]
          /\ work'[h] = C!Waiting /\ work[h] # C!Waiting
          /\ UNCHANGED <<conv, month, tally, paid>>
      BY <2>5 DEF C!Abort, C!TypeOK
    <3>2. Sound(work[h])'
      BY <3>1 DEF Sound, C!Waiting
    <3> QED  BY <2>1, <3>1, <3>2, AccountMoves
  <2>6. CASE C!NextMonth
    <3>1. /\ month \in Int /\ month' = month + 1 /\ conv \in C!Row
          /\ UNCHANGED <<conv, tally, paid, work>>
      BY <2>6 DEF C!NextMonth, C!TypeOK
    <3>2. ASSUME NEW r, NEW gain, NEW cost, r.reset \in Int, Ready(r, gain, cost)
          PROVE  Ready(r, gain, cost)'
      BY <3>1, <3>2 DEF Ready
    <3>3. \A h \in Handlers : work[h].st \in {"paying", "done"} => work[h].row.reset \in Int
      BY KindOfJob DEF C!TypeOK, C!Paying, C!Done, C!Row
    <3>4. \A h \in Handlers : Sound(work[h])'
      BY <2>1, <3>1, <3>2, <3>3 DEF Account, Sound
    <3>5. conv'.reset <= month'
      BY <2>1, <3>1 DEF Account, C!Row
    <3>6. conv' = conv /\ tally' = tally /\ paid' = paid /\ work' = work
      BY <3>1
    <3> QED  BY <2>1, <3>4, <3>5, <3>6 DEF Account
  <2>7. CASE (\E t \in Terms : C!UpdateBilling(t)) \/ (\E u \in Updates : C!Forget(u)) \/ UNCHANGED C!vars
    <3>1. conv' = conv /\ month' = month /\ tally' = tally /\ paid' = paid /\ work' = work
      BY <2>7 DEF C!UpdateBilling, C!Forget, C!vars
    <3>2. \A h \in Handlers : Sound(work[h])'
      BY <2>1, <3>1 DEF Account, Sound, Ready
    <3> QED  BY <2>1, <3>1, <3>2 DEF Account
  <2>8. CASE \E h \in Handlers : C!Precheck(h)
    BY <2>1, <2>8, AccountChecked
  <2>9. CASE \E h \in Handlers : C!Answer(h)
    BY <2>1, <2>9, AccountAnswered
  <2>10. CASE \E h \in Handlers : C!Store(h)
    BY <2>1, <2>10, AccountStored
  <2> QED  BY <2>2, <2>3, <2>4, <2>5, <2>6, <2>7, <2>8, <2>9, <2>10 DEF C!Next
<1> QED  BY <1>4, <1>5

\* Unless two requests held the row at the same time, the customer's balance is
\* granted less charged and no debt, and the allowance used is what the
\* business paid in the row's month: through every failure, turn of the month
\* and change of terms (_decide_payer, _charge_etg, credit_customer).
THEOREM AccountAgrees ==
    ASSUME C!SoundConstants
    PROVE  C!Spec => []CustomersAccount
<1>1. ASSUME C!Init
      PROVE  AccountInv
  <2>1. conv = [exists |-> FALSE, balance |-> 0, used |-> 0, reset |-> 0]
    BY <1>1 DEF C!Init, C!NewRow
  <2>2. /\ month = 1 /\ tally = 0 /\ paid = [m \in 0..MaxMonth |-> 0]
        /\ \A h \in Handlers : work[h] = C!Waiting
    BY <1>1 DEF C!Init
  <2>3. 0 \in 0..MaxMonth
    BY DEF C!SoundConstants
  <2>4. \A h \in Handlers : Sound(work[h])
    BY <2>2 DEF Sound, C!Waiting
  <2> QED  BY <2>1, <2>2, <2>3, <2>4 DEF AccountInv, Account
<1>2. AccountInv => CustomersAccount
  BY DEF AccountInv, Account, CustomersAccount, C!CustomersAccount
<1> QED  BY <1>1, <1>2, InitKinds, StepKinds, AccountKept, PTL DEF C!Spec

=============================================================================
