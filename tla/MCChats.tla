------------------------------ MODULE MCChats ------------------------------
(* Small instances of what happens around a customer's chat, one part of it *)
(* at a time: `focus` is chosen in the initial state and the others stay as *)
(* they begin.                                                              *)
(*                                                                          *)
(* Booking: days of four hours, open for three, services of one and two     *)
(* hours, one slot fewer offered than the day has.  Reminders: appointments *)
(* that start within the hour of a run, in the rest of the day, or beyond   *)
(* it.  Conversations: one customer, both who pay, a month's limit of one,  *)
(* and a model that is free beside one that is not.  Models: one that can   *)
(* be disabled and one that is both fallback and emergency.                 *)
EXTENDS Chats, TLC

CONSTANTS d, e

VARIABLE focus

Shared == [policy |-> "both", limit |-> NoLimit, action |-> "block", price |-> 1]
Limited == [policy |-> "business_pays", limit |-> 1, action |-> "user_pays", price |-> 1]

MCTerms == {Shared, Limited}
MCTariffs == [free : BOOLEAN, input : {1}, output : {2}]
MCUsage == {<<300, 0>>}
MCAmharic == <<d>>
MCWishes == {<<>>}
MCChains == {<<d>>}

ASSUME R!SoundConstants /\ C!SoundConstants /\ M!SoundConstants

reminderVars == <<clock, appointment, run, sent, loose>>
conversationVars ==
    <<terms, conv, month, seen, forgotten, answered, work, credits, tally, paid, crossed>>
routerVars == <<override, custom, disabled, health, fails, switching, call>>

allVars == <<focus, vars, reminderVars, conversationVars, routerVars>>

FocusInit ==
    /\ focus \in {"booking", "reminders", "conversation", "models"}
    /\ Init /\ R!Init /\ C!Init /\ M!Init

FocusNext ==
    /\ UNCHANGED focus
    /\ IF focus = "booking" THEN Next ELSE UNCHANGED vars
    /\ IF focus = "reminders" THEN R!Next ELSE UNCHANGED reminderVars
    /\ IF focus = "conversation" THEN C!Next ELSE UNCHANGED conversationVars
    /\ IF focus = "models" THEN M!Next ELSE UNCHANGED routerVars

FocusSpec == FocusInit /\ [][FocusNext]_allVars

Symmetry ==
    Permutations(Bookings) \cup Permutations(Handlers) \cup Permutations(Sessions)
        \cup Permutations(Runs)

=============================================================================
