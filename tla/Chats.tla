------------------------------- MODULE Chats -------------------------------
(***************************************************************************)
(* What happens around a customer's chat, side by side: booking, the       *)
(* reminders of appointments, conversations with their charges, and the    *)
(* choice of a model.  Each has variables of its own; the reminders' rows  *)
(* of bookings are those of module Reminders, which knows only what a      *)
(* reminder depends on.                                                    *)
(***************************************************************************)
EXTENDS Booking

CONSTANTS
    Runs, Starts, Day, LastTick, MaxSent,
    Updates, Terms, Tariffs, Usage, NoLimit, Credits, MaxCredits, MaxMonth,
    Models, NoModel, Default, Fallback, Emergency, Amharic, Wishes, Chains,
    Overrides, Switched, FailThreshold, Calls

VARIABLES
    clock, appointment, run, sent, loose,
    terms, conv, month, seen, forgotten, answered, work, credits, tally, paid, crossed,
    override, custom, disabled, health, fails, switching, call

R == INSTANCE Reminders WITH
         now <- clock, row <- appointment, DayLen <- Day, MaxTime <- LastTick
C == INSTANCE Conversations
M == INSTANCE ModelRouter

TypesOK == TypeOK /\ R!TypeOK /\ C!TypeOK /\ M!TypeOK

RemindedInOrder == R!RemindedInOrder
AnsweredOnce == C!AnsweredOnce
CustomersAccount == C!CustomersAccount
DisabledIsNeverFirst == M!DisabledIsNeverFirst

=============================================================================
