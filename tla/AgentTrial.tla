----------------------------- MODULE AgentTrial -----------------------------
(***************************************************************************)
(* One marketplace agent deployed at one business: its trial, its purchase *)
(* (unlock), the deployed copy (child agent) and the daily monitor that    *)
(* warns about and ends trials.                                            *)
(*                                                                         *)
(* The monitor lists the trials once, then handles each in a session of    *)
(* its own with the object it has listed, so a purchase or a change by the *)
(* owner may commit in between.  Time counts in ticks, DayLen to a day.    *)
(***************************************************************************)
EXTENDS Integers

CONSTANTS
    DayLen,      \* ticks of a day
    TrialDays,   \* trial_duration_days
    MaxTime,     \* bound of the model: the last tick
    MaxUnlocks   \* bound of the model: how many purchases commit

ASSUME TrialAssumption ==
    /\ DayLen \in Nat \ {0} /\ TrialDays \in Nat
    /\ MaxTime \in Nat /\ MaxUnlocks \in Nat

VARIABLES
    now,
    trial,     \* the row of agent_trials, unique for agent and business
    child,     \* the row of child_agents: "none", "active" or "inactive"
    unlocks,   \* how many rows agent_unlocks has
    bot,       \* the business has an active bot
    monitor,   \* the run of the monitor
    purchase,  \* the unlock request in progress
    raced,     \* history: a purchase the monitor, or a new trial, missed
    ended      \* history: the monitor switched the agent off, and it still is

vars == <<now, trial, child, unlocks, bot, monitor, purchase, raced, ended>>

Stages == {"warning", "critical", "expired"}

NoTrial == [exists |-> FALSE, expires |-> 0, converted |-> FALSE, flags |-> {}]

NoRun == [st |-> "idle", stage |-> "expired", flags |-> {}, active |-> FALSE]

NoPurchase == [st |-> "idle", child |-> "none", trial |-> FALSE]

TypeOK ==
    /\ now \in 0..MaxTime
    /\ trial \in [exists : BOOLEAN, expires : Nat, converted : BOOLEAN, flags : SUBSET Stages]
    /\ trial.exists => child # "none"
    /\ child \in {"none", "active", "inactive"}
    /\ unlocks \in 0..MaxUnlocks
    /\ bot \in BOOLEAN
    /\ monitor \in [st : {"idle", "listed", "loaded"}, stage : Stages, flags : SUBSET Stages,
                    active : BOOLEAN]
    /\ purchase \in [st : {"idle", "loaded"}, child : {"none", "active", "inactive"},
                     trial : BOOLEAN]
    /\ raced \in BOOLEAN
    /\ ended \in BOOLEAN /\ (ended => child = "inactive")

-----------------------------------------------------------------------------
Init ==
    /\ now = 0
    /\ trial = NoTrial
    /\ child = "none"
    /\ unlocks = 0
    /\ bot \in BOOLEAN
    /\ monitor = NoRun
    /\ purchase = NoPurchase
    /\ raced = FALSE
    /\ ended = FALSE

Buying == purchase.st = "loaded"

\* The purchase has inserted the child agent and not committed: another
\* session that inserts it too waits and then fails on the unique key.
InsertsChild == Buying /\ purchase.child = "none"

\* Mutant: a trial can be started again.
StartTrialAgain ==
    /\ child = "none" => ~InsertsChild
    /\ trial' = [NoTrial EXCEPT !.exists = TRUE, !.expires = now + TrialDays * DayLen]
    /\ UNCHANGED <<now, child, unlocks, bot, monitor, purchase, raced, ended>>

\* One trial per agent and business; an existing child agent is reused as it
\* is, also when a purchase deployed it.
StartTrial ==
    /\ ~trial.exists
    /\ child = "none" => ~InsertsChild
    /\ trial' = [NoTrial EXCEPT !.exists = TRUE, !.expires = now + TrialDays * DayLen]
    /\ child' = IF child = "none" THEN "active" ELSE child
    /\ raced' = (raced \/ unlocks > 0 \/ Buying)
    /\ UNCHANGED <<now, unlocks, bot, monitor, purchase, ended>>

\* unlock_agent reads the child agent and the trial (the price goes into
\* escrow, see EscrowRelease) ...
LoadUnlock ==
    /\ ~Buying
    /\ unlocks < MaxUnlocks
    /\ purchase' = [st |-> "loaded", child |-> child, trial |-> trial.exists]
    /\ UNCHANGED <<now, trial, child, unlocks, bot, monitor, raced, ended>>

\* Mutant: a purchase does not convert the trial.
Unconverted(t) == t

\* A trial the purchase has found is converted.
Converted(t) == [t EXCEPT !.converted = TRUE]

\* ... and commits; a child agent that exists is left as active as it was.
CommitUnlock ==
    /\ Buying
    /\ unlocks' = unlocks + 1
    /\ child' = IF InsertsChild THEN "active" ELSE child
    /\ trial' = IF purchase.trial THEN Converted(trial) ELSE trial
    /\ purchase' = NoPurchase
    /\ raced' = (raced \/ monitor.st # "idle")
    /\ UNCHANGED <<now, bot, monitor, ended>>

\* An error or a crash.
AbortUnlock ==
    /\ Buying
    /\ purchase' = NoPurchase
    /\ UNCHANGED <<now, trial, child, unlocks, bot, monitor, raced, ended>>

\* The owner switches the deployed agent on or off.
UpdateChild ==
    /\ child # "none"
    /\ child' \in {"active", "inactive"}
    /\ ended' = FALSE
    /\ UNCHANGED <<now, trial, unlocks, bot, monitor, purchase, raced>>

\* The business's bots become active or stop being so.
ChangeBot ==
    /\ bot' = ~bot
    /\ UNCHANGED <<now, trial, child, unlocks, monitor, purchase, raced, ended>>

Tick ==
    /\ now < MaxTime
    /\ now' = now + 1
    /\ UNCHANGED <<trial, child, unlocks, bot, monitor, purchase, raced, ended>>

-----------------------------------------------------------------------------
\* timedelta.days rounds towards minus infinity.
DaysLeft == (trial.expires - now) \div DayLen

Due(stage) ==
    \/ stage = "warning"  /\ DaysLeft = 2
    \/ stage = "critical" /\ DaysLeft = 1
    \/ stage = "expired"  /\ DaysLeft <= 0

Listed == trial.exists /\ ~trial.converted

\* The run lists the trials not converted and picks the stage that is due.
ListTrials(stage) ==
    /\ monitor.st = "idle"
    /\ Listed
    /\ Due(stage)
    /\ stage \notin trial.flags
    /\ monitor' = [st |-> "listed", stage |-> stage, flags |-> trial.flags, active |-> FALSE]
    /\ UNCHANGED <<now, trial, child, unlocks, bot, purchase, raced, ended>>

\* The trial's own session reads the child agent.
LoadChild ==
    /\ monitor.st = "listed"
    /\ monitor' = [monitor EXCEPT !.st = "loaded",
                                  !.active = (monitor.stage = "expired" /\ child = "active")]
    /\ UNCHANGED <<now, trial, child, unlocks, bot, purchase, raced, ended>>

\* Mutant: an expired trial only notifies.
KeepsActive == FALSE

\* The UPDATE of is_active is issued when the row read was active.
Deactivates == monitor.active

\* _notify_business returns when no bot is active, and the stage is flagged.
\* With an active bot it touches Business.owner, which is not loaded and
\* cannot be in an async session: the error skips the flag, is caught inside
\* the session's block, and the session still commits the deactivation.
HandleTrial ==
    /\ monitor.st = "loaded"
    /\ child' = IF Deactivates THEN "inactive" ELSE child
    /\ trial' = IF bot THEN trial ELSE [trial EXCEPT !.flags = @ \cup {monitor.stage}]
    /\ monitor' = NoRun
    /\ ended' = (ended \/ child' # child)
    /\ UNCHANGED <<now, unlocks, bot, purchase, raced>>

\* The job is killed or loses its database.
KillMonitor ==
    /\ monitor.st # "idle"
    /\ monitor' = NoRun
    /\ UNCHANGED <<now, trial, child, unlocks, bot, purchase, raced, ended>>

Next ==
    \/ StartTrial \/ LoadUnlock \/ CommitUnlock \/ AbortUnlock
    \/ UpdateChild \/ ChangeBot \/ Tick
    \/ \E stage \in Stages : ListTrials(stage)
    \/ LoadChild \/ HandleTrial \/ KillMonitor

Spec == Init /\ [][Next]_vars

\* The scheduler starts the monitor again and again, and not every run is
\* killed at the same place.
Fairness ==
    /\ WF_vars(\E stage \in Stages : ListTrials(stage))
    /\ SF_vars(LoadChild)
    /\ SF_vars(HandleTrial)

-----------------------------------------------------------------------------
\* A trial stays as it began: the monitor and purchases, late or not, never
\* move its end, take back a conversion or forget what was flagged.
TrialOnlyAdvances ==
    [][ trial.exists => /\ trial'.exists /\ trial'.expires = trial.expires
                        /\ trial.converted => trial'.converted
                        /\ trial.flags \subseteq trial'.flags ]_vars

\* The monitor switches a paid agent off only if the purchase committed while
\* the monitor already had the trial listed, or the trial began after it.
PaidAgentKept == [][ HandleTrial /\ unlocks > 0 /\ child' # child => raced ]_vars

\* No agent on trial is switched off before its last day.
NotBeforeLastDay ==
    [][ HandleTrial /\ child' # child => now > trial.expires - DayLen ]_vars

Overdue == Listed /\ DaysLeft <= 0 /\ "expired" \notin trial.flags

\* An unpaid agent does not stay on after its trial: it is switched off,
\* paid, or at least flagged (the owner can switch it on again while the
\* monitor handles it).
OverdueIsEnded == Overdue ~> (child = "inactive" \/ ~Overdue)

\* What the monitor tells the owner of an expired trial: the agent has been
\* deactivated, unlock it to reactivate.
UnlockReactivates == [][ CommitUnlock /\ ended => child' = "active" ]_vars

=============================================================================
