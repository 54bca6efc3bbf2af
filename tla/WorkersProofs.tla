---------------------------- MODULE WorkersProofs ----------------------------
(***************************************************************************)
(* What the background workers promise: for trials and days of any length  *)
(* and any number of purchases, for any number of notifications,           *)
(* documents, chunks and workers, and for any limits.                      *)
(*                                                                         *)
(* AgentTrial: the agent a purchase is about to deploy is not deployed     *)
(* yet.  As long as no purchase, and no trial, was missed, a trial of a    *)
(* bought agent is converted and the monitor has nothing in its hands.  A  *)
(* monitor that works on an expired trial has seen that trial's last day   *)
(* begin: the end of a trial does not move, and time does not go back.     *)
(*                                                                         *)
(* Notifications: workers hold no row in common, and how often a row was   *)
(* sent is told by what was lost, recorded or is about to be recorded.     *)
(* KnowledgeBase: a completed document's chunks are the windows of its     *)
(* text, and the windows of a text are its words.  RateLimits: a counter   *)
(* that counts has its expiry or a request that sets it, unless that one   *)
(* has failed to.                                                          *)
(***************************************************************************)
EXTENDS Workers, FiniteSetTheorems, SequenceTheorems, WellFoundedInduction, TLAPS

Trial == [exists : BOOLEAN, expires : Nat, converted : BOOLEAN, flags : SUBSET Stages]

Run == [st : {"idle", "listed", "loaded"}, stage : Stages, flags : SUBSET Stages,
        active : BOOLEAN]

ChildInv ==
    /\ InsertsChild => child = "none"
    /\ monitor.active => child # "none"
    /\ Buying => unlocks < MaxUnlocks

PaidInv ==
    ~raced =>
        /\ unlocks > 0 => monitor.st = "idle" /\ (trial.exists => trial.converted)
        /\ Buying => purchase.trial = trial.exists

LastDayInv ==
    /\ monitor.active => monitor.st = "loaded" /\ monitor.stage = "expired"
    /\ monitor.st # "idle" /\ monitor.stage = "expired" =>
           trial.exists /\ now > trial.expires - DayLen

-----------------------------------------------------------------------------
LEMMA NewTrial ==
    ASSUME TypeOK, StartTrial
    PROVE  /\ trial' \in Trial /\ trial'.exists /\ ~trial.exists
           /\ raced' \in BOOLEAN /\ (~raced' => ~raced /\ ~(unlocks > 0) /\ ~Buying)
<1>1. now + TrialDays * DayLen \in Nat
  BY TrialAssumption DEF TrialAssumption, TypeOK
<1>2. trial' \in Trial /\ trial'.exists /\ ~trial.exists
  BY <1>1 DEF StartTrial, NoTrial, Trial
<1>3. raced' = (raced \/ unlocks > 0 \/ Buying)
  BY DEF StartTrial
<1>4. raced' \in BOOLEAN /\ (~raced' => ~raced /\ ~(unlocks > 0) /\ ~Buying)
  BY <1>3
<1> QED
  BY <1>2, <1>4

LEMMA ListedRun ==
    ASSUME TypeOK, NEW stage \in Stages, ListTrials(stage)
    PROVE  /\ monitor' \in Run /\ monitor'.st = "listed" /\ monitor'.stage = stage
           /\ ~monitor'.active
BY DEF TypeOK, ListTrials, Run

LEMMA LoadedRun ==
    ASSUME TypeOK, LoadChild
    PROVE  /\ monitor' \in Run /\ monitor'.st = "loaded" /\ monitor'.stage = monitor.stage
           /\ monitor'.active => monitor.stage = "expired" /\ child = "active"
<1>1. monitor \in Run
  BY DEF TypeOK, Run
<1>2. (monitor.stage = "expired" /\ child = "active") \in BOOLEAN
  OBVIOUS
<1>3. monitor' = [monitor EXCEPT !.st = "loaded",
                                 !.active = (monitor.stage = "expired" /\ child = "active")]
  BY DEF LoadChild
<1>4. monitor'.active = (monitor.stage = "expired" /\ child = "active")
  BY <1>1, <1>3 DEF Run
<1>5. monitor' \in Run
  BY <1>1, <1>2, <1>3 DEF Run
<1> QED
  BY <1>1, <1>3, <1>4, <1>5 DEF Run

\* The end of a run leaves the trial's end and conversion alone.
LEMMA HandledTrial ==
    ASSUME TypeOK, HandleTrial
    PROVE  /\ trial' \in Trial /\ trial'.exists = trial.exists
           /\ trial'.expires = trial.expires /\ trial'.converted = trial.converted
           /\ trial.flags \subseteq trial'.flags
<1>1. trial \in Trial /\ monitor.stage \in Stages
  BY DEF TypeOK, Trial
<1>2. trial' = trial \/ trial' = [trial EXCEPT !.flags = @ \cup {monitor.stage}]
  BY DEF HandleTrial
<1> QED
  BY <1>1, <1>2 DEF Trial

LEMMA BoughtTrial ==
    ASSUME TypeOK, CommitUnlock
    PROVE  /\ trial' \in Trial /\ trial'.exists = trial.exists
           /\ trial'.expires = trial.expires /\ trial'.flags = trial.flags
           /\ trial.converted => trial'.converted
           /\ purchase.trial => trial'.converted
<1>1. trial \in Trial
  BY DEF TypeOK, Trial
<1>2. trial' = IF purchase.trial THEN [trial EXCEPT !.converted = TRUE] ELSE trial
  BY DEF CommitUnlock, Converted
<1> QED
  BY <1>1, <1>2 DEF Trial

LEMMA IdleRun == NoRun \in Run /\ NoRun.st = "idle" /\ ~NoRun.active
BY DEF NoRun, Run, Stages

-----------------------------------------------------------------------------
LEMMA InitType == Init => TypeOK /\ ChildInv
<1> SUFFICES ASSUME Init PROVE TypeOK /\ ChildInv
  OBVIOUS
<1>1. trial \in Trial /\ ~trial.exists
  BY DEF Init, NoTrial, Trial
<1>2. now \in 0..MaxTime /\ unlocks \in 0..MaxUnlocks
  BY TrialAssumption DEF TrialAssumption, Init
<1>3. monitor \in Run /\ ~monitor.active
  BY IdleRun DEF Init
<1>4. purchase \in [st : {"idle", "loaded"}, child : {"none", "active", "inactive"},
                    trial : BOOLEAN] /\ purchase.st = "idle"
  BY DEF Init, NoPurchase
<1>5. TypeOK
  BY <1>1, <1>2, <1>3, <1>4 DEF TypeOK, Init, Trial, Run
<1>6. ChildInv
  BY <1>3, <1>4 DEF ChildInv, InsertsChild, Buying
<1> QED
  BY <1>5, <1>6

LEMMA NextType == TypeOK /\ ChildInv /\ [Next]_vars => TypeOK' /\ ChildInv'
<1> SUFFICES ASSUME TypeOK, ChildInv, [Next]_vars PROVE TypeOK' /\ ChildInv'
  OBVIOUS
<1> USE TrialAssumption DEF TrialAssumption, TypeOK, ChildInv, Trial, Run, InsertsChild, Buying
<1>1. ASSUME StartTrial PROVE TypeOK' /\ ChildInv'
  <2>1. child' \in {"active", "inactive"} /\ (child # "none" => child' = child)
    BY <1>1 DEF StartTrial
  <2>2. child = "none" => ~InsertsChild
    BY <1>1 DEF StartTrial
  <2>3. UNCHANGED <<now, unlocks, bot, monitor, purchase, ended>>
    BY <1>1 DEF StartTrial
  <2> QED BY <1>1, NewTrial, <2>1, <2>2, <2>3
<1>2. ASSUME LoadUnlock PROVE TypeOK' /\ ChildInv'
  <2>1. purchase' = [st |-> "loaded", child |-> child, trial |-> trial.exists]
    BY <1>2 DEF LoadUnlock
  <2>2. trial.exists \in BOOLEAN
    OBVIOUS
  <2>3. purchase' \in [st : {"idle", "loaded"}, child : {"none", "active", "inactive"},
                       trial : BOOLEAN] /\ purchase'.child = child
    BY <2>1, <2>2
  <2>4. unlocks < MaxUnlocks /\ UNCHANGED <<now, trial, child, unlocks, bot, monitor, raced, ended>>
    BY <1>2 DEF LoadUnlock
  <2> QED BY <2>3, <2>4
<1>3. ASSUME CommitUnlock PROVE TypeOK' /\ ChildInv'
  <2>1. child' \in {"none", "active", "inactive"} /\ (child # "none" => child' = child)
    BY <1>3 DEF CommitUnlock
  <2>2. unlocks' \in 0..MaxUnlocks
    BY <1>3 DEF CommitUnlock
  <2>3. purchase' = NoPurchase
        /\ NoPurchase \in [st : {"idle", "loaded"}, child : {"none", "active", "inactive"},
                           trial : BOOLEAN]
        /\ NoPurchase.st = "idle"
    BY <1>3 DEF CommitUnlock, NoPurchase
  <2>4. UNCHANGED <<now, bot, monitor, ended>>
    BY <1>3 DEF CommitUnlock
  <2>5. raced' = (raced \/ monitor.st # "idle")
    BY <1>3 DEF CommitUnlock
  <2>6. raced' \in BOOLEAN
    BY <2>5
  <2>7. trial' \in Trial /\ trial'.exists = trial.exists
    BY <1>3, BoughtTrial
  <2>8. TypeOK'
    BY <2>1, <2>2, <2>3, <2>4, <2>6, <2>7
  <2>9. ChildInv'
    BY <2>1, <2>3, <2>4
  <2> QED BY <2>8, <2>9
<1>4. CASE AbortUnlock
  BY <1>4 DEF AbortUnlock, NoPurchase
<1>5. CASE UpdateChild
  BY <1>5 DEF UpdateChild
<1>6. CASE ChangeBot
  BY <1>6 DEF ChangeBot
<1>7. CASE Tick
  BY <1>7 DEF Tick
<1>8. ASSUME NEW stage \in Stages, ListTrials(stage) PROVE TypeOK' /\ ChildInv'
  <2>1. UNCHANGED <<now, trial, child, unlocks, bot, purchase, raced, ended>>
    BY <1>8 DEF ListTrials
  <2> QED BY <1>8, ListedRun, <2>1
<1>9. ASSUME LoadChild PROVE TypeOK' /\ ChildInv'
  <2>1. UNCHANGED <<now, trial, child, unlocks, bot, purchase, raced, ended>>
    BY <1>9 DEF LoadChild
  <2> QED BY <1>9, LoadedRun, <2>1
<1>10. ASSUME HandleTrial PROVE TypeOK' /\ ChildInv'
  <2>1. child' = (IF monitor.active THEN "inactive" ELSE child)
        /\ ended' = (ended \/ child' # child)
    BY <1>10 DEF HandleTrial, Deactivates
  <2>2. ended' \in BOOLEAN /\ (ended' => child' = "inactive")
    BY <2>1
  <2>3. monitor' = NoRun /\ UNCHANGED <<now, unlocks, bot, purchase, raced>>
    BY <1>10 DEF HandleTrial
  <2> QED BY <1>10, HandledTrial, IdleRun, <2>1, <2>2, <2>3
<1>11. ASSUME KillMonitor PROVE TypeOK' /\ ChildInv'
  <2>1. monitor' = NoRun /\ UNCHANGED <<now, trial, child, unlocks, bot, purchase, raced, ended>>
    BY <1>11 DEF KillMonitor
  <2> QED BY IdleRun, <2>1
<1>12. CASE UNCHANGED vars
  BY <1>12 DEF vars
<1> QED
  BY <1>1, <1>2, <1>3, <1>4, <1>5, <1>6, <1>7, <1>8, <1>9, <1>10, <1>11, <1>12 DEF Next

\* The trial, the agent, the purchase and the monitor's run keep their kinds,
\* a trial has a deployed agent, and one the monitor ended is inactive.
THEOREM TypeCorrect == Spec => []TypeOK
<1>1. Init => TypeOK /\ ChildInv
  BY InitType
<1>2. TypeOK /\ ChildInv /\ [Next]_vars => (TypeOK /\ ChildInv)'
  BY NextType
<1> QED
  BY <1>1, <1>2, PTL DEF Spec

-----------------------------------------------------------------------------
LEMMA NextAdvances ==
    ASSUME TypeOK, Next, trial.exists
    PROVE  /\ trial'.exists /\ trial'.expires = trial.expires
           /\ trial.converted => trial'.converted
           /\ trial.flags \subseteq trial'.flags
<1>1. CASE trial' = trial
  BY <1>1
<1>2. CASE StartTrial
  BY <1>2 DEF StartTrial
<1>3. CASE CommitUnlock
  BY <1>3, BoughtTrial
<1>4. CASE HandleTrial
  BY <1>4, HandledTrial
<1> QED
  BY <1>1, <1>2, <1>3, <1>4 DEF Next, LoadUnlock, AbortUnlock, UpdateChild, ChangeBot, Tick,
     ListTrials, LoadChild, KillMonitor

\* No step of a purchase or of the monitor moves the end of a trial, takes
\* back its conversion or forgets what was flagged.
THEOREM TrialAdvances == Spec => TrialOnlyAdvances
<1>1. TypeOK /\ [Next]_vars =>
        [ trial.exists => /\ trial'.exists /\ trial'.expires = trial.expires
                          /\ trial.converted => trial'.converted
                          /\ trial.flags \subseteq trial'.flags ]_vars
  BY NextAdvances DEF vars
<1> QED
  BY <1>1, TypeCorrect, PTL DEF Spec, TrialOnlyAdvances

-----------------------------------------------------------------------------
LEMMA NextPaid == TypeOK /\ PaidInv /\ [Next]_vars => PaidInv'
<1> SUFFICES ASSUME TypeOK, PaidInv, [Next]_vars PROVE PaidInv'
  OBVIOUS
<1> USE DEF PaidInv
<1>1. CASE StartTrial
  <2>1. ~raced' => ~(unlocks' > 0) /\ ~Buying'
    BY <1>1, NewTrial DEF StartTrial, Buying
  <2> QED BY <2>1
<1>2. CASE LoadUnlock
  <2>1. purchase'.trial = trial'.exists /\ raced' = raced
    BY <1>2 DEF LoadUnlock
  <2> QED BY <1>2, <2>1 DEF LoadUnlock
<1>3. CASE CommitUnlock
  <2>1. ~raced' => ~raced /\ monitor'.st = "idle"
    BY <1>3 DEF CommitUnlock
  <2>2. ~Buying' /\ Buying
    BY <1>3 DEF CommitUnlock, Buying, NoPurchase
  <2>3. ~raced' => (trial'.exists => trial'.converted)
    BY <1>3, <2>1, <2>2, BoughtTrial
  <2> QED BY <2>1, <2>2, <2>3
<1>4. CASE AbortUnlock
  BY <1>4 DEF AbortUnlock, NoPurchase, Buying
<1>5. CASE UpdateChild \/ ChangeBot \/ Tick
  BY <1>5 DEF UpdateChild, ChangeBot, Tick, Buying
<1>6. ASSUME NEW stage \in Stages, ListTrials(stage) PROVE PaidInv'
  BY <1>6 DEF ListTrials, Listed, Buying
<1>7. CASE LoadChild
  BY <1>7 DEF LoadChild, Buying
<1>8. CASE HandleTrial
  <2>1. monitor.st # "idle" /\ UNCHANGED <<unlocks, raced, purchase>>
    BY <1>8 DEF HandleTrial
  <2> QED BY <1>8, <2>1, HandledTrial DEF Buying
<1>9. CASE KillMonitor
  BY <1>9, IdleRun DEF KillMonitor, Buying
<1>10. CASE UNCHANGED vars
  BY <1>10 DEF vars, Buying
<1> QED
  BY <1>1, <1>2, <1>3, <1>4, <1>5, <1>6, <1>7, <1>8, <1>9, <1>10 DEF Next

\* The monitor switches a bought agent off only if it had listed the trial
\* before the purchase, or the trial and the purchase missed each other.
THEOREM PaidKept == Spec => PaidAgentKept
<1>1. Init => PaidInv
  BY DEF Init, PaidInv, NoPurchase, Buying
<1>2. TypeOK /\ PaidInv /\ [Next]_vars => PaidInv'
  BY NextPaid
<1>3. PaidInv /\ [Next]_vars => [HandleTrial /\ unlocks > 0 /\ child' # child => raced]_vars
  <2>1. ASSUME PaidInv, HandleTrial, unlocks > 0 PROVE raced
    BY <2>1 DEF PaidInv, HandleTrial
  <2> QED BY <2>1
<1> QED
  BY <1>1, <1>2, <1>3, TypeCorrect, PTL DEF Spec, PaidAgentKept

-----------------------------------------------------------------------------
LEMMA DueExpired ==
    ASSUME TypeOK, Due("expired")
    PROVE  now > trial.expires - DayLen
<1> DEFINE left == trial.expires - now
<1>1. left \in Int /\ DayLen \in Nat \ {0} /\ now \in Int /\ trial.expires \in Int
  BY TrialAssumption DEF TrialAssumption, TypeOK
<1>2. left \div DayLen <= 0
  BY DEF Due, DaysLeft
<1>3. left < DayLen
  <2> HIDE DEF left
  <2> QED BY <1>1, <1>2
<1> QED
  BY <1>1, <1>3

LEMMA NextLastDay == TypeOK /\ LastDayInv /\ [Next]_vars => LastDayInv'
<1> SUFFICES ASSUME TypeOK, LastDayInv, [Next]_vars PROVE LastDayInv'
  OBVIOUS
<1>0. now \in Int /\ trial.expires \in Int /\ DayLen \in Int
  BY TrialAssumption DEF TrialAssumption, TypeOK
<1> USE DEF LastDayInv
<1>1. CASE StartTrial
  BY <1>1 DEF StartTrial
<1>2. CASE CommitUnlock
  BY <1>2, BoughtTrial DEF CommitUnlock
<1>3. CASE Tick
  BY <1>0, <1>3 DEF Tick
<1>4. ASSUME NEW stage \in Stages, ListTrials(stage) PROVE LastDayInv'
  <2>1. trial'.exists /\ UNCHANGED <<now, trial>>
    BY <1>4 DEF ListTrials, Listed
  <2>2. stage = "expired" => now > trial.expires - DayLen
    BY <1>4, DueExpired DEF ListTrials
  <2> QED BY <1>4, ListedRun, <2>1, <2>2
<1>5. CASE LoadChild
  <2>1. monitor.st = "listed" /\ UNCHANGED <<now, trial>>
    BY <1>5 DEF LoadChild
  <2> QED BY <1>5, LoadedRun, <2>1
<1>6. CASE HandleTrial \/ KillMonitor
  BY <1>6, IdleRun DEF HandleTrial, KillMonitor
<1>7. CASE UNCHANGED <<now, trial, monitor>>
  BY <1>7
<1> QED
  BY <1>1, <1>2, <1>3, <1>4, <1>5, <1>6, <1>7
  DEF Next, LoadUnlock, AbortUnlock, UpdateChild, ChangeBot, vars

\* The monitor switches off no agent on trial before the last day begins.
THEOREM LastDay == Spec => NotBeforeLastDay
<1>1. Init => LastDayInv
  BY IdleRun DEF Init, LastDayInv
<1>2. TypeOK /\ LastDayInv /\ [Next]_vars => LastDayInv'
  BY NextLastDay
<1>3. LastDayInv /\ [Next]_vars =>
        [HandleTrial /\ child' # child => now > trial.expires - DayLen]_vars
  <2>1. ASSUME LastDayInv, HandleTrial, child' # child PROVE now > trial.expires - DayLen
    <3>1. monitor.active
      BY <2>1 DEF HandleTrial, Deactivates
    <3> QED BY <2>1, <3>1 DEF LastDayInv
  <2> QED BY <2>1
<1> QED
  BY <1>1, <1>2, <1>3, TypeCorrect, PTL DEF Spec, NotBeforeLastDay

-----------------------------------------------------------------------------
(* Notifications: how often a reader is told                               *)

Recorded(n) == n \in DOMAIN note /\ "telegram" \in note[n].sent

Unrecorded(n) == \E w \in Senders : n \in newly[w]

\* Two workers hold no row in common, what they hold is not finished, and what
\* they have still to send they have not sent.
HeldInv ==
    /\ \A w \in Senders : held[w] \subseteq DOMAIN note
    /\ \A w \in Senders : newly[w] \subseteq held[w] /\ batch[w] \subseteq held[w]
    /\ \A w \in Senders : newly[w] \cap batch[w] = {}
    /\ \A v, w \in Senders : v # w => held[v] \cap held[w] = {}
    /\ \A w \in Senders : \A n \in held[w] : ~note[n].done

\* A message was sent once more than it was lost if it is recorded or about to
\* be, and as often as it was lost if not.
ToldInv ==
    /\ \A n \in N!Ids : told[n] = IF Recorded(n) \/ Unrecorded(n) THEN lost[n] + 1 ELSE lost[n]
    /\ \A n \in N!Ids : ~(Recorded(n) /\ Unrecorded(n))
    /\ \A n \in DOMAIN note : note[n].done /\ note[n].to \in OnTelegram => Recorded(n)

NoteInv == N!TypeOK /\ HeldInv /\ ToldInv

LEMMA NoteRows ==
    /\ \A r \in N!Rows : r.to \in Users /\ r.sent \in SUBSET N!Channels /\ r.done \in BOOLEAN
    /\ \A u \in Users : N!Row(u) \in N!Rows /\ N!Row(u).sent = {} /\ ~N!Row(u).done
  BY DEF N!Rows, N!Row

LEMMA NoteIds ==
    ASSUME N!TypeOK, N!SoundConstants
    PROVE  /\ DOMAIN note = 1 .. Len(note) /\ DOMAIN note \subseteq N!Ids
           /\ Len(note) \in Nat
           /\ \A n \in DOMAIN note : note[n] \in N!Rows
  BY DEF N!TypeOK, N!SoundConstants, N!Ids

LEMMA NoteStart == ASSUME N!SoundConstants, N!Init PROVE NoteInv
<1>1. note = <<>> /\ DOMAIN note = {} /\ Len(note) = 0 /\ note \in Seq(N!Rows)
  BY DEF N!Init
<1>2. N!TypeOK
  BY <1>1 DEF N!Init, N!TypeOK, N!SoundConstants
<1>3. HeldInv
  BY DEF N!Init, HeldInv
<1>4. ToldInv
  BY <1>1 DEF N!Init, ToldInv, Recorded, Unrecorded
<1> QED  BY <1>2, <1>3, <1>4 DEF NoteInv

\* New rows at the end of the table disturb nothing.
LEMMA NoteGrows ==
    ASSUME NoteInv, N!SoundConstants, UNCHANGED <<reachable, batch, held, newly, told, lost, crashes>>,
           note' \in Seq(N!Rows), Len(note') <= MaxNotes, Len(note') >= Len(note),
           \A n \in DOMAIN note : note'[n] = note[n],
           \A n \in DOMAIN note' \ DOMAIN note : note'[n].sent = {} /\ ~note'[n].done
    PROVE  NoteInv'
<1>1. N!TypeOK'
  BY DEF NoteInv, N!TypeOK
<1>2. DOMAIN note \subseteq DOMAIN note'
  BY DEF NoteInv, N!TypeOK
<1>3. HeldInv'
  BY <1>2 DEF NoteInv, HeldInv
<1>4. \A n : Recorded(n)' <=> Recorded(n)
  BY <1>2 DEF Recorded
<1>5. \A n : Unrecorded(n)' <=> Unrecorded(n)
  BY DEF Unrecorded
<1>6. ToldInv'
  BY <1>2, <1>4, <1>5 DEF NoteInv, ToldInv
<1> QED  BY <1>1, <1>3, <1>6 DEF NoteInv

LEMMA NoteNotifies ==
    ASSUME NoteInv, N!SoundConstants, NEW u \in Users, N!Notify(u)
    PROVE  NoteInv'
<1>1. N!Row(u) \in N!Rows /\ N!Row(u).sent = {} /\ ~N!Row(u).done
  BY NoteRows
<1>2. note \in Seq(N!Rows) /\ note' = Append(note, N!Row(u)) /\ Len(note) < MaxNotes
  BY DEF NoteInv, N!TypeOK, N!Notify
<1> HIDE DEF N!Row
<1>3. note' \in Seq(N!Rows) /\ Len(note') = Len(note) + 1 /\ Len(note) \in Nat
      /\ DOMAIN note = 1 .. Len(note) /\ DOMAIN note' = 1 .. Len(note) + 1
      /\ (\A n \in DOMAIN note : note'[n] = note[n]) /\ note'[Len(note) + 1] = N!Row(u)
  BY <1>1, <1>2
<1>4. \A n \in DOMAIN note' \ DOMAIN note : n = Len(note) + 1
  BY <1>3
<1> QED  BY <1>1, <1>2, <1>3, <1>4, NoteGrows DEF N!Notify, N!SoundConstants

LEMMA NotePeople == ASSUME N!SoundConstants PROVE N!Cardinality(Users) \in Nat
<1>0. \A X : N!Cardinality(X) = Cardinality(X) /\ (N!IsFiniteSet(X) <=> IsFiniteSet(X))
  BY DEF N!Cardinality, Cardinality, N!IsFiniteSet, IsFiniteSet
<1>1. N!IsFiniteSet(Users)
  BY DEF N!SoundConstants
<1> QED  BY <1>0, <1>1, FS_CardinalityType

LEMMA NoteBroadcasts ==
    ASSUME NoteInv, N!SoundConstants, NEW order \in N!Everyone, N!Broadcast(order)
    PROVE  NoteInv'
<1> DEFINE k == N!Cardinality(Users)
           more == [i \in DOMAIN order |-> N!Row(order[i])]
<1>1. k \in Nat
  BY NotePeople
<1> HIDE DEF k
<1>2. order \in [1 .. k -> Users]
  BY DEF N!Everyone, k
<1>3. DOMAIN more = 1 .. k /\ \A i \in 1 .. k : more[i] \in N!Rows /\ more[i].sent = {} /\ ~more[i].done
  BY <1>2, NoteRows
<1> HIDE DEF more
<1>4. more \in Seq(N!Rows) /\ Len(more) = k
  <2>1. more = [i \in 1 .. k |-> more[i]]
    BY <1>2 DEF more
  <2>2. more \in [1 .. k -> N!Rows]
    BY <1>3, <2>1
  <2> QED  BY <1>1, <2>2
<1>5. note \in Seq(N!Rows) /\ note' = note \o more /\ Len(note) + k <= MaxNotes
  <2>1. Len(order) = k
    BY <1>1, <1>2
  <2> QED  BY <2>1 DEF NoteInv, N!TypeOK, N!Broadcast, more
<1>6. note' \in Seq(N!Rows) /\ Len(note') = Len(note) + k /\ Len(note) \in Nat
      /\ DOMAIN note = 1 .. Len(note) /\ DOMAIN note' = 1 .. Len(note) + k
      /\ (\A n \in DOMAIN note : note'[n] = note[n])
      /\ \A n \in 1 .. Len(note) + k : n > Len(note) => note'[n] = more[n - Len(note)]
  <2>1. /\ note \o more \in Seq(N!Rows) /\ Len(note \o more) = Len(note) + Len(more)
        /\ \A n \in 1 .. Len(note) + Len(more) :
              (note \o more)[n] = IF n <= Len(note) THEN note[n] ELSE more[n - Len(note)]
    BY <1>4, <1>5, ConcatProperties
  <2>2. Len(note) \in Nat /\ DOMAIN note = 1 .. Len(note)
    BY <1>5
  <2>3. DOMAIN note' = 1 .. Len(note) + k
    BY <1>4, <1>5, <2>1
  <2> QED  BY <1>1, <1>4, <1>5, <2>1, <2>2, <2>3
<1>7. \A n \in DOMAIN note' \ DOMAIN note : note'[n].sent = {} /\ ~note'[n].done
  <2> SUFFICES ASSUME NEW n \in DOMAIN note', n \notin DOMAIN note
               PROVE  note'[n].sent = {} /\ ~note'[n].done
    OBVIOUS
  <2>1. n - Len(note) \in 1 .. k /\ note'[n] = more[n - Len(note)]
    BY <1>1, <1>6
  <2> QED  BY <1>3, <2>1
<1>8. UNCHANGED <<reachable, batch, held, newly, told, lost, crashes>>
  BY DEF N!Broadcast
<1> QED  BY <1>1, <1>5, <1>6, <1>7, <1>8, NoteGrows

LEMMA NoteLocks ==
    ASSUME NoteInv, N!SoundConstants, NEW w \in Senders, N!Lock(w)
    PROVE  NoteInv'
<1>1. N!Oldest \subseteq N!Pending /\ N!Pending \subseteq DOMAIN note
  BY DEF N!Oldest, N!Pending
<1>2. \A n \in N!Pending : ~note[n].done /\ \A v \in Senders : n \notin held[v]
  BY DEF N!Pending, N!Held
<1>3. /\ held' = [held EXCEPT ![w] = N!Oldest] /\ batch' = [batch EXCEPT ![w] = N!Oldest]
      /\ held[w] = {} /\ UNCHANGED <<note, reachable, newly, told, lost, crashes>>
  BY DEF N!Lock
<1>4. DOMAIN note \subseteq N!Ids
  BY NoteIds DEF NoteInv
<1> HIDE DEF N!Oldest
<1>5. N!TypeOK'
  BY <1>1, <1>3, <1>4 DEF NoteInv, N!TypeOK
<1>6. /\ held'[w] = N!Oldest /\ batch'[w] = N!Oldest /\ newly[w] = {}
      /\ \A v \in Senders : v # w => held'[v] = held[v] /\ batch'[v] = batch[v]
  BY <1>3 DEF NoteInv, N!TypeOK, HeldInv
<1>7. HeldInv'
  BY <1>1, <1>2, <1>3, <1>6 DEF NoteInv, HeldInv
<1>8. ToldInv'
  BY <1>3 DEF NoteInv, ToldInv, Recorded, Unrecorded
<1> QED  BY <1>5, <1>7, <1>8 DEF NoteInv

LEMMA NoteDispatches ==
    ASSUME NoteInv, N!SoundConstants, NEW w \in Senders, N!Dispatch(w)
    PROVE  NoteInv'
<1>1. PICK n \in batch[w] :
          /\ newly' = IF N!Sends(n) THEN [newly EXCEPT ![w] = @ \cup {n}] ELSE newly
          /\ told' = IF N!Sends(n) THEN [told EXCEPT ![n] = @ + 1] ELSE told
          /\ batch' = [batch EXCEPT ![w] = @ \ {n}]
  BY DEF N!Dispatch
<1>2. UNCHANGED <<note, reachable, held, lost, crashes>>
  BY DEF N!Dispatch
<1>3. n \in N!Ids /\ n \in held[w] /\ n \in DOMAIN note /\ n \notin newly[w]
  BY DEF NoteInv, N!TypeOK, HeldInv
<1>4. ~Unrecorded(n)
  BY <1>3 DEF NoteInv, HeldInv, Unrecorded
<1>5. N!Sends(n) => ~Recorded(n)
  BY DEF N!Sends, Recorded
<1> HIDE DEF N!Sends
<1>6. batch'[w] = batch[w] \ {n} /\ \A v \in Senders : v # w => batch'[v] = batch[v]
  BY <1>1 DEF NoteInv, N!TypeOK
<1>7. /\ \A v \in Senders : v # w => newly'[v] = newly[v]
      /\ newly'[w] = IF N!Sends(n) THEN newly[w] \cup {n} ELSE newly[w]
  BY <1>1 DEF NoteInv, N!TypeOK
<1>8. /\ \A m \in N!Ids : m # n => told'[m] = told[m]
      /\ told'[n] = IF N!Sends(n) THEN told[n] + 1 ELSE told[n]
  BY <1>1, <1>3 DEF NoteInv, N!TypeOK
<1>9. N!TypeOK'
  <2>1. told' \in [N!Ids -> Nat]
    BY <1>1, <1>3 DEF NoteInv, N!TypeOK
  <2>2. newly' \in [Senders -> SUBSET N!Ids] /\ batch' \in [Senders -> SUBSET N!Ids]
    BY <1>1, <1>3 DEF NoteInv, N!TypeOK
  <2> QED  BY <1>2, <2>1, <2>2 DEF NoteInv, N!TypeOK
<1>10. HeldInv'
  BY <1>2, <1>3, <1>6, <1>7 DEF NoteInv, HeldInv
<1>11. /\ \A m : Recorded(m)' <=> Recorded(m)
       /\ \A m : m # n => (Unrecorded(m)' <=> Unrecorded(m))
       /\ Unrecorded(n)' <=> N!Sends(n)
  <2>1. \A m : Recorded(m)' <=> Recorded(m)
    BY <1>2 DEF Recorded
  <2>2. \A m : m # n => (Unrecorded(m)' <=> Unrecorded(m))
    BY <1>7 DEF Unrecorded
  <2>3. Unrecorded(n)' <=> N!Sends(n)
    BY <1>3, <1>4, <1>7 DEF Unrecorded
  <2> QED  BY <2>1, <2>2, <2>3
<1>12. lost[n] \in Nat /\ told[n] \in Nat
  BY <1>3 DEF NoteInv, N!TypeOK
<1>13. ToldInv'
  <2>1. told'[n] = IF Recorded(n)' \/ Unrecorded(n)' THEN lost[n] + 1 ELSE lost[n]
    BY <1>3, <1>4, <1>5, <1>8, <1>11, <1>12 DEF NoteInv, ToldInv
  <2>2. \A m \in N!Ids : told'[m] = IF Recorded(m)' \/ Unrecorded(m)' THEN lost[m] + 1 ELSE lost[m]
    BY <1>8, <1>11, <2>1 DEF NoteInv, ToldInv
  <2>3. \A m \in N!Ids : ~(Recorded(m)' /\ Unrecorded(m)')
    BY <1>5, <1>11 DEF NoteInv, ToldInv
  <2> QED  BY <1>2, <1>11, <2>2, <2>3 DEF NoteInv, ToldInv
<1> QED  BY <1>9, <1>10, <1>13 DEF NoteInv

\* What a worker records of a row it holds.
LEMMA NoteFinished ==
    ASSUME NoteInv, N!SoundConstants, NEW w \in Senders, NEW n \in DOMAIN note
    PROVE  /\ N!Finished(w, n) \in N!Rows
           /\ N!Finished(w, n).to = note[n].to
           /\ "telegram" \in N!Finished(w, n).sent
              <=> "telegram" \in note[n].sent \/ n \in newly[w]
           /\ N!Finished(w, n).done /\ note[n].to \in OnTelegram
              => "telegram" \in N!Finished(w, n).sent
<1> DEFINE sent == note[n].sent \cup {"dashboard"} \cup (IF n \in newly[w] THEN {"telegram"} ELSE {})
           done == N!Intended(n) \subseteq sent
<1>1. note[n] \in N!Rows
  BY NoteIds DEF NoteInv
<1>2. sent \in SUBSET N!Channels /\ done \in BOOLEAN
  BY <1>1, NoteRows DEF N!Channels
<1>3. N!Finished(w, n) = [note[n] EXCEPT !.sent = sent, !.done = done]
  BY DEF N!Finished
<1>4. "telegram" \in sent <=> "telegram" \in note[n].sent \/ n \in newly[w]
  OBVIOUS
<1>5. done /\ note[n].to \in OnTelegram => "telegram" \in sent
  BY DEF N!Intended
<1> HIDE DEF sent, done
<1>6. /\ N!Finished(w, n) \in N!Rows
      /\ N!Finished(w, n).to = note[n].to /\ N!Finished(w, n).sent = sent /\ N!Finished(w, n).done = done
  BY <1>1, <1>2, <1>3 DEF N!Rows
<1> QED  BY <1>4, <1>5, <1>6

LEMMA NoteCommits ==
    ASSUME NoteInv, N!SoundConstants, NEW w \in Senders, N!Commit(w)
    PROVE  NoteInv'
<1>1. /\ batch[w] = {}
      /\ note' = [n \in DOMAIN note |-> IF n \in held[w] THEN N!Finished(w, n) ELSE note[n]]
      /\ held' = [held EXCEPT ![w] = {}] /\ newly' = [newly EXCEPT ![w] = {}]
      /\ UNCHANGED <<reachable, batch, told, lost, crashes>>
  BY DEF N!Commit
<1>2. DOMAIN note = 1 .. Len(note) /\ Len(note) \in Nat /\ DOMAIN note \subseteq N!Ids
      /\ \A n \in DOMAIN note : note[n] \in N!Rows
  BY NoteIds DEF NoteInv
<1>3. \A n \in DOMAIN note : n \in held[w] => note'[n] = N!Finished(w, n)
  BY <1>1
<1>4. \A n \in DOMAIN note : n \notin held[w] => note'[n] = note[n]
  BY <1>1
<1>5. note' \in [1 .. Len(note) -> N!Rows]
  BY <1>1, <1>2, NoteFinished
<1>6. note' \in Seq(N!Rows) /\ Len(note') = Len(note) /\ DOMAIN note' = DOMAIN note
  BY <1>2, <1>5
<1>7. N!TypeOK'
  BY <1>1, <1>6 DEF NoteInv, N!TypeOK
<1>8. /\ held'[w] = {} /\ newly'[w] = {}
      /\ \A v \in Senders : v # w => held'[v] = held[v] /\ newly'[v] = newly[v]
  BY <1>1 DEF NoteInv, N!TypeOK
<1>9. HeldInv'
  BY <1>1, <1>4, <1>6, <1>8 DEF NoteInv, HeldInv
<1>10. \A n : n \notin held[w] => (Recorded(n)' <=> Recorded(n)) /\ (Unrecorded(n)' <=> Unrecorded(n))
  BY <1>4, <1>6, <1>8 DEF Recorded, Unrecorded, NoteInv, HeldInv
<1>11. \A n \in held[w] : n \in DOMAIN note /\ (Unrecorded(n) <=> n \in newly[w]) /\ ~Unrecorded(n)'
  BY <1>8 DEF Unrecorded, NoteInv, HeldInv
<1>12. \A n \in held[w] : Recorded(n)' <=> Recorded(n) \/ Unrecorded(n)
  BY <1>3, <1>6, <1>11, NoteFinished DEF Recorded
<1>13. ToldInv'
  <2>1. \A n \in N!Ids : told'[n] = IF Recorded(n)' \/ Unrecorded(n)' THEN lost'[n] + 1 ELSE lost'[n]
    BY <1>1, <1>10, <1>11, <1>12 DEF NoteInv, ToldInv
  <2>2. \A n \in N!Ids : ~(Recorded(n)' /\ Unrecorded(n)')
    BY <1>10, <1>11 DEF NoteInv, ToldInv
  <2>3. \A n \in DOMAIN note' : note'[n].done /\ note'[n].to \in OnTelegram => Recorded(n)'
    <3> SUFFICES ASSUME NEW n \in DOMAIN note, note'[n].done, note'[n].to \in OnTelegram
                 PROVE  Recorded(n)'
      BY <1>6
    <3>1. CASE n \in held[w]
      BY <1>3, <1>6, <3>1, NoteFinished DEF Recorded
    <3>2. CASE n \notin held[w]
      BY <1>4, <1>10, <3>2 DEF NoteInv, ToldInv
    <3> QED  BY <3>1, <3>2
  <2> QED  BY <2>1, <2>2, <2>3 DEF ToldInv
<1> QED  BY <1>7, <1>9, <1>13 DEF NoteInv

LEMMA NoteCrashes ==
    ASSUME NoteInv, N!SoundConstants, NEW w \in Senders, N!Crash(w)
    PROVE  NoteInv'
<1>1. /\ batch' = [batch EXCEPT ![w] = {}]
      /\ held' = [held EXCEPT ![w] = {}] /\ newly' = [newly EXCEPT ![w] = {}]
      /\ lost' = [n \in N!Ids |-> IF n \in newly[w] THEN lost[n] + 1 ELSE lost[n]]
      /\ UNCHANGED <<note, reachable, told>>
  BY DEF N!Crash
<1>2. crashes' \in 0 .. MaxCrashes
  BY DEF N!Crash, N!SoundConstants, NoteInv, N!TypeOK
<1>3. lost' \in [N!Ids -> Nat]
  BY <1>1 DEF NoteInv, N!TypeOK
<1>4. N!TypeOK'
  BY <1>1, <1>2, <1>3 DEF NoteInv, N!TypeOK
<1>5. /\ held'[w] = {} /\ newly'[w] = {} /\ batch'[w] = {}
      /\ \A v \in Senders : v # w => held'[v] = held[v] /\ newly'[v] = newly[v] /\ batch'[v] = batch[v]
  BY <1>1 DEF NoteInv, N!TypeOK
<1>6. HeldInv'
  BY <1>1, <1>5 DEF NoteInv, HeldInv
<1>7. \A n : Recorded(n)' <=> Recorded(n)
  BY <1>1 DEF Recorded
<1>8. \A n : n \notin newly[w] => (Unrecorded(n)' <=> Unrecorded(n))
  BY <1>5 DEF Unrecorded
<1>9. \A n \in newly[w] : n \in N!Ids /\ Unrecorded(n) /\ ~Unrecorded(n)' /\ ~Recorded(n)
  BY <1>5 DEF Unrecorded, NoteInv, HeldInv, ToldInv, N!TypeOK
<1>10. ToldInv'
  <2>1. \A n \in N!Ids : told'[n] = IF Recorded(n)' \/ Unrecorded(n)' THEN lost'[n] + 1 ELSE lost'[n]
    BY <1>1, <1>7, <1>8, <1>9 DEF NoteInv, ToldInv
  <2>2. \A n \in N!Ids : ~(Recorded(n)' /\ Unrecorded(n)')
    BY <1>7, <1>8, <1>9 DEF NoteInv, ToldInv
  <2> QED  BY <1>1, <1>7, <2>1, <2>2 DEF NoteInv, ToldInv
<1> QED  BY <1>4, <1>6, <1>10 DEF NoteInv

LEMMA NoteStep == ASSUME NoteInv, N!SoundConstants, [N!Next]_N!vars PROVE NoteInv'
<1>1. ASSUME NEW u \in OnTelegram, N!ChangeReach(u) PROVE NoteInv'
  <2>1. N!TypeOK'
    BY <1>1 DEF NoteInv, N!TypeOK, N!ChangeReach
  <2>2. HeldInv' /\ ToldInv'
    BY <1>1 DEF NoteInv, N!ChangeReach, HeldInv, ToldInv, Recorded, Unrecorded
  <2> QED  BY <2>1, <2>2 DEF NoteInv
<1>2. CASE UNCHANGED N!vars
  BY <1>2 DEF N!vars, NoteInv, N!TypeOK, HeldInv, ToldInv, Recorded, Unrecorded
<1> QED
  BY <1>1, <1>2, NoteNotifies, NoteBroadcasts, NoteLocks, NoteDispatches, NoteCommits, NoteCrashes
     DEF N!Next

LEMMA NoteHolds == ASSUME N!SoundConstants PROVE N!Spec => []NoteInv
<1>1. ASSUME N!Init PROVE NoteInv
  BY <1>1, NoteStart
<1>2. ASSUME NoteInv, [N!Next]_N!vars PROVE NoteInv'
  BY <1>2, NoteStep
<1> QED  BY <1>1, <1>2, PTL DEF N!Spec

\* Every variable of the dispatch keeps its type.
THEOREM NotificationsTyped == ASSUME N!SoundConstants PROVE N!Spec => []N!TypeOK
<1>1. NoteInv => N!TypeOK
  BY DEF NoteInv
<1> QED  BY <1>1, NoteHolds, PTL

\* However many workers dispatch, a reader is told again only what a worker that
\* died had not recorded, and a finished row has reached a reader on Telegram
\* (dispatch_pending).
THEOREM ToldOnce == ASSUME N!SoundConstants PROVE N!Spec => []ToldOnceUnlessLost
<1>1. ASSUME NoteInv PROVE ToldOnceUnlessLost
  <2> SUFFICES ASSUME NEW n \in 1 .. Len(note)
               PROVE  /\ told[n] <= 1 + lost[n]
                      /\ note[n].done /\ note[n].to \in OnTelegram => told[n] = 1 + lost[n]
    BY DEF ToldOnceUnlessLost, N!ToldOnceUnlessLost
  <2>1. n \in DOMAIN note /\ n \in N!Ids
    BY <1>1, NoteIds DEF NoteInv
  <2>2. lost[n] \in Nat /\ told[n] \in Nat
    BY <1>1, <2>1 DEF NoteInv, N!TypeOK
  <2>3. told[n] = lost[n] \/ told[n] = lost[n] + 1
    BY <1>1, <2>1 DEF NoteInv, ToldInv
  <2>4. note[n].done /\ note[n].to \in OnTelegram => told[n] = lost[n] + 1
    BY <1>1, <2>1 DEF NoteInv, ToldInv
  <2> QED  BY <2>2, <2>3, <2>4
<1> QED  BY <1>1, NoteHolds, PTL

-----------------------------------------------------------------------------
(* The knowledge base: documents, their windows and their chunks           *)

LEMMA LeastOf ==
    ASSUME NEW these, these \subseteq Nat, these # {}
    PROVE  \E x \in these : \A y \in these : x <= y
<1>0. \A x, y \in Nat : <<x, y>> \in OpToRel(<, Nat) <=> x < y
  BY DEF OpToRel
<1>1. PICK x \in these : \A y \in these : ~(<<y, x>> \in OpToRel(<, Nat))
  BY NatLessThanWellFounded, WFMin
<1>2. \A y \in these : ~(y < x)
  BY <1>0, <1>1
<1> QED  BY <1>2

LEMMA Products ==
    ASSUME NEW s \in Nat, NEW x \in Nat, NEW y \in Nat
    PROVE  /\ x * s \in Nat
           /\ x <= y => x * s <= y * s
           /\ s >= 1 => x <= x * s
           /\ (x + 1) * s = x * s + s
<1>1. x * s \in Nat
  OBVIOUS
<1>2. x <= y => x * s <= y * s
  OBVIOUS
<1>3. s >= 1 => x <= x * s
  OBVIOUS
<1>4. (x + 1) * s = x * s + s
  OBVIOUS
<1> QED  BY <1>1, <1>2, <1>3, <1>4

Stride == ChunkSize - Overlap

LEMMA StrideFits ==
    ASSUME K!SoundConstants
    PROVE  Stride \in Nat /\ Stride >= 1 /\ Stride <= ChunkSize /\ ChunkSize \in Nat
  BY DEF K!SoundConstants, Stride

LEMMA IntervalSize ==
    ASSUME NEW m \in Nat
    PROVE  K!Cardinality(0 .. m - 1) = m
<1>0. \A X : K!Cardinality(X) = Cardinality(X) /\ (K!IsFiniteSet(X) <=> IsFiniteSet(X))
  BY DEF K!Cardinality, Cardinality, K!IsFiniteSet, IsFiniteSet
<1>1. K!Cardinality(0 .. m - 1) = IF 0 > m - 1 THEN 0 ELSE (m - 1) - 0 + 1
  BY <1>0, FS_Interval
<1> QED  BY <1>1

\* The windows of a text are numbered without a gap, and there is a last one.
LEMMA WindowsEnd ==
    ASSUME K!SoundConstants, NEW n \in Nat
    PROVE  \E m \in Nat : /\ m >= 1
                          /\ K!Cardinality({i \in 0 .. n : K!Another(i, n)}) = m
                          /\ \A i \in Nat : K!Another(i, n) <=> i < m
<1> DEFINE none == {i \in Nat : ~K!Another(i, n)}
<1>0. \A i \in Nat : K!Another(i, n) <=> i = 0 \/ (i - 1) * Stride + ChunkSize < n
  BY DEF K!Another, Stride
<1>1. n + 1 \in none
  <2>1. n <= n * Stride /\ n * Stride \in Nat
    BY StrideFits, Products
  <2>2. (n + 1) - 1 = n /\ n + 1 \in Nat /\ n + 1 # 0
    OBVIOUS
  <2>3. ~(((n + 1) - 1) * Stride + ChunkSize < n)
    BY <2>1, <2>2, StrideFits
  <2> QED  BY <1>0, <2>2, <2>3
<1>2. PICK m \in none : \A i \in none : m <= i
  BY <1>1, LeastOf
<1>3. m \in Nat /\ m >= 1 /\ m <= n + 1 /\ ~K!Another(m, n)
  BY <1>0, <1>1, <1>2
<1>4. ASSUME NEW i \in Nat, i < m PROVE K!Another(i, n)
  BY <1>2, <1>3, <1>4
<1>5. ASSUME NEW i \in Nat, i >= m PROVE ~K!Another(i, n)
  <2>1. i - 1 \in Nat /\ m - 1 \in Nat /\ m - 1 <= i - 1
    BY <1>3, <1>5
  <2>2. (m - 1) * Stride <= (i - 1) * Stride /\ (m - 1) * Stride \in Nat /\ (i - 1) * Stride \in Nat
    BY <2>1, StrideFits, Products
  <2>3. ~((m - 1) * Stride + ChunkSize < n)
    BY <1>0, <1>3
  <2>4. ~((i - 1) * Stride + ChunkSize < n)
    BY <2>2, <2>3, StrideFits
  <2> QED  BY <1>0, <1>3, <1>5, <2>4
<1>6. \A i \in Nat : K!Another(i, n) <=> i < m
  BY <1>3, <1>4, <1>5
<1>7. {i \in 0 .. n : K!Another(i, n)} = 0 .. m - 1
  BY <1>3, <1>6
<1>8. K!Cardinality(0 .. m - 1) = m
  BY <1>3, IntervalSize
<1> QED  BY <1>3, <1>6, <1>7, <1>8

\* What a window of a text is.
LEMMA WindowsAre ==
    ASSUME K!SoundConstants, NEW n \in Nat
    PROVE  \E m \in Nat :
              /\ m >= 1
              /\ \A i \in Nat : K!Another(i, n) <=> i < m
              /\ K!Windows(n) \in Seq(K!Spans) /\ Len(K!Windows(n)) = m
              /\ DOMAIN K!Windows(n) = 1 .. m
              /\ \A k \in 1 .. m :
                    /\ K!Windows(n)[k].from = (k - 1) * Stride
                    /\ K!Windows(n)[k].to =
                          IF (k - 1) * Stride + ChunkSize < n
                          THEN (k - 1) * Stride + ChunkSize ELSE n
<1>1. PICK m \in Nat : /\ m >= 1
                       /\ K!Cardinality({i \in 0 .. n : K!Another(i, n)}) = m
                       /\ \A i \in Nat : K!Another(i, n) <=> i < m
  BY WindowsEnd
<1> DEFINE span(k) ==
        [from |-> (k - 1) * Stride,
         to |-> IF (k - 1) * Stride + ChunkSize < n THEN (k - 1) * Stride + ChunkSize ELSE n]
<1>2. K!Windows(n) = [k \in 1 .. m |-> span(k)]
  BY <1>1 DEF K!Windows, Stride
<1>3. \A k \in 1 .. m : span(k) \in K!Spans
  <2> SUFFICES ASSUME NEW k \in 1 .. m PROVE span(k) \in K!Spans
    OBVIOUS
  <2>1. k - 1 \in Nat
    OBVIOUS
  <2>2. (k - 1) * Stride \in Nat
    BY <2>1, StrideFits, Products
  <2>3. (k - 1) * Stride + ChunkSize \in Nat
    BY <2>2, StrideFits
  <2> QED  BY <2>2, <2>3 DEF K!Spans
<1>4. \A k \in 1 .. m : K!Windows(n)[k] = span(k)
  BY <1>2
<1>5. K!Windows(n) \in [1 .. m -> K!Spans]
  BY <1>2, <1>3
<1>6. K!Windows(n) \in Seq(K!Spans) /\ Len(K!Windows(n)) = m /\ DOMAIN K!Windows(n) = 1 .. m
  BY <1>1, <1>5
<1>7. \A k \in 1 .. m :
          /\ K!Windows(n)[k].from = (k - 1) * Stride
          /\ K!Windows(n)[k].to = IF (k - 1) * Stride + ChunkSize < n
                                THEN (k - 1) * Stride + ChunkSize ELSE n
  <2> SUFFICES ASSUME NEW k \in 1 .. m
               PROVE  /\ K!Windows(n)[k].from = (k - 1) * Stride
                      /\ K!Windows(n)[k].to = IF (k - 1) * Stride + ChunkSize < n
                                            THEN (k - 1) * Stride + ChunkSize ELSE n
    OBVIOUS
  <2>1. K!Windows(n)[k] = span(k)
    BY <1>4
  <2>2. span(k).from = (k - 1) * Stride
        /\ span(k).to = IF (k - 1) * Stride + ChunkSize < n
                        THEN (k - 1) * Stride + ChunkSize ELSE n
    OBVIOUS
  <2> HIDE DEF span
  <2> QED  BY <2>1, <2>2
<1> QED  BY <1>1, <1>6, <1>7

\* The windows of a text hold each of its words, and no other (chunk_text).
LEMMA WindowsWhole ==
    ASSUME K!SoundConstants, NEW n \in Nat
    PROVE  UNION {K!Windows(n)[k].from .. K!Windows(n)[k].to - 1 : k \in DOMAIN K!Windows(n)} = 0 .. n - 1
<1>1. PICK m \in Nat :
          /\ m >= 1
          /\ \A i \in Nat : K!Another(i, n) <=> i < m
          /\ K!Windows(n) \in Seq(K!Spans) /\ Len(K!Windows(n)) = m
          /\ DOMAIN K!Windows(n) = 1 .. m
          /\ \A k \in 1 .. m :
                /\ K!Windows(n)[k].from = (k - 1) * Stride
                /\ K!Windows(n)[k].to =
                      IF (k - 1) * Stride + ChunkSize < n
                      THEN (k - 1) * Stride + ChunkSize ELSE n
  BY WindowsAre
<1>2. ASSUME NEW k \in 1 .. m, NEW x \in K!Windows(n)[k].from .. K!Windows(n)[k].to - 1
      PROVE  x \in 0 .. n - 1
  <2>1. k - 1 \in Nat
    BY <1>1
  <2>2. (k - 1) * Stride \in Nat
    BY <2>1, StrideFits, Products
  <2> DEFINE from == (k - 1) * Stride
  <2>3. K!Windows(n)[k].from = from
        /\ K!Windows(n)[k].to = IF from + ChunkSize < n THEN from + ChunkSize ELSE n
    BY <1>1
  <2> HIDE DEF from
  <2>4. from \in Nat
    BY <2>2 DEF from
  <2>5. K!Windows(n)[k].to <= n /\ K!Windows(n)[k].from \in Nat /\ K!Windows(n)[k].to \in Nat
    BY <2>3, <2>4, StrideFits
  <2> QED  BY <1>2, <2>5
<1>3. ASSUME NEW x \in 0 .. n - 1
      PROVE  \E k \in 1 .. m : x \in K!Windows(n)[k].from .. K!Windows(n)[k].to - 1
  <2> DEFINE reach == {j \in Nat : x < j * Stride + ChunkSize}
  <2>0. x \in Nat /\ x < n
    OBVIOUS
  <2>1. x + 1 \in reach
    <3>1. x + 1 <= (x + 1) * Stride /\ (x + 1) * Stride \in Nat
      BY <2>0, StrideFits, Products
    <3> QED  BY <2>0, <3>1, StrideFits
  <2>2. PICK j \in reach : \A i \in reach : j <= i
    BY <2>1, LeastOf
  <2>3. j \in Nat /\ j * Stride \in Nat /\ x < j * Stride + ChunkSize
    BY <2>2, StrideFits, Products
  <2>4. j # 0 => /\ j - 1 \in Nat /\ (j - 1) * Stride \in Nat
                 /\ (j - 1) * Stride + ChunkSize <= x
                 /\ j * Stride = (j - 1) * Stride + Stride
    <3> SUFFICES ASSUME j # 0
                 PROVE  /\ j - 1 \in Nat /\ (j - 1) * Stride \in Nat
                        /\ (j - 1) * Stride + ChunkSize <= x
                        /\ j * Stride = (j - 1) * Stride + Stride
      OBVIOUS
    <3>1. j - 1 \in Nat /\ (j - 1) + 1 = j
      BY <2>3
    <3>2. (j - 1) * Stride \in Nat
      BY <3>1, StrideFits, Products
    <3>3. ((j - 1) + 1) * Stride = (j - 1) * Stride + Stride
      BY <3>1, StrideFits, Products
    <3>4. j - 1 \notin reach
      BY <2>2, <2>3, <3>1
    <3>5. (j - 1) * Stride + ChunkSize <= x
      BY <2>0, <3>1, <3>2, <3>4, StrideFits
    <3> QED  BY <3>1, <3>2, <3>3, <3>5
  <2>5. j * Stride <= x
    BY <2>0, <2>3, <2>4, StrideFits
  <2>6. j < m
    <3>1. CASE j = 0
      BY <1>1, <3>1
    <3>2. CASE j # 0
      <4>1. (j - 1) * Stride + ChunkSize < n
        BY <2>0, <2>4, <3>2, StrideFits
      <4>2. K!Another(j, n)
        BY <4>1 DEF K!Another, Stride
      <4> QED  BY <1>1, <2>3, <4>2
    <3> QED  BY <3>1, <3>2
  <2>7. j + 1 \in 1 .. m /\ (j + 1) - 1 = j
    BY <1>1, <2>3, <2>6
  <2>8. K!Windows(n)[j + 1].from = j * Stride
        /\ K!Windows(n)[j + 1].to = IF j * Stride + ChunkSize < n THEN j * Stride + ChunkSize ELSE n
    <3>1. /\ K!Windows(n)[j + 1].from = ((j + 1) - 1) * Stride
          /\ K!Windows(n)[j + 1].to =
                IF ((j + 1) - 1) * Stride + ChunkSize < n
                THEN ((j + 1) - 1) * Stride + ChunkSize ELSE n
      BY <1>1, <2>7
    <3> QED  BY <2>7, <3>1
  <2>9. x \in K!Windows(n)[j + 1].from .. K!Windows(n)[j + 1].to - 1
    BY <2>0, <2>3, <2>5, <2>8, StrideFits
  <2> QED  BY <2>7, <2>9
<1> QED  BY <1>1, <1>2, <1>3

-----------------------------------------------------------------------------
\* What a worker holds is pending and nobody else's, and it has spoilt its
\* transaction if a document was aborted.
HoldInv ==
    /\ \A w \in Indexers, d \in K!Ids : outcome[w][d] # "free" =>
          d \in DOMAIN doc /\ doc[d].st = "pending"
    /\ \A v, w \in Indexers, d \in K!Ids :
          v # w => outcome[v][d] = "free" \/ outcome[w][d] = "free"
    /\ \A w \in Indexers, d \in K!Ids : outcome[w][d] = "aborted" => w \in broken

\* A completed document has the windows of its text, and any other has none.
ChunkInv ==
    \A d \in K!Ids :
        IF d \in DOMAIN doc /\ doc[d].st = "completed"
        THEN chunks[d] = K!Windows(doc[d].words) /\ doc[d].count = Len(chunks[d])
        ELSE chunks[d] = <<>>

KnowInv == K!TypeOK /\ HoldInv /\ ChunkInv

LEMMA KnowDocs ==
    /\ \A r \in K!Docs : /\ r.file \in K!Files /\ r.words \in Lengths /\ r.count \in Nat
                         /\ r.st \in {"pending", "completed", "failed", "deleted"}
    /\ \A f \in K!Files, n \in Lengths :
          [file |-> f, words |-> n, count |-> 0, st |-> "pending"] \in K!Docs
  BY DEF K!Docs

LEMMA KnowIds ==
    ASSUME K!TypeOK, K!SoundConstants
    PROVE  /\ DOMAIN doc = 1 .. Len(doc) /\ DOMAIN doc \subseteq K!Ids /\ Len(doc) \in Nat
           /\ \A d \in DOMAIN doc : doc[d] \in K!Docs
  BY DEF K!TypeOK, K!SoundConstants, K!Ids

LEMMA KnowStart == ASSUME K!SoundConstants, K!Init PROVE KnowInv
<1>1. doc = <<>> /\ DOMAIN doc = {} /\ Len(doc) = 0 /\ doc \in Seq(K!Docs)
  BY DEF K!Init
<1>2. <<>> \in Seq(K!Spans)
  OBVIOUS
<1>3. K!TypeOK
  BY <1>1, <1>2 DEF K!Init, K!TypeOK, K!SoundConstants, K!Outcomes
<1>4. HoldInv
  BY DEF K!Init, HoldInv
<1>5. ChunkInv
  BY <1>1 DEF K!Init, ChunkInv
<1> QED  BY <1>3, <1>4, <1>5 DEF KnowInv

LEMMA KnowUploads ==
    ASSUME K!SoundConstants, KnowInv, NEW file \in K!Files, NEW words \in Lengths, K!Upload(file, words)
    PROVE  KnowInv'
<1> DEFINE row == [file |-> file, words |-> words, count |-> 0, st |-> "pending"]
<1>1. row \in K!Docs /\ row.st = "pending"
  BY KnowDocs
<1>2. /\ doc \in Seq(K!Docs) /\ doc' = Append(doc, row) /\ Len(doc) < MaxDocs
      /\ UNCHANGED <<chunks, outcome, broken, deleting, aborts>>
  BY DEF KnowInv, K!TypeOK, K!Upload
<1> HIDE DEF row
<1>3. doc' \in Seq(K!Docs) /\ Len(doc') = Len(doc) + 1 /\ Len(doc) \in Nat
      /\ DOMAIN doc = 1 .. Len(doc) /\ DOMAIN doc' = 1 .. Len(doc) + 1
      /\ (\A d \in DOMAIN doc : doc'[d] = doc[d]) /\ doc'[Len(doc) + 1] = row
  BY <1>1, <1>2
<1>4. \A d \in DOMAIN doc' \ DOMAIN doc : doc'[d] = row
  BY <1>3
<1>5. DOMAIN doc \subseteq DOMAIN doc'
  BY <1>3
<1>6. K!TypeOK'
  <2>1. Len(doc') <= MaxDocs
    BY <1>2, <1>3 DEF K!SoundConstants
  <2> QED  BY <1>2, <1>3, <2>1 DEF KnowInv, K!TypeOK
<1>7. HoldInv'
  BY <1>2, <1>3, <1>5 DEF KnowInv, HoldInv
<1>8. ChunkInv'
  BY <1>1, <1>2, <1>3, <1>4, <1>5 DEF KnowInv, ChunkInv
<1> QED  BY <1>6, <1>7, <1>8 DEF KnowInv

LEMMA KnowDeletes ==
    ASSUME K!SoundConstants, KnowInv, NEW o \in Owners, K!CommitDelete(o)
    PROVE  KnowInv'
<1> DEFINE d == deleting[o]
<1>1. /\ d \in K!Ids /\ \A w \in Indexers : outcome[w][d] = "free"
      /\ doc' = [doc EXCEPT ![d].st = "deleted"] /\ chunks' = [chunks EXCEPT ![d] = <<>>]
      /\ deleting' = [deleting EXCEPT ![o] = 0]
      /\ UNCHANGED <<outcome, broken, aborts>>
  BY DEF K!CommitDelete, K!Held, K!HeldBy
<1> HIDE DEF d
<1>2. DOMAIN doc = 1 .. Len(doc) /\ Len(doc) \in Nat /\ \A e \in DOMAIN doc : doc[e] \in K!Docs
  BY KnowIds DEF KnowInv
<1>3. /\ DOMAIN doc' = DOMAIN doc
      /\ \A e \in DOMAIN doc : doc'[e] = IF e = d THEN [doc[d] EXCEPT !.st = "deleted"] ELSE doc[e]
  BY <1>1
<1>4. d \in DOMAIN doc => doc'[d] \in K!Docs /\ doc'[d].st = "deleted"
  BY <1>2, <1>3 DEF K!Docs
<1>5. doc' \in [1 .. Len(doc) -> K!Docs]
  BY <1>1, <1>2, <1>3, <1>4
<1>6. doc' \in Seq(K!Docs) /\ Len(doc') = Len(doc)
  BY <1>2, <1>5
<1>7. chunks'[d] = <<>> /\ \A e \in K!Ids : e # d => chunks'[e] = chunks[e]
  BY <1>1 DEF KnowInv, K!TypeOK
<1>8. K!TypeOK'
  <2>1. <<>> \in Seq(K!Spans)
    OBVIOUS
  <2>2. chunks' \in [K!Ids -> Seq(K!Spans)]
    BY <1>1, <2>1 DEF KnowInv, K!TypeOK
  <2>3. deleting' \in [Owners -> 0 .. MaxDocs]
    BY <1>1 DEF KnowInv, K!TypeOK, K!SoundConstants
  <2> QED  BY <1>1, <1>6, <2>2, <2>3 DEF KnowInv, K!TypeOK
<1>9. HoldInv'
  BY <1>1, <1>3 DEF KnowInv, HoldInv
<1>10. ChunkInv'
  BY <1>3, <1>4, <1>7 DEF KnowInv, ChunkInv
<1> QED  BY <1>8, <1>9, <1>10 DEF KnowInv

LEMMA KnowLocks ==
    ASSUME K!SoundConstants, KnowInv, NEW w \in Indexers, K!Lock(w)
    PROVE  KnowInv'
<1>1. \A d \in K!Oldest : d \in DOMAIN doc /\ doc[d].st = "pending"
                        /\ \A v \in Indexers : outcome[v][d] = "free"
  <2>1. K!Oldest \subseteq K!Pending
    BY DEF K!Oldest
  <2>2. DOMAIN doc \subseteq K!Ids
    BY KnowIds DEF KnowInv
  <2> QED  BY <2>1, <2>2 DEF K!Pending, K!Held, K!HeldBy
<1>2. /\ outcome' = [outcome EXCEPT ![w] = [d \in K!Ids |-> IF d \in K!Oldest THEN "waiting" ELSE "free"]]
      /\ UNCHANGED <<doc, chunks, broken, deleting, aborts>>
  BY DEF K!Lock
<1> HIDE DEF K!Oldest
<1>3. /\ \A d \in K!Ids : outcome'[w][d] = IF d \in K!Oldest THEN "waiting" ELSE "free"
      /\ \A v \in Indexers : v # w => outcome'[v] = outcome[v]
  BY <1>2 DEF KnowInv, K!TypeOK
<1>4. K!TypeOK'
  <2>1. outcome' \in [Indexers -> [K!Ids -> K!Outcomes]]
    BY <1>2 DEF KnowInv, K!TypeOK, K!Outcomes
  <2> QED  BY <1>2, <2>1 DEF KnowInv, K!TypeOK
<1>5. HoldInv'
  BY <1>1, <1>2, <1>3 DEF KnowInv, HoldInv
<1>6. ChunkInv'
  BY <1>2 DEF KnowInv, ChunkInv
<1> QED  BY <1>4, <1>5, <1>6 DEF KnowInv

LEMMA KnowProcesses ==
    ASSUME K!SoundConstants, KnowInv, NEW w \in Indexers, NEW result \in K!Results, K!Process(w, result)
    PROVE  KnowInv'
<1>1. PICK d \in K!Todo(w) :
          /\ broken' = IF result = "aborted" THEN broken \cup {w} ELSE broken
          /\ outcome' = [outcome EXCEPT ![w][d] = result]
  BY DEF K!Process
<1>2. d \in K!Ids /\ outcome[w][d] = "waiting" /\ UNCHANGED <<doc, chunks, deleting, aborts>>
  BY DEF K!Process, K!Todo
<1>3. /\ outcome'[w][d] = result
      /\ \A e \in K!Ids : e # d => outcome'[w][e] = outcome[w][e]
      /\ \A v \in Indexers : v # w => outcome'[v] = outcome[v]
  BY <1>1, <1>2 DEF KnowInv, K!TypeOK
<1>4. K!TypeOK'
  <2>1. result \in K!Outcomes
    BY DEF K!Outcomes
  <2>2. outcome' \in [Indexers -> [K!Ids -> K!Outcomes]]
    BY <1>1, <1>2, <2>1 DEF KnowInv, K!TypeOK
  <2> QED  BY <1>1, <1>2, <2>2 DEF KnowInv, K!TypeOK
<1>5. result # "free" /\ broken \subseteq broken' /\ (result = "aborted" => w \in broken')
  BY <1>1 DEF K!Results
<1>6. HoldInv'
  <2>1. \A v \in Indexers, e \in K!Ids : outcome'[v][e] = "free" <=> outcome[v][e] = "free"
    BY <1>2, <1>3, <1>5
  <2>2. \A v \in Indexers, e \in K!Ids : outcome'[v][e] = "aborted" => v \in broken'
    BY <1>3, <1>5 DEF KnowInv, HoldInv
  <2> QED  BY <1>2, <2>1, <2>2 DEF KnowInv, HoldInv
<1>7. ChunkInv'
  BY <1>2 DEF KnowInv, ChunkInv
<1> QED  BY <1>4, <1>6, <1>7 DEF KnowInv

\* A worker that lets go holds nothing, whatever becomes of the documents.
LEMMA KnowReleases ==
    ASSUME KnowInv, NEW w \in Indexers, K!Release(w)
    PROVE  /\ outcome' \in [Indexers -> [K!Ids -> K!Outcomes]] /\ broken' \subseteq Indexers
           /\ \A d \in K!Ids : outcome'[w][d] = "free"
           /\ \A v \in Indexers : v # w => outcome'[v] = outcome[v] /\ (v \in broken' <=> v \in broken)
  BY DEF KnowInv, K!TypeOK, K!Release, K!Outcomes

\* What the commit writes about a document.
LEMMA KnowIndexed ==
    ASSUME K!SoundConstants, KnowInv, NEW w \in Indexers, K!Todo(w) = {}, w \notin broken, NEW d \in DOMAIN doc
    PROVE  /\ K!Indexed(w, d) \in K!Docs
           /\ K!Indexed(w, d).words = doc[d].words
           /\ outcome[w][d] = "free" => K!Indexed(w, d) = doc[d]
           /\ K!Completes(w, d) => /\ K!Indexed(w, d).st = "completed"
                                   /\ K!Indexed(w, d).count = Len(K!Windows(doc[d].words))
           /\ outcome[w][d] # "free" /\ ~K!Completes(w, d) => K!Indexed(w, d).st = "failed"
<1>1. d \in K!Ids /\ doc[d] \in K!Docs /\ doc[d].words \in Nat
  BY KnowIds, KnowDocs DEF KnowInv, K!SoundConstants
<1>2. outcome[w][d] \in {"free", "completed", "failed"}
  BY <1>1 DEF KnowInv, K!TypeOK, HoldInv, K!Outcomes, K!Results, K!Todo
<1> DEFINE size == IF K!Completes(w, d) THEN Len(K!Windows(doc[d].words)) ELSE doc[d].count
<1>3. size \in Nat
  <2>1. Len(K!Windows(doc[d].words)) \in Nat
    BY <1>1, WindowsAre
  <2> QED  BY <1>1, <2>1, KnowDocs
<1>4. CASE outcome[w][d] = "free"
  <2>1. K!Indexed(w, d) = doc[d] /\ ~K!Completes(w, d)
    BY <1>4 DEF K!Indexed, K!HeldBy, K!Completes
  <2> QED  BY <1>1, <1>4, <2>1
<1>5. CASE outcome[w][d] # "free"
  <2>1. K!Indexed(w, d) = [doc[d] EXCEPT !.st = outcome[w][d], !.count = size]
    BY <1>1, <1>5 DEF K!Indexed, K!HeldBy, K!Recorded
  <2>2. K!Completes(w, d) => size = Len(K!Windows(doc[d].words))
    OBVIOUS
  <2> HIDE DEF size
  <2>3. /\ K!Indexed(w, d) \in K!Docs /\ K!Indexed(w, d).words = doc[d].words
        /\ K!Indexed(w, d).st = outcome[w][d] /\ K!Indexed(w, d).count = size
    BY <1>1, <1>2, <1>3, <1>5, <2>1 DEF K!Docs
  <2> QED  BY <1>2, <1>5, <2>2, <2>3 DEF K!Completes
<1> QED  BY <1>4, <1>5

LEMMA KnowCommits ==
    ASSUME K!SoundConstants, KnowInv, NEW w \in Indexers, K!Commit(w)
    PROVE  KnowInv'
<1>1. /\ K!Todo(w) = {} /\ w \notin broken /\ K!Release(w) /\ UNCHANGED <<deleting, aborts>>
      /\ doc' = [d \in DOMAIN doc |-> K!Indexed(w, d)]
      /\ chunks' = [d \in K!Ids |-> IF K!Completes(w, d) THEN chunks[d] \o K!Windows(doc[d].words)
                                                     ELSE chunks[d]]
  BY DEF K!Commit
<1>2. DOMAIN doc = 1 .. Len(doc) /\ Len(doc) \in Nat /\ DOMAIN doc \subseteq K!Ids
      /\ \A d \in DOMAIN doc : doc[d] \in K!Docs
  BY KnowIds DEF KnowInv
<1>3. DOMAIN doc' = DOMAIN doc /\ \A d \in DOMAIN doc : doc'[d] = K!Indexed(w, d)
  BY <1>1
<1>4. doc' \in [1 .. Len(doc) -> K!Docs]
  BY <1>1, <1>2, <1>3, KnowIndexed
<1>5. doc' \in Seq(K!Docs) /\ Len(doc') = Len(doc)
  BY <1>2, <1>4
<1>6. \A d \in K!Ids : outcome[w][d] # "free" => d \in DOMAIN doc /\ doc[d].st = "pending"
  BY DEF KnowInv, HoldInv
<1>7. ASSUME NEW d \in K!Ids, K!Completes(w, d)
      PROVE  /\ chunks'[d] = K!Windows(doc[d].words) /\ K!Windows(doc[d].words) \in Seq(K!Spans)
             /\ d \in DOMAIN doc
  <2>1. d \in DOMAIN doc /\ doc[d].st = "pending"
    BY <1>6, <1>7 DEF K!Completes
  <2>2. chunks[d] = <<>>
    BY <1>7, <2>1 DEF KnowInv, ChunkInv
  <2>3. doc[d].words \in Nat
    BY <1>2, <2>1, KnowDocs DEF K!SoundConstants
  <2>4. K!Windows(doc[d].words) \in Seq(K!Spans)
    BY <2>3, WindowsAre
  <2>5. chunks'[d] = <<>> \o K!Windows(doc[d].words)
    BY <1>1, <1>7, <2>2
  <2> QED  BY <2>1, <2>4, <2>5, ConcatEmptySeq
<1>8. \A d \in K!Ids : ~K!Completes(w, d) => chunks'[d] = chunks[d]
  BY <1>1
<1>9. K!TypeOK'
  <2>1. chunks' \in [K!Ids -> Seq(K!Spans)]
    <3>1. \A d \in K!Ids : chunks'[d] \in Seq(K!Spans)
      BY <1>7, <1>8 DEF KnowInv, K!TypeOK
    <3> QED  BY <1>1, <3>1
  <2> QED  BY <1>1, <1>5, <2>1, KnowReleases DEF KnowInv, K!TypeOK
<1>10. HoldInv'
  <2>1. ASSUME NEW v \in Indexers, NEW d \in K!Ids, outcome'[v][d] # "free"
        PROVE  v # w /\ outcome'[v] = outcome[v] /\ outcome[w][d] = "free"
               /\ d \in DOMAIN doc /\ doc[d].st = "pending" /\ doc'[d] = doc[d]
    <3>1. v # w /\ outcome'[v] = outcome[v]
      BY <1>1, <2>1, KnowReleases
    <3>2. outcome[w][d] = "free" /\ d \in DOMAIN doc /\ doc[d].st = "pending"
      BY <2>1, <3>1 DEF KnowInv, HoldInv
    <3>3. doc'[d] = doc[d]
      BY <1>1, <1>3, <3>2, KnowIndexed
    <3> QED  BY <3>1, <3>2, <3>3
  <2>2. \A v \in Indexers, d \in K!Ids : outcome'[v][d] = "aborted" => v \in broken'
    BY <1>1, <2>1, KnowReleases DEF KnowInv, HoldInv
  <2>3. \A u, v \in Indexers, d \in K!Ids : u # v => outcome'[u][d] = "free" \/ outcome'[v][d] = "free"
    BY <2>1 DEF KnowInv, HoldInv
  <2>4. \A v \in Indexers, d \in K!Ids : outcome'[v][d] # "free" =>
            d \in DOMAIN doc' /\ doc'[d].st = "pending"
    BY <1>3, <2>1
  <2> QED  BY <2>2, <2>3, <2>4 DEF HoldInv
<1>11. ChunkInv'
  <2> SUFFICES ASSUME NEW d \in K!Ids
               PROVE  IF d \in DOMAIN doc' /\ doc'[d].st = "completed"
                      THEN chunks'[d] = K!Windows(doc'[d].words) /\ doc'[d].count = Len(chunks'[d])
                      ELSE chunks'[d] = <<>>
    BY DEF ChunkInv, K!Windows, K!Another
  <2>1. CASE K!Completes(w, d)
    <3>1. doc'[d].st = "completed" /\ doc'[d].words = doc[d].words
          /\ doc'[d].count = Len(K!Windows(doc[d].words)) /\ d \in DOMAIN doc'
      BY <1>1, <1>3, <1>7, <2>1, KnowIndexed
    <3> QED  BY <1>7, <2>1, <3>1
  <2>2. CASE outcome[w][d] = "free"
    <3>1. chunks'[d] = chunks[d]
      BY <1>8, <2>2 DEF K!Completes
    <3>2. d \in DOMAIN doc => doc'[d] = doc[d]
      BY <1>1, <1>3, <2>2, KnowIndexed
    <3> QED  BY <1>3, <3>1, <3>2 DEF KnowInv, ChunkInv
  <2>3. CASE outcome[w][d] # "free" /\ ~K!Completes(w, d)
    <3>1. d \in DOMAIN doc /\ doc[d].st = "pending" /\ doc'[d].st = "failed"
      BY <1>1, <1>3, <1>6, <2>3, KnowIndexed
    <3>2. chunks[d] = <<>>
      BY <3>1 DEF KnowInv, ChunkInv
    <3> QED  BY <1>8, <2>3, <3>1, <3>2
  <2> QED  BY <2>1, <2>2, <2>3
<1> QED  BY <1>9, <1>10, <1>11 DEF KnowInv

LEMMA KnowLoses ==
    ASSUME K!SoundConstants, KnowInv, NEW w \in Indexers, K!Abort(w) \/ K!Crash(w)
    PROVE  KnowInv'
<1>1. K!Release(w) /\ UNCHANGED <<doc, chunks, deleting>>
  BY DEF K!Abort, K!Crash
<1>2. aborts' \in 0 .. MaxAborts
  BY DEF K!Abort, K!Crash, K!SoundConstants, KnowInv, K!TypeOK
<1>3. K!TypeOK'
  BY <1>1, <1>2, KnowReleases DEF KnowInv, K!TypeOK
<1>4. HoldInv'
  BY <1>1, KnowReleases DEF KnowInv, HoldInv
<1>5. ChunkInv'
  BY <1>1 DEF KnowInv, ChunkInv
<1> QED  BY <1>3, <1>4, <1>5 DEF KnowInv

LEMMA KnowStep == ASSUME K!SoundConstants, KnowInv, [K!Next]_K!vars PROVE KnowInv'
<1>1. ASSUME NEW o \in Owners, NEW d \in 1 .. Len(doc), K!StartDelete(o, d) PROVE KnowInv'
  <2>1. d \in 0 .. MaxDocs
    <3>1. Len(doc) \in Nat /\ Len(doc) <= MaxDocs
      BY KnowIds DEF KnowInv, K!TypeOK
    <3> QED  BY <3>1 DEF K!SoundConstants
  <2>2. K!TypeOK'
    BY <1>1, <2>1 DEF KnowInv, K!TypeOK, K!StartDelete
  <2>3. HoldInv' /\ ChunkInv'
    BY <1>1 DEF KnowInv, K!StartDelete, HoldInv, ChunkInv
  <2> QED  BY <2>2, <2>3 DEF KnowInv
<1>2. CASE UNCHANGED K!vars
  BY <1>2 DEF K!vars, KnowInv, K!TypeOK, HoldInv, ChunkInv
<1> QED
  BY <1>1, <1>2, KnowUploads, KnowDeletes, KnowLocks, KnowProcesses, KnowCommits, KnowLoses DEF K!Next

LEMMA KnowHolds == ASSUME K!SoundConstants PROVE K!Spec => []KnowInv
<1>1. ASSUME K!Init PROVE KnowInv
  BY <1>1, KnowStart
<1>2. ASSUME KnowInv, [K!Next]_K!vars PROVE KnowInv'
  BY <1>2, KnowStep
<1> QED  BY <1>1, <1>2, PTL DEF K!Spec

\* Every variable of the knowledge base keeps its type.
THEOREM KnowledgeTyped == ASSUME K!SoundConstants PROVE K!Spec => []K!TypeOK
<1>1. KnowInv => K!TypeOK
  BY DEF KnowInv
<1> QED  BY <1>1, KnowHolds, PTL

\* However many workers, documents and deletions there are, and whatever the
\* chunk size and an overlap below it: a completed document is searchable from
\* its first word to its last by the chunks it reports, and any other has none
\* (process_pending_documents, ingest_document, chunk_text, delete_document).
THEOREM IndexedFromFirstToLast == ASSUME K!SoundConstants PROVE K!Spec => []IndexedWhole
<1>1. ASSUME KnowInv PROVE IndexedWhole
  <2> SUFFICES ASSUME NEW d \in K!Ids
               PROVE  IF d \in DOMAIN doc /\ doc[d].st = "completed"
                      THEN K!Words(d) = 0 .. doc[d].words - 1 /\ Len(chunks[d]) = doc[d].count
                      ELSE chunks[d] = <<>>
    BY DEF IndexedWhole, K!IndexedWhole
  <2>1. CASE d \in DOMAIN doc /\ doc[d].st = "completed"
    <3>1. chunks[d] = K!Windows(doc[d].words) /\ doc[d].count = Len(chunks[d])
      BY <1>1, <2>1 DEF KnowInv, ChunkInv
    <3>2. doc[d].words \in Nat
      BY <1>1, <2>1, KnowIds, KnowDocs DEF KnowInv, K!SoundConstants
    <3>3. K!Words(d) = 0 .. doc[d].words - 1
      BY <3>1, <3>2, WindowsWhole DEF K!Words
    <3> QED  BY <2>1, <3>1, <3>3
  <2>2. CASE ~(d \in DOMAIN doc /\ doc[d].st = "completed")
    BY <1>1, <2>2 DEF KnowInv, ChunkInv
  <2> QED  BY <2>1, <2>2
<1> QED  BY <1>1, KnowHolds, PTL

-----------------------------------------------------------------------------
(* Counters and their windows.                                             *)

Counts == count \in [L!Keys -> Nat]

LimitInv == L!TypeOK /\ Counts

Begun == [st : {"asked", "first"}, path : L!Paths]

Counted == [st : {"counted"}, path : L!Paths, over : BOOLEAN]

Ask == {L!Idle, [st |-> "answering"]} \cup Begun \cup Counted

LEMMA LimitOfKey ==
    ASSUME L!SoundConstants, NEW k \in L!Keys
    PROVE  L!Limit(k) \in Nat \ {0}
  BY DEF L!SoundConstants, L!Keys, L!Limit

LEMMA PathParts ==
    ASSUME NEW p \in L!Paths
    PROVE  Head(p) \in L!Keys /\ (Tail(p) = <<>> \/ Tail(p) \in L!Paths)
<1>1. CASE \E v \in Visitors : p = <<v, "chat">>
  BY <1>1 DEF L!Paths, L!Keys
<1>2. ASSUME NEW k \in {"chat", "generate"}, p = <<k>> PROVE Head(p) = k /\ Tail(p) = <<>>
  <2>1. Append(<<>>, k) = <<k>> /\ <<>> \in Seq({k})
    OBVIOUS
  <2> QED  BY <1>2, <2>1, HeadTailAppend
<1> QED  BY <1>1, <1>2 DEF L!Paths, L!Keys

\* What a request is, by the step it has come to.
LEMMA KindOfAsk ==
    ASSUME L!TypeOK, NEW c \in Callers
    PROVE  /\ caller[c] \in Ask
           /\ caller[c].st \in {"asked", "first"} => caller[c] \in Begun /\ caller[c].path \in L!Paths
           /\ caller[c].st = "counted" => caller[c].path \in L!Paths /\ caller[c].over \in BOOLEAN
  BY DEF L!TypeOK, Ask, Begun, Counted, L!Idle

\* A step of one request that leaves the counters alone.
LEMMA SetKeepsKinds ==
    ASSUME LimitInv, NEW c \in Callers, NEW x \in Ask, L!Set(c, x), count' = count,
           expiring' \subseteq L!Keys, orphaned' \subseteq L!Keys
    PROVE  LimitInv'
<1>1. caller' \in [Callers -> Ask]
  BY DEF L!Set, LimitInv, L!TypeOK, Ask, Begun, Counted
<1> QED  BY <1>1 DEF LimitInv, Counts, L!TypeOK, Ask, Begun, Counted

LEMMA LimitsInit == L!SoundConstants /\ L!Init => LimitInv
<1> SUFFICES ASSUME L!SoundConstants, L!Init PROVE LimitInv
  OBVIOUS
<1>1. \A k \in L!Keys : count[k] = 0 /\ 0 \in 0 .. L!Limit(k) + 1
  BY LimitOfKey DEF L!Init
<1> QED  BY <1>1 DEF L!Init, LimitInv, Counts, L!TypeOK

LEMMA LimitsNext == L!SoundConstants /\ LimitInv /\ [L!Next]_L!vars => LimitInv'
<1> SUFFICES ASSUME L!SoundConstants, LimitInv, [L!Next]_L!vars PROVE LimitInv'
  OBVIOUS
<1>0. L!TypeOK /\ expiring \subseteq L!Keys /\ orphaned \subseteq L!Keys
  BY DEF LimitInv, L!TypeOK
<1>1. ASSUME NEW c \in Callers, NEW v \in Visitors, L!Chat(c, v) PROVE LimitInv'
  <2>1. [st |-> "asked", path |-> <<v, "chat">>] \in Ask
    BY DEF Ask, Begun, L!Paths
  <2> QED  BY <1>0, <1>1, <2>1, SetKeepsKinds DEF L!Chat
<1>2. ASSUME NEW c \in Callers, L!Generate(c) PROVE LimitInv'
  <2>1. [st |-> "asked", path |-> <<"generate">>] \in Ask
    BY DEF Ask, Begun, L!Paths
  <2> QED  BY <1>0, <1>2, <2>1, SetKeepsKinds DEF L!Generate
<1>3. ASSUME NEW c \in Callers, L!Increase(c) PROVE LimitInv'
  <2> DEFINE k == Head(caller[c].path)
             n == count[k] + 1
             over == n > L!Limit(k)
             x == IF L!Begins(n) THEN [caller[c] EXCEPT !.st = "first"]
                  ELSE [st |-> "counted", path |-> caller[c].path, over |-> over]
  <2>1. /\ caller[c] \in Begun /\ caller[c].path \in L!Paths
        /\ count' = [count EXCEPT ![k] = IF over THEN L!Limit(k) + 1 ELSE n] /\ L!Set(c, x)
        /\ UNCHANGED <<expiring, orphaned>>
    BY <1>0, <1>3, KindOfAsk DEF L!Increase
  <2>2. k \in L!Keys /\ L!Limit(k) \in Nat /\ count[k] \in Nat
    BY <2>1, PathParts, LimitOfKey DEF LimitInv, Counts
  <2>3. x \in Ask
    BY <2>1 DEF Ask, Begun, Counted
  <2> HIDE DEF x, k
  <2>4. count' \in [L!Keys -> Nat] /\ \A j \in L!Keys : count'[j] \in 0 .. L!Limit(j) + 1
    BY <2>1, <2>2 DEF LimitInv, Counts, L!TypeOK
  <2>5. caller' \in [Callers -> Ask]
    BY <2>1, <2>3 DEF L!Set, LimitInv, L!TypeOK, Ask, Begun, Counted
  <2> QED  BY <1>0, <2>1, <2>4, <2>5 DEF LimitInv, Counts, L!TypeOK, Ask, Begun, Counted
<1>4. ASSUME NEW c \in Callers, L!SetExpiry(c) PROVE LimitInv'
  <2> DEFINE k == Head(caller[c].path)
  <2>1. caller[c].path \in L!Paths
    BY <1>0, <1>4, KindOfAsk DEF L!SetExpiry
  <2>2. k \in L!Keys
    BY <2>1, PathParts
  <2>3. [st |-> "counted", path |-> caller[c].path, over |-> 1 > L!Limit(k)] \in Ask
    BY <2>1 DEF Ask, Counted
  <2> QED  BY <1>0, <1>4, <2>2, <2>3, SetKeepsKinds DEF L!SetExpiry
<1>5. ASSUME NEW c \in Callers, L!Admit(c) PROVE LimitInv'
  <2> DEFINE rest == Tail(caller[c].path)
             x == IF rest = <<>> THEN [st |-> "answering"] ELSE [st |-> "asked", path |-> rest]
  <2>1. rest = <<>> \/ rest \in L!Paths
    BY <1>0, <1>5, KindOfAsk, PathParts DEF L!Admit
  <2> HIDE DEF rest
  <2>2. x \in Ask
    BY <2>1 DEF Ask, Begun
  <2>3. L!Set(c, x) /\ count' = count /\ expiring' = expiring /\ orphaned' = orphaned
    BY <1>5 DEF L!Admit, rest
  <2> QED  BY <1>0, <2>2, <2>3, SetKeepsKinds
<1>6. ASSUME NEW c \in Callers, L!TurnAway(c) \/ L!Reply(c) PROVE LimitInv'
  <2>1. L!Idle \in Ask
    BY DEF Ask
  <2> QED  BY <1>0, <1>6, <2>1, SetKeepsKinds DEF L!TurnAway, L!Reply
<1>7. ASSUME NEW c \in Callers, L!Fail(c) PROVE LimitInv'
  <2>1. L!Idle \in Ask
    BY DEF Ask
  <2>2. orphaned' \subseteq L!Keys
    <3>1. caller[c].st = "first" => Head(caller[c].path) \in L!Keys
      BY <1>0, KindOfAsk, PathParts
    <3> QED  BY <1>0, <1>7, <3>1 DEF L!Fail
  <2> QED  BY <1>0, <1>7, <2>1, <2>2, SetKeepsKinds DEF L!Fail
<1>8. ASSUME NEW k \in L!Keys, L!Expire(k) PROVE LimitInv'
  <2>1. 0 \in 0 .. L!Limit(k) + 1
    BY LimitOfKey
  <2>2. count' = [count EXCEPT ![k] = 0] /\ expiring' \subseteq expiring
        /\ UNCHANGED <<caller, orphaned>>
    BY <1>8 DEF L!Expire
  <2> QED  BY <1>0, <2>1, <2>2 DEF LimitInv, Counts, L!TypeOK
<1>9. CASE UNCHANGED L!vars
  BY <1>9 DEF L!vars, LimitInv, Counts, L!TypeOK
<1> QED  BY <1>1, <1>2, <1>3, <1>4, <1>5, <1>6, <1>7, <1>8, <1>9 DEF L!Next

\* Counters stay within one of their limits, requests keep their kinds.
THEOREM LimitsTyped == ASSUME L!SoundConstants PROVE L!Spec => []L!TypeOK
<1>1. LimitInv => L!TypeOK
  BY DEF LimitInv
<1> QED  BY <1>1, LimitsInit, LimitsNext, PTL DEF L!Spec

-----------------------------------------------------------------------------
\* The request whose count was one, and which has yet to set the expiry.
First(c, k) == caller[c].st = "first" /\ Head(caller[c].path) = k

\* A counter that runs will end: it has its expiry, the request that is to set
\* it is on its way, or that request is known to have failed.
WindowEnds ==
    \A k \in L!Keys : count[k] > 0 =>
        k \in expiring \cup orphaned \/ \E c \in Callers : First(c, k)

LEMMA WindowKept ==
    ASSUME L!SoundConstants, LimitInv, WindowEnds, [L!Next]_L!vars
    PROVE  WindowEnds'
<1>0. L!TypeOK /\ count \in [L!Keys -> Nat]
  BY DEF LimitInv, Counts
\* The others stay where they are.
<1>a. ASSUME NEW c \in Callers, NEW x, L!Set(c, x)
      PROVE  /\ caller'[c] = x
             /\ \A d \in Callers \ {c}, k \in L!Keys : First(d, k)' <=> First(d, k)
  <2>1. \A d \in Callers : caller'[d] = IF d = c THEN x ELSE caller[d]
    BY <1>0, <1>a DEF L!Set, L!TypeOK
  <2> QED  BY <2>1 DEF First
<1>b. ASSUME NEW c \in Callers, NEW x, L!Set(c, x), caller[c].st # "first",
             count' = count, expiring' = expiring, orphaned' = orphaned
      PROVE  WindowEnds'
  <2>1. \A d \in Callers, k \in L!Keys : First(d, k) => First(d, k)'
    BY <1>a, <1>b DEF First
  <2> QED  BY <1>b, <2>1 DEF WindowEnds
<1>1. ASSUME NEW c \in Callers, NEW v \in Visitors, L!Chat(c, v) PROVE WindowEnds'
  BY <1>1, <1>b DEF L!Chat, L!Idle
<1>2. ASSUME NEW c \in Callers, L!Generate(c) PROVE WindowEnds'
  BY <1>2, <1>b DEF L!Generate, L!Idle
<1>3. ASSUME NEW c \in Callers, L!Admit(c) \/ L!TurnAway(c) \/ L!Reply(c) PROVE WindowEnds'
  BY <1>3, <1>b DEF L!Admit, L!TurnAway, L!Reply
<1>4. ASSUME NEW c \in Callers, L!Increase(c) PROVE WindowEnds'
  <2>0. PICK k \in L!Keys : k = Head(caller[c].path)
    BY <1>0, <1>4, KindOfAsk, PathParts DEF L!Increase
  <2> DEFINE n == count[k] + 1
             x == IF L!Begins(n) THEN [caller[c] EXCEPT !.st = "first"]
                  ELSE [st |-> "counted", path |-> caller[c].path, over |-> n > L!Limit(k)]
  <2>1. /\ caller[c].st = "asked" /\ caller[c] \in Begun /\ caller[c].path \in L!Paths
        /\ L!Set(c, x) /\ expiring' = expiring /\ orphaned' = orphaned
        /\ \A j \in L!Keys \ {k} : count'[j] = count[j]
    BY <1>0, <1>4, <2>0, KindOfAsk DEF L!Increase
  <2>2. count[k] \in Nat
    BY <1>0
  <2>3. L!Begins(n) => caller'[c].st = "first" /\ Head(caller'[c].path) = k
    <3>1. caller'[c] = x
      BY <1>a, <2>1
    <3> QED  BY <2>0, <2>1, <3>1 DEF Begun
  <2> HIDE DEF x
  <2>4. \A d \in Callers, j \in L!Keys : First(d, j) => First(d, j)'
    BY <1>a, <2>1 DEF First
  <2>5. L!Begins(n) => First(c, k)'
    BY <2>3 DEF First
  <2>6. ~L!Begins(n) => count[k] > 0
    BY <2>2 DEF L!Begins
  <2>7. \A j \in L!Keys : count'[j] > 0 =>
          j \in expiring' \cup orphaned' \/ \E d \in Callers : First(d, j)'
    BY <2>1, <2>2, <2>4, <2>5, <2>6 DEF WindowEnds
  <2> QED  BY <2>7 DEF WindowEnds
<1>5. ASSUME NEW c \in Callers, L!SetExpiry(c) PROVE WindowEnds'
  <2> DEFINE x == [st |-> "counted", path |-> caller[c].path, over |-> 1 > L!Limit(Head(caller[c].path))]
  <2>1. /\ L!Set(c, x) /\ count' = count /\ orphaned' = orphaned
        /\ expiring' = expiring \cup {Head(caller[c].path)}
    BY <1>5 DEF L!SetExpiry
  <2> HIDE DEF x
  <2>2. \A d \in Callers, k \in L!Keys : First(d, k) => First(d, k)' \/ k \in expiring'
    BY <1>a, <2>1 DEF First
  <2> QED  BY <2>1, <2>2 DEF WindowEnds
<1>6. ASSUME NEW c \in Callers, L!Fail(c) PROVE WindowEnds'
  <2>1. /\ L!Set(c, L!Idle) /\ count' = count /\ expiring' = expiring
        /\ orphaned' = IF caller[c].st = "first" THEN orphaned \cup {Head(caller[c].path)} ELSE orphaned
    BY <1>6 DEF L!Fail
  <2>2. \A d \in Callers, k \in L!Keys : First(d, k) => First(d, k)' \/ k \in orphaned'
    BY <1>a, <2>1 DEF First
  <2> QED  BY <2>1, <2>2 DEF WindowEnds
<1>7. ASSUME NEW k \in L!Keys, L!Expire(k) PROVE WindowEnds'
  <2>1. /\ count' = [count EXCEPT ![k] = 0] /\ expiring' = expiring \ {k}
        /\ caller' = caller /\ orphaned' = orphaned
    BY <1>7 DEF L!Expire
  <2>2. \A j \in L!Keys : count'[j] > 0 => j # k /\ count[j] > 0
    BY <1>0, <2>1
  <2> QED  BY <2>1, <2>2 DEF WindowEnds, First
<1>8. CASE UNCHANGED L!vars
  BY <1>8 DEF L!vars, WindowEnds, First
<1> QED  BY <1>1, <1>2, <1>3, <1>4, <1>5, <1>6, <1>7, <1>8 DEF L!Next

\* Nobody is turned away for good: a counter that has begun to count either
\* has its expiry, or is about to get it, or is one whose first request failed
\* between INCR and EXPIRE.
THEOREM WindowsHaveAnEnd == ASSUME L!SoundConstants PROVE L!Spec => []WindowEnds
<1>1. L!Init => WindowEnds
  BY DEF L!Init, WindowEnds
<1>2. L!SoundConstants /\ LimitInv /\ WindowEnds /\ [L!Next]_L!vars => WindowEnds'
  BY WindowKept
<1> QED  BY <1>1, <1>2, LimitsInit, LimitsNext, PTL DEF L!Spec

-----------------------------------------------------------------------------
\* The four side by side, however their steps interleave.
THEOREM AllTyped ==
    ASSUME N!SoundConstants, K!SoundConstants, L!SoundConstants
    PROVE  Spec /\ N!Spec /\ K!Spec /\ L!Spec => []TypesOK
<1>1. TypeOK /\ N!TypeOK /\ K!TypeOK /\ L!TypeOK => TypesOK
  BY DEF TypesOK
<1> QED  BY <1>1, TypeCorrect, NotificationsTyped, KnowledgeTyped, LimitsTyped, PTL

=============================================================================
