------------------------------ MODULE MCWorkers ------------------------------
(* Small instances of three background workers and of what waits for a window *)
(* to end, one of them at a time:                                             *)
(* `focus` is chosen in the initial state and the others stay as they begin,  *)
(* where none of their fair actions is enabled.                               *)
(*                                                                            *)
(* The trial monitor: two ticks a day, so that a run can happen within a day  *)
(* as well as on its boundary, and a trial long enough for all three stages.  *)
(* Notifications: batches of two of three rows, readers on Telegram and not.  *)
(* Knowledge: documents of three chunks, the last shorter than the others.    *)
(* Limits: one visitor, limits of one and two, two requests.                  *)
EXTENDS Workers

VARIABLE focus

ASSUME N!SoundConstants /\ K!SoundConstants /\ L!SoundConstants

notificationVars == <<note, reachable, batch, held, newly, told, lost, crashes>>
knowledgeVars == <<doc, chunks, outcome, broken, deleting, aborts>>

limitVars == <<count, expiring, caller, orphaned>>

allVars == <<focus, vars, notificationVars, knowledgeVars, limitVars>>

FocusInit ==
    /\ focus \in {"trial", "notifications", "knowledge", "limits"}
    /\ Init /\ (focus # "trial" => bot)
    /\ N!Init /\ (focus # "notifications" => reachable = {})
    /\ K!Init /\ L!Init

FocusNext ==
    /\ UNCHANGED focus
    /\ IF focus = "trial" THEN Next ELSE UNCHANGED vars
    /\ IF focus = "notifications" THEN N!Next ELSE UNCHANGED notificationVars
    /\ IF focus = "knowledge" THEN K!Next ELSE UNCHANGED knowledgeVars
    /\ IF focus = "limits" THEN L!Next ELSE UNCHANGED limitVars

FocusSpec ==
    FocusInit /\ [][FocusNext]_allVars /\ Fairness /\ N!Fairness /\ K!Fairness
        /\ L!Fairness

=============================================================================
