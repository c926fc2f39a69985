---------------------------- MODULE AlertEngine ----------------------------
(***************************************************************************)
(* The alert engine's processes around the alerts themselves: replicas     *)
(* that evaluate events, workers that dispatch notifications, and the      *)
(* requests that set up rules and channels.                                *)
(*                                                                         *)
(* They meet in rows that each reads once per evaluation, run or request,  *)
(* and each part lets those rows be anything, so that they are checked one *)
(* at a time: "focus" is chosen at the start and only the part it names    *)
(* takes steps.                                                            *)
(***************************************************************************)
EXTENDS AlertRules, NotificationDispatch, AlertSettings

VARIABLE focus  \* the part that takes steps

engineVars == <<vars, dispatchVars, settingsVars, focus>>

EngineTypeOK ==
    /\ TypeOK /\ DispatchTypeOK /\ SettingsTypeOK
    /\ focus \in {"evaluation", "dispatch", "settings"}

(* Which replica a partition begins with matters to the first part alone. *)
EngineInit ==
    /\ focus \in {"evaluation", "dispatch", "settings"}
    /\ Init /\ DispatchInit /\ SettingsInit
    /\ focus # "evaluation" =>
          owner = [p \in Partitions |-> CHOOSE c \in Replicas : TRUE]

Evaluating ==
    focus = "evaluation" /\ Next /\ UNCHANGED <<dispatchVars, settingsVars>>
Dispatching ==
    focus = "dispatch" /\ DispatchNext /\ UNCHANGED <<vars, settingsVars>>
Editing ==
    focus = "settings" /\ SettingsNext /\ UNCHANGED <<vars, dispatchVars>>

EngineNext == UNCHANGED focus /\ (Evaluating \/ Dispatching \/ Editing)

EngineSpec == EngineInit /\ [][EngineNext]_engineVars

(* A running loop takes the next step of its evaluation, and the group
   reassigns the partitions of a replica that is gone; nothing restarts a
   loop that ended. *)
EvaluationFairness ==
    /\ \A c \in Replicas : WF_vars(focus = "evaluation" /\ Step(c))
    /\ \A p \in Partitions :
          WF_vars(/\ focus = "evaluation" /\ owner[p] \notin up
                  /\ \E c \in Replicas : Assign(p, c))

(* Workers keep running, the broker redelivers, and PostgreSQL breaks
   deadlocks. *)
DispatchFairness ==
    /\ \A w \in Workers :
          /\ WF_dispatchVars(focus = "dispatch" /\ Run(w))
          /\ WF_dispatchVars(focus = "dispatch" /\ Deadlocked(w) /\ AbortRun(w))
    /\ \A j \in Jobs, n \in 0..MaxRetries :
          WF_dispatchVars(focus = "dispatch" /\ Redeliver(j, n))

FairEngineSpec == EngineSpec /\ EvaluationFairness /\ DispatchFairness

-----------------------------------------------------------------------------
(* Consumption is at least once: while some replica runs, each event is
   evaluated, or an exception ends its evaluation.  And every task of the
   dispatch ends, but one whose child process died: runs that wait for each
   other's channels are broken up, a lost worker's message is handed out again,
   and retries run out. *)
EverythingEnds ==
    <>(\/ focus = "evaluation" /\ (up = {} \/ \A e \in Events : outcome[e] # {})
       \/ focus = "dispatch" /\ Jobs \subseteq settled \cup forgotten
       \/ focus = "settings")
=============================================================================
