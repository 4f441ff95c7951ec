------------------------------ MODULE MCActivities ------------------------------
(***************************************************************************)
(* Instances of ActivityTasks: one activity that heartbeats, two that      *)
(* compete for a slot with an eager one among them, and polls that fail.   *)
(***************************************************************************)
EXTENDS ActivityTasks

CONSTANTS t1, t2

MCPlans == { [tasks |-> {t1}, beats |-> 2, reserves |-> 0, failing |-> {}, grace |-> FALSE],
             [tasks |-> {t1, t2}, beats |-> 0, reserves |-> 1, failing |-> {}, grace |-> TRUE],
             [tasks |-> {t1}, beats |-> 0, reserves |-> 2, failing |-> {Empty, Error}, grace |-> TRUE] }
===============================================================================
