---------------------------- MODULE HistoryInfo ----------------------------
(* What the replay worker makes of a recorded history (HistoryInfo in          *)
(* sdk-core-protos/src/history_info.rs): it finds the workflow task that the   *)
(* history ends with and the one before, and makes a poll response of them.    *)
EXTENDS HistoryUpdate

LostOrTerminated ==
  {"WorkflowTaskFailed", "WorkflowTaskTimedOut", "WorkflowExecutionTerminated",
   "WorkflowExecutionTimedOut"}

(* The started events that count as workflow tasks: the task was completed, or *)
(* the history ends with it                                                    *)
TasksOf(h) ==
  SetToSortSeq({n \in DOMAIN h : /\ h[n].t = "WorkflowTaskStarted"
                                 /\ TypeAt(h, n + 1) \in {"none", "WorkflowTaskCompleted"}}, <)

WellFormed(h) ==
  /\ TypeAt(h, 1) = "WorkflowExecutionStarted"
  /\ \A n \in DOMAIN h : h[n].t = "WorkflowTaskStarted" =>
       TypeAt(h, n + 1) \in {"none", "WorkflowTaskCompleted"} \cup LostOrTerminated

(* new_from_history with all of the history (no to_wf_task_num).  A history     *)
(* that ends otherwise than with a started task is one whose last task has     *)
(* been completed.                                                             *)
NewFromHistory(h) ==
  LET tasks == TasksOf(h)
      id(k) == IF k = 0 THEN 0 ELSE h[tasks[k]].id
      last == Len(tasks)
  IN [ok |-> WellFormed(h), events |-> h, started |-> id(last),
      prev |-> IF h[Len(h)].t = "WorkflowTaskStarted" THEN id(last - 1) ELSE id(last)]

(* as_poll_wft_response: all the events, and no page after them                *)
AsPollResponse(info, none) ==
  [events |-> info.events, token |-> none, prev |-> info.prev, started |-> info.started]
=============================================================================
