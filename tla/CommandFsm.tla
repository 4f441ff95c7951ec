----------------------------- MODULE CommandFsm -----------------------------
(* The state machines behind the commands of a workflow (worker/workflow/      *)
(* machines): for each kind its transitions (the rows <<from, event, to>> of   *)
(* its fsm!), the history events it converts, and what its handlers answer.    *)
(*                                                                             *)
(* A machine is a record                                                       *)
(*   k     its kind            typ  its cancellation type ("none" if it has no *)
(*   op    what it is for           such thing)                                *)
(*   st    its state           f    the flags of its state and shared state    *)
(*   at    the event id it keeps (scheduled_event_id, started_event_id)        *)
(* `Schedule` is taken when a machine is created, so `Created` is left out.    *)
(* Events come with what they carry: x.id, x.op and x.r are the id, the        *)
(* operation and the result.                                                   *)
(*                                                                             *)
(* Responses are <<"job", result>> (PushWFJob), <<"cmd", event>>               *)
(* (IssueNewCommand, named by the event that handle_command makes of it),      *)
(* <<"core", kind>> (NewCoreOriginatedCommand),                                *)
(* <<"started", id>> (TriggerWFTaskStarted), <<"msg", what>> (IssueNewMessage)  *)
(* and, for local activities, <<"la", "queue" | "cancel" | "abandon">>.        *)
EXTENDS Naturals, Sequences, SequencesExt

Job(result) == <<"job", result>>
Cmd(type) == <<"cmd", type>>

(* An event that leaves each of the states as it is *)
Stays(states, ev) == {<<s, ev, s>> : s \in states}

ActivityTypes == {"TryCancel", "WaitCancellationCompleted", "Abandon"}
ChildTypes == ActivityTypes \cup {"WaitCancellationRequested"}
-----------------------------------------------------------------------------
TimerFsm ==
  {<<"StartCommandCreated", "TimerStarted", "StartCommandRecorded">>,
   <<"StartCommandCreated", "Cancel", "Canceled">>,
   <<"StartCommandRecorded", "TimerFired", "Fired">>,
   <<"StartCommandRecorded", "Cancel", "CancelTimerCommandCreated">>,
   <<"CancelTimerCommandCreated", "CommandCancelTimer", "CancelTimerCommandSent">>,
   <<"CancelTimerCommandSent", "TimerCanceled", "Canceled">>}
  \cup Stays({"StartCommandCreated"}, "CommandStartTimer")
  \cup Stays({"CancelTimerCommandCreated", "Canceled", "Fired"}, "Cancel")

TimerEvents == {"TimerStarted", "TimerCanceled", "TimerFired"}

TimerCancelOut(m) == IF m.st = "StartCommandRecorded" THEN <<Cmd("CommandCancelTimer")>> ELSE <<>>

TimerOut(m, ev) ==
  CASE ev = "TimerFired" -> <<Job("fired")>>
    [] ev = "Cancel" -> TimerCancelOut(m)
    [] OTHER -> <<>>
-----------------------------------------------------------------------------
ActivityFsm ==
  {<<"ScheduleCommandCreated", "ActivityTaskScheduled", "ScheduledEventRecorded">>,
   <<"ScheduleCommandCreated", "Cancel", "Canceled">>,
   <<"ScheduledEventRecorded", "ActivityTaskStarted", "Started">>,
   <<"ScheduledEventRecorded", "ActivityTaskTimedOut", "TimedOut">>,
   <<"ScheduledEventRecorded", "Cancel", "ScheduledActivityCancelCommandCreated">>,
   <<"Started", "Cancel", "StartedActivityCancelCommandCreated">>,
   <<"ScheduledActivityCancelCommandCreated", "ActivityTaskCancelRequested",
     "ScheduledActivityCancelEventRecorded">>,
   <<"ScheduledActivityCancelEventRecorded", "ActivityTaskCanceled", "Canceled">>,
   <<"ScheduledActivityCancelEventRecorded", "ActivityTaskStarted",
     "StartedActivityCancelEventRecorded">>,
   <<"ScheduledActivityCancelEventRecorded", "ActivityTaskTimedOut", "TimedOut">>,
   <<"StartedActivityCancelCommandCreated", "ActivityTaskCancelRequested",
     "StartedActivityCancelEventRecorded">>,
   <<"StartedActivityCancelEventRecorded", "ActivityTaskCanceled", "Canceled">>}
  \cup {<<s, "Abandon", "Canceled">> :
          s \in {"ScheduleCommandCreated", "ScheduledEventRecorded", "Started"}}
  \cup UNION {{<<s, "ActivityTaskCompleted", "Completed">>,
               <<s, "ActivityTaskFailed", "Failed">>,
               <<s, "ActivityTaskTimedOut", "TimedOut">>} :
                s \in {"Started", "StartedActivityCancelEventRecorded"}}
  \cup Stays({"ScheduleCommandCreated"}, "CommandScheduleActivityTask")
  \cup Stays({"ScheduledActivityCancelCommandCreated", "StartedActivityCancelCommandCreated"},
             "CommandRequestCancelActivityTask")
  \cup Stays({"Canceled"}, "ActivityTaskStarted")
  \cup Stays({"Canceled"}, "ActivityTaskCompleted")

ActivityEvents ==
  {"ActivityTaskScheduled", "ActivityTaskStarted", "ActivityTaskCompleted",
   "ActivityTaskFailed", "ActivityTaskTimedOut", "ActivityTaskCancelRequested",
   "ActivityTaskCanceled"}

(* ActivityMachine::cancel: ignored once resolved, otherwise Cancel or Abandon *)
ActivityCancelIgnored(m) == m.st \in {"Completed", "Canceled", "Failed", "TimedOut"}

ActivityCancelEvent(m) == IF m.typ = "Abandon" THEN "Abandon" ELSE "Cancel"

(* create_request_cancel_activity_task_command, notify_lang_activity_cancelled *)
ActivityRequestCancel == <<Cmd("CommandRequestCancelActivityTask")>>
ActivityCancelled == <<Job("cancelled")>>

(* on_canceled, on_abandoned and machine_responses_from_cancel_request *)
ActivityCancelOut(m) ==
  IF m.typ = "Abandon" \/ m.st = "ScheduleCommandCreated" THEN ActivityCancelled
  ELSE ActivityRequestCancel
       \o (IF m.typ = "WaitCancellationCompleted" THEN <<>> ELSE ActivityCancelled)

(* notify_if_not_already_cancelled *)
NotifyOnce_Mut(m, result) == <<Job(result)>>

NotifyOnce(m, result) ==
  IF /\ m.st \in {"ScheduledActivityCancelEventRecorded", "StartedActivityCancelEventRecorded"}
     /\ m.typ = "TryCancel"
    THEN <<>> ELSE <<Job(result)>>

(* adapt_response: how lang is told *)
ActivityResolution ==
  [ActivityTaskCompleted |-> "completed", ActivityTaskFailed |-> "failed",
   ActivityTaskTimedOut |-> "failed", ActivityTaskCanceled |-> "cancelled"]

ActivityOut(m, ev) ==
  CASE ev \in {"Cancel", "Abandon"} -> ActivityCancelOut(m)
    [] ev \in DOMAIN ActivityResolution /\ m.st # "Canceled" ->
         NotifyOnce(m, ActivityResolution[ev])
    [] OTHER -> <<>>

(* Canceled::on_activity_task_started and on_activity_task_completed *)
ActivityRefuses(m, ev) == m.st = "Canceled" /\ m.typ # "Abandon"
-----------------------------------------------------------------------------
ChildClosed ==
  {"ChildCompleted", "ChildFailed", "ChildTimedOut", "ChildTerminated"}

ChildFsm(typ) ==
  {<<"StartCommandCreated", "StartChildInitiated", "StartEventRecorded">>,
   <<"StartCommandCreated", "Cancel", "Cancelled">>,
   <<"StartEventRecorded", "ChildStarted", "Started">>,
   <<"StartEventRecorded", "StartChildFailed", "StartFailed">>,
   <<"Started", "ChildCompleted", "Completed">>,
   <<"Started", "ChildFailed", "Failed">>,
   <<"Started", "ChildTimedOut", "TimedOut">>,
   <<"Started", "ChildTerminated", "Terminated">>,
   <<"Started", "ChildCancelled", "Cancelled">>,
   <<"Started", "Cancel", IF typ \in {"Abandon", "TryCancel"} THEN "Cancelled" ELSE "Started">>}
  \cup Stays({"StartCommandCreated"}, "CommandStartChild")
  \cup Stays({"Started"}, "CommandRequestCancelExternal")
  \cup UNION {Stays({"Cancelled"}, ev) : ev \in ChildClosed \cup {"ChildCancelled"}}
  \cup Stays({"Cancelled", "Failed", "StartFailed", "TimedOut", "Completed"}, "Cancel")

ChildEvents ==
  ChildClosed \cup {"StartChildInitiated", "ChildStarted", "StartChildFailed", "ChildCancelled"}

(* adapt_response: how lang is told *)
ChildResolution ==
  [ChildStarted |-> "started", StartChildFailed |-> "startFailed", ChildCompleted |-> "completed",
   ChildFailed |-> "failed", ChildTimedOut |-> "failed", ChildTerminated |-> "failed",
   ChildCancelled |-> "cancelled"]

ChildIssueCancel(m) ==
  (IF m.typ # "Abandon" THEN <<<<"core", "cancelExternal">>>> ELSE <<>>)
  \o (IF m.typ \in {"Abandon", "TryCancel"} THEN <<Job("cancelled")>> ELSE <<>>)

ChildStartCancelled == <<Job("startCancelled")>>

(* ChildWorkflowMachine::cancel *)
ChildCancelOut(m) ==
  CASE m.st = "StartCommandCreated" -> ChildStartCancelled
    [] m.st = "Started" -> ChildIssueCancel(m)
    [] OTHER -> <<>>

ChildOut(m, ev) ==
  CASE ev = "Cancel" -> ChildCancelOut(m)
    [] ev \in DOMAIN ChildResolution /\ m.st # "Cancelled" -> <<Job(ChildResolution[ev])>>
    [] OTHER -> <<>>

(* The handlers of Cancelled *)
ChildRefuses(m, ev) ==
  /\ m.st = "Cancelled"
  /\ \/ ev \in ChildClosed /\ m.typ # "Abandon"
     \/ ev = "ChildCancelled" /\ "cancelSeen" \in m.f
-----------------------------------------------------------------------------
NexusClosed == {"NexusCompleted", "NexusFailed", "NexusCanceled", "NexusTimedOut"}

NexusFsm ==
  {<<"ScheduleCommandCreated", "NexusOperationScheduled", "ScheduledEventRecorded">>,
   <<"ScheduleCommandCreated", "Cancel", "Cancelled">>,
   <<"ScheduledEventRecorded", "NexusStarted", "Started">>}
  \cup UNION {{<<s, "NexusCompleted", "Completed">>, <<s, "NexusFailed", "Failed">>,
               <<s, "NexusCanceled", "Cancelled">>, <<s, "NexusTimedOut", "TimedOut">>} :
                s \in {"ScheduledEventRecorded", "Started"}}
  \cup Stays({"ScheduleCommandCreated"}, "CommandScheduleNexusOperation")
  \cup Stays({"ScheduledEventRecorded", "Started"}, "CommandRequestCancelNexusOperation")
  \cup Stays({"ScheduledEventRecorded", "Started"}, "NexusOperationCancelRequested")
  \cup Stays({"ScheduledEventRecorded", "Started", "Completed", "Failed", "Cancelled",
              "TimedOut"}, "Cancel")

NexusEvents ==
  NexusClosed \cup {"NexusOperationScheduled", "NexusStarted", "NexusOperationCancelRequested"}

(* on_cancelled, on_issue_cancel *)
NexusCancelOut(m) ==
  CASE m.st = "ScheduleCommandCreated" -> <<Job("startCancelled"), Job("cancelled")>>
    [] m.st \in {"ScheduledEventRecorded", "Started"} /\ "cancelSent" \notin m.f ->
         <<Cmd("CommandRequestCancelNexusOperation")>>
    [] OTHER -> <<>>

(* adapt_response: how lang is told *)
NexusResolution ==
  [NexusCompleted |-> "completed", NexusFailed |-> "failed", NexusCanceled |-> "cancelled",
   NexusTimedOut |-> "failed"]

(* A result without a start: lang is told of the start first. *)
NexusOut(m, ev) ==
  CASE ev = "Cancel" -> NexusCancelOut(m)
    [] ev = "NexusStarted" -> <<Job("started")>>
    [] ev \in NexusClosed ->
         (IF m.st = "ScheduledEventRecorded" THEN <<Job("started")>> ELSE <<>>)
         \o <<Job(NexusResolution[ev])>>
    [] OTHER -> <<>>
-----------------------------------------------------------------------------
SignalExternalFsm ==
  {<<"SignalExternalCommandCreated", "Cancel", "Cancelled">>,
   <<"SignalExternalCommandCreated", "SignalExternalInitiated", "SignalExternalCommandRecorded">>,
   <<"SignalExternalCommandRecorded", "ExternalSignaled", "Signaled">>,
   <<"SignalExternalCommandRecorded", "SignalExternalFailed", "Failed">>}
  \cup Stays({"SignalExternalCommandCreated"}, "CommandSignalExternal")
  \cup Stays({"SignalExternalCommandRecorded", "Cancelled", "Signaled"}, "Cancel")

SignalExternalEvents == {"SignalExternalInitiated", "ExternalSignaled", "SignalExternalFailed"}

(* adapt_response and cancel: how lang is told *)
SignalExternalResolution ==
  [ExternalSignaled |-> "completed", SignalExternalFailed |-> "failed", Cancel |-> "cancelled"]

SignalExternalOut(m, ev) ==
  IF /\ ev \in DOMAIN SignalExternalResolution
     /\ ev = "Cancel" => m.st = "SignalExternalCommandCreated"
    THEN <<Job(SignalExternalResolution[ev])>> ELSE <<>>

CancelExternalFsm ==
  {<<"CommandCreated", "RequestCancelExternalInitiated", "CommandRecorded">>,
   <<"CommandRecorded", "ExternalCancelRequested", "CancelRequested">>,
   <<"CommandRecorded", "RequestCancelExternalFailed", "RequestCancelFailed">>}
  \cup Stays({"CommandCreated"}, "CommandRequestCancelExternal")

CancelExternalEvents ==
  {"RequestCancelExternalInitiated", "ExternalCancelRequested", "RequestCancelExternalFailed"}

CancelExternalResolution ==
  [ExternalCancelRequested |-> "completed", RequestCancelExternalFailed |-> "failed"]

CancelExternalOut(m, ev) ==
  IF ev \in DOMAIN CancelExternalResolution THEN <<Job(CancelExternalResolution[ev])>> ELSE <<>>
-----------------------------------------------------------------------------
LocalActivityFsm ==
  {<<"RequestSent", "HandleResult", "MarkerCommandCreated">>,
   <<"RequestSent", "NoWaitCancel", "MarkerCommandCreated">>,
   <<"MarkerCommandCreated", "CommandRecordMarker", "ResultNotified">>,
   <<"WaitingMarkerEvent", "StartedNonReplayWFT", "RequestSent">>}
  \cup {<<s, "MarkerRecorded", "MarkerCommandRecorded">> :
          s \in {"ResultNotified", "WaitingMarkerEvent", "WaitingMarkerEventPreResolved"}}
  \cup Stays({"WaitingMarkerEvent"}, "HandleKnownResult")
  \cup Stays({"RequestSent", "WaitingMarkerEvent", "WaitingMarkerEventPreResolved",
              "MarkerCommandRecorded"}, "Cancel")
  \cup Stays({"WaitingMarkerEvent", "WaitingMarkerEventPreResolved", "MarkerCommandRecorded"},
             "NoWaitCancel")
  \cup Stays({"MarkerCommandCreated", "ResultNotified", "MarkerCommandRecorded"}, "HandleResult")

(* LocalActivityMachine::cancel *)
LocalActivityCancelEvent(m) ==
  IF m.typ \in {"TryCancel", "Abandon"} THEN "NoWaitCancel" ELSE "Cancel"

(* adapt_response of Resolved: the marker is recorded unless the activity was  *)
(* invoked while replaying.                                                    *)
LocalActivityResolved(m, result) ==
  <<Job(result)>>
  \o (IF m.typ = "Abandon" /\ result = "cancelled" THEN <<<<"la", "abandon">>>> ELSE <<>>)
  \o (IF "replayed" \in m.f THEN <<>> ELSE <<Cmd("CommandRecordMarker")>>)

(* A cancel with the local activity requested, and with its result recorded *)
LocalActivityAskCancel(m, ev) ==
  IF ev = "Cancel" \/ m.typ = "TryCancel" THEN <<<<"la", "cancel">>>> ELSE <<>>

LocalActivityCancelSent(m, ev) ==
  LocalActivityAskCancel(m, ev)
  \o (IF ev = "NoWaitCancel" THEN LocalActivityResolved(m, "cancelled") ELSE <<>>)

LocalActivityCancelOut(m, ev) ==
  CASE m.st = "WaitingMarkerEventPreResolved" -> <<>>
    [] m.st = "WaitingMarkerEvent" -> <<<<"la", "cancel">>>>
    [] m.st = "RequestSent" -> LocalActivityCancelSent(m, ev)
    [] OTHER -> LocalActivityAskCancel(m, ev)

(* The state a schedule ends in *)
LocalActivityScheduled(replaying, preresolved) ==
  CASE ~replaying -> "RequestSent"
    [] replaying /\ ~preresolved -> "WaitingMarkerEvent"
    [] replaying /\ preresolved -> "WaitingMarkerEventPreResolved"

(* _try_resolve *)
ResolveEvent(fromMarker) == IF fromMarker THEN "HandleKnownResult" ELSE "HandleResult"

(* The result a marker keeps: a payload or a failure.  A failure whose info    *)
(* says canceled is a cancellation again when the marker is read.              *)
MarkerResult(result) ==
  CASE result = "completed" -> "payload"
    [] result = "cancelled" -> "canceledFailure"
    [] result = "failed" -> "failure"

ResolveDat(marker) ==
  CASE marker = "payload" -> "completed"
    [] marker = "canceledFailure" -> "cancelled"
    [] marker = "failure" -> "failed"

LocalActivityEvent(e) == e.t = "MarkerRecorded" /\ e.mark = "la"

LocalActivityOut(m, ev, x) ==
  CASE ev \in {"Cancel", "NoWaitCancel"} -> LocalActivityCancelOut(m, ev)
    [] ev = "HandleResult" /\ m.st = "RequestSent" -> LocalActivityResolved(m, x.r)
    [] ev = "HandleKnownResult" -> LocalActivityResolved(m, x.r)
    [] ev = "MarkerRecorded" /\ m.st = "WaitingMarkerEvent" /\ "resolved" \notin m.f ->
         LocalActivityResolved(m, ResolveDat(x.r))
    [] ev = "StartedNonReplayWFT" -> <<<<"la", "queue">>>>
    [] OTHER -> <<>>

(* ResultNotified::on_marker_recorded and verify_marker_data_matches; the      *)
(* result that was reported is kept as a flag                                  *)
LocalActivityRefuses(m, ev, x) ==
  /\ ev = "MarkerRecorded"
  /\ \/ x.op # m.op
     \/ m.st = "ResultNotified" /\ "completed" \in m.f /\ x.r # "payload"
     \/ m.st = "ResultNotified" /\ "failed" \in m.f /\ x.r = "payload"

(* marker_should_get_special_handling *)
MarkerSpecial(m) == m.st \in {"WaitingMarkerEvent", "WaitingMarkerEventPreResolved"}

MarkerExpected(m) == MarkerSpecial(m) \/ m.st = "ResultNotified"

(* will_accept_resolve_marker *)
WillAcceptResolveMarker(m) == m.st = "WaitingMarkerEvent"
-----------------------------------------------------------------------------
(* An update: created for a request, answered by lang.  The second answer of   *)
(* lang may be a failure (Reject), which is a result like any other.           *)
UpdateFsm ==
  {<<"RequestInitiated", "Accept", "Accepted">>,
   <<"RequestInitiated", "Reject", "Rejected">>,
   <<"Accepted", "CommandProtocolMessage", "AcceptCommandCreated">>,
   <<"AcceptCommandCreated", "UpdateAccepted", "AcceptCommandRecorded">>,
   <<"Completed", "CommandProtocolMessage", "CompletedCommandCreated">>,
   <<"CompletedCommandCreated", "UpdateCompleted", "CompletedCommandRecorded">>,
   <<"CompletedImmediately", "CommandProtocolMessage", "CompletedImmediatelyAcceptCreated">>,
   <<"CompletedImmediatelyAcceptCreated", "CommandProtocolMessage",
     "CompletedImmediatelyCompleteCreated">>,
   <<"CompletedImmediatelyCompleteCreated", "UpdateAccepted", "CompletedCommandCreated">>}
  \cup UNION {{<<"Accepted", ev, "CompletedImmediately">>,
               <<"AcceptCommandCreated", ev, "CompletedImmediatelyAcceptCreated">>,
               <<"AcceptCommandRecorded", ev, "Completed">>} : ev \in {"Complete", "Reject"}}

UpdateEvents == {"UpdateAccepted", "UpdateCompleted"}

(* build_command_msg, build_msg *)
CommandMsg(what) == <<<<"msg", what>>, Cmd("CommandProtocolMessage")>>

(* adapt_response: a rejection is a message without a command, and leaves no   *)
(* event in history                                                            *)
UpdateAdapted(what) == IF what = "reject" THEN <<<<"msg", what>>>> ELSE CommandMsg(what)

UpdateOut(m, ev) ==
  CASE ev = "Accept" -> UpdateAdapted("accept")
    [] ev = "Reject" /\ m.st = "RequestInitiated" -> UpdateAdapted("reject")
    [] ev \in {"Complete", "Reject"} /\ m.st # "RequestInitiated" -> UpdateAdapted("complete")
    [] OTHER -> <<>>
-----------------------------------------------------------------------------
PatchFsm ==
  {<<"MarkerCommandCreated", "CommandRecordMarker", "Notified">>,
   <<"MarkerCommandCreatedReplaying", "CommandRecordMarker", "Notified">>,
   <<"Notified", "MarkerRecorded", "MarkerCommandRecorded">>}

(* Notified::on_marker_recorded *)
PatchRefuses(m, ev, x) == ev = "MarkerRecorded" /\ x.op # m.op

PatchEvent(e) == e.t = "MarkerRecorded" /\ e.mark = "patch"

(* The commands that end a workflow: a command and its event *)
TerminalFsm(event) ==
  {<<"CommandCreated", event, "CommandRecorded">>} \cup Stays({"CommandCreated"}, "CommandEnd")

TerminalEvent ==
  [complete |-> "WorkflowExecutionCompleted", fail |-> "WorkflowExecutionFailed",
   cancelWorkflow |-> "WorkflowExecutionCanceled",
   continueAsNew |-> "WorkflowExecutionContinuedAsNew"]

Terminal == DOMAIN TerminalEvent

CompleteWorkflowFsm == TerminalFsm(TerminalEvent.complete)
FailWorkflowFsm == TerminalFsm(TerminalEvent.fail)
CancelWorkflowFsm == TerminalFsm(TerminalEvent.cancelWorkflow)
ContinueAsNewFsm == TerminalFsm(TerminalEvent.continueAsNew)

(* The commands that are over once recorded *)
IssuedFsm(event) ==
  {<<"Created", "CommandScheduled", "CommandIssued">>, <<"CommandIssued", event, "Done">>}

UpsertSearchAttributesFsm == IssuedFsm("UpsertSearchAttributes")
ModifyWorkflowPropertiesFsm == IssuedFsm("PropertiesModified")

WorkflowTaskFsm ==
  {<<"Created", "WorkflowTaskScheduled", "Scheduled">>,
   <<"Scheduled", "WorkflowTaskStarted", "Started">>,
   <<"Scheduled", "WorkflowTaskTimedOut", "TimedOut">>,
   <<"Started", "WorkflowTaskCompleted", "Completed">>,
   <<"Started", "WorkflowTaskFailed", "Failed">>,
   <<"Started", "WorkflowTaskTimedOut", "TimedOut">>}

WorkflowTaskEvents ==
  {"WorkflowTaskScheduled", "WorkflowTaskStarted", "WorkflowTaskTimedOut",
   "WorkflowTaskCompleted", "WorkflowTaskFailed"}

(* adapt_response drops the trigger of a started event before the one to come. *)
StartedTrigger(ev, x, started) ==
  IF ev = "WorkflowTaskStarted" /\ x.id < started THEN <<>> ELSE <<<<"started", started>>>>

(* on_workflow_task_started, on_workflow_task_completed *)
WorkflowTaskOut(m, ev, x) ==
  CASE ev = "WorkflowTaskStarted" -> StartedTrigger(ev, x, m.op)
    [] ev = "WorkflowTaskCompleted" -> StartedTrigger(ev, x, m.at)
    [] OTHER -> <<>>
-----------------------------------------------------------------------------
(* The state a machine is created in, with the command it is created with *)
Created(st, ev) == [st |-> st, ev |-> ev]

NewTimer == Created("StartCommandCreated", "CommandStartTimer")
NewActivity == Created("ScheduleCommandCreated", "CommandScheduleActivityTask")
NewChild == Created("StartCommandCreated", "CommandStartChild")
NewNexusOperation == Created("ScheduleCommandCreated", "CommandScheduleNexusOperation")
NewSignalExternal == Created("SignalExternalCommandCreated", "CommandSignalExternal")
NewCancelExternal == Created("CommandCreated", "CommandRequestCancelExternal")
NewIssued == Created("Created", "CommandScheduled")
NewTerminal == Created("CommandCreated", "CommandEnd")
NewWorkflowTask == Created("Created", "WorkflowTaskScheduled")
NewUpdate == Created("RequestInitiated", "none")

First ==
  [timer |-> NewTimer, activity |-> NewActivity, child |-> NewChild,
   nexus |-> NewNexusOperation, signalExternal |-> NewSignalExternal,
   cancelExternal |-> NewCancelExternal, upsert |-> NewIssued, modify |-> NewIssued,
   complete |-> NewTerminal, fail |-> NewTerminal, cancelWorkflow |-> NewTerminal,
   continueAsNew |-> NewTerminal]

Kinds == DOMAIN First \cup {"patch", "localActivity", "update", "workflowTask"}

Types == ChildTypes \cup {"none"}

FsmOf(k, typ) ==
  CASE k = "timer"          -> TimerFsm
    [] k = "activity"       -> ActivityFsm
    [] k = "child"          -> ChildFsm(typ)
    [] k = "nexus"          -> NexusFsm
    [] k = "signalExternal" -> SignalExternalFsm
    [] k = "cancelExternal" -> CancelExternalFsm
    [] k = "localActivity"  -> LocalActivityFsm
    [] k = "patch"          -> PatchFsm
    [] k = "upsert"         -> UpsertSearchAttributesFsm
    [] k = "modify"         -> ModifyWorkflowPropertiesFsm
    [] k = "update"         -> UpdateFsm
    [] k = "workflowTask"   -> WorkflowTaskFsm
    [] k = "complete"       -> CompleteWorkflowFsm
    [] k = "fail"           -> FailWorkflowFsm
    [] k = "cancelWorkflow" -> CancelWorkflowFsm
    [] k = "continueAsNew"  -> ContinueAsNewFsm

Fsm == [k \in Kinds |-> [typ \in Types |-> FsmOf(k, typ)]]

(* TryFrom<HistEventData>: a marker is converted only by the machine it is for *)
Converts(m, e) ==
  CASE m.k = "timer"          -> e.t \in TimerEvents
    [] m.k = "activity"       -> e.t \in ActivityEvents
    [] m.k = "child"          -> e.t \in ChildEvents
    [] m.k = "nexus"          -> e.t \in NexusEvents
    [] m.k = "signalExternal" -> e.t \in SignalExternalEvents
    [] m.k = "cancelExternal" -> e.t \in CancelExternalEvents
    [] m.k = "localActivity"  -> LocalActivityEvent(e)
    [] m.k = "patch"          -> PatchEvent(e)
    [] m.k = "upsert"         -> e.t = "UpsertSearchAttributes"
    [] m.k = "modify"         -> e.t = "PropertiesModified"
    [] m.k = "update"         -> e.t \in UpdateEvents
    [] m.k = "workflowTask"   -> e.t \in WorkflowTaskEvents
    [] OTHER                  -> e.t = TerminalEvent[m.k]

Out(m, ev, x) ==
  CASE m.k = "timer"          -> TimerOut(m, ev)
    [] m.k = "activity"       -> ActivityOut(m, ev)
    [] m.k = "child"          -> ChildOut(m, ev)
    [] m.k = "nexus"          -> NexusOut(m, ev)
    [] m.k = "signalExternal" -> SignalExternalOut(m, ev)
    [] m.k = "cancelExternal" -> CancelExternalOut(m, ev)
    [] m.k = "localActivity"  -> LocalActivityOut(m, ev, x)
    [] m.k = "update"         -> UpdateOut(m, ev)
    [] m.k = "workflowTask"   -> WorkflowTaskOut(m, ev, x)
    [] OTHER                  -> <<>>

Refuses(m, ev, x) ==
  CASE m.k = "activity"      -> ActivityRefuses(m, ev)
    [] m.k = "child"         -> ChildRefuses(m, ev)
    [] m.k = "localActivity" -> LocalActivityRefuses(m, ev, x)
    [] m.k = "patch"         -> PatchRefuses(m, ev, x)
    [] OTHER                 -> FALSE

(* cancelled_before_sent, seen_cancelled_event, cancel_sent, already_resolved, *)
(* replaying_when_invoked and the result type of a local activity              *)
FlagsAfter(m, ev, x) ==
  CASE ev \in {"Cancel", "Abandon"}
         /\ m.st \in {"StartCommandCreated", "ScheduleCommandCreated"} -> m.f \cup {"beforeSent"}
    [] ev = "Cancel" /\ m.k = "nexus" /\ m.st # "ScheduleCommandCreated" -> m.f \cup {"cancelSent"}
    [] ev = "ChildCancelled" -> m.f \cup {"cancelSeen"}
    [] ev = "HandleKnownResult" -> m.f \cup {"resolved"}
    [] ev = "StartedNonReplayWFT" -> m.f \ {"replayed"}
    [] ev = "HandleResult" /\ m.st = "RequestSent" -> m.f \cup {x.r}
    [] ev = "NoWaitCancel" /\ m.st = "RequestSent" -> m.f \cup {"cancelled"}
    [] OTHER -> m.f

Keeps == {"ActivityTaskScheduled", "NexusOperationScheduled", "StartChildInitiated",
          "WorkflowTaskStarted"}

(* was_cancelled_before_sent_to_server *)
CancelledBeforeSent_Mut(m) == m.k = "signalExternal" /\ m.st = "Cancelled"

CancelledBeforeSent(m) ==
  "beforeSent" \in m.f \/ (m.k = "signalExternal" /\ m.st = "Cancelled")

(* is_final_state: no transition leaves it *)
IsFinal(m) == \A row \in Fsm[m.k][m.typ] : row[1] # m.st

(* TransitionResult: Ok has the new state and the answers of the handler; an   *)
(* invalid transition or an error of the handler (`bad`) changes and answers   *)
(* nothing                                                                     *)
Transition(m, out) == [bad |-> "none", m |-> m, out |-> out]
NoTransition(m, why) == [bad |-> why, m |-> m, out |-> <<>>]

(* on_event_mut: the machine after ev, and what it answers *)
OnEvent(m, ev, x) ==
  LET rows == {row \in Fsm[m.k][m.typ] : row[1] = m.st /\ row[2] = ev}
  IN IF rows = {} THEN NoTransition(m, "invalid")
     ELSE IF Refuses(m, ev, x) THEN NoTransition(m, "refused")
     ELSE Transition([m EXCEPT !.st = (CHOOSE row \in rows : TRUE)[3],
                               !.f = FlagsAfter(m, ev, x),
                               !.at = IF ev \in Keeps THEN x.id ELSE @],
                     Out(m, ev, x))
=============================================================================
