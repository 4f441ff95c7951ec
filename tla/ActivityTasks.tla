----------------------------- MODULE ActivityTasks -----------------------------
(***************************************************************************)
(* WorkerActivityTasks of a worker, with its poll buffer, its permits (the *)
(* slots, and the closable dealer of eager activities), the heartbeat      *)
(* manager and the shutdown that waits for all of them.                    *)
(*                                                                         *)
(* Tasks reach lang through one stream that merges cancels, tasks returned *)
(* to workflow task completions (eager) and polled tasks, in this order of *)
(* preference.  Lang keeps polling the stream, heartbeats, and completes.  *)
(* Timers fire at any moment, so an absent timeout is one that never does. *)
(***************************************************************************)
EXTENDS Integers, Sequences, FiniteSets

CONSTANTS Task,     \* task tokens
          Slots,    \* size of the activity slot supplier
          Pollers,  \* max_pollers
          Empty,    \* the response of a long poll that timed out
          Error,    \* a failed poll
          Plans     \* whether graceful_shutdown_period is configured, and bounds:
                    \* the tasks there are, heartbeats, eager reservations, and
                    \* polls that return no task

ASSUME SlotsAssumption == Slots \in Nat \ {0} /\ Pollers \in Nat \ {0}
ASSUME TaskAssumption == Empty \notin Task /\ Error \notin Task /\ Empty # Error
ASSUME PlansAssumption ==
    Plans \subseteq [grace : BOOLEAN, tasks : SUBSET Task, beats : Nat, reserves : Nat,
                     failing : SUBSET {Empty, Error}]

VARIABLES
    srv,      \* the server's view of each activity
    poller,   \* LongPollBuffer: polls in flight and buffered responses
    eager,    \* ActivitiesFromWFTsHandle, its channel and ClosableMeteredPermitDealer
    live,     \* outstanding_activity_tasks
    info,     \* RemoteInFlightActInfo: issued_cancel_to_lang, known_not_found, timer
    cancels,  \* cancels channel
    hb,       \* ActivityHeartbeatManager
    calls,    \* calls of complete
    stream,   \* the merged stream
    down,     \* shutdown
    plan      \* what is left of the bounds

vars == <<srv, poller, eager, live, info, cancels, hb, calls, stream, down, plan>>

Reasons == {"Cancelled", "NotFound", "TimedOut", "WorkerShutdown"}
NoInfo == [issued |-> "no", notFound |-> FALSE, timer |-> FALSE]

(***************************************************************************)
(* Permits                                                                 *)
(***************************************************************************)
InCall(t) == calls[t] \in {"evicting", "evicted", "sending"}
Over(t) == calls[t] \in {"done", "forgotten"}

UsedPermits ==
    poller.polls + Cardinality({i \in DOMAIN poller.buffer : poller.buffer[i] # Error})
    + (IF eager.pc = "holds" THEN 1 ELSE 0) + Len(eager.chan)
    + Cardinality(live) + Cardinality({t \in Task : InCall(t)})

FreePermit == UsedPermits < Slots

\* on_permit_dropped
DropTracked(e) ==
    [e EXCEPT !.count = @ - 1, !.complete = @ \/ (e.requested /\ e.count = 1)]

\* ClosableMeteredPermitDealer::close, first half: the store.
RequestClose(e) == [e EXCEPT !.requested = TRUE, !.check = TRUE]

\* ClosableMeteredPermitDealer::close, second half: the load.
CloseCheck ==
    /\ eager.check
    /\ eager' = [eager EXCEPT !.check = FALSE, !.complete = @ \/ eager.count = 0]
    /\ UNCHANGED <<srv, poller, live, info, cancels, hb, calls, stream, down, plan>>

\* reserve_slot (try_acquire_owned): the load, the increment, and the attempt.
ReserveCheck ==
    /\ eager.pc = "idle" /\ ~ eager.requested /\ plan.reserves > 0
    /\ eager' = [eager EXCEPT !.pc = "checked"]
    /\ plan' = [plan EXCEPT !.reserves = @ - 1]
    /\ UNCHANGED <<srv, poller, live, info, cancels, hb, calls, stream, down>>

ReserveAdd ==
    /\ eager.pc = "checked"
    /\ eager' = [eager EXCEPT !.pc = "added", !.count = @ + 1]
    /\ UNCHANGED <<srv, poller, live, info, cancels, hb, calls, stream, down, plan>>

ReserveTry ==
    /\ eager.pc = "added"
    /\ eager' = IF FreePermit THEN [eager EXCEPT !.pc = "holds"]
                ELSE [eager EXCEPT !.pc = "idle", !.count = @ - 1]
    /\ UNCHANGED <<srv, poller, live, info, cancels, hb, calls, stream, down, plan>>

\* The completion of the workflow task returns an activity task (add_tasks), whose
\* send panics if the receiver was closed, or none.
EagerTask(t) ==
    /\ eager.pc = "holds" /\ t \in plan.tasks /\ srv[t] = "new"
    /\ srv' = [srv EXCEPT ![t] = "open"]
    /\ eager' = IF eager.closed THEN [DropTracked(eager) EXCEPT !.pc = "panicked"]
                ELSE [eager EXCEPT !.pc = "idle", !.chan = Append(@, t)]
    /\ UNCHANGED <<poller, live, info, cancels, hb, calls, stream, down, plan>>

EagerDeclined ==
    /\ eager.pc = "holds"
    /\ eager' = [DropTracked(eager) EXCEPT !.pc = "idle"]
    /\ UNCHANGED <<srv, poller, live, info, cancels, hb, calls, stream, down, plan>>

(***************************************************************************)
(* LongPollBuffer: pollers take a permit, poll, and buffer the response    *)
(* with the permit.  Shutdown ends them where they are.                    *)
(***************************************************************************)
StartPoll ==
    /\ ~ down.token /\ poller.polls < Pollers /\ FreePermit
    /\ poller' = [poller EXCEPT !.polls = @ + 1]
    /\ UNCHANGED <<srv, eager, live, info, cancels, hb, calls, stream, down, plan>>

PollReturns(r) ==
    /\ poller.polls > 0
    /\ \/ r \in plan.tasks /\ srv[r] = "new" /\ srv' = [srv EXCEPT ![r] = "open"] /\ plan' = plan
       \/ r \in plan.failing /\ plan' = [plan EXCEPT !.failing = @ \ {r}] /\ srv' = srv
    /\ poller' = [polls |-> poller.polls - 1, buffer |-> Append(poller.buffer, r)]
    /\ UNCHANGED <<eager, live, info, cancels, hb, calls, stream, down>>

(***************************************************************************)
(* Worker::initiate_shutdown                                               *)
(***************************************************************************)
Initiated ==
    /\ down' = [down EXCEPT !.token = TRUE]
    /\ poller' = [poller EXCEPT !.polls = 0]
    /\ eager' = RequestClose(eager)

InitiateShutdown ==
    /\ ~ down.token
    /\ Initiated
    /\ UNCHANGED <<srv, live, info, cancels, hb, calls, stream, plan>>

(***************************************************************************)
(* The stream (ActivityTaskStream::streamify), as polled by lang.  Its     *)
(* take_until future is polled first.                                      *)
(***************************************************************************)
Polled == stream.phase \in {"starts", "waits"}

\* PendingCancel
TakeCancel ==
    /\ Polled /\ cancels # <<>>
    /\ cancels' = Tail(cancels)
    /\ LET c == Head(cancels) IN
       info' = IF c.t \in live /\ info[c.t].issued = "no"
               THEN [info EXCEPT ![c.t] =
                       [issued |-> c.reason, timer |-> @.timer,
                        notFound |-> @.notFound \/ c.reason \in {"NotFound", "TimedOut"}]]
               ELSE info
    /\ UNCHANGED <<srv, poller, eager, live, hb, calls, stream, down, plan>>

\* PendingStart: the task becomes outstanding.  After the grace period it is
\* cancelled at once, otherwise its local timeout is started.
Started_Mut(t) ==
    /\ live' = live \cup {t}
    /\ info' = [info EXCEPT ![t] = [NoInfo EXCEPT !.timer = TRUE]]
    /\ cancels' = cancels

Started(t) ==
    /\ live' = live \cup {t}
    /\ info' = [info EXCEPT ![t] = [NoInfo EXCEPT !.timer = ~ stream.immediate]]
    /\ cancels' = IF stream.immediate
                  THEN Append(cancels, [t |-> t, reason |-> "WorkerShutdown"]) ELSE cancels

TakeEager ==
    /\ Polled /\ cancels = <<>> /\ eager.chan # <<>>
    /\ eager' = [DropTracked(eager) EXCEPT !.chan = Tail(@)]
    /\ Started(Head(eager.chan))
    /\ UNCHANGED <<srv, poller, hb, calls, stream, down, plan>>

\* A failed poll makes Worker::activity_poll shut the worker down.
TakePolled ==
    /\ Polled /\ cancels = <<>> /\ eager.chan = <<>> /\ poller.buffer # <<>>
    /\ LET r == Head(poller.buffer)
           rest == [poller EXCEPT !.buffer = Tail(@)]
       IN \/ r \in Task /\ Started(r) /\ poller' = rest /\ UNCHANGED <<eager, down>>
          \/ r = Empty /\ poller' = rest /\ UNCHANGED <<live, info, cancels, eager, down>>
          \/ /\ r = Error
             /\ down' = [down EXCEPT !.token = TRUE]
             /\ poller' = [rest EXCEPT !.polls = 0]
             /\ eager' = RequestClose(eager)
             /\ UNCHANGED <<live, info, cancels>>
    /\ UNCHANGED <<srv, hb, calls, stream, plan>>

\* The eager stream ends once the dealer's close is complete.
EagerEnds ==
    /\ Polled /\ cancels = <<>> /\ eager.chan = <<>> /\ eager.complete /\ ~ eager.closed
    /\ eager' = [eager EXCEPT !.closed = TRUE]
    /\ UNCHANGED <<srv, poller, live, info, cancels, hb, calls, stream, down, plan>>

\* start_tasks_stream_complete
StartsEnd ==
    /\ stream.phase = "starts" /\ cancels = <<>> /\ eager.closed
    /\ down.token /\ poller.buffer = <<>>
    /\ stream' = [stream EXCEPT !.phase = "check"]
    /\ UNCHANGED <<srv, poller, eager, live, info, cancels, hb, calls, down, plan>>

\* The test for outstanding tasks.  At the end poll returns PollError::ShutDown.
CheckOutstanding ==
    /\ stream.phase = "check"
    /\ stream' = [stream EXCEPT !.phase = IF live = {} THEN "ended" ELSE "waits"]
    /\ UNCHANGED <<srv, poller, eager, live, info, cancels, hb, calls, down, plan>>

\* complete_notify.notify_waiters
Notify_Mut(s) == s

Notify(s) == [s EXCEPT !.phase = IF @ = "waits" THEN "check" ELSE @]

\* The entries of the map, in the order of its iterator: any.
Orders(S) == {s \in [1 .. Cardinality(S) -> S] : \A x \in S : \E i \in DOMAIN s : s[i] = x}

\* The grace period is over.
GraceElapses ==
    /\ plan.grace /\ down.token /\ Polled /\ ~ stream.immediate
    /\ stream' = [stream EXCEPT !.immediate = TRUE]
    /\ \E s \in Orders(live) :
          cancels' = cancels \o [i \in DOMAIN s |-> [t |-> s[i], reason |-> "WorkerShutdown"]]
    /\ UNCHANGED <<srv, poller, eager, live, info, hb, calls, down, plan>>

LocalTimeout(t) ==
    /\ t \in live /\ info[t].timer
    /\ info' = [info EXCEPT ![t].timer = FALSE]
    /\ cancels' = Append(cancels, [t |-> t, reason |-> "TimedOut"])
    /\ UNCHANGED <<srv, poller, eager, live, hb, calls, stream, down, plan>>

(***************************************************************************)
(* ActivityHeartbeatManager.  hb.chan holds its actions in order; reports  *)
(* are requests to the server in flight, sleeping the throttles that run.  *)
(***************************************************************************)

\* record_heartbeat, for an activity that is outstanding.
RecordHeartbeat(t) ==
    /\ t \in live /\ plan.beats > 0
    /\ plan' = [plan EXCEPT !.beats = @ - 1]
    /\ hb' = [hb EXCEPT !.chan = Append(@, [kind |-> "send", t |-> t])]
    /\ UNCHANGED <<srv, poller, eager, live, info, cancels, calls, stream, down>>

Report(h, t) == [h EXCEPT !.reports[t] = @ + 1]

\* HeartbeatStreamState::record
Record_Mut(h, t) ==
    Report([h EXCEPT !.tracked = @ \cup {t}, !.flying = @ \cup {t}], t)

Record(h, t) ==
    IF t \in h.tracked THEN [h EXCEPT !.details = @ \cup {t}]
    ELSE Report([h EXCEPT !.tracked = @ \cup {t}, !.flying = @ \cup {t}], t)

\* handle_report_completed
ReportCompleted_Mut(h, t) ==
    IF t \in h.tracked THEN [h EXCEPT !.flying = @ \ {t}, !.sleeping = @ \cup {t}] ELSE h

ReportCompleted(h, t) ==
    LET flushed == [h EXCEPT !.flush = @ \ {t}]
    IN IF t \in h.tracked
       THEN [flushed EXCEPT !.flying = @ \ {t}, !.sleeping = @ \cup {t}] ELSE flushed

\* handle_throttle_completed
ThrottleCompleted(h, t) ==
    IF t \notin h.tracked THEN h
    ELSE IF t \in h.details
         THEN Report([h EXCEPT !.details = @ \ {t}, !.flying = @ \cup {t}], t)
         ELSE [h EXCEPT !.tracked = @ \ {t}]

\* evict
Evict(h, t) ==
    LET gone == [h EXCEPT !.tracked = @ \ {t}, !.details = @ \ {t}, !.flying = @ \ {t},
                         !.sleeping = @ \ {t}]
    IN IF t \in h.details THEN Report([gone EXCEPT !.flush = @ \cup {t}], t)
       ELSE IF t \in h.flying THEN [gone EXCEPT !.flush = @ \cup {t}]
       ELSE gone

Handled(h, m) ==
    CASE m.kind = "send" -> Record(h, m.t)
      [] m.kind = "reported" -> ReportCompleted(h, m.t)
      [] m.kind = "throttled" -> ThrottleCompleted(h, m.t)
      [] m.kind = "evict" -> Evict(h, m.t)

\* The manager takes an action; an evict is answered when it has nothing to flush,
\* and otherwise when a report completes.
Answered(m, h) == m.t \notin h.flush /\ (m.kind = "evict" \/ m.t \in hb.flush)

HandleAction ==
    /\ ~ hb.down /\ hb.chan # <<>>
    /\ LET m == Head(hb.chan)
           h == Handled([hb EXCEPT !.chan = Tail(@)], m)
       IN /\ hb' = h
          /\ calls' = IF Answered(m, h)
                      THEN [calls EXCEPT ![m.t] = "evicted"] ELSE calls
    /\ UNCHANGED <<srv, poller, eager, live, info, cancels, stream, down, plan>>

\* The server answers a report.
ReportReturns(t, ok) ==
    /\ hb.reports[t] > 0
    /\ hb' = [hb EXCEPT !.reports[t] = @ - 1, !.chan = Append(@, [kind |-> "reported", t |-> t])]
    /\ cancels' =
         IF ok /\ srv[t] = "cancel" THEN Append(cancels, [t |-> t, reason |-> "Cancelled"])
         ELSE IF ok /\ srv[t] = "closed" THEN Append(cancels, [t |-> t, reason |-> "NotFound"])
         ELSE cancels
    /\ UNCHANGED <<srv, poller, eager, live, info, calls, stream, down, plan>>

ThrottleElapses(t) ==
    /\ t \in hb.sleeping
    /\ hb' = [hb EXCEPT !.sleeping = @ \ {t}, !.chan = Append(@, [kind |-> "throttled", t |-> t])]
    /\ UNCHANGED <<srv, poller, eager, live, info, cancels, calls, stream, down, plan>>

(***************************************************************************)
(* The server cancels an activity, or closes it for a timeout or the end   *)
(* of its workflow.  What it does once complete has returned is left out.  *)
(***************************************************************************)
ServerCancels(t) ==
    /\ srv[t] = "open" /\ ~ Over(t)
    /\ srv' = [srv EXCEPT ![t] = "cancel"]
    /\ UNCHANGED <<poller, eager, live, info, cancels, hb, calls, stream, down, plan>>

ServerCloses(t) ==
    /\ srv[t] \in {"open", "cancel"} /\ ~ Over(t)
    /\ srv' = [srv EXCEPT ![t] = "closed"]
    /\ UNCHANGED <<poller, eager, live, info, cancels, hb, calls, stream, down, plan>>

(***************************************************************************)
(* complete                                                                *)
(***************************************************************************)

\* The task leaves the map and the heartbeat manager is told to evict it.
Complete(t) ==
    /\ t \in live
    /\ live' = live \ {t}
    /\ info' = [info EXCEPT ![t].timer = FALSE]
    /\ hb' = IF hb.down THEN hb ELSE [hb EXCEPT !.chan = Append(@, [kind |-> "evict", t |-> t])]
    /\ calls' = [calls EXCEPT ![t] = "evicting"]
    /\ UNCHANGED <<srv, poller, eager, cancels, stream, down, plan>>

\* The eviction is answered.  Nothing is sent, and nobody notified, for an activity
\* the server is known to have forgotten.
Evicted(t) ==
    /\ calls[t] = "evicted"
    /\ calls' = [calls EXCEPT ![t] = IF info[t].notFound THEN "forgotten" ELSE "sending"]
    /\ info' = [info EXCEPT ![t] = NoInfo]
    /\ UNCHANGED <<srv, poller, eager, live, cancels, hb, stream, down, plan>>

\* The request returns (there is none for WillCompleteAsync).
Sent(t, ok) ==
    /\ calls[t] = "sending"
    /\ calls' = [calls EXCEPT ![t] = "done"]
    /\ srv' = IF ok THEN [srv EXCEPT ![t] = "closed"] ELSE srv
    /\ stream' = Notify(stream)
    /\ UNCHANGED <<poller, eager, live, info, cancels, hb, down, plan>>

(***************************************************************************)
(* Worker::shutdown, and WorkerActivityTasks::shutdown once the workflows  *)
(* have ended and no more slots are reserved for them.                     *)
(***************************************************************************)
Shutdown ==
    /\ down.pc = "up"
    /\ down' = [token |-> TRUE, pc |-> "workflows"]
    /\ poller' = [poller EXCEPT !.polls = 0]
    /\ eager' = RequestClose(eager)
    /\ UNCHANGED <<srv, live, info, cancels, hb, calls, stream, plan>>

ShutdownActivities ==
    /\ down.pc = "workflows" /\ eager.pc \in {"idle", "panicked"} /\ ~ eager.check
    /\ down' = [down EXCEPT !.pc = "lock"]
    /\ eager' = RequestClose(eager)
    /\ plan' = [plan EXCEPT !.reserves = 0]
    /\ UNCHANGED <<srv, poller, live, info, cancels, hb, calls, stream>>

\* completers_lock.write, which is dropped as soon as it is held.
LockCompleters ==
    /\ down.pc = "lock" /\ \A t \in Task : calls[t] # "sending"
    /\ down' = [down EXCEPT !.pc = "poll"]
    /\ UNCHANGED <<srv, poller, eager, live, info, cancels, hb, calls, stream, plan>>

\* poll_returned_shutdown_token, and the shutdown token of the heartbeat manager.
StopHeartbeats ==
    /\ down.pc = "poll" /\ stream.phase = "ended"
    /\ down' = [down EXCEPT !.pc = "heartbeats"]
    /\ hb' = [hb EXCEPT !.down = TRUE, !.chan = <<>>, !.sleeping = {}]
    /\ UNCHANGED <<srv, poller, eager, live, info, cancels, calls, stream, plan>>

JoinHeartbeats ==
    /\ down.pc = "heartbeats" /\ \A t \in Task : hb.reports[t] = 0
    /\ down' = [down EXCEPT !.pc = "done"]
    /\ UNCHANGED <<srv, poller, eager, live, info, cancels, hb, calls, stream, plan>>

-----------------------------------------------------------------------------
Init ==
    /\ srv = [t \in Task |-> "new"]
    /\ poller = [polls |-> 0, buffer |-> <<>>]
    /\ eager = [pc |-> "idle", count |-> 0, chan |-> <<>>, requested |-> FALSE,
                check |-> FALSE, complete |-> FALSE, closed |-> FALSE]
    /\ live = {} /\ info = [t \in Task |-> NoInfo] /\ cancels = <<>>
    /\ hb = [tracked |-> {}, details |-> {}, flying |-> {}, sleeping |-> {}, flush |-> {},
             chan |-> <<>>, reports |-> [t \in Task |-> 0], down |-> FALSE]
    /\ calls = [t \in Task |-> "none"]
    /\ stream = [phase |-> "starts", immediate |-> FALSE]
    /\ down = [token |-> FALSE, pc |-> "up"]
    /\ plan \in Plans

Reserve == ReserveAdd \/ ReserveTry \/ EagerDeclined
Stream ==
    TakeCancel \/ TakeEager \/ TakePolled \/ EagerEnds \/ StartsEnd \/ CheckOutstanding
Heartbeats ==
    HandleAction \/ \E t \in Task : ThrottleElapses(t) \/ \E ok \in BOOLEAN : ReportReturns(t, ok)
Completing == \E t \in Task : Evicted(t) \/ \E ok \in BOOLEAN : Sent(t, ok)
Lang == \E t \in live : Complete(t)
Ending == CloseCheck \/ ShutdownActivities \/ LockCompleters \/ StopHeartbeats \/ JoinHeartbeats

Next ==
    \/ StartPoll \/ (\E r \in Task \cup {Empty, Error} : PollReturns(r))
    \/ ReserveCheck \/ Reserve \/ (\E t \in Task : EagerTask(t))
    \/ Stream \/ GraceElapses \/ (\E t \in Task : LocalTimeout(t))
    \/ (\E t \in Task : RecordHeartbeat(t)) \/ Heartbeats
    \/ (\E t \in Task : ServerCancels(t) \/ ServerCloses(t))
    \/ Lang \/ Completing
    \/ InitiateShutdown \/ Shutdown \/ Ending

Spec == Init /\ [][Next]_vars

\* Lang keeps polling and completes what it was given, the tasks of the runtime
\* make progress, and every request to the server returns.
Fairness ==
    /\ WF_vars(Stream) /\ WF_vars(Heartbeats) /\ WF_vars(Completing) /\ WF_vars(Lang)
    /\ WF_vars(Reserve) /\ WF_vars(Ending)

FairSpec == Spec /\ Fairness

-----------------------------------------------------------------------------
\* record and handle_throttle_completed: heartbeats of an activity are throttled,
\* so that its next one is sent after the one before, except the last that evict
\* flushes ("will also force-flush the most recently provided details"); and details
\* that wait for the end of a throttle leave the manager in a report.
HeartbeatsReported ==
    /\ [](\A t \in Task : hb.reports[t] > 1 => hb.reports[t] = 2 /\ calls[t] # "none")
    /\ [][\A t \in hb.details \ hb'.details : hb'.reports[t] = hb.reports[t] + 1]_vars

\* "Receive half of the heartbeats event channel must not be dropped" (record): the
\* manager is not shut down while lang may heartbeat.
HeartbeatsHeard == hb.down => live = {}

\* complete: its caller gets an answer, unless the heartbeat manager is shut down
\* before it has answered the eviction.
CompletionsReturn == \A t \in Task : InCall(t) ~> (Over(t) \/ hb.down)

\* The doc of complete_notify, "Wakes every time an activity is removed from the
\* outstanding map": the stream does not wait for a completion that was the last.
RemovalWakes == stream.phase = "waits" => live # {} \/ \E t \in Task : InCall(t)

\* A completion of an activity the server has forgotten woke nobody.
NotWoken == ~ RemovalWakes /\ \E t \in Task : calls[t] = "forgotten"

\* shutdown: it returns once lang has completed its activities, unless the stream
\* was not woken for the last of them.
ShutdownReturns == (down.pc # "up") ~> (down.pc = "done" \/ NotWoken)

\* streamify: once the grace period is over, every outstanding activity has been
\* told to cancel or has a cancel on its way, those that were still buffered included.
CancelledAfterGrace ==
    stream.immediate =>
        \A t \in live : info[t].issued # "no" \/ \E i \in DOMAIN cancels : cancels[i].t = t

===============================================================================
