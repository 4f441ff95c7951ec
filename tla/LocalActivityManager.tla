------------------------- MODULE LocalActivityManager -------------------------
(***************************************************************************)
(* The LocalActivityManager of a worker, with the part of Worker that      *)
(* polls it and waits for it at shutdown.                                  *)
(*                                                                         *)
(* A workflow asks for local activities (LAs) and cancels them; requests   *)
(* wait in a channel until lang polls and a slot is free; lang runs them   *)
(* and completes them; failed attempts back off and are queued again;      *)
(* timers send timeouts.  Requests, cancels and timeouts carry the id of   *)
(* the LA or the token of an attempt, and may be stale when they are read. *)
(*                                                                         *)
(* All LAs belong to one run.  Timers fire at any moment after they are    *)
(* set, so a timeout that is not configured is one that never fires.       *)
(***************************************************************************)
EXTENDS Integers, Sequences, FiniteSets

CONSTANTS LA,           \* ids (run and sequence number) of local activities
          Slots,        \* size of the local activity slot supplier
          Policy,       \* retry policy: attempts, interval, coeff, maxInterval, delay
          Threshold,    \* local_retry_threshold
          Plans,        \* bounds: how many LAs the workflow asks for, which ones,
                        \* and whether the run is evicted or the worker shut down
          MaxQueue      \* bound: cancels and timeouts in their channel when a timer fires

ASSUME SlotsAssumption == Slots \in Nat \ {0}
ASSUME PolicyAssumption ==
    Policy \in [attempts : Nat, interval : Nat, coeff : Nat, maxInterval : Nat, delay : Nat]
ASSUME ThresholdAssumption == Threshold \in Nat
ASSUME PlansAssumption ==
    Plans \subseteq [las : SUBSET LA, requests : Nat, ends : SUBSET {"eviction", "shutdown"}]

VARIABLES
    token,      \* la_info: the token of each LA, 0 when it has no entry
    handle,     \* LAs whose entry holds a backing_off_task
    bag,        \* LAs whose entry holds a timeout_bag
    started,    \* the attempt whose start-to-close handle the bag holds, 0 for none
    outstanding,\* outstanding_activity_tasks: attempts in the hands of lang
    nextTok,    \* next_tt_num
    requests,   \* act_req channel
    cancels,    \* cancels_req channel
    sleeping,   \* backoff tasks that have not sent their retry
    schedTimer, \* LAs whose schedule-to-close task runs
    startTimer, \* attempts whose start-to-close task runs
    run,        \* the workflow's side of the LAs
    worker      \* polling and shutdown

entries == <<token, handle, bag, started>>
channels == <<requests, cancels>>
timers == <<sleeping, schedTimer, startTimer>>
vars == <<entries, outstanding, nextTok, channels, timers, run, worker>>

Attempt == [tok : Nat, la : LA, attempt : Nat]
Request == [la : LA, attempt : Nat]
Message == [kind : {"cancel"}, tok : Nat] \cup [kind : {"schedToClose", "startToClose"}, la : LA]
Phase == {"up", "check", "notified", "lock", "drop", "workflows", "done", "panic"}

(***************************************************************************)
(* Retry policy                                                            *)
(***************************************************************************)
NoRetry == -1

MinOf(a, b) == IF a < b THEN a ELSE b

AttemptsLeft_Mut(attempt) == Policy.attempts = 0 \/ attempt <= Policy.attempts

AttemptsLeft(attempt) == Policy.attempts = 0 \/ attempt < Policy.attempts

ShouldRetry(attempt, status) ==
    IF status = "nonretryable" \/ ~ AttemptsLeft(attempt) THEN NoRetry
    ELSE IF status = "delayed" THEN Policy.delay
    ELSE IF attempt = 1 THEN Policy.interval
    ELSE MinOf(Policy.coeff ^ (attempt - 1) * Policy.interval, Policy.maxInterval)

(***************************************************************************)
(* The workflow's side.  A resolution reaches the LA of that id in the     *)
(* present life of the run, if there is one.                               *)
(***************************************************************************)
Waiting(la) == la \in run.scheduled /\ run.results[la] = 0

Resolve(rn, las) ==
    [rn EXCEPT !.results = [la \in LA |->
        IF la \in las \cap rn.scheduled THEN MinOf(@[la] + 1, 2) ELSE @[la]]]

\* Where an LA is on its way to a resolution.
Queued(la) == \E i \in DOMAIN requests : requests[i].la = la
BackingOff(la) == \E b \in sleeping : b.la = la
WithLang(la) == \E a \in outstanding : a.la = la

Emptied == worker.phase \in {"workflows", "done", "panic"}
Open == ~ Emptied

CanEnqueue == ~ run.down /\ ~ run.panicked

\* set_shutdown_complete_if_ready
ShutdownComplete(w, out, down) == [w EXCEPT !.tokDone = @ \/ (out = {} /\ down)]

(***************************************************************************)
(* enqueue                                                                 *)
(***************************************************************************)

\* The run is polled for the first time.
PollWorkflows ==
    /\ ~ run.polled /\ ~ worker.token
    /\ run' = [run EXCEPT !.polled = TRUE]
    /\ UNCHANGED <<entries, outstanding, nextTok, channels, timers, worker>>

\* enqueue's test for LAs that need not be queued.
Known_Mut(la) == WithLang(la)

Known(la) == token[la] # 0

\* LocalActRequest::New.  timedOut is TimeoutBag::new finding the LA timed out.
RequestLA(la, timedOut) ==
    /\ CanEnqueue /\ run.polled /\ ~ run.evicting /\ la \notin run.scheduled
    /\ la \in run.plan.las /\ run.requested < run.plan.requests
    /\ nextTok' = nextTok + 1
    /\ LET rn == [run EXCEPT !.scheduled = @ \cup {la}, !.requested = @ + 1] IN
       \/ /\ Known(la)
          /\ run' = [rn EXCEPT !.skipped = @ \cup {la}]
          /\ UNCHANGED <<entries, requests, schedTimer>>
       \/ /\ ~ Known(la) /\ timedOut
          /\ token' = [token EXCEPT ![la] = nextTok']
          /\ run' = Resolve(rn, {la})
          /\ UNCHANGED <<handle, bag, started, requests, schedTimer>>
       \/ /\ ~ Known(la) /\ ~ timedOut
          /\ token' = [token EXCEPT ![la] = nextTok']
          /\ bag' = bag \cup {la}
          /\ started' = [started EXCEPT ![la] = 0]
          /\ schedTimer' = schedTimer \cup {la}
          /\ requests' = IF Open THEN Append(requests, [la |-> la, attempt |-> 1]) ELSE requests
          /\ run' = [rn EXCEPT !.panicked = ~ Open]
          /\ UNCHANGED handle
    /\ UNCHANGED <<outstanding, cancels, sleeping, startTimer, worker>>

\* Orders in which the entries of a map may be visited.
Orders(S) == {s \in [1..Cardinality(S) -> S] : \A x \in S : \E i \in DOMAIN s : s[i] = x}

\* backing_off_task.abort
Abort_Mut(las) == sleeping

Abort(las) == {b \in sleeping : b.la \notin las}

\* cancel_one_la for each of a set of entries of the run rn.
CancelEntries(rn, las) ==
    LET backing == las \cap handle
        sent == {[kind |-> "cancel", tok |-> token[la]] : la \in las \ handle}
    IN /\ handle' = handle \ backing
       /\ sleeping' = Abort(backing)
       /\ \E s \in Orders(sent) : cancels' = IF Open THEN cancels \o s ELSE cancels
       /\ run' = [Resolve(rn, backing) EXCEPT
                     !.late = @ \cup {la \in backing : Queued(la)},
                     !.panicked = ~ Open /\ sent # {}]
       /\ UNCHANGED <<token, bag, started, outstanding, nextTok, requests, schedTimer,
                      startTimer, worker>>

Entries == {la \in LA : token[la] # 0}

\* LocalActRequest::Cancel
CancelLA(la) ==
    /\ CanEnqueue /\ Waiting(la) /\ la \notin run.asked
    /\ CancelEntries([run EXCEPT !.asked = @ \cup {la}], {la} \cap Entries)

\* LocalActRequest::CancelAllInRun, sent when the run is to be evicted.
CancelAllInRun ==
    /\ "eviction" \in run.plan.ends
    /\ CanEnqueue /\ ~ run.evicting /\ run.scheduled # {}
    /\ CancelEntries([run EXCEPT !.evicting = TRUE], Entries)

\* The eviction is carried out; the run may be instantiated again and replay.
EvictRun ==
    /\ CanEnqueue /\ run.evicting
    /\ run' = [run EXCEPT !.evicting = FALSE, !.scheduled = {}, !.asked = {}, !.skipped = {},
                         !.late = {}, !.results = [la \in LA |-> 0]]
    /\ UNCHANGED <<entries, outstanding, nextTok, channels, timers, worker>>

(***************************************************************************)
(* complete                                                                *)
(***************************************************************************)

\* The entry of an LA goes, and with its timeout bag the tasks the bag knows.
RemoveEntry(la) ==
    /\ token' = [token EXCEPT ![la] = 0]
    /\ handle' = handle \ {la}
    /\ bag' = bag \ {la}
    /\ started' = [started EXCEPT ![la] = 0]
    /\ schedTimer' = IF la \in bag THEN schedTimer \ {la} ELSE schedTimer
    /\ startTimer' = IF la \in bag
                     THEN {a \in startTimer : a.la # la \/ a.tok # started[la]} ELSE startTimer
    /\ UNCHANGED <<nextTok, sleeping>>

\* A new entry with the old timeout bag, and a task that sends the retry.
BackOff(a) ==
    /\ nextTok' = nextTok + 1
    /\ token' = [token EXCEPT ![a.la] = nextTok']
    /\ handle' = handle \cup {a.la}
    /\ sleeping' = sleeping \cup {[la |-> a.la, attempt |-> a.attempt + 1]}
    /\ UNCHANGED <<bag, started, schedTimer, startTimer>>

Retryable(status) == status \in {"failed", "delayed", "nonretryable", "startToClose"}

\* The end of an LA, reported to its workflow.
Report_Mut(a) == RemoveEntry(a.la) /\ run' = run

Report(a) == RemoveEntry(a.la) /\ run' = Resolve(run, {a.la})

\* An attempt in the hands of lang ends with a status.  It is reported
\* when its backoff is too long to wait for here, when there is no retry and for
\* a status that is never retried; only the last wakes complete_notify's waiters.
Complete(a, status, w) ==
    /\ outstanding' = outstanding \ {a}
    /\ LET delay == ShouldRetry(a.attempt, status)
           retried == Retryable(status) /\ delay # NoRetry /\ delay <= Threshold
           done == ShutdownComplete(w, outstanding', run.down)
       IN /\ worker' = [done EXCEPT !.notify = @ \/ ~ Retryable(status),
                                   !.backoffBug = @ \/ a.la \in handle]
          /\ IF retried THEN BackOff(a) /\ run' = run
             ELSE Report(a)

\* Lang completes an attempt (Worker::complete_local_act).  A token that is no
\* longer tracked is ignored.
LangCompletes(a, status) ==
    /\ a \in outstanding /\ worker.phase \notin {"done", "panic"}
    /\ Complete(a, status, worker)
    /\ UNCHANGED channels

(***************************************************************************)
(* next_pending, as polled by Worker::activity_poll.  Lang polls again and *)
(* again, and a poll holds the receivers until it returns.  That matters   *)
(* to the shutdown that asks for them: in phase "lock" it waits for a poll *)
(* in progress, in phase "drop" it is served before the next poll.         *)
(***************************************************************************)
StreamEnded == worker.tokDone \/ Emptied
CanPoll == ~ worker.localDone /\ worker.phase # "drop"
FreeSlot == Cardinality(outstanding) < Slots

Ready == cancels # <<>> \/ (requests # <<>> /\ FreeSlot) \/ StreamEnded

Returned(w) == [w EXCEPT !.phase = IF @ = "lock" THEN "drop" ELSE @]

\* next_pending returned None.
ReturnedNone(w) == [Returned(w) EXCEPT !.localDone = @ \/ w.token]

\* The poll for remote activities returns first; the local one has priority.
RemoteActivityFirst ==
    /\ worker.phase = "lock" /\ ~ Ready
    /\ worker' = Returned(worker)
    /\ UNCHANGED <<entries, outstanding, nextTok, channels, timers, run>>

EndOfStream ==
    /\ CanPoll /\ StreamEnded
    /\ worker' = ReturnedNone(worker)
    /\ UNCHANGED <<entries, outstanding, nextTok, channels, timers, run>>

\* A cancel goes to lang if its attempt is outstanding.
TakeCancel ==
    /\ CanPoll /\ ~ StreamEnded /\ cancels # <<>> /\ Head(cancels).kind = "cancel"
    /\ cancels' = Tail(cancels)
    /\ worker' = IF \E a \in outstanding : a.tok = Head(cancels).tok
                 THEN Returned(worker) ELSE ReturnedNone(worker)
    /\ UNCHANGED <<entries, outstanding, nextTok, requests, timers, run>>

\* A timeout completes whichever attempt its LA has now.
TakeTimeout ==
    /\ CanPoll /\ ~ StreamEnded /\ cancels # <<>> /\ Head(cancels).kind # "cancel"
    /\ cancels' = Tail(cancels)
    /\ LET m == Head(cancels)
           known == token[m.la] # 0
           current == {a \in outstanding : known /\ a.tok = token[m.la]}
       IN \/ /\ current = {}
             /\ worker' = IF known THEN Returned(worker) ELSE ReturnedNone(worker)
             /\ UNCHANGED <<entries, outstanding, nextTok, timers, run>>
          \/ \E a \in current : Complete(a, m.kind, Returned(worker))
    /\ UNCHANGED requests

\* A request that waited too long is resolved, its entry stays.  Otherwise its
\* attempt is handed to lang and the start-to-close timer set.
TakeRequest(tooLate) ==
    /\ CanPoll /\ ~ StreamEnded /\ requests # <<>> /\ FreeSlot
    /\ requests' = Tail(requests)
    /\ handle' = handle \ {Head(requests).la}
    /\ LET la == Head(requests).la IN
       \/ /\ tooLate
          /\ run' = Resolve(run, {la})
          /\ worker' = Returned(worker)
          /\ UNCHANGED <<started, outstanding, startTimer>>
       \/ /\ ~ tooLate
          /\ worker' = [Returned(worker) EXCEPT !.entryBug = @ \/ token[la] = 0]
          /\ outstanding' = outstanding \cup
                {[tok |-> token[la], la |-> la, attempt |-> Head(requests).attempt]}
          /\ IF la \in bag
             THEN /\ started' = [started EXCEPT ![la] = token[la]]
                  /\ startTimer' = startTimer \cup {[la |-> la, tok |-> token[la]]}
             ELSE UNCHANGED <<started, startTimer>>
          /\ UNCHANGED run
    /\ UNCHANGED <<token, bag, nextTok, cancels, sleeping, schedTimer>>

(***************************************************************************)
(* Timers.  What they would send once the receivers are gone is lost.      *)
(***************************************************************************)
CanFire == Open /\ Len(cancels) < MaxQueue

ScheduleToCloseElapses(la) ==
    /\ la \in schedTimer /\ CanFire
    /\ schedTimer' = schedTimer \ {la}
    /\ cancels' = Append(cancels, [kind |-> "schedToClose", la |-> la])
    /\ UNCHANGED <<entries, outstanding, nextTok, requests, sleeping, startTimer, run, worker>>

StartToCloseElapses(a) ==
    /\ a \in startTimer /\ CanFire
    /\ startTimer' = startTimer \ {a}
    /\ cancels' = Append(cancels, [kind |-> "startToClose", la |-> a.la])
    /\ UNCHANGED <<entries, outstanding, nextTok, requests, sleeping, schedTimer, run, worker>>

BackoffElapses(b) ==
    /\ b \in sleeping /\ Open
    /\ sleeping' = sleeping \ {b}
    /\ requests' = Append(requests, b)
    /\ UNCHANGED <<entries, outstanding, nextTok, cancels, schedTimer, startTimer, run, worker>>

(***************************************************************************)
(* Shutdown of the worker                                                  *)
(***************************************************************************)

\* Worker::initiate_shutdown, alone or as the first step of Worker::shutdown.
InitiateShutdown(phase) ==
    /\ "shutdown" \in run.plan.ends /\ worker.phase = "up" /\ (phase = "check" \/ ~ worker.token)
    /\ run' = [run EXCEPT !.down = @ \/ ~ run.polled]
    /\ worker' = ShutdownComplete([worker EXCEPT !.token = TRUE, !.phase = phase],
                                  outstanding, run'.down)
    /\ UNCHANGED <<entries, outstanding, nextTok, channels, timers>>

\* The workflow stream ends with no LA left to wait for, and the poll that sees
\* it calls workflows_have_shutdown.
WorkflowsEnd ==
    /\ CanEnqueue /\ worker.token /\ \A la \in LA : ~ Waiting(la)
    /\ run' = [run EXCEPT !.down = TRUE]
    /\ worker' = ShutdownComplete(worker, outstanding, run'.down)
    /\ UNCHANGED <<entries, outstanding, nextTok, channels, timers>>

\* wait_all_outstanding_tasks_finished: the test, the wait for a notification,
\* and the end, where the stream is replaced and its receivers are dropped.
CheckOutstanding ==
    /\ worker.phase = "check"
    /\ \E inPoll \in BOOLEAN :
         /\ inPoll => ~ worker.localDone
         /\ worker' = [ShutdownComplete(worker, outstanding, run.down) EXCEPT
                !.phase = IF outstanding # {} THEN "notified" ELSE IF inPoll THEN "lock" ELSE "drop"]
    /\ UNCHANGED <<entries, outstanding, nextTok, channels, timers, run>>

Notified ==
    /\ worker.phase = "notified" /\ worker.notify
    /\ worker' = [worker EXCEPT !.phase = "check", !.notify = FALSE]
    /\ UNCHANGED <<entries, outstanding, nextTok, channels, timers, run>>

DropReceivers ==
    /\ worker.phase = "drop"
    /\ worker' = [worker EXCEPT !.phase = "workflows"]
    /\ requests' = <<>> /\ cancels' = <<>>
    /\ UNCHANGED <<entries, outstanding, nextTok, timers, run>>

\* Workflows::shutdown returns, or finds that the workflow thread panicked.
JoinWorkflows ==
    /\ worker.phase = "workflows" /\ (run.down \/ run.panicked)
    /\ worker' = [worker EXCEPT !.phase = IF run.panicked THEN "panic" ELSE "done"]
    /\ UNCHANGED <<entries, outstanding, nextTok, channels, timers, run>>

-----------------------------------------------------------------------------
Init ==
    /\ token = [la \in LA |-> 0] /\ handle = {} /\ bag = {} /\ started = [la \in LA |-> 0]
    /\ outstanding = {} /\ nextTok = 0
    /\ requests = <<>> /\ cancels = <<>>
    /\ sleeping = {} /\ schedTimer = {} /\ startTimer = {}
    /\ run \in [plan : Plans, scheduled : {{}}, asked : {{}}, skipped : {{}}, late : {{}},
                results : {[la \in LA |-> 0]}, evicting : {FALSE}, polled : {FALSE},
                requested : {0}, down : {FALSE}, panicked : {FALSE}]
    /\ worker = [token |-> FALSE, phase |-> "up", localDone |-> FALSE,
                 tokDone |-> FALSE, notify |-> FALSE,
                 backoffBug |-> FALSE, entryBug |-> FALSE]

Workflows ==
    \/ PollWorkflows \/ CancelAllInRun \/ EvictRun
    \/ \E la \in LA : CancelLA(la) \/ \E timedOut \in BOOLEAN : RequestLA(la, timedOut)

Poll ==
    \/ EndOfStream \/ TakeCancel \/ TakeTimeout
    \/ \E tooLate \in BOOLEAN : TakeRequest(tooLate)

Lang ==
    \E a \in outstanding :
        \E status \in {"completed", "cancelled", "failed", "delayed", "nonretryable"} :
            LangCompletes(a, status)

Timeouts ==
    \/ \E la \in schedTimer : ScheduleToCloseElapses(la)
    \/ \E a \in startTimer : StartToCloseElapses(a)

Backoffs == \E b \in sleeping : BackoffElapses(b)

Shutdown == CheckOutstanding \/ Notified \/ DropReceivers \/ JoinWorkflows

Next ==
    \/ Workflows \/ Poll \/ RemoteActivityFirst \/ Lang \/ Timeouts \/ Backoffs
    \/ \E phase \in {"up", "check"} : InitiateShutdown(phase)
    \/ WorkflowsEnd \/ Shutdown

Spec == Init /\ [][Next]_vars

\* Lang keeps polling and completes what it was given; backoffs and the tasks of
\* the runtime make progress.  No timeout has to fire and nobody has to ask.
Fairness ==
    /\ WF_vars(Poll) /\ WF_vars(Lang) /\ WF_vars(Backoffs)
    /\ WF_vars(WorkflowsEnd) /\ WF_vars(Shutdown) /\ WF_vars(EvictRun)

FairSpec == Spec /\ Fairness

-----------------------------------------------------------------------------
TypeOK ==
    /\ token \in [LA -> Nat] /\ handle \subseteq LA /\ bag \subseteq LA
    /\ started \in [LA -> Nat] /\ nextTok \in Nat
    /\ outstanding \subseteq Attempt /\ sleeping \subseteq Request
    /\ requests \in Seq(Request) /\ cancels \in Seq(Message)
    /\ schedTimer \subseteq LA /\ startTimer \subseteq [la : LA, tok : Nat]
    /\ run \in [plan : Plans, scheduled : SUBSET LA, asked : SUBSET LA,
                skipped : SUBSET LA, late : SUBSET LA, results : [LA -> 0..2], evicting : BOOLEAN, polled : BOOLEAN,
                requested : Nat, down : BOOLEAN, panicked : BOOLEAN]
    /\ worker \in [token : BOOLEAN, phase : Phase, localDone : BOOLEAN,
                   tokDone : BOOLEAN, notify : BOOLEAN,
                   backoffBug : BOOLEAN, entryBug : BOOLEAN]

\* The comment in enqueue, "Prevents two identical LAs ending up in the queue at
\* once", and the assertions "Activity must exist" and "Just-resolved LA should
\* not have backoff task": an LA is in one place at a time and has an entry there.
OneAttempt ==
    /\ ~ worker.backoffBug /\ ~ worker.entryBug
    /\ \A i, j \in DOMAIN requests : requests[i].la = requests[j].la => i = j
    /\ \A a, b \in outstanding : a.la = b.la => a = b
    /\ \A a, b \in sleeping : a.la = b.la => a = b
    /\ \A la \in LA : Queued(la) => ~ BackingOff(la) /\ ~ WithLang(la)
    /\ \A la \in LA : BackingOff(la) => ~ WithLang(la)
    /\ \A la \in LA : Queued(la) \/ BackingOff(la) => token[la] # 0
    /\ \A a \in outstanding : a.tok = token[a.la] /\ a.la \notin handle

\* complete and the immediate resolutions of enqueue: a workflow gets one
\* resolution for an LA, unless it cancelled the LA when its retry was on its way.
ResolvedOnce == \A la \in LA : run.results[la] > 1 => la \in run.late

\* should_retry and its use in complete: an LA is never tried more often than its
\* policy says, whatever its attempts end with.
AttemptsWithinPolicy ==
    Policy.attempts > 0 => \A a \in outstanding : a.attempt <= Policy.attempts

\* An entry that belongs to nothing on its way to a resolution.
LeftBehind(la) == token[la] # 0 /\ ~ Queued(la) /\ ~ BackingOff(la) /\ ~ WithLang(la)

\* next_pending and complete: an LA a workflow waits for is resolved, unless the
\* worker shuts down or enqueue skipped it for an entry left behind.
LAsResolved ==
    \A la \in LA :
        Waiting(la) ~> (~ Waiting(la) \/ worker.token \/ (la \in run.skipped /\ LeftBehind(la)))

===============================================================================
