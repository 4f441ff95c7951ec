--------------------------- MODULE WorkflowFuture ---------------------------
(* One run of a workflow in the Rust SDK: the context that workflow code calls *)
(* (WfContext) and the future that polls the code and turns its calls into the *)
(* commands of an activation's completion (WorkflowFuture).  The operations    *)
(* are operators on a record wf with                                           *)
(*   code     the workflow function: "running", "done" or "panicked"           *)
(*   seqs     the next sequence numbers        chan  incoming_commands         *)
(*   futs     the futures the code has been given: [k, seq, alt, own, st, r,   *)
(*            did]; own is Main or the update whose handler holds it, alt the  *)
(*            timer of a local activity that backs off or the number that      *)
(*            cancels a child, did that a local activity was cancelled; st is  *)
(*            "pending", "sent" (its unblocker was used) or "seen"             *)
(*   status   command_status: [id, fut]                                        *)
(*   sig      sig_chans (one name), got what its stream was given              *)
(*   handler  whether the update handler is registered, running update_futures *)
(*   rep      is_replaying     patch  changes (one id)                         *)
(*   inbox    incoming_activations             out   completions to be sent    *)
(*   ph       where poll is, who what is being polled, after what poll does    *)
(*            once poll_wf_future is through, turn the update futures to poll  *)
(*   jobs     jobs to handle   only  is_only_eviction                          *)
(*   die      die_of_eviction_when_done        again  whether this is a re-poll *)
(*   cmds     activation_cmds  res   what poll_wf_future has of the function   *)
(*   left     calls the code may make (a bound)                                *)
EXTENDS Naturals, FiniteSets, Sequences

Main == 0

(* WfContext::new *)
NewSeqs == [timer |-> 1, activity |-> 1, child |-> 1, cancelExternal |-> 1,
            signalExternal |-> 1, nexus |-> 1]

(* start_workflow *)
NewWorkflowFuture(calls) ==
  [code |-> "running", seqs |-> NewSeqs, chan |-> <<>>, futs |-> <<>>, status |-> {},
   sig |-> [st |-> "none", buf |-> <<>>], got |-> <<>>, handler |-> FALSE, running |-> <<>>,
   rep |-> FALSE, patch |-> "unknown", cancelled |-> FALSE, inbox |-> <<>>, out |-> <<>>,
   ph |-> "idle", who |-> Main, after |-> "none", turn |-> <<>>, jobs |-> <<>>,
   only |-> FALSE, die |-> FALSE, again |-> FALSE, cmds |-> <<>>, res |-> "pending", left |-> calls]
-----------------------------------------------------------------------------
(* The calls of the context. *)

Send(wf, c) == [wf EXCEPT !.chan = Append(@, c)]

(* WFCommandFut::new_with_dat: a future, and its unblocker *)
NewFut(k, seq, alt, own) ==
  [k |-> k, seq |-> seq, alt |-> alt, own |-> own, st |-> "pending", r |-> "none", did |-> FALSE]

Command(c, k, seq, fut) == [c |-> c, k |-> k, seq |-> seq, fut |-> fut]

(* into_command of the options, and the commands the context makes itself *)
TimerCommand(seq, fut) == Command("new", "timer", seq, fut)
ActivityCommand(seq, fut) == Command("new", "activity", seq, fut)
LocalActivityCommand(seq, fut) == Command("new", "localActivity", seq, fut)
SignalCommand(seq, fut) == Command("new", "signalExternal", seq, fut)
CancelExternalCommand(seq, fut) == Command("new", "cancelExternal", seq, fut)
ChildCommand(seq, fut) == Command("new", "childStart", seq, fut)
NexusCommand(seq, fut) == Command("new", "nexusStart", seq, fut)

(* A command with its future, and the number of its kind's counter *)
Issue(wf, own, counter, c) ==
  Send([wf EXCEPT !.seqs[counter] = @ + 1, !.futs = Append(@, NewFut(c.k, c.seq, 0, own))], c)

NextFut(wf) == Len(wf.futs) + 1

Timer(wf, own) == Issue(wf, own, "timer", TimerCommand(wf.seqs.timer, NextFut(wf)))

ScheduleActivity(wf, own) ==
  Issue(wf, own, "activity", ActivityCommand(wf.seqs.activity, NextFut(wf)))

LocalActivity(wf, own) ==
  Issue(wf, own, "activity", LocalActivityCommand(wf.seqs.activity, NextFut(wf)))

SignalWorkflow(wf, own) ==
  Issue(wf, own, "signalExternal", SignalCommand(wf.seqs.signalExternal, NextFut(wf)))

CancelExternal(wf, own) ==
  Issue(wf, own, "cancelExternal", CancelExternalCommand(wf.seqs.cancelExternal, NextFut(wf)))

(* ChildWorkflow::start: the future of the result is there from the start.     *)
StartChild(wf, own) ==
  LET seq == wf.seqs.child
      alt == wf.seqs.cancelExternal
      n == Len(wf.futs)
      w == [wf EXCEPT !.seqs.child = seq + 1, !.seqs.cancelExternal = alt + 1,
                      !.futs = @ \o <<NewFut("childComplete", seq, alt, own),
                                      NewFut("childStart", seq, 0, own)>>]
  IN Send(Send(w, Command("subscribe", "childComplete", seq, n + 1)),
          ChildCommand(seq, n + 2))

StartNexusOperation(wf, own) ==
  LET seq == wf.seqs.nexus
      n == Len(wf.futs)
      w == [wf EXCEPT !.seqs.nexus = seq + 1,
                      !.futs = @ \o <<NewFut("nexusComplete", seq, 0, own),
                                      NewFut("nexusStart", seq, 0, own)>>]
  IN Send(Send(w, Command("subscribe", "nexusComplete", seq, n + 1)),
          NexusCommand(seq, n + 2))

StartOf == {"timer", "activity", "localActivity", "signalExternal", "cancelExternal", "child",
            "nexus"}

StartCall(wf, own, k) ==
  CASE k = "timer"          -> Timer(wf, own)
    [] k = "activity"       -> ScheduleActivity(wf, own)
    [] k = "localActivity"  -> LocalActivity(wf, own)
    [] k = "signalExternal" -> SignalWorkflow(wf, own)
    [] k = "cancelExternal" -> CancelExternal(wf, own)
    [] k = "child"          -> StartChild(wf, own)
    [] OTHER                -> StartNexusOperation(wf, own)

(* CancellableFuture::cancel for the id of a future.  The future of a child's  *)
(* result has the id of an external workflow.                                  *)
CancelId(f) ==
  IF f.k = "childComplete" THEN Command("cancel", "externalWorkflow", f.alt, 0)
  ELSE Command("cancel", f.k, f.seq, 0)

(* LATimerBackoffFut::cancel *)
CancelLocalActivity(wf, n) ==
  LET f == wf.futs[n]
      w == [wf EXCEPT !.futs[n].did = TRUE]
  IN Send(IF f.alt > 0 THEN Send(w, Command("cancel", "timer", f.alt, 0)) ELSE w, CancelId(f))

CancelCall(wf, n) ==
  IF wf.futs[n].k = "localActivity" THEN CancelLocalActivity(wf, n)
  ELSE Send(wf, CancelId(wf.futs[n]))

(* StartedChildWorkflow::cancel takes the number from the id of its result. *)
CancelStartedChild(wf, n) ==
  Send(wf, Command("plain", "cancelChild", wf.futs[n].alt, n))

(* StartedNexusOperation::cancel, n being the future of the start *)
CancelStartedNexus(wf, n) == Send(wf, CancelId(wf.futs[n]))

(* patch_impl *)
PatchCall(wf) ==
  [Send(wf, Command("plain", "patch", 0, 0)) EXCEPT
     !.patch = IF @ # "unknown" THEN @ ELSE IF wf.rep THEN "old" ELSE "new"]

UpsertCall(wf) == Send(wf, Command("plain", "upsert", 0, 0))
SignalChannel(wf) == Send(wf, Command("subscribeSignal", "signal", 0, 0))
UpdateHandler(wf) == Send(wf, Command("registerUpdate", "update", 0, 0))
ForceTaskFail(wf) == Send(wf, Command("forceFailure", "task", 0, 0))

(* Unblockable::unblock: what was sent becomes the value of the future. *)
Unblocked(f) == [f EXCEPT !.st = "seen"]

(* LATimerBackoffFut::poll of a future whose unblocker was used *)
PollLocalActivity(wf, n) ==
  LET f == wf.futs[n]
      done == [wf EXCEPT !.futs[n] = Unblocked(f)]
      again == [Send([wf EXCEPT !.seqs.activity = @ + 1],
                     LocalActivityCommand(wf.seqs.activity, n))
                  EXCEPT !.futs[n] = [f EXCEPT !.seq = wf.seqs.activity, !.alt = 0,
                                               !.st = "pending"]]
      wait == [Send([wf EXCEPT !.seqs.timer = @ + 1], TimerCommand(wf.seqs.timer, n))
                 EXCEPT !.futs[n] = [f EXCEPT !.alt = wf.seqs.timer, !.st = "pending"]]
  IN IF f.alt > 0 THEN IF f.r = "fired" THEN again ELSE done
     ELSE IF f.r = "backoff" /\ ~f.did THEN wait ELSE done

(* WFCommandFut::poll: code that is polled sees what was sent to its futures.  *)
PollFuture(wf, n) ==
  IF wf.futs[n].st # "sent" THEN wf
  ELSE IF wf.futs[n].k = "localActivity" THEN PollLocalActivity(wf, n)
  ELSE [wf EXCEPT !.futs[n] = Unblocked(@)]

PollFutures(wf, own) ==
  LET after[n \in 0 .. Len(wf.futs)] ==
        IF n = 0 THEN wf
        ELSE IF wf.futs[n].own = own THEN PollFuture(after[n - 1], n) ELSE after[n - 1]
      w == after[Len(wf.futs)]
  IN [wf EXCEPT !.futs = w.futs, !.seqs = w.seqs, !.chan = w.chan]
-----------------------------------------------------------------------------
(* WorkflowFuture *)

(* unblock *)
CanUnblock(wf, k, seq) == \E s \in wf.status : s.id = <<k, seq>>

Unblock(wf, k, seq, r) ==
  LET s == CHOOSE s \in wf.status : s.id = <<k, seq>>
  IN [wf EXCEPT !.status = @ \ {s}, !.futs[s.fut].st = "sent", !.futs[s.fut].r = r]

Subscribe(wf, k, seq, fut) ==
  [wf EXCEPT !.status = {s \in @ : s.id # <<k, seq>>} \cup {[id |-> <<k, seq>>, fut |-> fut]}]

(* send_completion, fail_wft *)
SendCompletion(wf) ==
  [wf EXCEPT !.out = Append(@, [ok |-> TRUE, cmds |-> wf.cmds]),
             !.ph = IF wf.die THEN "evicted" ELSE "idle"]

FailWft(wf) == [wf EXCEPT !.out = Append(@, [ok |-> FALSE, cmds |-> <<>>]), !.ph = "idle"]

(* Polling the workflow function: it is fused, and says nothing once done.     *)
PollInner(wf) ==
  IF wf.code = "running" THEN [PollFutures(wf, Main) EXCEPT !.ph = "code", !.who = Main]
  ELSE [wf EXCEPT !.ph = "drain", !.res = "pending"]

PollWfFuture(wf, after) ==
  PollInner([wf EXCEPT !.after = after, !.res = "pending", !.again = FALSE])

(* poll, up to the jobs: if there are but updates beside the initialization,   *)
(* the function is polled first, so that it can register their handlers.       *)
Job(j, k, seq, r) == [j |-> j, k |-> k, seq |-> seq, r |-> r]
RemoveFromCache == Job("remove", "none", 0, "none")
InitializeWorkflow == Job("initialize", "none", 0, "none")

PolledFirst(jobs) ==
  /\ \E n \in DOMAIN jobs : jobs[n] = InitializeWorkflow
  /\ \A n \in DOMAIN jobs : jobs[n].j \in {"initialize", "update"}

TakeActivation(wf) ==
  LET act == Head(wf.inbox)
      w == [wf EXCEPT !.inbox = Tail(@), !.rep = act.rep, !.jobs = act.jobs, !.cmds = <<>>,
                      !.only = act.jobs = <<RemoveFromCache>>, !.die = FALSE, !.ph = "jobs"]
  IN IF PolledFirst(act.jobs) THEN PollWfFuture(w, "jobs") ELSE w

(* SignalWorkflow of handle_job *)
Signaled(wf, id) ==
  IF wf.sig.st = "chan" THEN [wf EXCEPT !.got = Append(@, id)]
  ELSE [wf EXCEPT !.sig = [st |-> "buffer", buf |-> Append(@.buf, id)]]

(* DoUpdate of handle_job; how is what the validator says. *)
DoUpdate(wf, id, how) ==
  LET response(r) == Command("plain", r, id, 0)
      verdict == IF wf.rep THEN "accept" ELSE how
  IN IF ~wf.handler \/ verdict = "reject" THEN [wf EXCEPT !.cmds = Append(@, response("rejected"))]
     ELSE IF verdict = "panic" THEN FailWft(wf)
     ELSE [wf EXCEPT !.cmds = Append(@, response("accepted")), !.running = Append(@, id)]

(* handle_job *)
HandleJob(wf0, how) ==
  LET j == Head(wf0.jobs)
      wf == [wf0 EXCEPT !.jobs = Tail(@)]
  IN CASE j.j = "resolve" -> IF CanUnblock(wf, j.k, j.seq) THEN Unblock(wf, j.k, j.seq, j.r)
                             ELSE FailWft(wf)
       [] j.j = "signal"  -> Signaled(wf, j.seq)
       [] j.j = "update"  -> DoUpdate(wf, j.seq, how)
       [] j.j = "patch"   -> [wf EXCEPT !.patch = "new"]
       [] j.j = "cancel"  -> [wf EXCEPT !.cancelled = TRUE]
       [] j.j = "remove"  -> [wf EXCEPT !.die = TRUE]
       [] OTHER           -> wf   \* InitializeWorkflow

(* The next update future, or else the workflow function *)
NextTurn(wf) ==
  IF wf.turn = <<>> THEN PollWfFuture(wf, "completion")
  ELSE [PollFutures(wf, Head(wf.turn)) EXCEPT !.ph = "code", !.who = Head(wf.turn),
                                              !.turn = Tail(@)]

(* poll, once the jobs are handled: an eviction alone ends the future.         *)
JobsDone(wf) ==
  IF wf.only THEN [wf EXCEPT !.out = Append(@, [ok |-> TRUE, cmds |-> <<>>]), !.ph = "evicted"]
  ELSE NextTurn([wf EXCEPT !.turn = wf.running])

(* The code that is polled waits, or is done. *)
Waits(wf) == IF wf.who = Main THEN [wf EXCEPT !.ph = "drain"] ELSE NextTurn(wf)

Returns(wf) ==
  IF wf.who = Main THEN [wf EXCEPT !.ph = "drain", !.code = "done", !.res = "done"]
  ELSE NextTurn([Send(wf, Command("plain", "completed", wf.who, 0)) EXCEPT
                   !.running = SelectSeq(@, LAMBDA u : u # wf.who)])

(* Only the first poll of poll_wf_future catches a panic. *)
Panics(wf) ==
  IF wf.again \/ wf.who # Main THEN [wf EXCEPT !.ph = "failed"]
  ELSE FailWft([wf EXCEPT !.code = "panicked"])


Repoll(wf) == PollInner([wf EXCEPT !.again = TRUE])

CancelCommand(wf, c) ==
  LET w == [wf EXCEPT !.cmds = Append(@, c)]
  IN IF c.k # "timer" THEN w
     ELSE IF ~CanUnblock(wf, "timer", c.seq) THEN [wf EXCEPT !.ph = "failed"]
     ELSE Repoll(Unblock(w, "timer", c.seq, "cancelled"))

(* CommandID of a new command: local activities are activities. *)
CommandIdOf(k) == IF k = "localActivity" THEN "activity" ELSE k

(* SubscribeSignal of poll_wf_future *)
SubscribeSignal_Mut(wf) == [wf EXCEPT !.sig = [st |-> "chan", buf |-> <<>>]]

SubscribeSignal(wf) ==
  LET w == [wf EXCEPT !.sig = [st |-> "chan", buf |-> <<>>], !.got = @ \o wf.sig.buf]
  IN IF wf.sig.st = "buffer" THEN Repoll(w) ELSE w

ForcedFailure_Mut(wf) == [FailWft(wf) EXCEPT !.ph = "drain"]

ForcedFailure(wf) == FailWft(wf)

(* poll_wf_future: the calls the code made *)
DrainCommand(wf0) ==
  LET c == Head(wf0.chan)
      wf == [wf0 EXCEPT !.chan = Tail(@)]
  IN CASE c.c = "cancel"          -> CancelCommand(wf, c)
       [] c.c = "new"             -> Subscribe([wf EXCEPT !.cmds = Append(@, c)],
                                               CommandIdOf(c.k), c.seq, c.fut)
       [] c.c = "plain"           -> [wf EXCEPT !.cmds = Append(@, c)]
       [] c.c = "subscribe"       -> Subscribe(wf, c.k, c.seq, c.fut)
       [] c.c = "subscribeSignal" -> SubscribeSignal(wf)
       [] c.c = "forceFailure"    -> ForcedFailure(wf)
       [] OTHER                   -> [wf EXCEPT !.handler = TRUE]   \* RegisterUpdate

(* poll_wf_future, once there are no more, and poll after it *)
Drained(wf0) ==
  LET wf == IF wf0.res = "done" THEN [wf0 EXCEPT !.cmds = Append(@, Command("plain", "end", 0, 0))]
            ELSE wf0
  IN IF wf.after = "jobs" THEN [wf EXCEPT !.ph = "jobs"] ELSE SendCompletion(wf)
=============================================================================
