------------------------------ MODULE SdkWorker ------------------------------
(* The worker of the Rust SDK (Worker::run): the loops that poll the core for  *)
(* workflow activations and activity tasks, the tasks spawned for workflow     *)
(* runs (WorkflowFuture) and activities, the joiner of the former, the         *)
(* processor of completions, and shutdown.  The core is what the other modules *)
(* of this project describe, seen from here: it has at most one activation of  *)
(* a run outstanding, resolves what the run has started, evicts the run when   *)
(* its completion failed or ended it, and says ShutDown when it has been shut  *)
(* down and no run has work.                                                   *)
(*                                                                             *)
(* What the code of workflows may do is bounded by the plan: runs and acts     *)
(* (activities), types (whether the type of a run is registered), starts (what *)
(* it starts), calls (how often it calls the context) and does, a set of       *)
(*   "cancel"  cancels futures       "signal"  subscribes to the signal        *)
(*   "update"  registers a handler   "starts"  its handlers start things too   *)
(*   "patch"   asks for a patch      "fail"    forces failures of tasks        *)
(*   "panic"   panics                "child"   cancels what it saw started     *)
(*   "wild"    panics also in update handlers and when it is polled again      *)
(*   "upsert"  upserts search attributes and memo                              *)
(*   "hasty"   returns right after a call that lets poll_wf_future poll again  *)
(*   "late"    (of the joiner) is slower than the core, which sends a run again *)
(* and what the core sends by work (activations that resolve), signals,        *)
(* updates, evicts (evictions it asks for), restarts (of evicted runs) and     *)
(* cancels (of the workflow).                                                  *)
EXTENDS WorkflowFuture

CONSTANTS Plans, MaxTasks, MaxRuns, MaxActs

ASSUME PlansAssumption ==
  \A p \in Plans :
    /\ {"runs", "types", "work", "signals", "updates", "cancels", "evicts", "restarts"}
         \subseteq DOMAIN p
    /\ p.signals \in Nat /\ p.updates \in Nat

VARIABLES plan, core, loop, workflows, tasks, completions, activities, shut, ended

vars == <<plan, core, loop, workflows, tasks, completions, activities, shut, ended>>

Runs == 1..plan.runs
Acts == 1..plan.acts

(* A run in the core: st is "none" (not cached), "idle", "ready" (an activation *)
(* waits for a poll) or "lang" (it is being worked on); open is what the run    *)
(* has started, signals and updates how many it was sent; done is that it has   *)
(* ended, past that it was evicted and will be replayed.                        *)
NoCoreRun == [st |-> "none", jobs |-> <<>>, evict |-> FALSE, open |-> {}, signals |-> 0,
              updates |-> 0, cancelled |-> FALSE, done |-> FALSE, past |-> FALSE]

NoActivity == [st |-> "none", asked |-> "no", token |-> FALSE, result |-> "none"]

Init ==
  /\ plan \in Plans
  /\ core = [r \in Runs |-> NoCoreRun]
  /\ loop = [wf |-> "polling", act |-> "polling"]
  /\ workflows = [r \in Runs |-> 0]
  /\ tasks = <<>>
  /\ completions = <<>>
  /\ activities = [a \in Acts |-> NoActivity]
  /\ shut = FALSE
  /\ ended = "no"

Up == ended = "no"
-----------------------------------------------------------------------------
(* The core *)

Does(what) == what \in plan.does

Spend(what) == plan[what] > 0
Spent(what) == plan' = [plan EXCEPT ![what] = @ - 1]

SendJobs(r, jobs) == core' = [core EXCEPT ![r] = [@ EXCEPT !.st = "ready", !.jobs = jobs]]

CoreOnly == UNCHANGED <<loop, workflows, tasks, completions, activities, shut, ended>>

UpdateJob(n) == Job("update", "none", n, "none")
SignalJob(n) == Job("signal", "none", n, "none")

(* A new run, or one that was evicted, with signals and updates that came      *)
(* before its first task and, on replay, the patch its history has             *)
StartRun(r) ==
  /\ Up /\ ~shut
  /\ core[r].st = "none" /\ ~core[r].done
  /\ core[r].past => Spend("restarts")
  /\ Does("late") \/ \A t \in DOMAIN tasks : tasks[t].run = r => tasks[t].st = "joined"
  /\ \E s \in 0..plan.signals, u \in 0..plan.updates,
        p \in IF core[r].past /\ Does("patch") THEN {0, 1} ELSE {0} :
       /\ core' = [core EXCEPT
            ![r] = [@ EXCEPT !.st = "ready", !.signals = s, !.updates = u,
                             !.jobs = <<InitializeWorkflow>>
                                        \o [n \in 1..p |-> Job("patch", "none", 0, "none")]
                                        \o [n \in 1..s |-> SignalJob(n)]
                                        \o [n \in 1..u |-> UpdateJob(n)]]]
       /\ plan' = [plan EXCEPT !.signals = @ - s, !.updates = @ - u,
                               !.restarts = IF core[r].past THEN @ - 1 ELSE @]
  /\ CoreOnly

(* What may become of something that the run has started *)
Outcomes(o) ==
  CASE o.k = "timer"         -> {"fired"}
    [] o.k = "localActivity" -> {"ok", "backoff"}
    [] OTHER                 -> {"ok"}

ResolveJobs(open) ==
  UNION {{Job("resolve", CommandIdOf(o.k), o.seq, x) : x \in Outcomes(o)} : o \in open}

After(o) ==
  CASE o.k = "childStart" -> {[o EXCEPT !.k = "childComplete"]}
    [] o.k = "nexusStart" -> {[o EXCEPT !.k = "nexusComplete"]}
    [] OTHER              -> {}

Resolved(open, j) ==
  LET o == CHOOSE o \in open : <<CommandIdOf(o.k), o.seq>> = <<j.k, j.seq>>
  IN (open \ {o}) \cup After(o)

(* Jobs for up to n resolutions, after others *)
Resolutions(r, first, n) ==
  LET open == core[r].open
      none == {[jobs |-> first, open |-> open]}
      one == {[jobs |-> Append(first, j), open |-> Resolved(open, j)] : j \in ResolveJobs(open)}
      two == UNION {{[jobs |-> Append(s.jobs, j), open |-> Resolved(s.open, j)] :
                       j \in ResolveJobs(s.open)} : s \in one}
  IN (IF first = <<>> THEN {} ELSE none) \cup one \cup (IF n > 1 THEN two ELSE {})

Answer(r, s) == [core[r] EXCEPT !.st = "ready", !.jobs = s.jobs, !.open = s.open]

(* Things that the run started are resolved. *)
SendWork(r) ==
  /\ Up /\ Spend("work")
  /\ core[r].st = "idle" /\ ~core[r].evict
  /\ \E s \in Resolutions(r, <<>>, 2) : core' = [core EXCEPT ![r] = Answer(r, s)]
  /\ Spent("work")
  /\ CoreOnly

SendSignal(r) ==
  /\ Up /\ Spend("signals")
  /\ core[r].st = "idle" /\ ~core[r].evict
  /\ \E s \in Resolutions(r, <<SignalJob(core[r].signals + 1)>>, 1) :
       core' = [core EXCEPT ![r] = [Answer(r, s) EXCEPT !.signals = core[r].signals + 1]]
  /\ Spent("signals")
  /\ CoreOnly

SendUpdate(r) ==
  /\ Up /\ Spend("updates")
  /\ core[r].st = "idle" /\ ~core[r].evict
  /\ core' = [core EXCEPT ![r] = [@ EXCEPT !.st = "ready", !.updates = core[r].updates + 1,
                                           !.jobs = <<UpdateJob(core[r].updates + 1)>>]]
  /\ Spent("updates")
  /\ CoreOnly

SendCancel(r) ==
  /\ Up /\ Spend("cancels")
  /\ core[r].st = "idle" /\ ~core[r].evict /\ ~core[r].cancelled
  /\ core' = [core EXCEPT ![r] = [@ EXCEPT !.st = "ready", !.cancelled = TRUE,
                                           !.jobs = <<Job("cancel", "none", 0, "none")>>]]
  /\ Spent("cancels")
  /\ CoreOnly

RequestEviction(r) ==
  /\ Up /\ Spend("evicts")
  /\ core[r].st \in {"idle", "ready", "lang"} /\ ~core[r].evict
  /\ core' = [core EXCEPT ![r].evict = TRUE]
  /\ Spent("evicts")
  /\ CoreOnly

SendEviction(r) ==
  /\ Up
  /\ core[r].st = "idle" /\ core[r].evict
  /\ SendJobs(r, <<RemoveFromCache>>)
  /\ UNCHANGED plan
  /\ CoreOnly

(* The commands of a completion, as the core takes them *)
RemoveAt(s, n) == SubSeq(s, 1, n - 1) \o SubSeq(s, n + 1, Len(s))
Elements(s) == {s[i] : i \in DOMAIN s}

Opened(cmds) == {[k |-> c.k, seq |-> c.seq] : c \in {c \in Elements(cmds) : c.c = "new"}}
Cancelled(cmds, o) == \E c \in Elements(cmds) : c.c = "cancel" /\ <<c.k, c.seq>> = <<o.k, o.seq>>

OpenAfter(open, cmds) ==
  {o \in open \cup Opened(cmds) : ~(o.k = "timer" /\ Cancelled(cmds, o))}

Ends(cmds) == \E c \in Elements(cmds) : c.k = "end"

(* complete_workflow_activation *)
Completed(c, x) ==
  IF c.jobs = <<RemoveFromCache>> THEN [NoCoreRun EXCEPT !.done = c.done, !.past = TRUE]
  ELSE [c EXCEPT !.st = "idle", !.jobs = <<>>, !.open = OpenAfter(@, x.cmds),
                 !.evict = @ \/ ~x.ok \/ Ends(x.cmds), !.done = @ \/ Ends(x.cmds)]
-----------------------------------------------------------------------------
(* The loop that polls for workflow activations *)

SpawnedTask(r) == [run |-> r, st |-> "running", wf |-> NewWorkflowFuture(plan.calls)]

GiveTo(ts, n, jobs, rep) ==
  [ts EXCEPT ![n].wf.inbox = Append(@, [jobs |-> jobs, rep |-> rep])]

(* workflow_activation_handler *)
PollWorkflow(r) ==
  /\ Up /\ loop.wf = "polling"
  /\ core[r].st = "ready"
  /\ core' = [core EXCEPT ![r].st = "lang"]
  /\ LET jobs == core[r].jobs
         init == \E n \in DOMAIN jobs : jobs[n] = InitializeWorkflow
     IN \/ /\ init /\ r \notin plan.types
           /\ completions' = Append(completions, [run |-> r, ok |-> FALSE, cmds |-> <<>>])
           /\ UNCHANGED <<workflows, tasks, ended>>
        \/ /\ init /\ r \in plan.types
           /\ tasks' = GiveTo(Append(tasks, SpawnedTask(r)), Len(tasks) + 1, jobs, core[r].past)
           /\ workflows' = [workflows EXCEPT ![r] = Len(tasks) + 1]
           /\ UNCHANGED <<completions, ended>>
        \/ /\ ~init /\ workflows[r] # 0
           /\ tasks' = GiveTo(tasks, workflows[r], jobs, FALSE)
           /\ UNCHANGED <<workflows, completions, ended>>
        \/ /\ ~init /\ workflows[r] = 0 /\ jobs = <<RemoveFromCache>>
           /\ completions' = Append(completions, [run |-> r, ok |-> TRUE, cmds |-> <<>>])
           /\ UNCHANGED <<workflows, tasks, ended>>
        \/ /\ ~init /\ workflows[r] = 0 /\ jobs # <<RemoveFromCache>>
           /\ ended' = "error"
           /\ UNCHANGED <<workflows, tasks, completions>>
  /\ UNCHANGED <<plan, loop, activities, shut>>

(* ShutDown from poll_workflow_activation: the token is cancelled and the      *)
(* senders are dropped.                                                        *)
NoWork == \A r \in Runs : core[r].st \in {"none", "idle"} /\ ~core[r].evict

PollShutDown_Mut == loop' = [loop EXCEPT !.wf = "left"]

PollShutDown == loop' = [loop EXCEPT !.wf = "stopped"]

WorkflowLoopEnds ==
  /\ Up /\ shut /\ NoWork
  /\ loop.wf = "polling"
  /\ PollShutDown
  /\ UNCHANGED <<plan, core, workflows, tasks, completions, activities, shut, ended>>
-----------------------------------------------------------------------------
(* A spawned workflow future *)

Step(t, wf) ==
  /\ tasks' = [tasks EXCEPT ![t].wf = [wf EXCEPT !.out = <<>>]]
  /\ completions' = completions \o [n \in DOMAIN wf.out |->
                      [run |-> tasks[t].run, ok |-> wf.out[n].ok, cmds |-> wf.out[n].cmds]]
  /\ UNCHANGED <<plan, core, loop, workflows, activities, shut, ended>>

At(t, ph) == tasks[t].st = "running" /\ tasks[t].wf.ph = ph

TaskTakesActivation(t) ==
  /\ At(t, "idle") /\ tasks[t].wf.inbox # <<>>
  /\ Step(t, TakeActivation(tasks[t].wf))

TaskHandlesJob(t) ==
  /\ At(t, "jobs") /\ tasks[t].wf.jobs # <<>>
  /\ \E how \in {"accept", "reject", "panic"} :
       /\ Head(tasks[t].wf.jobs).j # "update" => how = "accept"
       /\ Step(t, HandleJob(tasks[t].wf, how))

TaskHandledJobs(t) ==
  /\ At(t, "jobs") /\ tasks[t].wf.jobs = <<>>
  /\ Step(t, JobsDone(tasks[t].wf))

(* What the code that is being polled may call *)
MayStart(wf) == wf.who = Main \/ Does("starts")

Cancellable(wf) ==
  {n \in DOMAIN wf.futs :
     /\ wf.futs[n].own = wf.who /\ wf.futs[n].st = "pending" /\ ~wf.futs[n].did
     /\ wf.futs[n].k \notin {"childComplete", "cancelExternal", "nexusComplete"}
     /\ ~\E m \in DOMAIN wf.chan : wf.chan[m] = CancelId(wf.futs[n])}

CodeCalls(t) ==
  LET wf == tasks[t].wf
      w == [wf EXCEPT !.left = @ - 1]
  IN /\ At(t, "code") /\ wf.left > 0
     /\ \/ \E k \in plan.starts : MayStart(wf) /\ Step(t, StartCall(w, wf.who, k))
        \/ Does("cancel") /\ \E n \in Cancellable(wf) : Step(t, CancelCall(w, n))
        \/ Does("child") /\ \E n \in DOMAIN wf.futs :
             /\ wf.futs[n].k = "childStart" /\ wf.futs[n].st = "seen" /\ wf.who = Main
             /\ Step(t, CancelStartedChild(w, n - 1))
        \/ Does("child") /\ \E n \in DOMAIN wf.futs :
             /\ wf.futs[n].k = "nexusStart" /\ wf.futs[n].st = "seen" /\ wf.who = Main
             /\ Step(t, CancelStartedNexus(w, n))
        \/ Does("signal") /\ wf.who = Main /\ wf.sig.st # "chan"
           /\ (\A m \in DOMAIN wf.chan : wf.chan[m].c # "subscribeSignal")
           /\ Step(t, SignalChannel(w))
        \/ Does("update") /\ wf.who = Main /\ ~wf.handler /\ Step(t, UpdateHandler(w))
        \/ Does("patch") /\ Step(t, PatchCall(w))
        \/ Does("upsert") /\ Step(t, UpsertCall(w))
        \/ Does("fail") /\ Step(t, ForceTaskFail(w))

(* Calls that have poll_wf_future poll the function again *)
Again(c) == c.c = "subscribeSignal" \/ (c.c = "cancel" /\ c.k = "timer")

CodeWaits(t) == At(t, "code") /\ Step(t, Waits(tasks[t].wf))

CodeReturns(t) ==
  /\ At(t, "code")
  /\ tasks[t].wf.who = Main /\ ~Does("hasty") => \A m \in DOMAIN tasks[t].wf.chan :
                                                  ~Again(tasks[t].wf.chan[m])
  /\ Step(t, Returns(tasks[t].wf))

CodePanics(t) ==
  /\ At(t, "code") /\ Does("panic")
  /\ ~Does("wild") => tasks[t].wf.who = Main /\ ~tasks[t].wf.again
  /\ Step(t, Panics(tasks[t].wf))

TaskDrains(t) ==
  /\ At(t, "drain") /\ tasks[t].wf.chan # <<>>
  /\ Step(t, DrainCommand(tasks[t].wf))

TaskDrained(t) ==
  /\ At(t, "drain") /\ tasks[t].wf.chan = <<>>
  /\ Step(t, Drained(tasks[t].wf))

(* The select with the shutdown token, and the joiner *)
JoinTask(t) ==
  /\ Up
  /\ \/ At(t, "evicted")
     \/ At(t, "idle") /\ loop.wf = "stopped"
  /\ tasks' = [tasks EXCEPT ![t] = [run |-> @.run, st |-> "joined", wf |-> NewWorkflowFuture(0)]]
  /\ workflows' = [workflows EXCEPT ![tasks[t].run] = 0]
  /\ UNCHANGED <<plan, core, loop, completions, activities, shut, ended>>

(* The joiner ends run with the error of a future. *)
JoinFails(t) ==
  /\ Up /\ At(t, "failed")
  /\ ended' = "error"
  /\ UNCHANGED <<plan, core, loop, workflows, tasks, completions, activities, shut>>

(* wf_completion_processor *)
ProcessCompletion(n) ==
  /\ Up /\ n \in DOMAIN completions
  /\ core' = [core EXCEPT ![completions[n].run] = Completed(@, completions[n])]
  /\ completions' = RemoveAt(completions, n)
  /\ UNCHANGED <<plan, loop, workflows, tasks, activities, shut, ended>>
-----------------------------------------------------------------------------
(* Activities *)

StartActivity(a) ==
  /\ Up /\ ~shut /\ activities[a].st = "none"
  /\ activities' = [activities EXCEPT ![a].st = "ready"]
  /\ UNCHANGED <<plan, core, loop, workflows, tasks, completions, shut, ended>>

(* The server, or the core once its grace period is over, wants it cancelled.  *)
AskToCancel(a) ==
  /\ Up /\ activities[a].st = "running" /\ activities[a].asked = "no"
  /\ activities' = [activities EXCEPT ![a].asked = "ready"]
  /\ UNCHANGED <<plan, core, loop, workflows, tasks, completions, shut, ended>>

(* ActContext::new *)
ActContext == [NoActivity EXCEPT !.st = "running"]

(* activity_task_handler *)
PollStart(a) ==
  /\ Up /\ loop.act = "polling" /\ activities[a].st = "ready"
  /\ activities' = [activities EXCEPT ![a] = ActContext]
  /\ UNCHANGED <<plan, core, loop, workflows, tasks, completions, shut, ended>>

CancelToken(a) == activities' = [activities EXCEPT ![a].asked = "told", ![a].token = TRUE]

PollCancel(a) ==
  /\ Up /\ loop.act = "polling" /\ activities[a].asked = "ready"
  /\ CancelToken(a)
  /\ UNCHANGED <<plan, core, loop, workflows, tasks, completions, shut, ended>>

(* What becomes of the value the function returned, or of its panic *)
ActivityResult(how) ==
  CASE how \in {"retryable", "nonRetryable", "panic"} -> "failed"
    [] OTHER -> how

(* The function of an activity returns, of its own or because its token was    *)
(* cancelled, and its task completes it.                                       *)
ActivityReturns(a) ==
  /\ activities[a].st = "running"
  /\ \E how \in {"normal", "willCompleteAsync", "cancelled", "retryable", "nonRetryable", "panic"} :
       activities' = [activities EXCEPT ![a].st = "done", ![a].asked = "told",
                                        ![a].result = ActivityResult(how)]
  /\ UNCHANGED <<plan, core, loop, workflows, tasks, completions, shut, ended>>

(* The core says ShutDown once no activity is outstanding. *)
ActivityLoopEnds ==
  /\ Up /\ shut /\ loop.act = "polling"
  /\ \A a \in Acts : activities[a].st \in {"none", "done"}
  /\ loop' = [loop EXCEPT !.act = "stopped"]
  /\ UNCHANGED <<plan, core, workflows, tasks, completions, activities, shut, ended>>
-----------------------------------------------------------------------------
(* shutdown_handle *)
InitiateShutdown ==
  /\ Up /\ ~shut
  /\ shut' = TRUE
  /\ UNCHANGED <<plan, core, loop, workflows, tasks, completions, activities, ended>>

(* run returns once the loops, the joiner and the processor are through.       *)
RunEnds ==
  /\ Up
  /\ loop = [wf |-> "stopped", act |-> "stopped"]
  /\ \A t \in DOMAIN tasks : tasks[t].st = "joined"
  /\ completions = <<>>
  /\ ended' = "ok"
  /\ UNCHANGED <<plan, core, loop, workflows, tasks, completions, activities, shut>>

CoreNext ==
  \E r \in Runs : \/ StartRun(r) \/ SendWork(r) \/ SendSignal(r) \/ SendUpdate(r)
                  \/ SendCancel(r) \/ RequestEviction(r) \/ SendEviction(r)

TaskNext(t) ==
  \/ TaskTakesActivation(t) \/ TaskHandlesJob(t) \/ TaskHandledJobs(t)
  \/ CodeCalls(t) \/ CodeWaits(t) \/ CodeReturns(t) \/ CodePanics(t)
  \/ TaskDrains(t) \/ TaskDrained(t) \/ JoinTask(t) \/ JoinFails(t)

LoopNext ==
  \/ \E r \in Runs : PollWorkflow(r)
  \/ WorkflowLoopEnds
  \/ \E n \in DOMAIN completions : ProcessCompletion(n)
  \/ ActivityLoopEnds
  \/ RunEnds

ActivityNext(a) ==
  StartActivity(a) \/ AskToCancel(a) \/ PollStart(a) \/ PollCancel(a) \/ ActivityReturns(a)

Next ==
  \/ CoreNext
  \/ LoopNext
  \/ \E t \in DOMAIN tasks : TaskNext(t)
  \/ \E a \in Acts : ActivityNext(a)
  \/ InitiateShutdown

(* The loops, the joiner, the processor and spawned tasks are run by the       *)
(* executor; code that is polled waits or returns; activities return once      *)
(* their token is cancelled; the core evicts what it is to evict and, when it  *)
(* is shut down, cancels activities after its grace period.                    *)
Fairness ==
  /\ WF_vars(LoopNext)
  /\ \A t \in 1..MaxTasks :
       /\ WF_vars(t \in DOMAIN tasks /\ TaskNext(t))
       /\ WF_vars(t \in DOMAIN tasks /\ (JoinTask(t) \/ JoinFails(t)))
  /\ \A r \in 1..MaxRuns : WF_vars(r \in Runs /\ (SendEviction(r) \/ PollWorkflow(r)))
  /\ \A a \in 1..MaxActs :
       /\ WF_vars(a \in Acts /\ (PollStart(a) \/ PollCancel(a)))
       /\ WF_vars(a \in Acts /\ shut /\ AskToCancel(a))
       /\ WF_vars(a \in Acts /\ activities[a].token /\ ActivityReturns(a))

Spec == Init /\ [][Next]_vars /\ Fairness
-----------------------------------------------------------------------------
(* Properties *)

Busy(t) == tasks[t].st = "running" /\ tasks[t].wf.ph \notin {"idle", "evicted"}

(* Where activations of run r are: in the inbox or the poll of one of its       *)
(* futures, or among the completions                                           *)
Mine(r) == {t \in DOMAIN tasks : tasks[t].run = r /\ tasks[t].st = "running"}

Holders(r) ==
  (UNION {{<<"inbox", t, n>> : n \in DOMAIN tasks[t].wf.inbox} : t \in Mine(r)})
    \cup {<<"poll", t, 0>> : t \in {t \in Mine(r) : Busy(t)}}
    \cup {<<"completion", 0, n>> : n \in {n \in DOMAIN completions : completions[n].run = r}}

(* An activation that the core has handed out is in one place: on the way to   *)
(* the run's future, in its poll, or on the way back as one completion.  A     *)
(* poll that failed the task sends no second completion for it.                *)
CompletedOnce ==
  Up => \A r \in Runs : Cardinality(Holders(r)) = IF core[r].st = "lang" THEN 1 ELSE 0

(* The task of a run whose last activation went well and is fully dealt with   *)
Settled(t) ==
  LET r == tasks[t].run
  IN /\ Up /\ At(t, "idle") /\ tasks[t].wf.code = "running"
     /\ workflows[r] = t /\ core[r].st = "idle" /\ ~core[r].evict


(* The signals that the core has sent to a run reach the channel the code      *)
(* subscribes to, or its buffer before that: none is lost, repeated or         *)
(* overtaken when signals come before, with and after the subscription.        *)
SignalsKept ==
  \A t \in DOMAIN tasks : Settled(t) =>
    tasks[t].wf.got \o tasks[t].wf.sig.buf = [n \in 1..core[tasks[t].run].signals |-> n]

(* run returns after shutdown was asked for, wherever its workflows and        *)
(* activities are, and without an error unless code panicked where that is not *)
(* caught or the joiner was overtaken.                                         *)
RunReturns == shut ~> IF Does("wild") \/ Does("late") THEN ended # "no" ELSE ended = "ok"
=============================================================================
