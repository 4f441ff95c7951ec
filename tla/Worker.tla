-------------------------------- MODULE Worker --------------------------------
(* A worker of the core, seen as the composition of its parts: the long pollers *)
(* for workflow and Nexus tasks and their buffers, the permits they need, the   *)
(* clients it is registered with for eager starts, the manager of Nexus tasks,  *)
(* and shutdown, which waits for one part after the other.  Workflows, local    *)
(* and remote activities are what WorkflowStream, LocalActivityManager and      *)
(* ActivityTasks describe, seen from here: tasks that are outstanding, and      *)
(* polls that end with ShutDown.  A step is the code between two awaits.        *)
(*                                                                              *)
(* A plan is the configuration of the worker and what may happen to it:         *)
(*   polls, ratio, cached, npolls, remote, graceful, tuner, wft, nexus,         *)
(*   resources    the configuration (ratio of ten polls are not sticky)         *)
(*   lang         what lang polls for: "wf", "act", "nexus"                     *)
(*   tasks        how many tasks the server has for each buffer                 *)
(*   empties, errs, las, ats, flips, swaps, others                              *)
(*                empty or unreadable answers, failed calls, local and remote   *)
(*                activities, changes of the load, new clients, other workers   *)
(*   eager, retries, timers, malformed                                          *)
(*                eager starts and their retries, whether Nexus tasks time out, *)
(*                and whether lang completes them with the wrong response       *)
EXTENDS SlotPermits, ClientRetry, NexusManager

CONSTANTS Plans, Clients

(* There is a client to begin with, and a plan has the fields of a             *)
(* configuration: numbers of pollers, of cached workflows and of calls, what    *)
(* tuner there is, and of what size a fixed number of slots is.                 *)
ASSUME WorkerAssumption ==
  /\ Clients \in Nat \ {0} /\ DefaultSlots \in Nat
  /\ \A p \in Plans :
       /\ {"others", "remote", "tuner", "wft", "nexus"} \subseteq DOMAIN p
       /\ {p.others, p.polls, p.ratio, p.cached, p.npolls, p.eager} \subseteq Nat
       /\ p.tuner \in {"resource", "options", "config"}
       /\ \A o \in {p.wft, p.nexus} :
            o.type \in {"none", "fixed", "resource"} /\ (o.type = "fixed" => o.slots \in Nat)

VARIABLES plan, room, shut, dealers, pollers, bufs, wfs, eager, registry, nexus, handlers,
          acts, closing

vars == <<plan, room, shut, dealers, pollers, bufs, wfs, eager, registry, nexus, handlers,
          acts, closing>>

WftBuffers == {"normal", "sticky"}
Buffers == WftBuffers \cup {"nexus"}
DealerOf(b) == IF b = "nexus" THEN "nexus" ELSE "wft"
-----------------------------------------------------------------------------
(* The configuration *)

AtLeast(n, m) == IF n < m THEN m ELSE n
MaxNonstickyPolls(c) == AtLeast((c.polls * c.ratio) \div 10, 1)
MaxStickyPolls(c) ==
  AtLeast(IF c.polls < MaxNonstickyPolls(c) THEN 0 ELSE c.polls - MaxNonstickyPolls(c), 1)

Validate(c) ==
  /\ c.polls > 0
  /\ c.cached > 0 => c.polls <= c.cached

MaxPermits(c) == IF c.cached > 0 THEN AtLeast(c.cached, 2) ELSE 0

PollersOf(c) ==
  {<<"normal", i>> : i \in 1..(IF c.cached > 0 THEN MaxNonstickyPolls(c) ELSE c.polls)}
    \cup {<<"sticky", i>> : i \in 1..(IF c.cached > 0 THEN MaxStickyPolls(c) ELSE 0)}
    \cup {<<"nexus", i>> : i \in 1..c.npolls}

NoSlot == <<>>
NewPoller == [at |-> "start", permit |-> NoSlot, call |-> NewCall("task", 0)]

(* SlotManager: who is registered for the task queue with a client, and the    *)
(* key it got.  A key is never used twice.                                     *)
Register(reg, who) ==
  IF reg.by = "none" THEN [by |-> who, key |-> reg.next, next |-> reg.next + 1] ELSE reg

Unregister_Mut(reg, key) == [by |-> "none", key |-> 0, next |-> reg.next]
Unregister(reg, key) ==
  IF reg.by # "none" /\ reg.key = key THEN [by |-> "none", key |-> 0, next |-> reg.next] ELSE reg

Registered(reg, key) == reg.by # "none" /\ reg.key = key

Init ==
  /\ plan \in {p \in Plans : Validate(p) /\ ValidOptions(p)}
  /\ room = TRUE
  /\ shut = FALSE
  /\ dealers = [wft |-> NewDealer(MaxPermits(plan), Tuner(plan).wft),
                nexus |-> NewDealer(0, Tuner(plan).nexus)]
  /\ pollers = [p \in PollersOf(plan) |-> NewPoller]
  /\ bufs = [b \in Buffers |-> [items |-> <<>>, started |-> FALSE]]
  /\ wfs = [st |-> "run", input |-> "open", polled |-> FALSE, told |-> FALSE, error |-> FALSE,
            out |-> <<>>]
  /\ eager = [calls |-> [c \in 1..plan.eager |->
                [at |-> "idle", slot |-> NoSlot, call |-> NewCall("normal", plan.retries)]],
              queue |-> <<>>]
  /\ registry = [at |-> [c \in 1..Clients |->
                   IF c = 1 THEN [by |-> "worker", key |-> 1, next |-> 2]
                            ELSE [by |-> "none", key |-> 0, next |-> 1]],
                 client |-> 1, key |-> 1]
  /\ nexus = NewNexusManager
  /\ handlers = <<>>
  /\ acts = [localDone |-> FALSE, remoteDone |-> ~plan.remote, poll |-> "no", lock |-> FALSE,
             saw |-> [l |-> FALSE, r |-> FALSE], rcvs |-> "open", held |-> FALSE,
             wfdown |-> FALSE, complete |-> FALSE, remote |-> 0, toldRemote |-> FALSE,
             told |-> FALSE]
  /\ closing = "no"

Spend(what) == plan[what] > 0
Spent(what) == plan' = [plan EXCEPT ![what] = @ - 1]

Item(res, slot) == [res |-> res, slot |-> slot]

(* How many of the answers in a buffer hold a permit                           *)
SlotsOf(items) == Cardinality({i \in DOMAIN items : items[i].slot # NoSlot})
-----------------------------------------------------------------------------
(* The long pollers (LongPollBuffer).  A poller waits for the first poll, then  *)
(* for the permits to be below the maximum, for a slot, and for the server.     *)

PollElse == UNCHANGED <<room, shut, wfs, eager, registry, nexus, handlers, acts, closing>>

PollerTo(p, at) == pollers' = [pollers EXCEPT ![p].at = at]

PollerStarts(p) ==
  /\ pollers[p].at = "start" /\ bufs[p[1]].started /\ ~shut
  /\ PollerTo(p, "max")
  /\ UNCHANGED <<plan, dealers, bufs>> /\ PollElse

PollerBelowMax(p) ==
  /\ pollers[p].at = "max" /\ BelowMax(dealers[DealerOf(p[1])])
  /\ PollerTo(p, "reserve")
  /\ UNCHANGED <<plan, dealers, bufs>> /\ PollElse

PollerReserves(p) ==
  LET d == DealerOf(p[1]) IN
  /\ pollers[p].at = "reserve" /\ CanReserve(dealers[d], p[1], room)
  /\ dealers' = [dealers EXCEPT ![d] = BuildOwned(@, p[1])]
  /\ pollers' = [pollers EXCEPT ![p] =
       [at |-> "poll", permit |-> <<Permit(p[1])>>, call |-> NewCall("task", 0)]]
  /\ UNCHANGED <<plan, bufs>> /\ PollElse

(* Shutdown is one side of every select of the loop                            *)
PollerStops(p) ==
  /\ shut /\ pollers[p].at # "done"
  /\ pollers' = [pollers EXCEPT ![p] = [NewPoller EXCEPT !.at = "done"]]
  /\ dealers' = [dealers EXCEPT ![DealerOf(p[1])] = ReleaseUnused(@, Len(pollers[p].permit))]
  /\ UNCHANGED <<plan, bufs>> /\ PollElse

(* Whether what is sent to a buffer will be received                           *)
Received(b) == IF b = "nexus" THEN TRUE ELSE wfs.st = "run" /\ wfs.input # "ended"

(* The loop starts over with a look at the shutdown token                      *)
LoopedPoller == [NewPoller EXCEPT !.at = IF shut THEN "done" ELSE "max"]

(* The server answers a poll: the permit goes along with the answer            *)
PollAnswered(p, res) ==
  LET b == p[1] IN
  /\ pollers[p].at = "poll"
  /\ \/ res = "task" /\ plan.tasks[b] > 0 /\ plan' = [plan EXCEPT !.tasks[b] = @ - 1]
     \/ res \in {"empty", "bad"} /\ Spend("empties") /\ Spent("empties")
  /\ pollers' = [pollers EXCEPT ![p] = LoopedPoller]
  /\ IF Received(b)
     THEN /\ bufs' = [bufs EXCEPT ![b].items = Append(@, Item(res, pollers[p].permit))]
          /\ UNCHANGED dealers
     ELSE /\ dealers' = [dealers EXCEPT ![DealerOf(b)] = ReleaseUnused(@, Len(pollers[p].permit))]
          /\ UNCHANGED bufs
  /\ PollElse

(* A poll fails, and is retried by the client or handed on as an error, which  *)
(* gives the permit back                                                       *)
PollFails(p, code) ==
  LET b == p[1]
      call == pollers[p].call IN
  /\ pollers[p].at = "poll" /\ Spend("errs") /\ Spent("errs")
  /\ IF WillRetry(call, code)
     THEN /\ pollers' = [pollers EXCEPT ![p].call = NextAttempt(call, code)]
          /\ UNCHANGED <<dealers, bufs>>
     ELSE /\ pollers' = [pollers EXCEPT ![p] = LoopedPoller]
          /\ dealers' = [dealers EXCEPT ![DealerOf(b)] = ReleaseUnused(@, Len(pollers[p].permit))]
          /\ bufs' = IF Received(b) THEN [bufs EXCEPT ![b].items = Append(@, Item("error", NoSlot))]
                                    ELSE bufs
  /\ PollElse

PollAMinute(p) ==
  /\ pollers[p].at = "poll" /\ ~pollers[p].call.fatal /\ Spend("errs")
  /\ pollers' = [pollers EXCEPT ![p].call.fatal = TRUE]
  /\ UNCHANGED <<plan, dealers, bufs>> /\ PollElse

(* A buffer whose pollers are done and whose answers are taken says None       *)
Finished(b) == \A p \in DOMAIN pollers : p[1] = b => pollers[p].at = "done"
Dead(b) == Finished(b) /\ bufs[b].items = <<>>
HasPollers(b) == \E p \in DOMAIN pollers : p[1] = b

(* Slots: the throttle passes, and the load changes                            *)
RampPasses(d) ==
  /\ dealers[d].supplier.type = "resource" /\ ~dealers[d].supplier.ramped
  /\ dealers' = [dealers EXCEPT ![d].supplier.ramped = TRUE]
  /\ UNCHANGED <<plan, pollers, bufs>> /\ PollElse

LoadChanges ==
  /\ Spend("flips") /\ Spent("flips")
  /\ room' = ~room
  /\ UNCHANGED <<shut, dealers, pollers, bufs, wfs, eager, registry, nexus, handlers, acts, closing>>
-----------------------------------------------------------------------------
(* initiate_shutdown: eager starts first, then the managers; it may run again   *)

ShutRegistry(r) == [r EXCEPT !.at[r.client] = Unregister(@, r.key)]

LasOut == {i \in DOMAIN wfs.out : wfs.out[i].la = "running"}

(* set_shutdown_complete_if_ready of the local activity manager                *)
LamReady(a, running) == [a EXCEPT !.complete = @ \/ (a.wfdown /\ running = {})]

ShutActs(a) == LamReady([a EXCEPT !.wfdown = @ \/ ~wfs.polled], LasOut)

InitiateShutdown ==
  /\ shut' = TRUE
  /\ registry' = ShutRegistry(registry)
-----------------------------------------------------------------------------
(* Workflow tasks: the buffers and the eager ones become work of WorkflowStream *)

WftOut(p, b) == [permit |-> [p EXCEPT !.used = b], la |-> "no"]

LangPollsWf ==
  /\ "wf" \in plan.lang /\ ~wfs.polled
  /\ wfs' = [wfs EXCEPT !.polled = TRUE]
  /\ bufs' = [b \in Buffers |-> [bufs[b] EXCEPT !.started = @ \/ (b \in WftBuffers /\ wfs.st = "run")]]
  /\ UNCHANGED <<plan, room, shut, dealers, pollers, eager, registry, nexus, handlers, acts, closing>>

(* The next answer of a buffer.  A task uses its permit; which queue it counts *)
(* for is decided by whether its history is incremental.  Nothing else keeps   *)
(* the permit.                                                                 *)
WftTaken(b) ==
  LET item == Head(bufs[b].items) IN
  /\ wfs.st = "run" /\ wfs.polled /\ wfs.input = "open" /\ bufs[b].items # <<>>
  /\ bufs' = [bufs EXCEPT ![b].items = Tail(@)]
  /\ CASE item.res = "task" ->
            /\ \E used \in WftBuffers :
                 wfs' = [wfs EXCEPT !.out = Append(@, WftOut(item.slot[1], used))]
            /\ dealers' = [dealers EXCEPT !.wft = IntoUsed(@)]
       [] item.res \in {"empty", "bad"} ->
            /\ dealers' = [dealers EXCEPT !.wft = ReleaseUnused(@, Len(item.slot))]
            /\ UNCHANGED wfs
       [] OTHER -> wfs' = [wfs EXCEPT !.error = TRUE] /\ UNCHANGED dealers
  /\ UNCHANGED <<plan, room, shut, pollers, eager, registry, nexus, handlers, acts, closing>>

(* WorkflowTaskPoller returns the first None of its two buffers                *)
WftInputEnds(b) ==
  /\ wfs.st = "run" /\ wfs.polled /\ wfs.input = "open" /\ HasPollers(b) /\ Dead(b)
  /\ wfs' = [wfs EXCEPT !.input = "closing"]
  /\ UNCHANGED <<plan, room, shut, dealers, pollers, bufs, eager, registry, nexus, handlers, acts, closing>>

(* What the buffers still hold is dropped with them                            *)
HeldSlots == SlotsOf(bufs["normal"].items) + SlotsOf(bufs["sticky"].items)
EmptiedBuffers ==
  [b \in Buffers |-> IF b \in WftBuffers THEN [bufs[b] EXCEPT !.items = <<>>] ELSE bufs[b]]

WftInputClosed ==
  /\ wfs.st = "run" /\ wfs.input = "closing" /\ \A b \in WftBuffers : Finished(b)
  /\ wfs' = [wfs EXCEPT !.input = "ended"]
  /\ dealers' = [dealers EXCEPT !.wft = ReleaseUnused(@, HeldSlots)]
  /\ bufs' = EmptiedBuffers
  /\ UNCHANGED <<plan, room, shut, pollers, eager, registry, nexus, handlers, acts, closing>>

EagerTaken ==
  /\ wfs.st = "run" /\ wfs.polled /\ eager.queue # <<>>
  /\ eager' = [eager EXCEPT !.queue = Tail(@)]
  /\ wfs' = [wfs EXCEPT !.out = Append(@, WftOut(Head(eager.queue), "normal"))]
  /\ dealers' = [dealers EXCEPT !.wft = IntoUsed(@)]
  /\ UNCHANGED <<plan, room, shut, pollers, bufs, registry, nexus, handlers, acts, closing>>

WftStartsLa(i) ==
  /\ wfs.out[i].la = "no" /\ acts.rcvs = "open" /\ Spend("las") /\ Spent("las")
  /\ wfs' = [wfs EXCEPT !.out[i].la = "queued"]
  /\ UNCHANGED <<room, shut, dealers, pollers, bufs, eager, registry, nexus, handlers, acts, closing>>

Without(s, i) == SubSeq(s, 1, i - 1) \o SubSeq(s, i + 1, Len(s))

WftDone(i) ==
  /\ wfs.out[i].la = "no"
  /\ wfs' = [wfs EXCEPT !.out = Without(@, i)]
  /\ dealers' = [dealers EXCEPT !.wft = Release(@, wfs.out[i].permit)]
  /\ UNCHANGED <<plan, room, shut, pollers, bufs, eager, registry, nexus, handlers, acts, closing>>

(* The processing thread ends: no task is outstanding, or nobody polled        *)
WorkflowsIdle_Mut == TRUE
WorkflowsIdle == wfs.out = <<>>

WorkflowsEnd ==
  /\ wfs.st = "run" /\ shut /\ WorkflowsIdle
  /\ wfs' = [wfs EXCEPT !.st = "down"]
  /\ dealers' = [dealers EXCEPT !.wft = ReleaseUnused(@, HeldSlots + Len(eager.queue))]
  /\ bufs' = EmptiedBuffers
  /\ eager' = [eager EXCEPT !.queue = <<>>]
  /\ UNCHANGED <<plan, room, shut, pollers, registry, nexus, handlers, acts, closing>>

(* next_workflow_activation returns an error: ShutDown, or what a poll failed  *)
(* with                                                                        *)
LangToldError ==
  /\ wfs.error
  /\ wfs' = [wfs EXCEPT !.error = FALSE]
  /\ InitiateShutdown
  /\ acts' = ShutActs(acts)
  /\ UNCHANGED <<plan, room, dealers, pollers, bufs, eager, nexus, handlers, closing>>

LangToldWfShutDown ==
  /\ wfs.st = "down" /\ "wf" \in plan.lang /\ ~wfs.error /\ ~wfs.told
  /\ wfs' = [wfs EXCEPT !.polled = TRUE, !.told = TRUE]
  /\ InitiateShutdown
  /\ acts' = LamReady([acts EXCEPT !.wfdown = TRUE], LasOut)
  /\ UNCHANGED <<plan, room, dealers, pollers, bufs, eager, nexus, handlers, closing>>
-----------------------------------------------------------------------------
(* Eager starts: a call to start a workflow takes a slot of the worker that is  *)
(* registered with its client, and its answer may hold the first task           *)

EagerCall(c, to) == eager' = [eager EXCEPT !.calls[c] = to]

EagerCalled(c, cl) ==
  LET given == /\ registry.at[cl].by = "worker" /\ BelowMax(dealers.wft)
               /\ CanReserve(dealers.wft, "normal", room) IN
  /\ eager.calls[c].at = "idle"
  /\ EagerCall(c, [eager.calls[c] EXCEPT !.at = "flight",
                                         !.slot = IF given THEN <<Permit("normal")>> ELSE NoSlot])
  /\ dealers' = IF given THEN [dealers EXCEPT !.wft = BuildOwned(@, "normal")] ELSE dealers
  /\ UNCHANGED <<plan, room, shut, pollers, bufs, wfs, registry, nexus, handlers, acts, closing>>

(* schedule_wft: a task nobody receives is dropped with its permit             *)
EagerAnswered(c, withTask) ==
  LET slot == eager.calls[c].slot
      kept == withTask /\ wfs.st = "run" IN
  /\ eager.calls[c].at = "flight"
  /\ withTask => slot # NoSlot
  /\ eager' = [calls |-> [eager.calls EXCEPT ![c] = [@ EXCEPT !.at = "done", !.slot = NoSlot]],
               queue |-> IF kept THEN eager.queue \o slot ELSE eager.queue]
  /\ dealers' = IF kept THEN dealers ELSE [dealers EXCEPT !.wft = ReleaseUnused(@, Len(slot))]
  /\ UNCHANGED <<plan, room, shut, pollers, bufs, wfs, registry, nexus, handlers, acts, closing>>

EagerFails(c, code) ==
  LET it == eager.calls[c] IN
  /\ it.at = "flight" /\ Spend("errs") /\ Spent("errs")
  /\ EagerCall(c, IF WillRetry(it.call, code)
                  THEN [at |-> "idle", slot |-> NoSlot, call |-> NextAttempt(it.call, code)]
                  ELSE [it EXCEPT !.at = "done", !.slot = NoSlot])
  /\ dealers' = [dealers EXCEPT !.wft = ReleaseUnused(@, Len(it.slot))]
  /\ UNCHANGED <<room, shut, pollers, bufs, wfs, registry, nexus, handlers, acts, closing>>

EagerTooLong(c) ==
  /\ eager.calls[c].at = "flight" /\ ~eager.calls[c].call.elapsed /\ Spend("errs")
  /\ eager' = [eager EXCEPT !.calls[c].call.elapsed = TRUE]
  /\ UNCHANGED <<plan, room, shut, dealers, pollers, bufs, wfs, registry, nexus, handlers, acts, closing>>

(* replace_client takes the registration along, unless another worker is       *)
(* registered for the task queue with the new client                           *)
MovedTo(r, cl) ==
  LET ours == Registered(r.at[r.client], r.key)
      left == [r.at EXCEPT ![r.client] = Unregister(@, r.key)]
      joined == ours /\ left[cl].by = "none" IN
  [at |-> IF joined THEN [left EXCEPT ![cl] = Register(@, "worker")] ELSE left,
   client |-> cl, key |-> IF joined THEN left[cl].next ELSE 0]

ReplaceClient(cl) ==
  /\ Spend("swaps") /\ Spent("swaps")
  /\ registry' = MovedTo(registry, cl)
  /\ UNCHANGED <<room, shut, dealers, pollers, bufs, wfs, eager, nexus, handlers, acts, closing>>

(* Another worker for the same task queue starts with a client, or shuts down  *)
OtherWorkerStarts(cl) ==
  /\ Spend("others") /\ Spent("others") /\ registry.at[cl].by = "none"
  /\ registry' = [registry EXCEPT !.at[cl] = Register(@, "other")]
  /\ UNCHANGED <<room, shut, dealers, pollers, bufs, wfs, eager, nexus, handlers, acts, closing>>

OtherWorkerStops(cl) ==
  /\ registry.at[cl].by = "other" /\ Spend("others") /\ Spent("others")
  /\ registry' = [registry EXCEPT !.at[cl] = Unregister(@, registry.at[cl].key)]
  /\ UNCHANGED <<room, shut, dealers, pollers, bufs, wfs, eager, nexus, handlers, acts, closing>>
-----------------------------------------------------------------------------
(* activity_poll: local and remote activities, until both say they are done.    *)
(* next_pending keeps the lock of the receivers while it waits, and a permit.   *)

ActElse == UNCHANGED <<room, dealers, pollers, bufs, eager, nexus, handlers, closing>>
Polled(a) == [a EXCEPT !.poll = "no", !.lock = FALSE]

LangPollsActs ==
  /\ "act" \in plan.lang /\ acts.poll = "no" /\ ~acts.told
  /\ acts' = IF acts.localDone /\ acts.remoteDone THEN [acts EXCEPT !.told = TRUE]
             ELSE [acts EXCEPT !.poll = "called",
                               !.saw = [l |-> acts.localDone, r |-> acts.remoteDone]]
  /\ UNCHANGED <<plan, shut, wfs, registry>> /\ ActElse

ReceiversLocked ==
  /\ acts.poll = "called" /\ ~acts.saw.l /\ ~acts.lock /\ closing # "rcvs"
  /\ acts' = [acts EXCEPT !.lock = TRUE, !.held = (acts.rcvs = "open")]
  /\ UNCHANGED <<plan, shut, wfs, registry>> /\ ActElse

LasWaiting == {i \in DOMAIN wfs.out : wfs.out[i].la = "queued" /\ acts.rcvs = "open"}
NoMoreLas == acts.complete \/ acts.rcvs = "empty"

LocalDispatched(i) ==
  /\ acts.lock /\ ~NoMoreLas /\ i \in LasWaiting
  /\ wfs' = [wfs EXCEPT !.out[i].la = "running"]
  /\ acts' = [Polled(acts) EXCEPT !.held = FALSE]
  /\ UNCHANGED <<plan, shut, registry>> /\ ActElse

LocalNone ==
  /\ acts.lock /\ NoMoreLas
  /\ acts' = [Polled(acts) EXCEPT !.localDone = @ \/ shut]
  /\ UNCHANGED <<plan, shut, wfs, registry>> /\ ActElse

(* The select is biased: a local activity goes first                           *)
RemoteFirst ==
  /\ acts.poll = "called" /\ ~acts.saw.r
  /\ ~(acts.lock /\ (NoMoreLas \/ LasWaiting # {}))

RemoteGiven ==
  /\ RemoteFirst /\ Spend("ats") /\ Spent("ats")
  /\ acts' = [Polled(acts) EXCEPT !.remote = @ + 1]
  /\ UNCHANGED <<shut, wfs, registry>> /\ ActElse

RemoteShutDown ==
  /\ RemoteFirst /\ shut /\ acts.remote = 0
  /\ acts' = [Polled(acts) EXCEPT !.remoteDone = TRUE, !.toldRemote = TRUE]
  /\ UNCHANGED <<plan, shut, wfs, registry>> /\ ActElse

RemoteFails ==
  /\ RemoteFirst /\ Spend("errs") /\ Spent("errs")
  /\ InitiateShutdown
  /\ acts' = ShutActs(Polled(acts))
  /\ UNCHANGED wfs /\ ActElse

LocalCompleted(i) ==
  /\ wfs.out[i].la = "running"
  /\ wfs' = [wfs EXCEPT !.out[i].la = "no"]
  /\ acts' = LamReady(acts, LasOut \ {i})
  /\ UNCHANGED <<plan, shut, registry>> /\ ActElse

RemoteCompleted ==
  /\ acts.remote > 0
  /\ acts' = [acts EXCEPT !.remote = @ - 1]
  /\ UNCHANGED <<plan, shut, wfs, registry>> /\ ActElse
-----------------------------------------------------------------------------
(* Nexus tasks.  Cancels are preferred to what the pollers have.                *)

NexusElse == UNCHANGED <<room, shut, pollers, wfs, eager, registry, acts, closing>>
NexusStreams == "nexus" \in plan.lang /\ nexus.polled /\ nexus.source # "ended"

LangPollsNexus ==
  /\ "nexus" \in plan.lang /\ ~nexus.polled
  /\ nexus' = [nexus EXCEPT !.polled = TRUE]
  /\ bufs' = [bufs EXCEPT !["nexus"].started = TRUE]
  /\ UNCHANGED <<plan, dealers, handlers>> /\ NexusElse

NexusCancelled ==
  /\ NexusStreams /\ nexus.cancels # <<>>
  /\ nexus' = CancelGiven(nexus)
  /\ UNCHANGED <<plan, dealers, bufs, handlers>> /\ NexusElse

(* A task is given to lang with its permit; nothing else keeps the permit      *)
NexusTaken(kind, timer) ==
  LET item == Head(bufs["nexus"].items)
      t == Len(handlers) + 1 IN
  /\ NexusStreams /\ nexus.source = "open" /\ nexus.cancels = <<>> /\ bufs["nexus"].items # <<>>
  /\ bufs' = [bufs EXCEPT !["nexus"].items = Tail(@)]
  /\ IF item.res = "task"
     THEN /\ nexus' = Track(nexus, t, kind, timer)
          /\ handlers' = Append(handlers, "running")
          /\ dealers' = [dealers EXCEPT !.nexus = IntoUsed(@)]
     ELSE /\ dealers' = [dealers EXCEPT !.nexus = ReleaseUnused(@, Len(item.slot))]
          /\ UNCHANGED <<nexus, handlers>>
  /\ UNCHANGED plan /\ NexusElse

NexusSourceComplete ==
  /\ NexusStreams /\ nexus.source = "open" /\ nexus.cancels = <<>> /\ Dead("nexus")
  /\ nexus' = SourceComplete(nexus, plan.graceful)
  /\ UNCHANGED <<plan, dealers, bufs, handlers>> /\ NexusElse

NexusChecks ==
  /\ NexusStreams /\ nexus.source = "done" /\ ~nexus.waiting
  /\ nexus' = CheckOutstanding(nexus)
  /\ UNCHANGED <<plan, dealers, bufs, handlers>> /\ NexusElse

NexusGracePasses ==
  /\ nexus.source = "done" /\ nexus.grace = "running"
  /\ \E order \in Orders(Outstanding(nexus)) : nexus' = GracePassed(nexus, order)
  /\ UNCHANGED <<plan, dealers, bufs, handlers>> /\ NexusElse

NexusTimesOut(t) ==
  /\ nexus.map[t].timer
  /\ nexus' = TimedOut(nexus, t)
  /\ UNCHANGED <<plan, dealers, bufs, handlers>> /\ NexusElse

LangToldNexusShutDown ==
  /\ nexus.source = "ended" /\ ~nexus.told
  /\ nexus' = [nexus EXCEPT !.told = TRUE]
  /\ UNCHANGED <<plan, dealers, bufs, handlers>> /\ NexusElse

(* complete_task: the task leaves the map before the server is told, and its   *)
(* permit is dropped and the stream notified after; a malformed response       *)
(* returns between, and does not notify                                        *)
UsedForNexus == [Permit("nexus") EXCEPT !.used = "nexus"]

NexusCompleted(t, status) ==
  LET malformed == Malformed(nexus.map[t].kind, status) IN
  /\ handlers[t] = "running"
  /\ malformed => plan.malformed
  /\ nexus' = Untrack(nexus, t)
  /\ handlers' = [handlers EXCEPT ![t] = IF malformed THEN "done" ELSE "reporting"]
  /\ dealers' = IF malformed THEN [dealers EXCEPT !.nexus = Release(@, UsedForNexus)] ELSE dealers
  /\ UNCHANGED <<plan, bufs>> /\ NexusElse

NexusReported(t) ==
  /\ handlers[t] = "reporting"
  /\ handlers' = [handlers EXCEPT ![t] = "done"]
  /\ nexus' = Notified(nexus)
  /\ dealers' = [dealers EXCEPT !.nexus = Release(@, UsedForNexus)]
  /\ UNCHANGED <<plan, bufs>> /\ NexusElse
-----------------------------------------------------------------------------
(* Shutdown, one wait after the other                                           *)

CloseElse == UNCHANGED <<plan, room, dealers, pollers, bufs, wfs, eager, nexus, handlers>>

(* initiate_shutdown alone, and as the first step of shutdown                  *)
Initiate ==
  /\ ~shut
  /\ InitiateShutdown
  /\ acts' = ShutActs(acts)
  /\ UNCHANGED closing /\ CloseElse

ShutdownCalled ==
  /\ closing = "no"
  /\ InitiateShutdown
  /\ acts' = ShutActs(acts)
  /\ closing' = IF plan.cached > 0 THEN "sticky" ELSE "la"
  /\ CloseElse

(* The wait that is over, and the one that follows it                          *)
Waits ==
  [sticky |-> [next |-> "la", over |-> TRUE],
   la     |-> [next |-> "rcvs", over |-> LasOut = {}],
   rcvs   |-> [next |-> "wf", over |-> ~acts.lock],
   wf     |-> [next |-> "act", over |-> wfs.st = "down"],
   act    |-> [next |-> "nexus", over |-> plan.remote => acts.toldRemote],
   nexus  |-> [next |-> "permits", over |-> nexus.polled => nexus.told],
   permits |-> [next |-> "returned",
                over |-> dealers.wft.extant = 0 /\ acts.remote = 0 /\ LasOut = {} /\ ~acts.held]]

ShutdownGoesOn ==
  /\ closing \in DOMAIN Waits /\ Waits[closing].over
  /\ closing' = Waits[closing].next
  /\ acts' = CASE closing = "la" -> LamReady(acts, LasOut)
               [] closing = "rcvs" -> [acts EXCEPT !.rcvs = "empty", !.held = FALSE]
               [] OTHER -> acts
  /\ UNCHANGED <<shut, registry>> /\ CloseElse

(* The second that shutdown waits for the permits has passed                   *)
ShutdownGivesUp ==
  /\ closing = "permits" /\ ~Waits["permits"].over
  /\ closing' = "late"
  /\ UNCHANGED <<shut, registry, acts>> /\ CloseElse
-----------------------------------------------------------------------------
PollerStep(p) ==
  \/ PollerStarts(p) \/ PollerBelowMax(p) \/ PollerReserves(p) \/ PollerStops(p)
  \/ \E res \in {"task", "empty", "bad"} : PollAnswered(p, res)
  \/ \E code \in Codes : PollFails(p, code)
  \/ PollAMinute(p)

WftStep ==
  \/ LangPollsWf \/ EagerTaken \/ WftInputClosed \/ WorkflowsEnd
  \/ LangToldError \/ LangToldWfShutDown
  \/ \E b \in WftBuffers : WftTaken(b) \/ WftInputEnds(b)
  \/ \E i \in DOMAIN wfs.out : WftStartsLa(i) \/ WftDone(i)

EagerStep(c) ==
  \/ \E cl \in 1..Clients : EagerCalled(c, cl)
  \/ \E withTask \in BOOLEAN : EagerAnswered(c, withTask)
  \/ \E code \in Codes : EagerFails(c, code)
  \/ EagerTooLong(c)

ActStep ==
  \/ LangPollsActs \/ ReceiversLocked \/ LocalNone \/ RemoteGiven \/ RemoteShutDown \/ RemoteFails
  \/ RemoteCompleted
  \/ \E i \in DOMAIN wfs.out : LocalDispatched(i) \/ LocalCompleted(i)

NexusStep ==
  \/ LangPollsNexus \/ NexusCancelled \/ NexusSourceComplete \/ NexusChecks \/ NexusGracePasses
  \/ LangToldNexusShutDown
  \/ \E kind \in {"start", "cancel"}, timer \in {FALSE, plan.timers} : NexusTaken(kind, timer)
  \/ \E t \in DOMAIN nexus.map : NexusTimesOut(t)
  \/ \E t \in DOMAIN handlers :
       \/ \E status \in {"start", "cancel", "empty", "error", "ack"} : NexusCompleted(t, status)
       \/ NexusReported(t)

Environment ==
  \/ LoadChanges \/ Initiate \/ ShutdownCalled
  \/ \E d \in DOMAIN dealers : RampPasses(d)
  \/ \E cl \in 1..Clients : ReplaceClient(cl) \/ OtherWorkerStarts(cl) \/ OtherWorkerStops(cl)

Next ==
  \/ \E p \in DOMAIN pollers : PollerStep(p)
  \/ \E c \in DOMAIN eager.calls : EagerStep(c)
  \/ WftStep \/ ActStep \/ NexusStep \/ ShutdownGoesOn \/ ShutdownGivesUp \/ Environment

Spec == Init /\ [][Next]_vars

(* What the code does by itself, what lang and the server do in the end: lang   *)
(* polls, completes what it was given and, once shutdown is initiated, calls    *)
(* shutdown; calls to the server return.  Nothing makes the server send a task. *)
Fairness ==
  /\ WF_vars(\E p \in DOMAIN pollers : PollerStops(p))
  /\ WF_vars(LangPollsWf \/ EagerTaken \/ WftInputClosed \/ WorkflowsEnd \/ LangToldError
             \/ LangToldWfShutDown \/ \E i \in DOMAIN wfs.out : WftDone(i))
  /\ WF_vars(\E b \in WftBuffers : WftTaken(b) \/ WftInputEnds(b))
  /\ WF_vars(\E c \in DOMAIN eager.calls : EagerAnswered(c, FALSE))
  /\ WF_vars(LangPollsActs \/ ReceiversLocked \/ LocalNone \/ RemoteShutDown \/ RemoteCompleted
             \/ \E i \in DOMAIN wfs.out : LocalDispatched(i) \/ LocalCompleted(i))
  /\ WF_vars(NexusCancelled \/ NexusSourceComplete \/ NexusChecks \/ LangToldNexusShutDown
             \/ NexusTaken("start", FALSE)
             \/ \E t \in DOMAIN handlers : NexusCompleted(t, "error") \/ NexusReported(t))
  /\ WF_vars(shut /\ ShutdownCalled)
  /\ WF_vars(ShutdownGoesOn)
  /\ WF_vars(ShutdownGivesUp)

FairSpec == Spec /\ Fairness
-----------------------------------------------------------------------------
WftPollers == {p \in DOMAIN pollers : p[1] \in WftBuffers}

(* The permits for workflow tasks in the hands of pollers, buffers, tasks and   *)
(* eager starts, and those for Nexus tasks                                      *)
InPollers(bs) == {p \in DOMAIN pollers : p[1] \in bs /\ pollers[p].at = "poll"}
WftPermits ==
  Cardinality(InPollers(WftBuffers)) + HeldSlots + Len(eager.queue) + Len(wfs.out)
    + Cardinality({c \in DOMAIN eager.calls : eager.calls[c].slot # NoSlot})
NexusPermits ==
  Cardinality(InPollers({"nexus"})) + SlotsOf(bufs["nexus"].items)
    + Cardinality({t \in DOMAIN handlers : handlers[t] # "done"})

(* No permit is lost and none is given back twice, whatever becomes of the poll *)
(* or the eager start it was for (OwnedMeteredSemPermit's drop): the extant     *)
(* permits are the ones somebody holds, and a semaphore has the others.         *)
PermitsAccounted ==
  /\ dealers.wft.extant = WftPermits /\ dealers.nexus.extant = NexusPermits
  /\ \A d \in DOMAIN dealers : dealers[d].supplier.type = "fixed" =>
       dealers[d].supplier.free + dealers[d].extant = Tuner(plan)[d].free

(* The check against the maximum and the reservation are two steps of           *)
(* acquire_owned, so pollers that passed the check together exceed the maximum, *)
(* but never by more than one permit for each poller.                           *)
OvershootBounded ==
  dealers.wft.max > 0 =>
    dealers.wft.extant + Cardinality({p \in WftPollers : pollers[p].at = "reserve"})
      <= dealers.wft.max + Cardinality(WftPollers)

(* A worker is offered for eager starts by its own registration with the client *)
(* it uses now, and never once shutdown was initiated, and taking its           *)
(* registration away never takes another worker's (replace_client and           *)
(* initiate_shutdown, which may run more than once with the same key).          *)
OwnRegistrationOnly ==
  /\ [](\A cl \in 1..Clients : registry.at[cl].by = "worker" =>
           ~shut /\ cl = registry.client /\ registry.at[cl].key = registry.key)
  /\ [][\A cl \in 1..Clients :
          registry.at[cl].by = "other" /\ plan'.others = plan.others =>
            registry'.at[cl] = registry.at[cl]]_vars

(* When shutdown has returned, lang holds no workflow task, activity or Nexus   *)
(* task, and no buffer holds one that the server takes for started              *)
(* (Worker::shutdown waits for each part in turn).  Likewise the Nexus stream   *)
(* ends, which lang is told as ShutDown, only when every task the server gave   *)
(* was given to lang and none of them is outstanding.                           *)
NothingLeftOver ==
  /\ nexus.source = "ended" => Dead("nexus") /\ Outstanding(nexus) = {}
  /\ closing \in {"returned", "late"} =>
       /\ wfs.out = <<>> /\ acts.remote = 0 /\ Outstanding(nexus) = {}
       /\ \A b \in Buffers : bufs[b].items = <<>>

=============================================================================
