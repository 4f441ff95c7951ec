--------------------------- MODULE WorkflowReplay ---------------------------
(* One run of one workflow over its life: the server that keeps its history,   *)
(* the worker whose machines (WorkflowMachines) are driven by workflow tasks,  *)
(* and lang, whose workflow code is deterministic: given the jobs it was given *)
(* before, it answers with the commands it answered before.  The worker may    *)
(* lose its machines at any time and rebuilds them by replaying the history.   *)
(*                                                                             *)
(* The server's part (what it appends to the history, and when) is external.   *)
EXTENDS WorkflowMachines, FiniteSets

CONSTANTS
  Plans,     \* what workflow code does: records, see Init
  Ends       \* the kinds of terminal commands lang may use

VARIABLES
  plan,      \* the plan of this behaviour
  hist,      \* the history the server keeps
  buf,       \* events that wait for the started workflow task to be completed
  wft,       \* "none", "scheduled", "started", or "query" for a query's task
  upd,       \* updates the server has not recorded; whether the task is for them alone
  core,      \* the core of the worker (see WorkflowMachines)
  wm,        \* the machines
  mode,      \* where the run is: see below
  act,       \* the activation lang has: its jobs, and whether it is a replay
  lang,      \* lang: see below
  busy,      \* the local activities the local activity manager has
  left       \* what may still happen: activations, losses, heartbeats, signals

server == <<hist, buf, wft, upd>>
vars == <<plan, core, server, wm, mode, act, lang, busy, left>>

(* lang: script  what its code did: per activation the jobs and the commands   *)
(*       pos     how many activations it had since its last start              *)
(*       kept    how much of script the server has the outcome of              *)
(*       told    the patches it was told of since its last start (changes)     *)
(*       swap    whether its code now does its first two operations in the     *)
(*               other order                                                   *)

(* mode: gone      there are no machines                                       *)
(*       idle      no activation, no workflow task                             *)
(*       lang      lang has an activation                                      *)
(*       las       the completion waits for local activities                   *)
(*       beat      a task came for the local activities alone                  *)
(*       broken    the machines reported an error                              *)
-----------------------------------------------------------------------------
(* The server.  An event of the history: *)
Event(id, t, i, op, r, mark) ==
  [id |-> id, t |-> t, i |-> i, op |-> op, r |-> r, mark |-> mark]

(* Events without an id yet, appended in order *)
Logged(h, es) == h \o [n \in DOMAIN es |-> [es[n] EXCEPT !.id = Len(h) + n]]

Bare(t, i) == Event(0, t, i, 0, "none", "none")

IdsOf(h, t) == {n \in DOMAIN h : h[n].t = t}

LastOf(h, t) == Max(IdsOf(h, t) \cup {0})

(* previous_started_event_id: the started event of the last completed task *)
PreviousStarted(h) ==
  Max({n \in IdsOf(h, "WorkflowTaskStarted") : TypeAt(h, n + 1) = "WorkflowTaskCompleted"} \cup {0})

(* Types of the events that came after the event n of the history about it *)
SeenFor(h, b, n) == {h[m].t : m \in {j \in DOMAIN h : h[j].i = n}}
                    \cup {b[m].t : m \in {j \in DOMAIN b : b[j].i = n}}

ActivityClosed == {"ActivityTaskCompleted", "ActivityTaskFailed", "ActivityTaskTimedOut"}

(* What may happen to what an event of type t started *)
Follows(t, seen) ==
  CASE t = "TimerStarted" ->
         IF seen = {} THEN {<<"TimerFired">>} ELSE {}
    [] t = "ActivityTaskScheduled" ->
         IF seen \cap (ActivityClosed \cup {"ActivityTaskCanceled"}) # {} THEN {}
         ELSE IF "ActivityTaskStarted" \notin seen
           THEN {<<"ActivityTaskStarted">>, <<"ActivityTaskTimedOut">>}
                \cup {<<"ActivityTaskStarted", c>> : c \in ActivityClosed}
         ELSE {<<c>> : c \in ActivityClosed}
              \cup (IF "ActivityTaskCancelRequested" \in seen
                      THEN {<<"ActivityTaskCanceled">>} ELSE {})
    [] t = "StartChildInitiated" ->
         IF seen = {} THEN {<<"ChildStarted">>, <<"StartChildFailed">>}
         ELSE IF seen = {"ChildStarted"} THEN {<<c>> : c \in ChildClosed \cup {"ChildCancelled"}}
         ELSE {}
    [] t = "NexusOperationScheduled" ->
         IF seen \cap NexusClosed # {} THEN {}
         ELSE {<<c>> : c \in NexusClosed}
              \cup (IF "NexusStarted" \in seen THEN {} ELSE {<<"NexusStarted">>})
    [] t = "SignalExternalInitiated" ->
         IF seen = {} THEN {<<"ExternalSignaled">>, <<"SignalExternalFailed">>} ELSE {}
    [] t = "RequestCancelExternalInitiated" ->
         IF seen = {} THEN {<<"ExternalCancelRequested">>, <<"RequestCancelExternalFailed">>}
         ELSE {}
    [] OTHER -> {}

(* The events of a command.  A cancelled timer is dropped from the buffer; an  *)
(* activity that no worker has is cancelled at once.                           *)
CommandEventOf(c) ==
  CASE c.ev = "CommandStartTimer" -> "TimerStarted"
    [] c.ev = "CommandCancelTimer" -> "TimerCanceled"
    [] c.ev = "CommandScheduleActivityTask" -> "ActivityTaskScheduled"
    [] c.ev = "CommandRequestCancelActivityTask" -> "ActivityTaskCancelRequested"
    [] c.ev = "CommandStartChild" -> "StartChildInitiated"
    [] c.ev = "CommandScheduleNexusOperation" -> "NexusOperationScheduled"
    [] c.ev = "CommandRequestCancelNexusOperation" -> "NexusOperationCancelRequested"
    [] c.ev = "CommandSignalExternal" -> "SignalExternalInitiated"
    [] c.ev = "CommandRequestCancelExternal" -> "RequestCancelExternalInitiated"
    [] c.ev = "CommandRecordMarker" -> "MarkerRecorded"
    [] c.ev = "CommandScheduled" ->
         IF c.m.k = "upsert" THEN "UpsertSearchAttributes" ELSE "PropertiesModified"
    [] c.ev = "CommandEnd" -> TerminalEvent[c.m.k]

(* A ProtocolMessage command stands for a message of the same task. *)
UpdateEventOf(h, msgs, op) ==
  LET accepted == \E n \in IdsOf(h, "UpdateAccepted") : h[n].op = op
      what == IF accepted THEN "complete" ELSE "accept"
  IN IF [op |-> op, what |-> what] \notin msgs THEN "MissingMessage"
     ELSE IF accepted THEN "UpdateCompleted" ELSE "UpdateAccepted"

Admitted(h, op) == \E n \in IdsOf(h, "UpdateAdmitted") : h[n].op = op

Recorded(h, b, msgs, c) ==
  LET t == IF c.m.k = "update" THEN UpdateEventOf(h, msgs, c.m.op) ELSE CommandEventOf(c)
      mark == CASE c.m.k = "localActivity" -> "la" [] c.m.k = "patch" -> "patch" [] OTHER -> "none"
      about == CASE t \in {"TimerCanceled", "ActivityTaskCancelRequested",
                           "NexusOperationCancelRequested"} ->
                      CHOOSE n \in DOMAIN h : /\ h[n].op = c.m.op
                                              /\ h[n].t \in {"TimerStarted", "ActivityTaskScheduled",
                                                             "NexusOperationScheduled"}
                 [] t = "UpdateAccepted" -> c.m.at
                 [] OTHER -> 0
      r == CASE mark = "la" -> MarkerResult(CHOOSE x \in c.m.f : x # "replayed")
             [] mark = "patch" -> CHOOSE x \in c.m.f : TRUE
             [] "version" \in c.m.f -> "version"
             [] t = "UpdateAccepted" /\ Admitted(h, c.m.op) -> "noRequest"
             [] OTHER -> "none"
      also == IF /\ t = "ActivityTaskCancelRequested"
                 /\ SeenFor(h, b, about) = {}
                THEN <<Bare("ActivityTaskCanceled", about)>> ELSE <<>>
  IN Logged(h, <<Event(0, t, about, c.m.op, r, mark)>> \o also)

(* A completed workflow task: its commands are recorded, then what was         *)
(* buffered, and a new task is scheduled for that or when the worker asks.     *)
Completed(h, b, w, cmds, force) ==
  LET msgs == {m \in ToSet(w.outbox) : m.what # "reject"}
      lone == Cardinality(msgs) # Len(SelectSeq(cmds, LAMBDA c : c.m.k = "update"))
      done0 == Event(0, "WorkflowTaskCompleted", LastOf(h, "WorkflowTaskScheduled"), 0,
                     IF GatherFlags(w) # w THEN "flags" ELSE "none", "none")
      begun == Logged(h, <<done0>> \o IF lone THEN <<Bare("MissingCommand", 0)>> ELSE <<>>)
      done == FoldLeft(LAMBDA x, c : Strict(x, LAMBDA y : Recorded(y, b, msgs, c)), begun, cmds)
      rest == SelectSeq(b, LAMBDA e : ~\E c \in ToSet(cmds) :
                                         /\ c.ev = "CommandCancelTimer"
                                         /\ e.i > 0 /\ h[e.i].op = c.m.op)
      ended == cmds # <<>> /\ cmds[Len(cmds)].ev = "CommandEnd"
      again == \/ force \/ rest # <<>>
               \/ \E n \in Len(h) + 1..Len(done) : done[n].t = "ActivityTaskCanceled"
  IN IF ended THEN done
     ELSE Logged(done, rest \o IF again THEN <<Bare("WorkflowTaskScheduled", 0)>> ELSE <<>>)

Failed(h, b, how) ==
  Logged(h, <<Bare(how, LastOf(h, "WorkflowTaskScheduled"))>> \o b
            \o <<Bare("WorkflowTaskScheduled", 0)>>)

Closed(h) == \E n \in DOMAIN h : IsFinalEvent(h[n])

(* Whether a task is scheduled: by an event, or (it is speculative) for the    *)
(* updates that wait                                                           *)
HasTask(h) == LastOf(h, "WorkflowTaskScheduled") > LastOf(h, "WorkflowTaskStarted")

StatusOf(h, pending) == IF HasTask(h) \/ (pending # {} /\ ~Closed(h)) THEN "scheduled" ELSE "none"

ServerHas(h, pending) ==
  /\ hist' = h
  /\ buf' = <<>>
  /\ wft' = StatusOf(h, pending)
  /\ upd' = [pending |-> pending, spec |-> ~HasTask(h) /\ pending # {}]

(* The answers to updates that a task's completion has *)
AnsweredBy(w) == {m.op : m \in {x \in ToSet(w.outbox) : x.what # "complete"}}

(* A speculative task that only rejects leaves no trace. *)
Dropped(w, cmds, force) ==
  upd.spec /\ ~force /\ cmds = <<>> /\ \A m \in ToSet(w.outbox) : m.what = "reject"
-----------------------------------------------------------------------------
(* Lang.  What it knows of an operation follows from its script. *)
Final == {"fired", "completed", "failed", "cancelled", "startFailed", "startCancelled"}

(* A Nexus operation that does not start is told of twice: that, and its end. *)
IsEnd(j) == /\ j.r \in Final
            /\ plan.ops[j.op].k = "nexus" => j.r \notin {"startFailed", "startCancelled"}

CommandsOf(s) == FlattenSeq([n \in DOMAIN s |-> s[n].cmds])
JobsOf(s) == FlattenSeq([n \in DOMAIN s |-> s[n].jobs])

Did(s, do, op) == \E c \in ToSet(CommandsOf(s)) : c.do = do /\ c.op = op
Heard(jobs, op) == \E j \in ToSet(jobs) : j.op = op /\ IsEnd(j)

Start(op) == WFCommand("start", op, plan.ops[op].k, plan.ops[op].typ, plan.ops[op].r)
Notified(jobs) == {j.op : j \in {x \in ToSet(jobs) : x.r = "hasPatch"}}

(* patch_impl: whether the patch is in use *)
Patched(op) ==
  LET before == {c \in ToSet(CommandsOf(SubSeq(lang.script, 1, lang.pos))) : c.k = "patch" /\ c.op = op}
  IN IF op \in lang.told \cup Notified(act.jobs) THEN "new"
     ELSE IF before # {} THEN (CHOOSE c \in before : TRUE).typ
     ELSE IF act.rep THEN "old" ELSE "new"

Call(c) == IF c.k = "patch" THEN [c EXCEPT !.typ = Patched(c.op)] ELSE c

Cancel(op) == WFCommand("cancel", op, plan.ops[op].k, plan.ops[op].typ, plan.ops[op].r)
End(k) == WFCommand("start", 0, k, "none", "none")

PatchCall == WFCommand("start", plan.patch, "patch", "unread", "patched")

Cancellable == {"timer", "activity", "child", "nexus", "signalExternal", "localActivity"}

(* An update is answered in the activation it comes with, and its result given *)
(* then or later.                                                              *)
Reply(u, how) == WFCommand("respond", u, "update", "none", how)

Asked(jobs) == {j.op : j \in {x \in ToSet(jobs) : x.r \in {"validate", "update"}}}
Replied(s, u) == {c.r : c \in {x \in ToSet(CommandsOf(s)) : x.do = "respond" /\ x.op = u}}

RepliesTo(u, s, jobs) ==
  IF u \in Asked(jobs)
    THEN {<<Reply(u, "Reject")>>, <<Reply(u, "Accept")>>, <<Reply(u, "Accept"), Reply(u, "Complete")>>}
  ELSE IF Replied(s, u) = {"Accept"}
    THEN {<<>>, <<Reply(u, "Complete")>>, <<Reply(u, "Reject")>>}
  ELSE {<<>>}

Updates == [n \in 1..plan.upds |-> 10 + n]

Replies(s, jobs) ==
  FoldLeft(LAMBDA all, u : {x \o y : x \in all, y \in RepliesTo(u, s, jobs)}, {<<>>}, Updates)

Rejected(cmds, jobs) ==
  {u \in Asked(jobs) : ~\E c \in ToSet(cmds) : c.do = "respond" /\ c.op = u /\ c.r = "Accept"}

(* The answers lang may give to an activation it has not had before.  Code     *)
(* that ends the workflow while another branch of it has more to do (early)    *)
(* has the commands of that branch behind the one that ends it.                *)
Answers(jobs) ==
  LET s == SubSeq(lang.script, 1, lang.pos)
      begun == {op \in DOMAIN plan.ops : Did(s, "start", op)}
      starts == {SubSeq([op \in DOMAIN plan.ops |-> Start(op)], Cardinality(begun) + 1, n) :
                   n \in Cardinality(begun)..Len(plan.ops)}
      open(st) == {op \in begun \cup {c.op : c \in ToSet(st)} :
                     /\ plan.ops[op].k \in Cancellable
                     /\ ~Did(s, "cancel", op)
                     /\ ~Heard(JobsOf(s) \o jobs, op)}
      cancels(st) == {<<>>} \cup {<<Cancel(op)>> : op \in open(st)}
      ends == {<<>>} \cup {<<End(k)>> : k \in Ends}
      calls == {<<>>} \cup (IF plan.patch > 0 /\ Did(s, "start", plan.patch) THEN {<<PatchCall>>} ELSE {})
      reps == Replies(s, jobs)
      all(st) == {p \o u \o st \o c \o e : p \in calls, u \in reps, c \in cancels(st), e \in ends}
      early(st) == {e \o u \o st \o c : u \in reps, c \in cancels(st), e \in ends}
  IN IF left.acts = 0 \/ \E c \in ToSet(CommandsOf(s)) : c.k \in Terminal THEN reps
     ELSE UNION {all(st) \cup (IF plan.early THEN early(st) ELSE {}) : st \in starts}

(* The jobs of the code's own doing: an update is one whether it is validated  *)
(* or not.                                                                     *)
Real(jobs) ==
  LET seen == SelectSeq(jobs, LAMBDA j : j.r # "hasPatch")
  IN [n \in DOMAIN seen |-> IF seen[n].r = "validate" THEN [seen[n] EXCEPT !.r = "update"]
                            ELSE seen[n]]
-----------------------------------------------------------------------------
(* The worker: what happens to the run once its machines have moved on. *)

Nothing == [jobs |-> <<>>, rep |-> FALSE]

(* The commands of the task's answer, with the machines they are of *)
Sent(w) == LET cs == Commands(w)
           IN [n \in DOMAIN cs |-> [ev |-> cs[n].ev, m |-> w.mach[cs[n].key]]]

IsLocal(j) == j.op \in DOMAIN plan.ops /\ plan.ops[j.op].k = "localActivity"

(* prepare_to_ship_activation: the jobs in the order lang expects *)
Ordinal_Mut(j) ==
  CASE j.r = "initialize" -> 1
    [] j.r = "hasPatch" -> 2
    [] j.r \in {"signal", "validate", "update"} -> 3
    [] OTHER -> 4

Ordinal(j) ==
  CASE j.r = "initialize" -> 1
    [] j.r = "hasPatch" -> 2
    [] j.r \in {"signal", "validate", "update"} -> 3
    [] IsLocal(j) -> 5
    [] OTHER -> 4

Shipped(w) ==
  [rep |-> w.rep,
   jobs |-> FlattenSeq([n \in 1..5 |-> SelectSeq(w.jobs, LAMBDA j : Ordinal(j) = n)])]

(* An activation for lang *)
Activate(w) ==
  /\ mode' = "lang"
  /\ act' = Shipped(w)
  /\ wm' = [w EXCEPT !.jobs = <<>>]
  /\ UNCHANGED server

Waits(w, m) ==
  /\ mode' = m
  /\ wm' = w
  /\ act' = Nothing
  /\ UNCHANGED server

(* The machines are lost, and with them what lang did since the last report. *)
Gone(h) ==
  /\ ServerHas(h, upd.pending)
  /\ mode' = "gone"
  /\ wm' = NewMachines
  /\ act' = Nothing
  /\ busy' = {}
  /\ lang' = [lang EXCEPT !.script = SubSeq(@, 1, lang.kept), !.pos = 0, !.told = {}]

(* prepare_complete_resp: the task is answered once there is nothing left to   *)
(* tell lang; playback for a query ends with the answer to the query, which is *)
(* not recorded.  A closing command is refused while events are buffered, and  *)
(* the worker evicts the run.  The answer may reset the machines to the task   *)
(* before (mark_wft_complete).                                                 *)
Refused(w) == LET cmds == Sent(w)
              IN buf # <<>> /\ cmds # <<>> /\ cmds[Len(cmds)].ev = "CommandEnd"

Respond(w, force, l, b) ==
  \/ /\ w.jobs # <<>>
     /\ Activate(w)
     /\ lang' = l /\ busy' = b
  \/ /\ w.jobs = <<>> /\ wft = "query"
     /\ mode' = "idle" /\ ServerHas(hist, upd.pending) /\ wm' = w /\ act' = Nothing
     /\ lang' = l /\ busy' = b
  \/ /\ w.jobs = <<>> /\ wft = "started" /\ ~w.rep /\ ~w.term
     /\ IF Refused(w) THEN Gone(Failed(hist, buf, "WorkflowTaskFailed"))
        ELSE LET drop == Dropped(w, Sent(w), force)
                 done == Responded(w)
             IN \E h \in {IF drop THEN SubSeq(hist, 1, Len(hist) - 2)
                                  ELSE Completed(hist, buf, w, Sent(w), force)} :
                  /\ ServerHas(h, upd.pending \ AnsweredBy(w))
                  /\ wm' = IF drop THEN ResetLastStarted(done, PreviousStarted(h)) ELSE done
                  /\ mode' = "idle" /\ act' = Nothing
                  /\ lang' = [l EXCEPT !.kept = l.pos] /\ busy' = b

(* _process_completion *)
Process(w0, cmds, l) ==
  \E w1 \in {Iterate(w0, Preprocess(w0, cmds))} : \E w2 \in {ApplyIfReady(w1)} : \E w \in {DrainLAs(w2)} :
     IF w.err # NoErr \/ OutstandingLAs(w) # {}
       THEN /\ Waits(w, IF w.err # NoErr THEN "broken" ELSE "las")
            /\ lang' = l /\ busy' = busy \cup w.la.exec
       ELSE Respond(w, FALSE, l, busy \cup w.la.exec)

(* A run, new (instantiate_or_update) or cached, is given what is new          *)
(* (new_work_from_server).  Then get_next_activation.                          *)
Given(h, started, msgs) ==
  LET u == FromEvents(h, PreviousStarted(h), started, TRUE).update
      w == IF mode = "gone" THEN [NewMachines EXCEPT !.core = core] ELSE wm
  IN Strict(NewWork(w, u, msgs), NextActivation)
-----------------------------------------------------------------------------
Init ==
  /\ plan \in Plans
  /\ hist = Logged(<<>>, <<Bare("WorkflowExecutionStarted", 0), Bare("WorkflowTaskScheduled", 0)>>)
  /\ buf = <<>> /\ wft = "scheduled" /\ upd = [pending |-> {}, spec |-> FALSE]
  /\ core = plan.core
  /\ wm = NewMachines /\ mode = "gone" /\ act = Nothing
  /\ lang = [script |-> <<>>, pos |-> 0, kept |-> 0, told |-> {}, swap |-> FALSE]
  /\ busy = {}
  /\ left = [acts |-> plan.acts, lost |-> plan.lost, beats |-> plan.beats, sigs |-> plan.sigs,
             upds |-> plan.upds]

(* The task's events; a speculative one has its first here too. *)
StartedIn(h) ==
  LET g == IF upd.spec THEN Logged(h, <<Bare("WorkflowTaskScheduled", 0)>>) ELSE h
  IN Logged(g, <<Bare("WorkflowTaskStarted", LastOf(g, "WorkflowTaskScheduled"))>>)

RequestsAt(id) ==
  LET waiting == SelectSeq(Updates, LAMBDA u : u \in upd.pending)
  IN [n \in DOMAIN waiting |-> [op |-> waiting[n], seq |-> id]]

(* _incoming_wft *)
WftStarted ==
  /\ wft = "scheduled" /\ mode \in {"gone", "idle"}
  /\ \E h \in {StartedIn(hist)} :
     \E w \in {Given(h, Len(h), RequestsAt(Len(h) - 1))} :
       /\ hist' = h /\ wft' = "started"
       /\ IF w.err # NoErr \/ (w.jobs = <<>> /\ OutstandingLAs(w) # {})
            THEN /\ mode' = IF w.err # NoErr THEN "broken" ELSE "beat"
                 /\ wm' = w /\ act' = Nothing
          ELSE IF w.jobs = <<>>
            THEN mode' = "auto" /\ wm' = w /\ act' = Nothing
          ELSE /\ mode' = "lang" /\ wm' = [w EXCEPT !.jobs = <<>>]
               /\ act' = Shipped(w)
  /\ UNCHANGED <<plan, core, buf, upd, lang, busy, left>>

(* A task for a query alone: playback of the history so far *)
QueryStarted ==
  /\ wft = "none" /\ mode = "gone"
  /\ \E w \in {Given(hist, 0, <<>>)} :
       /\ wft' = "query"
       /\ mode' = IF w.err # NoErr THEN "broken" ELSE "lang"
       /\ wm' = [w EXCEPT !.jobs = <<>>]
       /\ act' = Shipped(w)
  /\ UNCHANGED <<plan, core, hist, buf, upd, lang, busy, left>>

(* Whether lang has been here before, and is given what it was given then.     *)
(* Lang applies all the jobs of an activation before its code runs.            *)
Again == lang.pos < Len(lang.script)
Scripted == lang.script[lang.pos + 1]

SameJobs ==
  Again => LET now == Real(act.jobs) then == Scripted.jobs
               shape(jobs) == [n \in DOMAIN jobs |->
                                 IF IsLocal(jobs[n]) THEN [op |-> 0, r |-> "la"] ELSE jobs[n]]
           IN shape(now) = shape(then) /\ ToSet(now) = ToSet(then)

SamePatches ==
  Again => \A c \in ToSet(Scripted.cmds) :
             c.k = "patch" => c.typ \in {"unread", Patched(c.op)}

(* What the code does in an activation: a rejected update leaves no trace, and *)
(* the code has nothing to react to when there is nothing else.                *)
Doing(cmds) ==
  LET no == Rejected(cmds, act.jobs)
  IN [jobs |-> SelectSeq(Real(act.jobs), LAMBDA j : j.op \notin no),
      cmds |-> SelectSeq(cmds, LAMBDA c : c.op \notin no)]

Reacts(cmds) ==
  Rejected(cmds, act.jobs) # {} /\ Doing(cmds).jobs = <<>> => Doing(cmds).cmds = <<>>

(* Lang completes its activation. *)
Answer(cmds) ==
  LET done == Doing(cmds)
      none == Rejected(cmds, act.jobs) # {} /\ done.jobs = <<>>
      s == IF Again THEN [lang.script EXCEPT ![lang.pos + 1] = done]
           ELSE IF none THEN lang.script
           ELSE Append(lang.script, done)
  IN Process(wm, cmds, [lang EXCEPT !.script = s, !.pos = IF none THEN @ ELSE @ + 1,
                                    !.told = @ \cup Notified(act.jobs)])

Complete ==
  /\ mode = "lang" /\ SameJobs /\ SamePatches
  /\ \/ /\ Again
        /\ Answer([n \in DOMAIN Scripted.cmds |-> Call(Scripted.cmds[n])])
        /\ UNCHANGED left
     \/ /\ ~Again
        /\ \E cmds \in {c \in Answers(act.jobs) : Reacts(c)} : Answer([n \in DOMAIN cmds |-> Call(cmds[n])])
        /\ left' = [left EXCEPT !.acts = IF @ = 0 THEN 0 ELSE @ - 1]
  /\ UNCHANGED <<plan, core>>

(* A new version of the workflow's code: after what it does first, it asks for *)
(* a patch.                                                                    *)
Deploy ==
  /\ mode = "gone" /\ plan.patch > 0 /\ lang.kept > 0
  /\ ~Did(lang.script, "start", plan.patch)
  /\ lang' = [lang EXCEPT !.script[1].cmds = Append(@, PatchCall)]
  /\ UNCHANGED <<plan, core, server, wm, mode, act, busy, left>>

(* A change of the code that is not deterministic: the first two operations of *)
(* its first activation change places.                                         *)
Swap ==
  /\ mode = "gone" /\ plan.swap /\ lang.kept > 0 /\ ~lang.swap
  /\ \E c \in {lang.script[1].cmds} :
       /\ Len(c) >= 2 /\ {c[1].do, c[2].do} = {"start"} /\ {c[1].op, c[2].op} = {1, 2}
       /\ \A n \in DOMAIN c : c[n].do # "cancel"
       /\ lang' = [lang EXCEPT !.script[1].cmds = <<c[2], c[1]>> \o SubSeq(c, 3, Len(c)),
                              !.swap = TRUE]
  /\ UNCHANGED <<plan, core, server, wm, mode, act, busy, left>>

(* The worker, or the server, is replaced by one of the current version. *)
Upgrade ==
  /\ mode = "gone" /\ core # "current"
  /\ core' = "current"
  /\ UNCHANGED <<plan, server, wm, mode, act, lang, busy, left>>

(* A task without jobs is completed for lang. *)
Autocomplete ==
  /\ mode = "auto"
  /\ Process(wm, <<>>, lang)
  /\ UNCHANGED <<plan, core, left>>

(* _local_resolution *)
LocalResolved(op, r) ==
  /\ op \in busy /\ mode \notin {"gone", "broken"}
  /\ r = "cancelled" => Did(SubSeq(lang.script, 1, lang.pos), "cancel", op)
  /\ \E w \in {LocalResolution(wm, op, r)} :
       IF mode = "las" /\ w.err = NoErr /\ OutstandingLAs(w) = {}
         THEN Respond(w, FALSE, lang, busy \ {op})
         ELSE /\ IF w.err # NoErr THEN Waits(w, "broken")
                 ELSE IF mode = "beat" /\ w.jobs # <<>> THEN Activate(w)
                 ELSE wm' = w /\ UNCHANGED <<mode, act, server>>
              /\ busy' = busy \ {op}
              /\ UNCHANGED lang
  /\ UNCHANGED <<plan, core, left>>

(* _heartbeat_timeout *)
Heartbeat ==
  /\ left.beats > 0
  /\ \/ mode = "las" /\ Respond(wm, TRUE, lang, busy)
     \/ mode = "beat" /\ OutstandingLAs(wm) # {} /\ Process(wm, <<>>, lang)
  /\ left' = [left EXCEPT !.beats = @ - 1]
  /\ UNCHANGED <<plan, core>>

(* The cache is full (the run has no task), or the worker dies and its task    *)
(* times out.                                                                  *)
Evict ==
  /\ mode = "idle" /\ left.lost > 0
  /\ Gone(hist)
  /\ left' = [left EXCEPT !.lost = @ - 1]
  /\ UNCHANGED <<plan, core>>

WftLost ==
  /\ wft = "started" /\ mode # "broken" /\ left.lost > 0
  /\ Gone(Failed(hist, buf, "WorkflowTaskTimedOut"))
  /\ left' = [left EXCEPT !.lost = @ - 1]
  /\ UNCHANGED <<plan, core>>

(* The server records what happens outside, or keeps it until the started task *)
(* is completed.  A speculative task becomes a normal one.                     *)
Happens(es, wakes) ==
  /\ wft # "query" /\ mode # "broken" /\ ~Closed(hist)
  /\ IF wft = "started" THEN buf' = buf \o es /\ UNCHANGED <<hist, wft>>
     ELSE LET new == upd.spec \/ (wakes /\ wft = "none")
          IN /\ hist' = Logged(hist, es \o IF new THEN <<Bare("WorkflowTaskScheduled", 0)>> ELSE <<>>)
             /\ wft' = IF new THEN "scheduled" ELSE wft
             /\ UNCHANGED buf
  /\ upd' = [upd EXCEPT !.spec = FALSE]
  /\ UNCHANGED <<plan, core, wm, mode, act, lang, busy>>

OperationProceeds ==
  /\ \E n \in DOMAIN hist : \E ts \in Follows(hist[n].t, SeenFor(hist, buf, n)) :
       Happens([j \in DOMAIN ts |-> Bare(ts[j], n)], ts # <<"ActivityTaskStarted">>)
  /\ UNCHANGED left

Signal ==
  /\ left.sigs > 0
  /\ Happens(<<Bare("Signaled", 0)>>, TRUE)
  /\ left' = [left EXCEPT !.sigs = @ - 1]

(* An update is asked for: the server keeps the request and has a speculative  *)
(* task for it when there is no other, or it records it (UpdateAdmitted).      *)
UpdateRequested ==
  /\ left.upds > 0
  /\ left' = [left EXCEPT !.upds = @ - 1]
  /\ \E u \in {Updates[plan.upds - left.upds + 1]} :
       \/ /\ plan.admit
          /\ Happens(<<Event(0, "UpdateAdmitted", 0, u, "none", "none")>>, TRUE)
       \/ /\ ~plan.admit /\ wft # "query" /\ mode # "broken" /\ ~Closed(hist)
          /\ upd' = [pending |-> upd.pending \cup {u}, spec |-> upd.spec \/ wft = "none"]
          /\ wft' = IF wft = "none" THEN "scheduled" ELSE wft
          /\ UNCHANGED <<plan, core, hist, buf, wm, mode, act, lang, busy>>

Next ==
  \/ WftStarted \/ QueryStarted \/ Complete \/ Autocomplete \/ Heartbeat
  \/ \E op \in busy, r \in {"completed", "cancelled"} : LocalResolved(op, r)
  \/ Evict \/ WftLost \/ Deploy \/ Swap \/ Upgrade
  \/ OperationProceeds \/ Signal \/ UpdateRequested

Spec == Init /\ [][Next]_vars
-----------------------------------------------------------------------------
(* Properties. *)

(* What a machine cannot take although it may meet it (see the README): the    *)
(* kind of the machine, its state, and the event.                              *)
KnownGaps ==
  {<<"activity", "Canceled", "ActivityTaskFailed">>,
   <<"activity", "Canceled", "ActivityTaskTimedOut">>,
   <<"child", "StartEventRecorded", "Cancel">>,
   <<"localActivity", "MarkerCommandCreated", "Cancel">>,
   <<"localActivity", "MarkerCommandCreated", "NoWaitCancel">>}
  \cup {<<"child", "Cancelled", c>> : c \in ChildClosed}

(* The machines accept every history that deterministic code can have made:    *)
(* whatever lang starts and cancels, in whatever order the outcomes come, and  *)
(* wherever the machines were lost, no event and no command meets a machine in *)
(* a state without a transition for it (handle_event, handle_command_event and *)
(* cancel_machine! report Nondeterminism or Fatal then), the gaps above apart. *)
ReplayAccepted == wm.err # NoErr /\ ~lang.swap => <<wm.err.k, wm.err.st, wm.err.ev>> \in KnownGaps

(* Histories that are split into activations otherwise than they were (see the *)
(* README).  A heartbeat of the workflow task does not conclude a sequence,    *)
(* though there was something beside one local activity to tell lang; a        *)
(* completed task that a task for an update follows at once is taken for one;  *)
(* and an accepted update ends a sequence at the started event before it,      *)
(* though that was of a lost attempt.                                          *)
SplitOtherwise ==
  \/ left.beats < plan.beats /\ (Len(plan.ops) > 1 \/ plan.sigs + plan.upds > 0)
  \/ /\ plan.upds > 0
     /\ \E n \in IdsOf(hist, "WorkflowTaskCompleted") : TypeAt(hist, n + 1) = "WorkflowTaskScheduled"
  \/ plan.upds > 0 /\ \E n \in DOMAIN hist : hist[n].t \in AttemptLost

(* Replay is faithful: every activation that lang has had before has the jobs  *)
(* it had then (in the same order, resolutions of local activities among each  *)
(* other apart), patched() has the result it had then, and no new activation   *)
(* is flagged is_replaying.  apply_next_wft_from_history                       *)
(* looks ahead so that markers are "resolved in the same activations they      *)
(* would have been resolved in during initial execution", and                  *)
(* prepare_to_ship_activation sorts.  An update's validator runs when it is    *)
(* new, and not again.                                                         *)
ReplaySame ==
  mode = "lang" =>
    /\ act.rep => Again
    /\ SplitOtherwise \/ (SameJobs /\ SamePatches)
    /\ SplitOtherwise \/ \A j \in ToSet(act.jobs) : /\ j.r = "update" => Again
                                                   /\ j.r = "validate" => ~Again

(* Every ProtocolMessage command goes to the server with the message it stands *)
(* for, and every acceptance and result of an update with its command, though  *)
(* the messages are those of one task and the commands are kept by machines    *)
(* that also replay (IssueNewMessage, prepare_commands); no request is left    *)
(* over when new work comes ("There are unprocessed protocol messages while    *)
(* receiving new work").                                                       *)
MessagesPaired ==
  /\ IdsOf(hist, "MissingMessage") \cup IdsOf(hist, "MissingCommand") = {}
  /\ mode = "idle" => wm.msgs = <<>> /\ wm.outbox = <<>>

(* Workflow code that changed is found out: once its first two commands have   *)
(* changed places, no task is completed and no query is answered by it.        *)
ChangeCaught == lang.swap => mode # "idle"

(* What lang was told since it was last started *)
Told == JobsOf(SubSeq(lang.script, 1, lang.pos)) \o (IF mode = "lang" THEN act.jobs ELSE <<>>)

Closes == ActivityClosed \cup ChildClosed \cup NexusClosed
          \cup {"TimerFired", "ActivityTaskCanceled", "ChildCancelled", "StartChildFailed",
                "ExternalSignaled", "SignalExternalFailed", "ExternalCancelRequested",
                "RequestCancelExternalFailed"}

(* Lang is told of the end of an operation at most once, though a cancellation *)
(* that does not wait, a late result and a replay may each have one to tell;   *)
(* once a run is idle with nothing new for it, it has been told of the end of  *)
(* every operation the history has closed.  And the result of a local activity *)
(* that lang acted on in a task the server has taken is in the history as a    *)
(* marker, and only one: no replay will run the activity again or find two.    *)
EndToldOnce ==
  /\ \A op \in DOMAIN plan.ops : Len(SelectSeq(Told, LAMBDA j : j.op = op /\ IsEnd(j))) <= 1
  /\ mode = "idle" /\ wft = "none" /\ ~Closed(hist) =>
       \A n \in DOMAIN hist :
         hist[n].t \in Closes /\ hist[hist[n].i].op > 0 => Heard(Told, hist[hist[n].i].op)
  /\ \A op \in {n \in DOMAIN plan.ops : plan.ops[n].k = "localActivity"} :
       LET markers == {n \in IdsOf(hist, "MarkerRecorded") : hist[n].op = op}
       IN /\ Cardinality(markers) <= 1
          /\ Heard(JobsOf(SubSeq(lang.script, 1, lang.kept)), op) => markers # {}
=============================================================================
