-------------------------- MODULE WorkflowMachines --------------------------
(* The state of a workflow as core has it (workflow_machines.rs): the command  *)
(* machines, the history applied to them, the commands they have for the       *)
(* server and the jobs they have for lang.  The operations are operators on a  *)
(* record wm with                                                              *)
(*   mach     the machines (all_machines; a key is an index)                   *)
(*   byEv     machines_by_event_id                                             *)
(*   cmds     commands          cur  current_wf_task_commands                  *)
(*   jobs     the jobs of the next activation                                  *)
(*   u        last_history_from_server                                         *)
(*   started  current_started_event_id     next  next_started_event_id         *)
(*   proc     last_processed_event         rep   replaying                     *)
(*   term     have_seen_terminal_event                                         *)
(*   patches  encountered_patch_markers: id -> created_command                 *)
(*   la       local_activity_data                                              *)
(*   msgs     protocol_msgs: requests of updates [op, seq]                     *)
(*   stash    update_admitted_event_messages                                   *)
(*   outbox   message_outbox: [op, what]                                       *)
(*   core     the core of this worker: "current"; "disabled", if the server    *)
(*            takes no metadata; "old", if it is one from before the flags     *)
(*   flags    observed_internal_flags: the flags of core that were recorded    *)
(*   final    whether the last application had the final event                 *)
(*   took     how many events the last application took                        *)
(*   skip     whether the next event is skipped                                *)
(*   err      the error that ended it                                          *)
(* A history event is [id, t, i, op, r, mark]: i is the event id of the command *)
(* it belongs to (0: none), op the operation or patch of a marker, mark the    *)
(* kind of marker, r the result it carries.                                    *)
EXTENDS HistoryUpdate, CommandFsm

NoErr == [class |-> "none", k |-> "none", st |-> "none", ev |-> "none"]

NewMachines ==
  [mach |-> <<>>, byEv |-> <<>>, cmds |-> <<>>, cur |-> <<>>, jobs |-> <<>>,
   u |-> Update(<<>>, 0, 0, FALSE, 0), started |-> 0, next |-> 0, proc |-> 0, rep |-> FALSE,
   term |-> FALSE, patches |-> <<>>, took |-> 0, skip |-> FALSE, err |-> NoErr,
   final |-> FALSE, msgs |-> <<>>, stash |-> <<>>, outbox |-> <<>>, core |-> "current",
   flags |-> {},
   la |-> [queue |-> <<>>, cancels |-> <<>>, exec |-> {}, pre |-> <<>>, ending |-> FALSE]]

(* Op over a sequence, each intermediate record evaluated once *)
Each(Op(_, _), wm, seq) ==
  FoldLeft(LAMBDA w, x : Strict(w, LAMBDA v : IF v.err # NoErr THEN v ELSE Op(v, x)), wm, seq)

Fails(wm, class, k, st, ev) ==
  [wm EXCEPT !.err = [class |-> class, k |-> k, st |-> st, ev |-> ev]]

SendJob(wm, op, r) == [wm EXCEPT !.jobs = Append(@, [op |-> op, r |-> r])]

Machine(k, op, typ, st) == [k |-> k, op |-> op, typ |-> typ, st |-> st, f |-> {}, at |-> 0]

(* add_new_command_machine, add_cmd_to_wf_task.  Machines that core creates    *)
(* have operation 0: lang has no id for them.                                  *)
AddCommand(wm, m, ev) ==
  [wm EXCEPT !.mach = Append(@, m),
             !.cur = Append(@, [key |-> Len(wm.mach) + 1, ev |-> ev])]

(* add_new_protocol_machine: no command comes with it *)
AddProtocolMachine(wm, m) == [wm EXCEPT !.mach = Append(@, m)]

AddNew(wm, k, op, typ) == AddCommand(wm, Machine(k, op, typ, First[k].st), First[k].ev)

(* InternalFlags::try_use.  What it records is written by write_all_known      *)
(* anyway.                                                                     *)
CoreInternalFlags ==
  {"IdAndTypeDeterminismChecks", "UpsertSearchAttributeOnPatch", "MoveTerminalCommands"}

TryUse(wm, flag, record) == wm.core = "current" /\ (record \/ flag \in wm.flags)

(* add_from_complete *)
AddFromComplete(wm, e) == IF e.r = "flags" /\ wm.core = "current"
                            THEN [wm EXCEPT !.flags = CoreInternalFlags] ELSE wm

(* get_machine_key, get_machine_by_msg *)
KeysOf(wm, op) == {key \in DOMAIN wm.mach : wm.mach[key].op = op /\ wm.mach[key].k # "workflowTask"}
KeyOf(wm, op) == CHOOSE key \in KeysOf(wm, op) : TRUE

(* LocalActivityData::done_executing *)
DoneExecuting(wm, op) ==
  [wm EXCEPT !.la.queue = SelectSeq(@, LAMBDA o : o # op), !.la.exec = @ \ {op}]
-----------------------------------------------------------------------------
(* process_machine_responses.  A response may feed a machine whose responses   *)
(* are processed in turn; those feed none, so that two levels are enough.      *)
IssueMessage_Mut(wm, op, what) == [wm EXCEPT !.outbox = Append(@, [op |-> op, what |-> what])]

(* IssueNewMessage *)
IssueMessage(wm, op, what) ==
  IF wm.rep THEN wm ELSE [wm EXCEPT !.outbox = Append(@, [op |-> op, what |-> what])]

Simple(wm, key, out) ==
  LET op == wm.mach[key].op
  IN CASE out[1] = "job" -> IF op = 0 THEN wm ELSE SendJob(wm, op, out[2])
       [] out[1] = "cmd" -> [wm EXCEPT !.cur = Append(@, [key |-> key, ev |-> out[2]])]
       [] out[1] = "msg" -> IssueMessage(wm, op, out[2])
       [] out[1] = "core" -> AddNew(wm, out[2], 0, "none")
       [] out[2] = "queue" /\ out[1] = "la" -> [wm EXCEPT !.la.queue = Append(@, op)]
       [] out[2] = "abandon" /\ out[1] = "la" -> DoneExecuting(wm, op)

Fed(wm, key, ev, x, class, Answer(_, _, _)) ==
  LET m == wm.mach[key]
      done(s) ==
        IF s.bad = "none"
          THEN Each(LAMBDA w, out : Answer(w, key, out), [wm EXCEPT !.mach[key] = s.m], s.out)
          ELSE Fails(wm, IF s.bad = "refused" THEN "Nondeterminism" ELSE class, m.k, m.st, ev)
  IN Strict(OnEvent(m, ev, x), done)

(* encountered_non_replay_wft *)
NonReplayWft(wm, key) ==
  IF WillAcceptResolveMarker(wm.mach[key])
    THEN Fed(wm, key, "StartedNonReplayWFT", NoErr, "Fatal", Simple) ELSE wm

(* task_started: outside replay, local activities that still wait for their    *)
(* marker are executed after all.                                              *)
TaskStarted(wm, id) ==
  LET las == SelectSeq([key \in DOMAIN wm.mach |-> key],
                       LAMBDA key : wm.mach[key].k = "localActivity")
      w == [wm EXCEPT !.started = id]
  IN IF wm.rep THEN w ELSE Each(NonReplayWft, w, las)

Preresolution(wm, op) == SelectSeq(wm.la.pre, LAMBDA p : p.op = op)
TakePreresolution(wm, op) == [wm EXCEPT !.la.pre = SelectSeq(@, LAMBDA p : p.op # op)]
InsertPeeked(wm, op, r) ==
  [wm EXCEPT !.la.pre = Append(SelectSeq(@, LAMBDA p : p.op # op), [op |-> op, r |-> r])]

(* RequestCancelLocalActivity *)
RequestCancelLA(wm, key) ==
  LET op == wm.mach[key].op
      pre == Preresolution(wm, op)
  IN IF pre # <<>>
       THEN Fed(TakePreresolution(wm, op), key, ResolveEvent(TRUE), pre[1], "Fatal", Simple)
     ELSE IF \E n \in DOMAIN wm.la.queue : wm.la.queue[n] = op
       THEN Fed([wm EXCEPT !.la.queue = SelectSeq(@, LAMBDA o : o # op)], key,
                ResolveEvent(FALSE), [op |-> op, r |-> "cancelled"], "Fatal", Simple)
     ELSE [wm EXCEPT !.la.cancels = Append(@, op)]

Answered(wm, key, out) ==
  CASE out[1] = "started" -> TaskStarted(wm, out[2])
    [] out = <<"la", "cancel">> -> RequestCancelLA(wm, key)
    [] OTHER -> Simple(wm, key, out)

Feed(wm, key, ev, x, class) == Fed(wm, key, ev, x, class, Answered)

(* on_activity_task_scheduled, on_start_child_workflow_execution_initiated: the *)
(* id and the type are not those of the command.                               *)
Named == {"ActivityTaskScheduled", "StartChildInitiated"}

IdMismatch_Mut(wm, m, e) ==
  /\ e.t = "StartChildInitiated" /\ e.op # m.op
  /\ TryUse(wm, "IdAndTypeDeterminismChecks", wm.final)

IdMismatch(wm, m, e) ==
  /\ e.t \in Named /\ e.op # m.op
  /\ TryUse(wm, "IdAndTypeDeterminismChecks", wm.final)

(* submachine_handle_event *)
FeedEvent(wm, key, e) ==
  LET m == wm.mach[key]
  IN IF Converts(m, e) /\ ~IdMismatch(wm, m, e) THEN Feed(wm, key, e.t, e, "Fatal")
     ELSE Fails(wm, "Nondeterminism", m.k, m.st, e.t)
-----------------------------------------------------------------------------
(* handle_driven_results.  A command of lang is [do, op, k, typ, r]: start an  *)
(* operation or cancel it.                                                     *)

(* new_local_activity: of the responses of a schedule only the last is kept.   *)
NewLocalActivity(wm, c) ==
  LET pre == Preresolution(wm, c.op)
      w == TakePreresolution(wm, c.op)
      st == LocalActivityScheduled(wm.rep, pre # <<>>)
      la == [Machine("localActivity", c.op, c.typ, st) EXCEPT
               !.f = IF wm.rep THEN {"replayed"} ELSE {}]
      with == [w EXCEPT !.mach = Append(@, la)]
  IN CASE ~wm.rep /\ pre # <<>> -> Fails(wm, "Nondeterminism", "localActivity", "none", "start")
       [] ~wm.rep /\ pre = <<>> -> [with EXCEPT !.la.queue = Append(@, c.op)]
       [] wm.rep /\ pre = <<>>  -> with
       [] wm.rep /\ pre # <<>>  -> SendJob(with, c.op, pre[1].r)

(* SetPatchMarker and has_change *)
SetPatchMarker(wm, c) ==
  LET known == c.op \in DOMAIN wm.patches
      m == [Machine("patch", c.op, "none",
                    IF wm.rep THEN "MarkerCommandCreatedReplaying" ELSE "MarkerCommandCreated")
              EXCEPT !.f = {c.r}]
      upsert(w) == IF \/ wm.rep /\ ~known
                      \/ ~TryUse(wm, "UpsertSearchAttributeOnPatch", ~wm.rep) THEN w
                   ELSE AddCommand(w, [Machine("upsert", 0, "none", First.upsert.st) EXCEPT
                                         !.f = {"version"}], First.upsert.ev)
  IN IF known /\ wm.patches[c.op] THEN wm
     ELSE [upsert(AddCommand(wm, m, "CommandRecordMarker")) EXCEPT
             !.patches = [p \in DOMAIN @ \cup {c.op} |-> p = c.op \/ @[p]]]

(* add_terminal_command *)
AddTerminal(wm, c) ==
  [AddNew(wm, c.k, c.op, "none") EXCEPT !.la.ending = TRUE]

(* cancel_machine! *)
CancelMachine(wm, c) ==
  LET key == KeyOf(wm, c.op)
      m == wm.mach[key]
      ev == CASE m.k = "activity" -> ActivityCancelEvent(m)
              [] m.k = "localActivity" -> LocalActivityCancelEvent(m)
              [] OTHER -> "Cancel"
  IN IF KeysOf(wm, c.op) = {} THEN Fails(wm, "Nondeterminism", c.k, "none", "Cancel")
     ELSE IF m.k = "activity" /\ ActivityCancelIgnored(m) THEN wm
     ELSE Feed(wm, key, ev, c, "Nondeterminism")

(* UpdateResponse *)
UpdateResponse(wm, c) ==
  IF KeysOf(wm, c.op) = {} THEN Fails(wm, "Fatal", "update", "none", c.r)
  ELSE Feed(wm, KeyOf(wm, c.op), c.r, c, "Nondeterminism")

StartOperation(wm, c) ==
  CASE c.k = "localActivity" -> NewLocalActivity(wm, c)
    [] c.k = "patch" -> SetPatchMarker(wm, c)
    [] c.k \in Terminal -> AddTerminal(wm, c)
    [] OTHER -> AddNew(wm, c.k, c.op, c.typ)

Driven(wm, c) ==
  CASE c.do = "start" -> StartOperation(wm, c)
    [] c.do = "cancel" -> CancelMachine(wm, c)
    [] c.do = "respond" -> UpdateResponse(wm, c)

(* prepare_commands *)
PrepareCommands(wm) ==
  LET sent(c) == ~CancelledBeforeSent(wm.mach[c.key])
      prepared(w, c) ==
        IF CancelledBeforeSent(w.mach[c.key]) THEN w
        ELSE [Feed(w, c.key, c.ev, c, "Nondeterminism") EXCEPT !.cmds = Append(@, c)]
  IN Each(prepared, [wm EXCEPT !.cmds = SelectSeq(@, sent), !.cur = <<>>], wm.cur)

(* iterate_machines *)
Iterate(wm, cmds) ==
  Strict(Each(Driven, wm, cmds), LAMBDA w : IF w.err # NoErr THEN w ELSE PrepareCommands(w))

(* gather_for_wft_complete: the flags, all of which get_commands wrote          *)
GatherFlags(wm) == [wm EXCEPT !.flags = IF wm.core = "current" THEN CoreInternalFlags ELSE @]

(* MachinesWFTResponseContent, once it is certain that the task is answered:   *)
(* messages and metadata are taken, commands stay until their events come      *)
Responded(wm) == [GatherFlags(wm) EXCEPT !.outbox = <<>>]

(* get_commands *)
Commands(wm) == SelectSeq(wm.cmds, LAMBDA c : ~IsFinal(wm.mach[c.key]))
-----------------------------------------------------------------------------
IsPatchMarker(e) == PatchEvent(e)
IsLaMarker(e) == LocalActivityEvent(e)

(* patch_marker_handling for a patch marker: whether it is skipped, and with   *)
(* it the search attribute update behind it                                    *)
SkipsMarker(wm, e) ==
  /\ e.r = "deprecated"
  /\ \/ wm.cmds = <<>>
     \/ wm.mach[wm.cmds[1].key].k # "patch"
     \/ wm.mach[wm.cmds[1].key].op # e.op

(* handle_command_event from the loop on: commands of patches that do not      *)
(* match and of operations cancelled before they were sent are dropped.        *)
MatchCommand(wm, e, following) ==
  LET dropped(c) == /\ ~IsPatchMarker(e)
                    /\ \/ wm.mach[c.key].k = "patch"
                       \/ CancelledBeforeSent(wm.mach[c.key])
      left == SelectSeq([n \in DOMAIN wm.cmds |-> n], LAMBDA n : ~dropped(wm.cmds[n]))
      key == wm.cmds[left[1]].key
      matched(w) == IF w.err # NoErr \/ IsFinal(w.mach[key]) THEN w
                    ELSE [w EXCEPT !.byEv = (e.id :> key) @@ @]
  IN IF IsPatchMarker(e) /\ SkipsMarker(wm, e)
       THEN [wm EXCEPT !.skip = following # <<>> /\ following[1].t = "UpsertSearchAttributes"
                                 /\ following[1].r = "version"]
     ELSE IF left = <<>> THEN Fails(wm, "Nondeterminism", "none", "none", e.t)
     ELSE IF IsPatchMarker(e) /\ wm.mach[key].k # "patch"
       THEN Fails(wm, "Nondeterminism", wm.mach[key].k, wm.mach[key].st, e.t)
     ELSE Strict(FeedEvent([wm EXCEPT !.cmds = SubSeq(@, left[1] + 1, Len(@))], key, e), matched)

(* handle_command_event *)
CommandEvent(wm, e, following) ==
  LET m == wm.mach[KeyOf(wm, e.op)]
  IN IF ~IsLaMarker(e) THEN MatchCommand(wm, e, following)
     ELSE IF KeysOf(wm, e.op) = {} THEN Fails(wm, "Nondeterminism", "localActivity", "none", e.t)
     ELSE IF ~MarkerExpected(m) THEN Fails(wm, "Fatal", m.k, m.st, e.t)
     ELSE IF MarkerSpecial(m) THEN FeedEvent(wm, KeyOf(wm, e.op), e)
     ELSE MatchCommand(wm, e, following)

(* handle_non_stateful_event *)
OtherEvent(wm, e) ==
  CASE e.t = "WorkflowExecutionStarted" -> SendJob(wm, 0, "initialize")
    [] e.t = "WorkflowTaskScheduled" ->
         LET key == Len(wm.mach) + 1
             m == Machine("workflowTask", wm.next, "none", NewWorkflowTask.st)
         IN FeedEvent([wm EXCEPT !.mach = Append(@, m), !.byEv = (e.id :> key) @@ @], key, e)
    [] e.t = "Signaled" -> SendJob(wm, 0, "signal")
    [] e.t = "CancelRequested" -> SendJob(wm, 0, "cancel")
    [] OTHER -> Fails(wm, "Fatal", "none", "none", e.t)

(* handle_event *)
HandleEvent(wm0, e, following, final) ==
  LET wm == [wm0 EXCEPT !.term = @ \/ IsFinalEvent(e)]
  IN CASE e.t \in {"WorkflowExecutionTerminated", "WorkflowExecutionTimedOut"} ->
            IF following # <<>> \/ ~final THEN Fails(wm, "Fatal", "none", "none", e.t) ELSE wm
       [] IsCommandEvent(e) -> CommandEvent(wm, e, following)
       [] ~IsCommandEvent(e) /\ e.i # 0 ->
            IF e.i \in DOMAIN wm.byEv THEN FeedEvent(wm, wm.byEv[e.i], e)
            ELSE Fails(wm, "Nondeterminism", "none", "none", e.t)
       [] OTHER -> OtherEvent(wm, e)

(* handle_protocol_message and UpdateMachine::init: the validator runs outside *)
(* replay only.                                                                *)
HandleMessage(wm, msg) ==
  SendJob(AddProtocolMachine(wm, [Machine("update", msg.op, "none", NewUpdate.st)
                                    EXCEPT !.at = msg.seq]),
          msg.op, IF wm.rep THEN "update" ELSE "validate")

(* IncomingProtocolMessage of an UpdateAdmitted or UpdateAccepted event *)
AdmittedMessage(e) == [op |-> e.op, seq |-> e.id]
AcceptedMessage(e) == [op |-> e.op, seq |-> e.i]

TakeAdmitted(wm, e) ==
  IF e.t # "UpdateAdmitted" THEN wm
  ELSE IF wm.rep THEN [wm EXCEPT !.stash = Append(@, AdmittedMessage(e))]
  ELSE [wm EXCEPT !.msgs = Append(@, AdmittedMessage(e))]

(* processable_after_event_id *)
HandleMessages(wm, eid) ==
  Each(HandleMessage, [wm EXCEPT !.msgs = SelectSeq(@, LAMBDA m : m.seq > eid - 1)],
       SelectSeq(wm.msgs, LAMBDA m : m.seq <= eid - 1))

(* The look-ahead of apply_next_wft_from_history: markers of the next sequence *)
(* resolve what they are for before the events of that sequence are applied;   *)
(* patches first, local activities and the requests of accepted updates after  *)
(* them (delayed_actions).                                                     *)
PeekPatch(wm, e) ==
  SendJob([wm EXCEPT !.patches = (e.op :> FALSE) @@ @], e.op, "hasPatch")

WakeLa(wm, e) ==
  LET key == KeyOf(wm, e.op)
  IN IF KeysOf(wm, e.op) # {} /\ WillAcceptResolveMarker(wm.mach[key])
       THEN Feed(wm, key, ResolveEvent(TRUE), [op |-> e.op, r |-> ResolveDat(e.r)], "Fatal")
       ELSE InsertPeeked(wm, e.op, ResolveDat(e.r))

WakeUpdate(wm, e) ==
  LET stashed == SelectSeq(wm.stash, LAMBDA m : m.op = e.op)
  IN IF stashed # <<>> THEN HandleMessage(wm, stashed[1])
     ELSE IF e.r = "noRequest" THEN Fails(wm, "Fatal", "update", "none", e.t)
     ELSE HandleMessage(wm, AcceptedMessage(e))

Wake(wm, e) == IF e.t = "UpdateAccepted" THEN WakeUpdate(wm, e) ELSE WakeLa(wm, e)

Peeked(wm, ahead) ==
  Each(Wake, Each(PeekPatch, wm, SelectSeq(ahead, IsPatchMarker)),
       SelectSeq(ahead, LAMBDA e : IsLaMarker(e) \/ e.t = "UpdateAccepted"))

(* apply_next_wft_from_history, once the next sequence is taken *)
EndsReplay(wm, e, final) ==
  /\ final /\ e.id > wm.u.prev
  /\ e.t # "WorkflowTaskCompleted" /\ ~IsCommandEvent(e)

(* apply_wft_complete_data!: for the events taken, and for the next completion *)
Observed(wm, es) ==
  LET ahead == PeekCompleted(wm.u, IF es = <<>> THEN 0 ELSE es[Len(es)].id)
      next == IF es = <<>> \/ ahead = <<>> THEN <<>> ELSE <<ahead[1]>>
  IN FoldLeft(AddFromComplete, wm, SelectSeq(es, LAMBDA e : e.t = "WorkflowTaskCompleted") \o next)

Applied(wm, t) ==
  LET es == SelectSeq(t.events, LAMBDA e : e.id > wm.proc)
      final == t.what = "ReplayOver" \/ t.final
      one(w, n) ==
        LET e == es[n]
            v == [w EXCEPT !.rep = @ /\ ~EndsReplay(w, e, final), !.proc = e.id, !.skip = FALSE]
            ready == HandleMessages(TakeAdmitted(v, e), e.id)
        IN IF e.id # w.proc + 1 THEN Fails(w, "Fatal", "none", "none", "out of order")
           ELSE IF w.skip \/ e.t = "UpdateAdmitted" THEN ready
           ELSE Strict(ready, LAMBDA r : HandleEvent(r, e, SubSeq(es, n + 1, Len(es)), final))
      begun == [wm EXCEPT !.u = t.u, !.took = Len(es), !.rep = @ /\ es # <<>>, !.skip = FALSE,
                          !.stash = <<>>, !.final = final,
                          !.next = IF TypeAt(es, Len(es)) = "WorkflowTaskStarted"
                                     THEN es[Len(es)].id ELSE @]
  IN IF t.what \in {"NeedFetch", "panic"} THEN Fails(wm, "Fatal", "none", "none", t.what)
     ELSE Strict(Each(one, Observed(begun, es), [n \in DOMAIN es |-> n]),
                 LAMBDA w : IF w.err # NoErr THEN w ELSE Peeked(w, PeekNext(w.u, wm.started)))

ApplyNext(wm) ==
  IF wm.err # NoErr THEN wm
  ELSE IF wm.term THEN [wm EXCEPT !.rep = FALSE, !.took = 0]
  ELSE Strict(TakeNext(wm.u, wm.started), LAMBDA t : Applied(wm, t))
-----------------------------------------------------------------------------
(* new_work_from_server, new_history_from_server *)
NewWork(wm, u, msgs) == ApplyNext([wm EXCEPT !.u = u, !.rep = u.prev > 0, !.msgs = msgs])

(* WorkflowManager::get_next_activation, up to the jobs being drained *)
NextActivation(wm) == IF wm.jobs # <<>> THEN wm ELSE ApplyNext(wm)

(* apply_next_task_if_ready *)
ApplyIfReady(wm) ==
  LET settled(w) == w.took = 0 \/ ~w.rep \/ w.jobs # <<>>
      again(w, e) == IF settled(w) THEN w ELSE ApplyNext(w)
  IN IF wm.jobs # <<>> \/ wm.err # NoErr THEN wm
     ELSE Each(again, ApplyNext(wm), wm.u.events)

(* local_resolution *)
LocalResolution(wm, op, r) ==
  IF KeysOf(wm, op) = {} THEN Fails(wm, "Nondeterminism", "localActivity", "none", "result")
  ELSE Strict(Feed(wm, KeyOf(wm, op), ResolveEvent(FALSE), [op |-> op, r |-> r], "Fatal"),
              LAMBDA w : DoneExecuting(w, op))

(* reset_last_started_id: the last task, a speculative one, is forgotten.      *)
ResetLastStarted(wm, id) ==
  [wm EXCEPT !.started = id, !.proc = @ - 2,
             !.byEv = [n \in {m \in DOMAIN @ : m <= wm.proc - 2} |-> @[n]]]

(* A command of lang: what it does (start, cancel or respond) to which         *)
(* operation, its kind and cancellation type, and what it says                 *)
WFCommand(do, op, k, typ, r) == [do |-> do, op |-> op, k |-> k, typ |-> typ, r |-> r]

(* preprocess_command_sequence: the first command that ends the workflow comes *)
(* last; or, as it once was, it cuts off what comes after it.                  *)
IsTerminal(c) == c.do = "start" /\ c.k \in Terminal

Preprocess(wm, cmds) ==
  LET ends == SelectSeq(cmds, IsTerminal)
      first == SelectInSeq(cmds, IsTerminal)
      old == wm.core = "old" \/ (wm.rep /\ ~TryUse(wm, "MoveTerminalCommands", FALSE))
  IN IF ends = <<>> THEN cmds
     ELSE IF old THEN SubSeq(cmds, 1, first)
     ELSE SelectSeq(cmds, LAMBDA c : ~IsTerminal(c)) \o <<ends[1]>>

(* take_all_reqs *)
DrainLAs(wm) ==
  IF wm.la.ending THEN wm
  ELSE [wm EXCEPT !.la.exec = @ \cup ToSet(wm.la.queue), !.la.queue = <<>>, !.la.cancels = <<>>]

(* outstanding_la_count *)
OutstandingLAs(wm) == IF wm.la.ending THEN {} ELSE wm.la.exec \cup ToSet(wm.la.queue)
=============================================================================
