---------------------------- MODULE HistoryUpdate ----------------------------
(* What a history update is and how workflow task (WFT) sequences are cut out  *)
(* of it (history_update.rs).  An event is a record with at least              *)
(*   id  its event id,   t  its type,   i  the id of the event it refers to    *)
(* (for UpdateAccepted: the sequencing id of the request).  Types that the     *)
(* cutting does not tell apart need not be told apart by the caller.           *)
(* Indices are 1-based here, 0-based in the code.                              *)
EXTENDS Naturals, Sequences, SequencesExt

(* Op(x), with x evaluated once: TLC evaluates the argument of an operator     *)
(* anew wherever the operator uses it.                                         *)
Strict(x, Op(_)) == CHOOSE y \in {Op(v) : v \in {x}} : TRUE

(* HistoryEvent::is_command_event: events that mirror a command. *)
CommandEvents ==
  {"ActivityTaskScheduled", "ActivityTaskCancelRequested", "MarkerRecorded",
   "RequestCancelExternalInitiated", "SignalExternalInitiated", "StartChildInitiated",
   "TimerCanceled", "TimerStarted", "UpsertSearchAttributes", "PropertiesModified",
   "NexusOperationScheduled", "NexusOperationCancelRequested",
   "WorkflowExecutionCanceled", "WorkflowExecutionCompleted",
   "WorkflowExecutionContinuedAsNew", "WorkflowExecutionFailed",
   "UpdateAccepted", "UpdateRejected", "UpdateCompleted"}

IsCommandEvent(e) == e.t \in CommandEvents

(* HistoryEvent::is_final_wf_execution_event *)
IsFinalEvent(e) ==
  e.t \in {"WorkflowExecutionCompleted", "WorkflowExecutionCanceled",
           "WorkflowExecutionFailed", "WorkflowExecutionTimedOut",
           "WorkflowExecutionContinuedAsNew", "WorkflowExecutionTerminated"}

(* After a WorkflowTaskStarted these say that the task was not completed, so   *)
(* that it does not conclude a sequence.                                       *)
AttemptLost ==
  {"WorkflowTaskFailed", "WorkflowTaskTimedOut", "WorkflowExecutionTimedOut",
   "WorkflowExecutionTerminated", "WorkflowExecutionCanceled"}

TypeAt(es, ix) == IF ix \in DOMAIN es THEN es[ix].t ELSE "none"

SawAnyCommand(es, from, ix) ==
  \E j \in 1..ix : /\ es[j].id > from
                   /\ IsCommandEvent(es[j]) \/ es[j].t = "WorkflowExecutionStarted"

(* A completion followed at once by the next scheduled task is a heartbeat. *)
Concludes(es, from, ix) ==
  /\ es[ix].t = "WorkflowTaskStarted"
  /\ TypeAt(es, ix + 1) \notin AttemptLost
  /\ IF TypeAt(es, ix + 1) = "WorkflowTaskCompleted" /\ ix + 2 \in DOMAIN es
       THEN TypeAt(es, ix + 2) # "WorkflowTaskScheduled"
       ELSE SawAnyCommand(es, from, ix)

(* When the completion is followed by an accepted update, the sequence ends at *)
(* the last WorkflowTaskStarted before the update's sequencing id instead.     *)
ConcludedAt(es, from, ix) ==
  LET before == {j \in 1..ix : /\ es[j].id > from
                               /\ es[j].t = "WorkflowTaskStarted"
                               /\ es[j].id < es[ix + 2].i}
  IN IF /\ TypeAt(es, ix + 1) = "WorkflowTaskCompleted"
        /\ TypeAt(es, ix + 2) = "UpdateAccepted"
        /\ before # {}
       THEN Max(before)
       ELSE ix

(* find_end_index_of_next_wft_seq: the end of the first sequence after the     *)
(* event `from`.  The code also takes has_last_wft, which never changes the    *)
(* result: where it is consulted, saw_any_command_event decides anyway.        *)
FindEnd(es, from) ==
  LET ends == {ix \in DOMAIN es : /\ es[ix].id > from
                                  /\ IsFinalEvent(es[ix]) \/ Concludes(es, from, ix)}
      end(first) == [complete |-> TRUE,
                     ix |-> IF IsFinalEvent(es[first]) THEN first
                                                       ELSE ConcludedAt(es, from, first)]
      none == [complete |-> FALSE, ix |-> IF es = <<>> THEN 1 ELSE Len(es)]
  IN Strict(ends, LAMBDA s : IF s = {} THEN none ELSE Strict(Min(s), end))

(* The ends of the complete sequences after `from`, first to last: the loop of *)
(* from_events.                                                                *)
EndsFrom(es, from) ==
  LET at(ends) == IF ends = <<>> THEN 1 ELSE ends[Len(ends)]
      after(ends) == FindEnd(SubSeq(es, at(ends), Len(es)),
                             IF ends = <<>> THEN from ELSE es[at(ends)].id)
      grow(ends, e) == IF e.complete THEN Append(ends, at(ends) + e.ix - 1) ELSE ends
      step(ends0, x) == Strict(ends0, LAMBDA ends :
                                 Strict(after(ends), LAMBDA e : grow(ends, e)))
  IN FoldLeft(step, <<>>, es)

(* A HistoryUpdate: its events, previous_wft_started_id, wft_started_id,       *)
(* has_last_wft and wft_count.                                                 *)
Update(es, prev, started, last, count) ==
  [events |-> es, prev |-> prev, started |-> started, last |-> last, count |-> count]

(* HistoryUpdate::from_events: the complete sequences after prev, and the      *)
(* events behind the last of them (none if these are the last events).         *)
FromEvents(es, prev, started, last) ==
  LET cut(ends) ==
        LET n == Len(ends)
            keep == IF last THEN Len(es) ELSE IF n = 0 THEN 0 ELSE ends[n]
        IN [update |-> Update(SubSeq(es, 1, keep), prev, started, last,
                              IF n = 0 /\ last THEN 1 ELSE n),
            extra  |-> SubSeq(es, keep + 1, Len(es))]
  IN Strict(EndsFrom(es, prev), cut)

(* starting_index_after_skipping, then drain *)
DropUpTo(es, from) ==
  IF \E ix \in DOMAIN es : es[ix].id > from
    THEN SelectInSeq(es, LAMBDA e : e.id > from) ELSE 1

Relevant(es, from) == SubSeq(es, DropUpTo(es, from), Len(es))

(* take_next_wft_sequence and build_next_wft: the outcome, the events taken,   *)
(* whether they are the final ones, and the events left.                       *)
TakeNext(u, from) ==
  LET nothing(what, es) == [what |-> what, events |-> <<>>, final |-> FALSE,
                            u |-> [u EXCEPT !.events = es]]
      taken(es, rest) == [what |-> "WFT", events |-> es, final |-> rest = <<>> /\ u.last,
                          u |-> [u EXCEPT !.events = rest]]
      outcome(es, e) ==
        CASE ~e.complete /\ u.last /\ e.ix = 1  -> nothing("ReplayOver", es)
          [] ~e.complete /\ ~u.last /\ e.ix # 1 -> nothing("panic", es)
          [] ~e.complete /\ ~u.last /\ e.ix = 1 -> nothing("NeedFetch", es)
          [] OTHER -> taken(SubSeq(es, 1, e.ix), SubSeq(es, e.ix + 1, Len(es)))
  IN Strict(Relevant(u.events, from),
            LAMBDA es : Strict(FindEnd(es, from), LAMBDA e : outcome(es, e)))

(* peek_next_wft_sequence *)
PeekNext(u, from) ==
  LET es == Relevant(u.events, from)
  IN IF es = <<>> THEN <<>> ELSE SubSeq(es, 1, FindEnd(es, from).ix)

(* peek_next_wft_completed: the next WorkflowTaskCompleted from the event `id` *)
PeekCompleted(u, id) == SelectSeq(u.events, LAMBDA e : e.id >= id /\ e.t = "WorkflowTaskCompleted")

(* can_take_next_wft_sequence *)
CanTakeNext(u, from) == u.last \/ FindEnd(u.events, from).complete
=============================================================================
