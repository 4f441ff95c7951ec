---------------------------- MODULE HistoryPages ----------------------------
(* One workflow task (WFT) whose history reaches the worker in pages: the      *)
(* paginator that collects them (HistoryPaginator in history_update.rs), the   *)
(* cache miss that restarts it from the first event, and the run that takes    *)
(* one WFT sequence after the other (apply_next_wft_from_history).  Or one     *)
(* recorded history that a replay worker is fed.                               *)
(*                                                                             *)
(* The history is made of segments, each of which closes one attempt at a task *)
(* and schedules the next.  The task at hand is the last one.                  *)
EXTENDS HistoryInfo, FiniteSets

CONSTANTS Segments,   \* the kinds of segments histories are made of
          MaxSegs,    \* how many of them
          MaxMoved,   \* how many more the server may have by the time of a refetch
          MaxPage,    \* events in a page
          MaxEmpty    \* empty pages followed by more

VARIABLES hist,    \* the history up to the task's WorkflowTaskStarted, or a recorded one
          source,  \* what the server pages out
          pag,     \* the HistoryPaginator
          run,     \* the WorkflowMachines, as far as history goes
          mode,    \* where the task is: see Modes
          empties, \* empty pages so far
          whole    \* the ends of the sequences of hist, had it come in one page

vars == <<hist, source, pag, run, mode, empties, whole>>

Modes == {"idle",        \* no task yet
          "poll",        \* in from_poll
          "miss",        \* in from_fetchreq
          "work",        \* with the stream, its first update extracted
          "activation",  \* lang (or an auto-completion) has an activation
          "page",        \* the completion waits for another page
          "complete", "failed", "fetch failed", "empty fetch"}

(* external: the events the server puts between an attempt and the next *)
SegmentTypes(s) ==
  CASE s = "command"   -> <<"WorkflowTaskCompleted", "TimerStarted">>
    [] s = "signal"    -> <<"WorkflowTaskCompleted", "Signaled">>
    [] s = "heartbeat" -> <<"WorkflowTaskCompleted">>
    [] s = "update"    -> <<"WorkflowTaskCompleted", "UpdateAccepted">>
    [] s = "failed"    -> <<"WorkflowTaskFailed">>
    [] s = "timedout"  -> <<"WorkflowTaskTimedOut", "Signaled">>

NextAttempt == <<"WorkflowTaskScheduled", "WorkflowTaskStarted">>

(* external: the history h and then segs, an accepted update naming the        *)
(* WorkflowTaskStarted it was delivered with                                   *)
GrownBy(h, segs) ==
  LET types == FoldLeft(LAMBDA acc, s : acc \o SegmentTypes(s) \o NextAttempt, <<>>, segs)
  IN h \o [k \in DOMAIN types |->
             [id |-> Len(h) + k, t |-> types[k],
              i |-> IF types[k] = "UpdateAccepted" THEN Len(h) + k - 2 ELSE 0]]

Beginning == [n \in 1..3 |->
                [id |-> n, i |-> 0, t |-> (<<"WorkflowExecutionStarted">> \o NextAttempt)[n]]]

Starteds(h) == {n \in DOMAIN h : h[n].t = "WorkflowTaskStarted"}

(* external: previous_started_event_id, the last task that was completed *)
PreviousStarted(h) ==
  LET done == {n \in Starteds(h) : TypeAt(h, n + 1) = "WorkflowTaskCompleted"}
  IN IF done = {} THEN 0 ELSE CHOOSE n \in done : \A k \in done : k <= n

(* external: a retried task is transient.  Its two events come with the task   *)
(* but are not in the history that a fetch from the start gets.                *)
Stored(h) ==
  SubSeq(h, 1, IF TypeAt(h, Len(h) - 2) = "WorkflowTaskFailed" THEN Len(h) - 2 ELSE Len(h))

SegmentSeqs(n) == UNION {[1..k -> Segments] : k \in 0..n}

(* external: the histories that may be recorded of a run that goes through     *)
(* segs: a completion and its commands, and the start of a run and its first   *)
(* task, are written at once                                                   *)
Closings == {<<"WorkflowTaskCompleted", "WorkflowExecutionCompleted">>, <<"WorkflowExecutionTerminated">>}

ClosedBy(h, types) ==
  LET kept == IF Len(types) = 1 THEN Stored(h) ELSE h
  IN kept \o [k \in DOMAIN types |-> [id |-> Len(kept) + k, t |-> types[k], i |-> 0]]

Records(segs) ==
  LET h == GrownBy(Beginning, segs)
      cuts == {n \in 2..Len(h) : /\ TypeAt(h, n + 1) \notin CommandEvents
                                 /\ "WorkflowTaskFailed" \notin {TypeAt(h, n - 1), TypeAt(h, n - 2)}}
  IN {SubSeq(h, 1, n) : n \in cuts} \cup {ClosedBy(h, types) : types \in Closings}

(* external: what the server has if the task was lost in the meantime *)
Lost == {"failed", "timedout"}

Outlives(segs) == segs # <<>> /\ segs[1] \in Lost
-----------------------------------------------------------------------------
(* The paginator: event_queue, next_page_token, final_events, the task's       *)
(* previous_wft_started_id and wft_started_event_id, and the id of the last    *)
(* event of the update extracted last.  A token is a position in source:       *)
(* FetchFromStart is the first, Done is none.                                  *)
FetchFromStart == 0
Done == 1000

LastId(es) == IF es = <<>> THEN 0 ELSE es[Len(es)].id

SkipUpTo(es, id) == SelectSeq(es, LAMBDA e : e.id > id)

(* external: what comes with a page that ends at n; the token of the last page *)
(* may point to an empty one *)
Tokens(n, es) == {n} \cup (IF n = Len(es) THEN {Done} ELSE {})

(* get_next_page once the page is there *)
AppendFinal(pg) ==
  IF pg.token = Done /\ pg.queue # <<>>
    THEN [pg EXCEPT !.queue = @ \o SkipUpTo(pg.final, LastId(pg.queue)), !.final = <<>>]
    ELSE pg

GotPage_Mut(pg, page, token) ==
  AppendFinal([pg EXCEPT !.queue = @ \o SkipUpTo(page, LastId(pg.queue))])

GotPage(pg, page, token) ==
  AppendFinal([pg EXCEPT !.queue = @ \o SkipUpTo(page, LastId(pg.queue)), !.token = token])

(* The rest of a round of extract_next_update: an update, another round, or    *)
(* EMPTY_FETCH_ERR.                                                            *)
CountedFrom_Mut(p) == 0

CountedFrom(p) == p

Round(pg) ==
  LET es == pg.queue
      noNext == pg.token = Done
      enough == LastId(es) >= pg.started
      noMore == noNext /\ enough
      gives(u, q) == [what |-> "update", u |-> u,
                      pg |-> [pg EXCEPT !.queue = q, !.last = LastId(u.events)]]
      fails == [what |-> "error", u |-> FromEvents(<<>>, 0, 0, FALSE).update,
                pg |-> [pg EXCEPT !.queue = <<>>]]
      enoughOf(f) ==
        IF (~noNext /\ f.update.count < 2)
           \/ (~noMore /\ f.extra # <<>> /\ f.extra[1].id = es[1].id)
          THEN [what |-> "again", u |-> f.update, pg |-> pg]
          ELSE gives(f.update, f.extra)
  IN CASE es = <<>> /\ noNext /\ pg.last >= pg.started ->
            [gives(FromEvents(<<>>, pg.prev, pg.started, TRUE).update, <<>>) EXCEPT !.pg = pg]
       [] es = <<>> /\ ~(noNext /\ pg.last >= pg.started) -> fails
       [] es # <<>> /\ noNext /\ ~enough -> fails
       [] OTHER -> Strict(FromEvents(es, CountedFrom(pg.prev), pg.started, noMore), enoughOf)
-----------------------------------------------------------------------------
(* The run: last_history_from_server, current_started_event_id,                *)
(* last_processed_event, replaying, whether jobs are pending, how many events  *)
(* the last application consumed, the ends of the sequences taken, and the     *)
(* error that ended it.                                                        *)
NewRun(at) ==
  [u |-> FromEvents(<<>>, 0, 0, FALSE).update, cur |-> at, processed |-> at,
   replaying |-> FALSE, jobs |-> FALSE, consumed |-> 0, ends |-> <<>>, err |-> "none"]

GivesJob == {"WorkflowExecutionStarted", "Signaled"}

(* apply_next_wft_from_history, without what machines do with the events *)
Applied(r, t, es) ==
  LET final == t.what = "ReplayOver" \/ t.final
      over == \/ es = <<>>
              \/ final /\ \E n \in DOMAIN es :
                   /\ es[n].id > r.u.prev
                   /\ es[n].t # "WorkflowTaskCompleted" /\ ~IsCommandEvent(es[n])
      peeked == PeekNext(t.u, r.cur)
  IN CASE t.what \in {"NeedFetch", "panic"} -> [r EXCEPT !.err = t.what]
       [] t.what \notin {"NeedFetch", "panic"}
            /\ \E n \in DOMAIN es : es[n].id # r.processed + n -> [r EXCEPT !.err = "out of order"]
       [] OTHER ->
            [r EXCEPT !.u = t.u, !.consumed = Len(es),
                      !.processed = IF es = <<>> THEN @ ELSE LastId(es),
                      !.cur = IF TypeAt(es, Len(es)) = "WorkflowTaskStarted" THEN LastId(es) ELSE @,
                      !.ends = IF es = <<>> THEN @ ELSE Append(@, LastId(es)),
                      !.replaying = @ /\ ~over,
                      !.jobs = \/ @
                               \/ \E n \in DOMAIN es : es[n].t \in GivesJob
                               \/ \E n \in DOMAIN peeked : peeked[n].t = "UpdateAccepted"]

ApplyNext(r) ==
  IF r.err # "none" THEN r
  ELSE Strict(TakeNext(r.u, r.cur),
              LAMBDA t : Applied(r, t, SkipUpTo(t.events, r.processed)))

(* new_history_from_server *)
NewHistory(r, u) == ApplyNext([r EXCEPT !.u = u, !.replaying = u.prev > 0])

(* WorkflowManager::get_next_activation *)
NextActivation(r) == IF r.jobs THEN r ELSE ApplyNext(r)

(* apply_next_task_if_ready *)
Settled(r) == r.err # "none" \/ r.consumed = 0 \/ ~r.replaying \/ r.jobs

ApplyIfReady(r) ==
  LET again(q0, e) == Strict(q0, LAMBDA q : IF Settled(q) THEN q ELSE ApplyNext(q))
  IN IF r.jobs \/ r.err # "none" THEN r
     ELSE FoldLeft(again, ApplyNext(r), r.u.events)

Ended(r) == IF r.err # "none" THEN "failed"
            ELSE IF r.jobs \/ r.replaying THEN "activation" ELSE "complete"
-----------------------------------------------------------------------------
WholeEnds(h, prev, started) ==
  LET u == FromEvents(h, prev, started, TRUE).update
  IN FoldLeft(LAMBDA r, e : Strict(r, ApplyNext), NewHistory(NewRun(0), u), h).ends

Init ==
  /\ hist = <<>> /\ source = <<>> /\ whole = <<>> /\ empties = 0
  /\ pag = [queue |-> <<>>, token |-> Done, final |-> <<>>, prev |-> 0, started |-> 0,
            last |-> 0]
  /\ run = NewRun(0)
  /\ mode = "idle"

(* HistoryPaginator::new.  A poll answers with the whole history or, on the    *)
(* run's sticky queue, with the events after the last completed task.  The     *)
(* first page comes with the task.                                             *)
Poll ==
  /\ mode = "idle"
  /\ \E segs \in SegmentSeqs(MaxSegs), sticky, cached \in BOOLEAN, n \in 1..MaxPage :
       LET h == GrownBy(Beginning, segs)
           done == PreviousStarted(h)
           upto == n + (IF sticky THEN done ELSE 0)
       IN /\ upto <= Len(h)
          /\ hist' = h /\ source' = h /\ whole' = WholeEnds(h, done, Len(h))
          /\ run' = NewRun(IF cached THEN done ELSE 0)
          /\ \E token \in Tokens(upto, h) :
               pag' = [pag EXCEPT !.queue = SubSeq(h, upto - n + 1, upto), !.token = token,
                                  !.prev = done, !.started = Len(h)]
  /\ mode' = "poll"
  /\ UNCHANGED empties

(* The client of a replay worker answers a poll with a whole recorded history  *)
(* (into_core_worker); new_from_history is unwrapped                           *)
PollReplay ==
  /\ mode = "idle"
  /\ \E segs \in SegmentSeqs(MaxSegs) : \E h \in Records(segs) :
       \E info \in {NewFromHistory(h)} : LET resp == AsPollResponse(info, Done) IN
         /\ hist' = h /\ source' = h /\ whole' = WholeEnds(h, resp.prev, resp.started)
         /\ run' = [NewRun(0) EXCEPT !.err = IF info.ok THEN @ ELSE "invalid"]
         /\ pag' = [pag EXCEPT !.queue = resp.events, !.token = resp.token, !.prev = resp.prev,
                            !.started = resp.started]
  /\ mode' = "poll"
  /\ UNCHANGED empties

Extracting == mode \in {"poll", "miss", "page"}

(* is_incremental, and no run in the cache: the task goes back for its history *)
Incremental(u) == u.events = <<>> \/ u.events[1].id > 1

CacheMiss(u) == run.cur = 0 /\ Incremental(u)

(* extract_next_update returned (from_poll, from_fetchreq, NextPage); for the  *)
(* stream's part see StartWork and FetchedPage.                                *)
AfterRound(x) ==
  /\ pag' = x.pg
  /\ CASE x.what = "again"  -> UNCHANGED <<mode, run>>
       [] x.what = "error"  -> mode' = "empty fetch" /\ UNCHANGED run
       [] x.what = "update" ->
            IF mode = "page"
              THEN \* fetched_page_completion: the waiting completion goes on
                   /\ run' = ApplyIfReady(NewHistory(run, x.u))
                   /\ mode' = Ended(run')
              ELSE /\ run' = [run EXCEPT !.u = x.u]
                   /\ mode' = "work"

(* One round of extract_next_update with the page it fetches, if any *)
Extract ==
  /\ Extracting
  /\ IF pag.token = Done
       THEN \E x \in {Round(AppendFinal(pag))} : AfterRound(x)
       ELSE LET p == pag.token
            IN \/ \E n \in 1..MaxPage :
                    /\ p + n <= Len(source)
                    /\ \E token \in Tokens(p + n, source) :
                         \E x \in {Round(GotPage(pag, SubSeq(source, p + 1, p + n), token))} :
                           AfterRound(x)
               \/ /\ p = Len(source)
                  /\ \E x \in {Round(GotPage(pag, <<>>, Done))} : AfterRound(x)
  /\ UNCHANGED <<hist, source, empties, whole>>

(* A page without events but with a token: get_next_page asks again. *)
EmptyPage ==
  /\ Extracting /\ pag.token \notin {Done, FetchFromStart} /\ empties < MaxEmpty
  /\ empties' = empties + 1
  /\ UNCHANGED <<hist, source, pag, run, mode, whole>>

(* The call fails: the task is failed, or its run evicted (FailedFetch). *)
FetchFails ==
  /\ Extracting /\ pag.token # Done
  /\ mode' = "fetch failed"
  /\ UNCHANGED <<hist, source, pag, run, empties, whole>>

(* The stream takes the task: a cache miss sends it back, by now perhaps with  *)
(* more history on the server; otherwise the run's machines get the update.    *)
Refetch ==
  /\ mode = "work" /\ CacheMiss(run.u)
  /\ \E moved \in SegmentSeqs(MaxMoved) :
       \/ moved = <<>> /\ source' = Stored(hist)
       \/ Outlives(moved) /\ source' = Stored(GrownBy(hist, moved))
  /\ pag' = [pag EXCEPT !.queue = <<>>, !.token = FetchFromStart, !.final = run.u.events]
  /\ mode' = "miss"
  /\ UNCHANGED <<hist, run, empties, whole>>

StartWork ==
  /\ mode = "work" /\ ~CacheMiss(run.u)
  /\ run' = NextActivation(NewHistory(run, run.u))
  /\ mode' = IF run'.err # "none" THEN "failed" ELSE "activation"
  /\ UNCHANGED <<hist, source, pag, empties, whole>>

(* successful_completion: apply the next task, or fetch a page first *)
Complete ==
  /\ mode = "activation"
  /\ IF CanTakeNext(run.u, run.cur)
       THEN /\ run' = ApplyIfReady([run EXCEPT !.jobs = FALSE])
            /\ mode' = Ended(run')
       ELSE /\ run' = [run EXCEPT !.jobs = FALSE]
            /\ mode' = "page"
  /\ UNCHANGED <<hist, source, pag, empties, whole>>

Next == Poll \/ PollReplay \/ Extract \/ EmptyPage \/ FetchFails \/ Refetch \/ StartWork \/ Complete

Spec == Init /\ [][Next]_vars

(* The tasks that fetch and the stream's loop keep running. *)
FairSpec == Spec /\ WF_vars(Extract) /\ WF_vars(Refetch) /\ WF_vars(StartWork) /\ WF_vars(Complete)
-----------------------------------------------------------------------------
Stale == mode # "poll" /\ source # hist /\ Len(source) > pag.started

(* However the server cuts the history into pages, and whether or not the run  *)
(* was cached, the machines are given the WFT sequences that the whole history *)
(* has, and all of them by the time the task is completed: a page that ends    *)
(* where the look-ahead of find_end_index_of_next_wft_seq would have needed    *)
(* the next event never moves the end of a sequence, which would hand lang     *)
(* other activations on replay than it was given at first.  As long as the     *)
(* server still has the task at the end of the history, it is neither given up *)
(* for want of events (EMPTY_FETCH_ERR) nor failed by the machines (history    *)
(* out of order, fetch needed, incomplete update): also if its                 *)
(* WorkflowTaskStarted is the end of a page that is followed by an empty one,  *)
(* or is only in the events that came with the task.  Nor is a recorded        *)
(* history rejected or given up by a replay worker, wherever the record ends.  *)
SequencesAsWhole ==
  ~Stale => /\ run.err = "none" /\ mode # "empty fetch"
            /\ \A n \in DOMAIN run.ends : \E k \in DOMAIN whole : run.ends[n] = whole[k]
            /\ mode = "complete" => run.processed >= pag.started

(* extract_next_update and the replay it feeds come to an end. *)
TaskEnds == (mode = "poll") ~> (mode \in {"complete", "failed", "fetch failed", "empty fetch"})

=============================================================================
