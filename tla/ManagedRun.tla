----------------------------- MODULE ManagedRun -----------------------------
(***************************************************************************)
(* One cached workflow run: core/src/worker/workflow/managed_run.rs, with  *)
(* the part of the workflow machines (machines/workflow_machines.rs) and   *)
(* of BufferedTasks (mod.rs) that its control flow depends on.             *)
(*                                                                         *)
(* The module has no variables.  A run is a record and every handler is an *)
(* operator from a run to the set of [r, a] it may end in: r is the run    *)
(* after the handler and a the activation it hands to the caller ("none"   *)
(* if there is none).  What a handler sends elsewhere accumulates in three *)
(* fields of the run that WorkflowStream empties after every input:        *)
(*   rep   replies to completion calls, as [call, oc] pairs                *)
(*   req   local activities requested from the LA manager                  *)
(*   bug   labels of the dbg_panic! and panic! sites that were reached     *)
(***************************************************************************)
EXTENDS BufferedTasks, FiniteSets

CONSTANTS Run,      \* run ids
          LA,       \* sequence numbers of local activities, 1..n
          Env       \* what the environment may do beyond the plain case, see WorkflowStream

-----------------------------------------------------------------------------
(* The workflow machines.  History is counted in WFT sequences: todo is the *)
(* number of complete sequences in the current HistoryUpdate that are not   *)
(* applied yet, more says that the update does not have the last WFT.       *)
(* prev and last count WFTs: the previous completed one as the task states  *)
(* it, and the last one whose started event is in history.  hist is what    *)
(* matters of the history: the number of WFTs done in it; for each local    *)
(* activity the WFT whose completion recorded its marker, 0 for none (marks); *)
(* and the WFTs that gave lang jobs.  out says that the machines hold       *)
(* outgoing commands or messages: they keep them, sent or not, until the    *)
(* events of those commands are applied.  A local activity is one of        *)
(*   new       not asked for yet                                           *)
(*   sent      given to the LA manager                                     *)
(*   backoff   the same, and the manager waits for its next attempt         *)
(*   resolved  the machine has made the marker command, which is to go out  *)
(*             with the commands of lang's next completion                  *)
(*   marker    replayed, waiting for the marker in history                  *)
(*   pre       replayed, resolved by a marker further on in history         *)
(*   done      its marker command is out, or its marker applied             *)

NewHist == [done |-> 0, marks |-> [x \in LA |-> 0], jobs |-> {}]

NewMachines ==
    [jobs |-> {}, la |-> [x \in LA |-> "new"], replaying |-> FALSE, todo |-> 0,
     more |-> FALSE, prev |-> 0, last |-> 0, started |-> 0, closed |-> FALSE,
     hist |-> NewHist, live |-> FALSE, fin |-> FALSE, seen |-> FALSE, out |-> FALSE]

Done(m)     == [m |-> m, err |-> "none", consumed |-> FALSE]
Fail(m, e)  == [m |-> m, err |-> e, consumed |-> FALSE]

\* outstanding_la_count: terminating workflows do not wait for their LAs.
Outstanding(m) == IF m.fin THEN {} ELSE {x \in LA : m.la[x] \in {"sent", "backoff"}}

\* The LAs waiting for a marker that the next sequence resolves: the markers are
\* in that sequence, or in the one after it if the update has that one too.
MarkersSeen(m) ==
    LET upTo == IF m.todo > 1 THEN m.started + 1 ELSE m.started
    IN  {x \in LA : m.la[x] = "marker" /\ m.hist.marks[x] \in 1 .. upTo}

\* Applies one sequence; whether it yields jobs is up to the history.
ApplySequence(m) ==
    LET final  == m.todo = 1 /\ ~m.more
        tail   == m.started >= m.last
        replay == m.replaying /\ ~(final /\ m.last > m.prev)
        live   == ~tail /\ m.started >= m.hist.done
        res    == MarkersSeen(m)
        After(j) ==
            [m EXCEPT !.todo = @ - 1,
                      !.started = IF tail THEN @ ELSE @ + 1,
                      !.replaying = replay,
                      !.live = live /\ j # {},
                      !.seen = final /\ tail /\ m.closed,
                      !.out = FALSE,
                      !.jobs = @ \cup j \cup IF res = {} THEN {} ELSE {"la"},
                      !.la = [x \in LA |->
                                CASE x \in res \/ @[x] = "pre" ->
                                        IF m.hist.marks[x] <= m.started THEN "done" ELSE "pre"
                                  [] x \notin res /\ @[x] = "marker" /\ ~replay -> "sent"
                                  [] OTHER -> @[x]]]
    IN  {[m |-> After(j), err |-> "none", consumed |-> TRUE] :
            j \in CASE m.started = 0 \/ (~live /\ ~tail /\ m.started + 1 \in m.hist.jobs) -> {{"wf"}}
                   [] m.started > 0 /\ (live \/ (tail /\ ~m.closed)) -> {{}, {"wf"}}
                   [] OTHER -> {{}}}
        \cup IF "nondet" \in Env /\ m.started > 0
           THEN {Fail([m EXCEPT !.todo = @ - 1], "Nondeterminism")} ELSE {}

\* apply_next_wft_from_history
ApplyNext(m) ==
    CASE m.seen -> {Done([m EXCEPT !.replaying = FALSE])}
      [] ~m.seen /\ m.todo > 0 -> ApplySequence(m)
      [] ~m.seen /\ m.todo = 0 /\ m.more -> {Fail(m, "Fatal")}
      [] ~m.seen /\ m.todo = 0 /\ ~m.more -> {Done([m EXCEPT !.replaying = FALSE])}

\* k sequences without jobs applied while replaying, none of them the live WFT
\* and none with a marker.
Skip(m, k) ==
    [m EXCEPT !.todo = @ - k,
              !.started = IF @ + k > m.last THEN m.last ELSE @ + k,
              !.seen = k = m.todo /\ k > 0 /\ ~m.more /\ m.closed,
              !.out = @ /\ k = 0,
              !.la = [x \in LA |-> IF @[x] = "pre" /\ m.hist.marks[x] < m.started + k
                                  THEN "done" ELSE @[x]]]

\* apply_next_task_if_ready: sequences are applied until one gives jobs or ends
\* replay, or there are none left.
ApplyNextTaskIfReady(m) ==
    LET steps == 0 .. CASE ~m.replaying \/ m.seen -> 0
                        [] m.replaying /\ ~m.seen /\ ~m.more /\ m.last > m.prev /\ m.todo > 0 -> m.todo - 1
                        [] OTHER -> m.todo
        quiet == {k \in steps : \A i \in 0 .. k - 1 :
                                    /\ MarkersSeen(Skip(m, i)) = {}
                                    /\ Skip(m, i).started + 1 \notin m.hist.jobs}
        Stops(res) == \/ res.err # "none"
                      \/ ~res.consumed
                      \/ ~res.m.replaying
                      \/ res.m.jobs # {}
    IN  IF m.jobs # {} THEN {Done(m)}
        ELSE {res \in UNION {ApplyNext(Skip(m, k)) : k \in quiet} : Stops(res)}

\* new_history_from_server on the u.todo sequences of an update that lie beyond
\* what the machines have applied.
NewHistory(m, u) ==
    ApplyNext([m EXCEPT !.todo = u.todo, !.more = u.more, !.prev = u.prev,
                        !.last = u.last, !.closed = u.closed, !.hist = u.hist,
                        !.replaying = u.prev > 0])

\* The update of a task, as the machines m see it.  A cached run skips the
\* sequences it has already applied; a query on a cached run brings no events.
UpdateOf(m, t) ==
    [more |-> t.more, prev |-> t.prev, closed |-> t.closed, hist |-> t.hist,
     last |-> t.last,
     todo |-> CASE t.incr -> IF IsQueryOnly(t) THEN 0 ELSE 1
                [] ~t.incr /\ t.seqs > m.started -> t.seqs - m.started
                [] ~t.incr /\ t.seqs <= m.started -> IF t.more THEN 0 ELSE 1]

\* WorkflowManager::new_work_from_server: the update is applied and, if it gave
\* no jobs, the next sequence too.  A full-history update all of whose events a
\* cached run has already applied stops take_next_wft_sequence with a panic.
NewWork(m, t) ==
    LET u == UpdateOf(m, t)
    IN  IF u.todo = 0 /\ u.more THEN {Fail(m, "panic")}
        ELSE UNION {IF res.err = "none" /\ res.m.jobs = {} THEN ApplyNext(res.m) ELSE {res} :
                       res \in NewHistory(m, u)}

\* The commands the machines have made since the last completion, if any, join the
\* outgoing ones (prepare_commands).
PrepareCommands(m) ==
    LET made == {x \in LA : m.la[x] = "resolved"}
    IN  [m EXCEPT !.out = @ \/ made # {},
                  !.la = [x \in LA |-> IF x \in made THEN "done" ELSE @[x]]]

\* push_commands_and_iterate with the commands of one lang completion: none, one
\* of no further interest (cmd), one local activity, or one that ends the workflow.
Push(m0, cmds) ==
    LET m == PrepareCommands(m0)
        x == CHOOSE y \in LA : m.la[y] = "new" /\ \A z \in LA : m.la[z] = "new" => y <= z
    IN  CASE cmds = "none" -> m
          [] cmds = "cmd" -> [m EXCEPT !.out = TRUE]
          [] cmds = "term" -> [m EXCEPT !.fin = TRUE, !.out = TRUE]
          [] cmds = "la" ->
                CASE ~m.replaying -> [m EXCEPT !.la[x] = "sent"]
                  [] m.replaying /\ m.todo > 0 /\ m.hist.marks[x] \in 1 .. m.started ->
                        [m EXCEPT !.la[x] = "pre", !.jobs = @ \cup {"la"}]
                  [] OTHER -> [m EXCEPT !.la[x] = "marker"]

\* WorkflowMachines::local_resolution
Resolve(m, x) ==
    CASE m.la[x] = "new" -> Fail(m, "Nondeterminism")
      [] m.la[x] \in {"marker", "pre"} -> Fail(m, "Fatal")
      [] m.la[x] \in {"resolved", "done"} -> Done(m)
      [] m.la[x] \in {"sent", "backoff"} ->
            Done([m EXCEPT !.la[x] = "resolved", !.jobs = @ \cup {"la"}])

\* CancelAllInRun: a local activity that waits for its next attempt is cancelled
\* there and then, and its resolution applied; the others hear of it from lang.
CancelAllInRun(m) ==
    LET now == {x \in LA : m.la[x] = "backoff"}
    IN  [m EXCEPT !.la = [x \in LA |-> IF x \in now THEN "resolved" ELSE @[x]],
                  !.jobs = @ \cup IF now = {} THEN {} ELSE {"la"}]

ReadyToApply(m) == m.todo > 0 \/ ~m.more

-----------------------------------------------------------------------------
(* The run.                                                                *)
(*   wft, pend    the outstanding task and the kind of its pending queries  *)
(*   act          the outstanding activation                               *)
(*   evict, etok  why the run is to be evicted, and the task to fail then   *)
(*   wait, hb     waiting_on_la, and whether its heartbeat timer runs       *)
(*   page, pag    the completion waiting for a page, and the paginator: the *)
(*                number of WFT sequences it has yet to fetch               *)

NewRun ==
    [wft |-> None, pend |-> "none", act |-> "none", evict |-> None, etok |-> None,
     broken |-> FALSE, wait |-> None, hb |-> FALSE, page |-> None, pag |-> None,
     buf |-> EmptyBuffer, m |-> NewMachines, rep |-> {}, req |-> {}, bug |-> {}]

Res(r, a) == [r |-> r, a |-> a]

Bug(r, label) == [r EXCEPT !.bug = @ \cup {label}]

\* fulfill: the completion call gets its outcome, unless its caller has dropped it
\* (call is None).
Fulfill(r, call, oc) ==
    IF call = None THEN r ELSE [r EXCEPT !.rep = @ \cup {[call |-> call, oc |-> oc]}]

MorePendingWork(r) == r.wft # None /\ r.m.jobs # {}

HasPendingTasks(r, ignoreEvicts, ignoreBuffered) ==
    r.wft # None \/ (~ignoreBuffered /\ HasTasks(r.buf))

HasAnyPendingWork(r, ignoreEvicts, ignoreBuffered) ==
    \/ r.wft # None
    \/ ~ignoreBuffered /\ HasTasks(r.buf)
    \/ MorePendingWork(r)
    \/ r.act \notin (IF ignoreEvicts THEN {"none", "evict"} ELSE {"none"})
    \/ ~ignoreEvicts /\ r.evict # None

\* buffer_wft_if_outstanding_work buffers the task when this holds.
MustBufferIfEvicting(r) == r.evict # None \/ MorePendingWork(r)

MustBuffer(r) == r.act # "none" \/ r.evict # None \/ MorePendingWork(r)

PendingWorkIsLegacyQuery(r) == r.act = "legacy" \/ r.pend = "legacy"

\* Pending queries are dropped by evictions that follow a failure.
DropsQueriesOfLegacy(r, reason) == reason \notin {"CacheFull", "Ending"}

DropsQueries(r, reason) ==
    reason \notin {"CacheFull", "Ending"} /\ ~PendingWorkIsLegacyQuery(r)

\* insert_outstanding_activation.  The activation kinds are: jobs, query (normal
\* queries), legacy (one legacy query), evict, auto (Autocomplete), autofail and, if
\* the failure is a nondeterminism error, autofailnd.
RecordForLang(r, a) ==
    CASE a \in {"none", "auto", "autofail", "autofailnd"} -> r
      [] OTHER -> [r EXCEPT !.act = IF a \in {"jobs", "query"} THEN "normal" ELSE a]

Record(r, a) ==
    CASE a = "none" -> r
      [] a # "none" /\ r.act # "none" -> Bug(r, "double_activation")
      [] a # "none" /\ r.act = "none" ->
            [r EXCEPT !.act = CASE a \in {"jobs", "query"} -> "normal"
                                [] a \in {"auto", "autofail", "autofailnd"} -> "auto"
                                [] OTHER -> a]

QueriesReady(r) == ~r.broken /\ r.pend # "none"

\* _check_more_activations, with the queries put in the activation
CheckMore(r0) ==
    LET r == IF r0.act = "none" /\ r0.evict # None THEN [r0 EXCEPT !.m = CancelAllInRun(@)] ELSE r0
    IN  CASE r.act # "none" \/ r.wft = None -> Res(r, "none")
          [] r.act = "none" /\ r.wft # None /\ r.m.jobs # {} /\ ~r.broken ->
                Res([r EXCEPT !.m.jobs = {}], "jobs")
          [] r.act = "none" /\ r.wft # None /\ r.m.jobs = {} /\ QueriesReady(r) ->
                Res([r EXCEPT !.pend = "none"], IF r.pend = "legacy" THEN "legacy" ELSE "query")
          [] OTHER -> Res(r, IF r.evict # None THEN "evict" ELSE "none")

\* Nothing but the eviction is left to do.
EvictsNowIfIdle(r) == r.evict # None /\ r.act = "none" /\ r.wft = None /\ ~HasTasks(r.buf)

EvictsNow(r) == r.evict # None /\ r.act = "none" /\ ~MorePendingWork(r)

\* The activation update_to_acts settles on, given the one its caller has.
Settle(r, a) ==
    LET OrEvict(c) == IF c.a = "none" /\ EvictsNow(c.r) THEN Res(c.r, "evict") ELSE c
    IN  OrEvict(IF a = "none" /\ MorePendingWork(r) THEN CheckMore(r) ELSE Res(r, a))

\* update_to_acts(Ok(_)) when the run has a WFT or is to be evicted, so that
\* it takes no task out of its buffer.
SettleAndRecord(r, a) ==
    LET Recorded(c) == Res(Record(c.r, c.a), c.a)
    IN  Recorded(Settle(r, a))

\* request_eviction when no completion is waiting for a history page
RequestEvictionNow(r, reason, tok) ==
    LET r1 == [r EXCEPT !.evict = reason, !.etok = tok]
        r2 == [r1 EXCEPT !.pend = IF DropsQueries(r, reason) THEN "none" ELSE @]
        Updated(c) == SettleAndRecord(c.r, c.a)
    IN  IF r.act # "evict" /\ r.evict = None
        THEN Updated(CheckMore(r2))
        ELSE Res(r1, "none")

-----------------------------------------------------------------------------
(* Completions of activations.  A completion in progress keeps              *)
(*   [call, task, qresp, pendq, evict, forced, cmds]                        *)
(* with qresp: it has responses to normal queries; pendq: queries of the    *)
(* task were still pending; evict: it answers an eviction; forced: it is    *)
(* the core's own, to fail a workflow.                                     *)

RunActivationCompletion(r, call, cmds, query, forced) ==
    [call |-> call, task |-> r.wft, qresp |-> query = "normal", pendq |-> r.pend # "none",
     evict |-> r.act = "evict", forced |-> forced, cmds |-> cmds]

\* successful_completion: "Reply to an eviction included commands"
CheckedReply(r, cmds) ==
    IF r.act = "evict" /\ cmds # "none" THEN Bug(r, "eviction_reply_commands") ELSE r

\* Is it time to answer the workflow task?
RespondsWithJobs(r, c) ==
    ~((r.m.replaying /\ ~c.forced) \/ (c.pendq /\ ~c.qresp) \/ c.evict \/ r.m.seen)

ShouldRespond(r, c) ==
    ~(\/ r.m.jobs # {}
      \/ r.m.replaying /\ ~c.forced
      \/ c.pendq /\ ~c.qresp
      \/ c.evict
      \/ r.m.seen)

\* prepare_complete_resp, and the reply with the outcome it finds
PrepareCompleteResp(r, c, dueToHeartbeat) ==
    LET checked == IF c.evict /\ r.m.out /\ ~r.broken THEN Bug(r, "eviction_with_commands") ELSE r
    IN  Fulfill(checked, c.call,
                IF ShouldRespond(r, c) \/ c.qresp
                THEN [k |-> "complete", task |-> c.task, term |-> r.m.fin, la |-> r.m.la,
                      forced |-> c.forced, jobs |-> r.m.live,
                      force |-> dueToHeartbeat \/ (c.qresp /\ "la" \in r.m.jobs)]
                ELSE [k |-> "nothing"])

\* reply_to_complete.  A call that its caller has dropped makes the run be evicted;
\* the activation that this may give is dropped too.
ReplyToComplete(r, call, oc) ==
    IF call = None THEN RequestEvictionNow(r, "Fatal", None).r ELSE Fulfill(r, call, oc)

\* successful_completion with the core's own command to fail the workflow, for a run
\* that an error has broken and whose eviction was just requested
FailWorkflow(r0, call) ==
    LET r == CheckedReply(r0, "term")
        c == RunActivationCompletion(r, call, "term", "none", TRUE)
    IN  CASE ~ReadyToApply(r.m) ->
                Res(IF r.pag # None
                    THEN Bug([r EXCEPT !.page = c, !.pag = None], "page_for_failure")
                    ELSE ReplyToComplete([r EXCEPT !.evict = "Fatal"], call, [k |-> "fail", task |-> r.wft]),
                    "none")
          [] ReadyToApply(r.m) /\ c.evict -> SettleAndRecord(PrepareCompleteResp(r, c, FALSE), "none")
          [] ReadyToApply(r.m) /\ ~c.evict ->
                SettleAndRecord(PrepareCompleteResp([r EXCEPT !.m = CancelAllInRun(Push(@, "term"))], c, FALSE),
                                "none")

\* failed_completion, for the reason given.  A nondeterminism error may fail the
\* workflow instead (should_fail_workflow); the eviction activation that
\* request_eviction may have given is dropped then.
FailedCompletion(r, reason, nondet, auto, call) ==
    LET unreported == /\ PendingWorkIsLegacyQuery(r)
                      /\ auto
                      /\ reason \in {"Unspecified", "Pagination"}
        e == IF unreported THEN Res(r, "none") ELSE RequestEvictionNow(r, reason, None)
        Replied(oc) == Res(ReplyToComplete(e.r, call, oc), e.a)
    IN  CASE r.wft = None ->
                Res(ReplyToComplete(Bug(r, "fail_without_wft"), call, [k |-> "nothing"]), "none")
          [] r.wft # None /\ unreported -> Replied([k |-> "drop"])
          [] r.wft # None /\ ~unreported /\ PendingWorkIsLegacyQuery(e.r) ->
                Replied([k |-> "legacyfail", task |-> r.wft])
          [] r.wft # None /\ ~unreported /\ ~PendingWorkIsLegacyQuery(e.r) ->
                CASE r.wft.attempt > 1 -> Replied([k |-> "drop"])
                  [] r.wft.attempt <= 1 /\ nondet /\ "failwf" \in Env -> FailWorkflow(e.r, call)
                  [] OTHER -> Replied([k |-> "fail", task |-> r.wft])

\* The completion waiting for a page is taken, with its response channel.
KeepPage(r) == r

TakePage(r) == [r EXCEPT !.page = None]

\* Does the eviction end a completion that waits for a page?
EndsPageWait(r, reason) == r.page # None /\ reason = "Pagination"

\* request_eviction
RequestEviction(r, reason, tok) ==
    IF EndsPageWait(r, reason)
    THEN FailedCompletion(TakePage(r), reason, FALSE, TRUE, r.page.call)
    ELSE RequestEvictionNow(r, reason, tok)

\* update_to_acts(Err(_)).  The AutoFail of an error nobody waits for is not
\* recorded as an outstanding activation; a completion call that waits is answered.
AutoFail(r, err) ==
    Res([r EXCEPT !.broken = TRUE], IF err = "Nondeterminism" THEN "autofailnd" ELSE "autofail")

UpdateErr(r, err, call) ==
    FailedCompletion([r EXCEPT !.broken = TRUE], err, err = "Nondeterminism", TRUE, call)

\* A new task without jobs for a run that waits for local activities
HeartbeatOff(r) == r

RestartHeartbeat(r) == [r EXCEPT !.hb = TRUE]

\* incoming_wft.  get_next_activation leaves no jobs in the machines.
IncomingWft(r0, t) ==
    LET r1 == [r0 EXCEPT !.wft = t, !.pend = t.query, !.pag = t.left]
        r  == IF r0.wft # None THEN Bug(r1, "second_wft") ELSE r1
        After(res) ==
            LET s     == [r EXCEPT !.m = [res.m EXCEPT !.jobs = {}]]
                waits == res.m.jobs = {} /\ Outstanding(res.m) # {}
            IN  CASE res.err = "panic" -> Res(Bug(r, "incomplete_wft"), "none")
                  [] res.err \notin {"none", "panic"} -> AutoFail([r EXCEPT !.m = res.m], res.err)
                  [] res.err = "none" /\ waits /\ (s.wait = None \/ s.wait.dat # None) ->
                        Res(Bug(s, "empty_wft_with_la"), "none")
                  [] OTHER ->
                        SettleAndRecord(IF waits THEN RestartHeartbeat(s) ELSE s,
                                        CASE res.m.jobs # {} -> "jobs" [] waits -> "none" [] OTHER -> "auto")
    IN  IF IsQueryOnly(t) /\ t.prev < r.m.started
        THEN {SettleAndRecord(r, "autofail")}
        ELSE {After(res) : res \in NewWork(r.m, t)}

\* update_to_acts(Ok(_)): a run left without work takes its next buffered task.
Update(r, a) ==
    LET Settled(c) ==
            IF c.a \notin {"none", "auto"} \/ HasAnyPendingWork(c.r, FALSE, TRUE)
            THEN {Res(Record(c.r, c.a), c.a)}
            ELSE IF HasTasks(c.r.buf)
                 THEN IncomingWft([c.r EXCEPT !.buf = AfterNext(@)], NextTask(c.r.buf))
                 ELSE {Res(c.r, "none")}
    IN  Settled(Settle(r, a))

-----------------------------------------------------------------------------
(* Completions of activations, continued.                                  *)

\* _process_completion, with the update of a just fetched page in upd (or None)
ProcessCompletion(r, c, upd) ==
    LET pushed  == Push(r.m, c.cmds)
        Fed     == IF upd = None THEN {Done(pushed)} ELSE NewHistory(pushed, upd)
        Applied == UNION {IF res.err # "none" \/ r.broken THEN {res}
                          ELSE ApplyNextTaskIfReady(res.m) : res \in Fed}
        After(res) ==
            LET new == {x \in LA : res.m.la[x] = "sent" /\ r.m.la[x] # "sent"}
                s == IF res.m.fin THEN [r EXCEPT !.m = CancelAllInRun(res.m)]
                     ELSE [r EXCEPT !.m = res.m, !.req = @ \cup new]
            IN  IF res.err # "none" THEN {UpdateErr([r EXCEPT !.m = res.m], res.err, c.call)}
                ELSE Update(IF Outstanding(res.m) = {}
                            THEN PrepareCompleteResp(s, c, FALSE)
                            ELSE [s EXCEPT !.wait = [dat |-> c], !.hb = TRUE],
                            "none")
    IN  IF c.evict THEN Update(PrepareCompleteResp(r, c, FALSE), "none")
        ELSE UNION {After(res) : res \in Applied}

\* successful_completion.  Besides [r, a], fetch is the paginator handed to a
\* history fetch, or None.
SuccessfulCompletion(r, call, cmds, query) ==
    LET c == RunActivationCompletion(r, call, cmds, query, FALSE)
        s == CheckedReply(r, cmds)
        NoFetch(res) == [r |-> res.r, a |-> res.a, fetch |-> None]
        noWft == IF r.evict # None /\ r.etok # None
                 THEN ReplyToComplete([r EXCEPT !.etok = None], call, [k |-> "fail", task |-> r.etok])
                 ELSE ReplyToComplete(r, call, [k |-> "nothing"])
    IN  CASE r.wft = None ->
                {NoFetch(Res(IF r.act # "evict" THEN Bug(noWft, "complete_without_wft") ELSE noWft,
                             "none"))}
          [] r.wft # None /\ query = "legacy" ->
                {NoFetch(Res(ReplyToComplete(r, call, [k |-> "legacy", task |-> r.wft]), "none"))}
          [] r.wft # None /\ query # "legacy" /\ ReadyToApply(r.m) ->
                {NoFetch(res) : res \in ProcessCompletion(s, c, None)}
          [] r.wft # None /\ query # "legacy" /\ ~ReadyToApply(r.m) ->
                IF r.pag # None
                THEN {[r |-> [s EXCEPT !.page = c, !.pag = None], a |-> "none", fetch |-> r.pag]}
                ELSE {NoFetch(UpdateErr(s, "Fatal", call))}

\* fetched_page_completion with n more sequences, left to go after them
FetchedPageCompletion(r0, n, left, more) ==
    LET r   == [r0 EXCEPT !.pag = left]
        upd == [todo |-> n, more |-> more, prev |-> r.m.prev, last |-> r.m.last,
                closed |-> r.m.closed, hist |-> r.m.hist]
    IN  IF r.page = None THEN {AutoFail(Bug(r, "page_without_completion"), "Fatal")}
        ELSE ProcessCompletion(TakePage(r), r.page, upd)

-----------------------------------------------------------------------------
(* Local activities and the WFT heartbeat.                                 *)

\* The wait is over; the completion that waited, if any, is answered.
DropWait(r) == [r EXCEPT !.wait = None, !.hb = FALSE]

EndWait(r) ==
    LET w == [r EXCEPT !.wait = None, !.hb = FALSE]
    IN  IF r.wait.dat = None THEN w
        ELSE PrepareCompleteResp(w, r.wait.dat, FALSE)

\* local_resolution: the last LA to resolve ends the wait of the completion.
LocalResolution(r, x) ==
    LET res == Resolve(r.m, x)
        s   == [r EXCEPT !.m = res.m]
    IN  IF res.err # "none" THEN {AutoFail(s, res.err)}
        ELSE Update(IF Outstanding(res.m) = {} /\ r.wait # None THEN EndWait(s) ELSE s, "none")

\* The completion waiting for local activities is taken, with its response channel.
TakeCompletion(r) == [r EXCEPT !.wait.dat = None]

\* heartbeat_timeout
HeartbeatTimeout(r) ==
    LET s    == [r EXCEPT !.hb = FALSE]
        auto == r.wait # None /\ r.wait.dat = None
    IN  Update(CASE r.wait = None -> r
                 [] auto -> s
                 [] OTHER -> PrepareCompleteResp(TakeCompletion(s), r.wait.dat, TRUE),
               IF auto THEN "auto" ELSE "none")

=============================================================================
