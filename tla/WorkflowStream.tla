--------------------------- MODULE WorkflowStream ---------------------------
(***************************************************************************)
(* The workflow processing stream and what it talks to:                    *)
(*   - WFStream and RunCache (workflow_stream.rs, run_cache.rs): the cache  *)
(*     of runs, the tasks that wait for a slot in it, history fetches, the  *)
(*     handlers of every stream input, shutdown;                           *)
(*   - Workflows::activation_completed (mod.rs): one call per activation,   *)
(*     from lang's answer to the report and the PostActivation message;    *)
(*   - the server, lang and the local activity manager, as far as they      *)
(*     decide which inputs the stream can see next.                        *)
(*                                                                         *)
(* A stream input is handled in one step: nothing in WFStream awaits.      *)
(* Handlers are operators on the stream state (Current) that give the set  *)
(* of states they may end in; Commit makes the one chosen the next state.  *)
(***************************************************************************)
EXTENDS ManagedRun, SequencesExt

CONSTANTS Caps,          \* the values max_cached_workflows may have
          Size,          \* the size of the LRU cache they all give
          IgnoreEvicts,  \* ignore_evicts_on_shutdown
          MaxTasks,      \* bound: workflow tasks the server hands out per run
          MaxQueries,    \* bound: legacy query tasks it hands out per run
          MaxCalls       \* bound: activations in flight

\* Env, of ManagedRun, is a subset of
\*   pages      histories come in several pages, as far as the paginator lets them
\*   queries    workflow tasks may carry queries
\*   timeout    the server times out workflow tasks
\*   nondet     replay may find the workflow nondeterministic
\*   failwf     should_fail_workflow: nondeterminism errors fail the workflow
\*   cmds       lang may answer with commands of which only the presence matters
\*   langfail   lang may fail an activation
\*   drop       lang may drop a completion call before it returns
\*   evict      lang may ask for evictions
\*   fetch      history fetches may fail
\*   report     reporting a task may fail
\*   retry      attempts of local activities may fail and be made again later
\*   stale      a local activity may end after the run that asked for it was evicted
\*   shutdown   the worker shuts down

\* RunCache::new: "The cache needs room for at least one run"
ASSUME CapsAssumption == Caps \subseteq Nat /\ \A c \in Caps : Size = IF c > 0 THEN c ELSE 1

VARIABLES cap,       \* max_cached_workflows, chosen once
          runs,      \* RunCache: run id -> ManagedRun, or None
          lru,       \* RunCache: cached run ids, least recently used first
          polls,     \* buffered_polls_need_cache_slot: groups of tasks, one per run
          fetching,  \* tasks and pages in the WFTExtractor, delivered in any order
          localQ,    \* local inputs not handled yet, in order
          beats,     \* runs with a heartbeat timeout message not handled yet
          timers,    \* runs evicted while their heartbeat timer was running
          acts,      \* the channel of activations that lang polls from
          calls,     \* activations polled and their completion calls
          lam,       \* local activities the LA manager is executing
          srv,       \* the server's view of each run
          shut,      \* "no", "requested" (token cancelled), "dead" (the poller too),
                     \* "done" (stream ended) or "panicked"
          bugs       \* labels of the dbg_panic! and panic! sites reached

stream == <<cap, runs, lru, polls, fetching, timers, acts, lam, shut, bugs>>
vars == <<stream, localQ, beats, calls, srv>>

CallId == 1 .. MaxCalls

-----------------------------------------------------------------------------
(* The run cache and the tasks waiting for a slot in it.                   *)

HasRun(S, r) == S.runs[r] # None

IsOverfull(S) == Len(S.lru) > Size

IsFull(S) == Len(S.lru) = Size

\* get and get_mut make the run the most recently used one
Promote(q, r) ==
    IF \E i \in 1 .. Len(q) : q[i] = r THEN Append(SelectSeq(q, LAMBDA x : x # r), r) ELSE q

Touch(S, r) == [S EXCEPT !.lru = Promote(@, r)]

Emit(S, r, a) ==
    IF a = "none" THEN S ELSE [S EXCEPT !.out = Append(@, [run |-> r, kind |-> a])]

\* The run r became res.r and res.a is to be sent out.
Put(S, r, res) == Emit([S EXCEPT !.runs[r] = res.r], r, res.a)

\* buffer_resp_on_full_cache
BufferPoll(q, t) ==
    LET same == {i \in 1 .. Len(q) : q[i][1].run = t.run}
    IN  IF same = {} THEN Append(q, <<t>>)
        ELSE [q EXCEPT ![Min(same)] = Append(@, t)]

\* instantiate_or_update
InstantiateOrUpdate(S, t) ==
    LET r == t.run
        Given(s, run) == {Put(s, r, res) : res \in IncomingWft(run, t)}
    IN  CASE HasRun(S, r) /\ MustBuffer(S.runs[r]) ->
                {Touch([S EXCEPT !.runs[r].buf = Buffer(@, t)], r)}
          [] ~HasRun(S, r) /\ IsFull(S) -> {[S EXCEPT !.polls = BufferPoll(@, t)]}
          [] ~HasRun(S, r) /\ ~IsFull(S) /\ t.incr ->
                {[S EXCEPT !.fetch = @ \cup {[k |-> "full", task |-> t]}]}
          [] OTHER -> IF HasRun(S, r) THEN Given(Touch(S, r), S.runs[r])
                      ELSE Given([S EXCEPT !.lru = Append(@, r)], NewRun)

\* WFStream::request_eviction
EvictRun(S, r, reason, tok) ==
    IF HasRun(S, r) THEN Touch(Put(S, r, RequestEviction(S.runs[r], reason, tok)), r) ELSE S

\* The evictions that are missing for the tasks that need a slot
EvictionsNeededOnceQueued(S) == IF Len(S.polls) > 1 THEN 1 ELSE 0

EvictionsNeeded(S) ==
    Len(S.polls) - Cardinality({i \in 1 .. Len(S.lru) : S.runs[S.lru[i]].evict # None})

\* reconcile_buffered
ReconcileBuffered(S) ==
    LET needed   == EvictionsNeeded(S)
        eligible == SelectSeq(S.lru, LAMBDA r : ~HasTasks(S.runs[r].buf))
        chosen   == IF needed <= 0 THEN <<>>
                    ELSE SubSeq(eligible, 1, IF needed < Len(eligible) THEN needed ELSE Len(eligible))
    IN  FoldLeft(LAMBDA s, r : EvictRun(s, r, "CacheFull", None), S, chosen)

\* The reference counter of histories only counts fetches, not polls.
ShutdownWhenEmpty(S, sh) ==
    sh \in {"requested", "dead"} /\ S.lru = <<>> /\ S.fetch = {}

ShutdownDone(S, sh) ==
    /\ sh \in {"requested", "dead"}
    /\ \A f \in S.fetch : f.k = "poll"
    /\ \A r \in Run : HasRun(S, r) => ~HasAnyPendingWork(S.runs[r], IgnoreEvicts, FALSE)

-----------------------------------------------------------------------------
(* The inputs.                                                             *)

\* A cache of size zero evicts after every completion.
EvictIfZeroSize(S) == IF cap = 0 THEN EvictRun(S, Head(S.lru), "CacheFull", None) ELSE S

\* process_completion of what lang answers in message msg
ProcessCompletionMsg(S, msg) ==
    LET r == S.runs[msg.run]
        After == IF msg.ok
                 THEN {LET T == Put(S, msg.run, res)
                       IN  IF res.fetch = None THEN T
                           ELSE [T EXCEPT !.fetch = @ \cup
                                   {[k |-> "page", run |-> msg.run, left |-> res.fetch,
                                     whole |-> r.m.last - r.m.started]}] :
                          res \in SuccessfulCompletion(r, msg.call, msg.cmds, msg.query)}
                 ELSE {Put(S, msg.run,
                           FailedCompletion(r, IF msg.auto THEN "Unspecified" ELSE "LangFail",
                                            msg.nondet, msg.auto, msg.call))}
    IN  IF ~HasRun(S, msg.run) THEN {[S EXCEPT !.bug = @ \cup {"missing_run"}]}
        ELSE {EvictIfZeroSize(T) : T \in After}

\* process_completion of a fetched page
FetchedPage(S, f, n, more) ==
    LET After == {Put(S, f.run, res) :
                     res \in FetchedPageCompletion(S.runs[f.run], n, f.left - n, more)}
    IN  IF ~HasRun(S, f.run) THEN {[S EXCEPT !.bug = @ \cup {"missing_run"}]}
        ELSE {EvictIfZeroSize(T) : T \in After}

\* complete_wft: does this report end the outstanding task of run r?
CompletesWftAtEnd(S, r, status) ==
    HasRun(S, r) /\ S.runs[r].m.seen /\ S.runs[r].wft # None /\ S.runs[r].pend = "none"

CompletesWft(S, r, status) ==
    /\ HasRun(S, r)
    /\ S.runs[r].m.seen \/ status # "notreported"
    /\ S.runs[r].wft # None
    /\ S.runs[r].pend = "none"

\* RunCache::remove; dropping the handle of a timer does not stop it
RemoveRun(S, r) ==
    [S EXCEPT !.runs[r] = None,
              !.lru = SelectSeq(@, LAMBDA x : x # r),
              !.timers = IF S.runs[r].hb THEN @ \cup {r} ELSE @]

\* The activations of further tasks of one run are dropped.
InstantiateRest(S, ts) ==
    LET One(s, t) == {[u EXCEPT !.out = s.out,
                                !.bug = IF u.out = s.out THEN @ ELSE @ \cup {"extra_activation"}] :
                         u \in InstantiateOrUpdate(s, t)}
    IN  FoldLeft(LAMBDA acc, t : UNION {One(s, t) : s \in acc}, {S}, ts)

\* The end of process_post_activation, when no task gave an activation
CheckMoreAfterPost(S, r, status) ==
    LET c == CheckMore(S.runs[r])
        Ending(res) == IF res.a = "none" /\ res.r.m.fin /\ status = "reported"
                       THEN RequestEviction(res.r, "Ending", None)
                       ELSE res
    IN  {Put(S, r, Ending(res)) : res \in Update(c.r, c.a)}

\* The slot of an evicted run goes to the queue if there is no other use for it.
TakesWaitingAnyway(own, next, evicted) == evicted

TakesWaiting(own, next, evicted) == own = None /\ next = None /\ evicted

\* Does finishing activation act remove the run?
RemovesRun(act) == act = "evict"

ProcessPostActivation(S, msg) ==
    LET r     == msg.run
        ends  == CompletesWft(S, r, msg.status)
        T     == IF ends THEN [S EXCEPT !.runs[r].wft = None] ELSE S
        act   == T.runs[r].act
        del   == act # "none" /\ (~msg.auto \/ act = "auto")
        evict == del /\ RemovesRun(act)
        U     == CASE evict -> RemoveRun(T, r)
                   [] del /\ ~evict -> [T EXCEPT !.runs[r].act = "none"]
                   [] OTHER -> T
        own   == IF evict THEN NextTask(T.runs[r].buf) ELSE None
        next  == IF ends THEN msg.next ELSE None
        other == TakesWaiting(own, next, evict) /\ U.polls # <<>>
        ready == CASE own # None -> <<own>>
                   [] own = None /\ next # None -> <<next>>
                   [] other -> Head(U.polls)
                   [] OTHER -> <<>>
        V     == IF other THEN [U EXCEPT !.polls = Tail(@)] ELSE U
        Given == IF ready = <<>> THEN {V}
                 ELSE UNION {InstantiateRest(s, Front(ready)) : s \in InstantiateOrUpdate(V, Last(ready))}
    IN  IF ~HasRun(S, r) THEN {S}
        ELSE UNION {IF s.out = <<>> /\ HasRun(s, r) THEN CheckMoreAfterPost(s, r, msg.status)
                    ELSE {s} : s \in Given}

\* The handlers of local inputs other than fetched pages
HandleLocal(S, msg) ==
    CASE msg.k = "complete" -> ProcessCompletionMsg(S, msg)
      [] msg.k = "post" -> ProcessPostActivation(S, msg)
      [] msg.k = "evict" -> {EvictRun(S, msg.run, msg.reason, None)}
      [] msg.k = "lares" -> IF ~HasRun(S, msg.run) THEN {S}
                            ELSE {Put(S, msg.run, res) : res \in LocalResolution(S.runs[msg.run], msg.la)}

ProcessHeartbeatTimeout(S, r) ==
    IF ~HasRun(S, r) THEN {S} ELSE {Put(S, r, res) : res \in HeartbeatTimeout(S.runs[r])}

-----------------------------------------------------------------------------
(* From one input to the next.                                             *)

Current == [runs |-> runs, lru |-> lru, polls |-> polls, fetch |-> fetching,
            timers |-> timers, out |-> <<>>, bug |-> {}]

\* Sites where the code panics in every build; dbg_panic! only logs in release
\* builds, and the stream carries on.
PanicLabels == {"double_activation", "empty_wft_with_la", "incomplete_wft"}

Cached(S) == {r \in Run : HasRun(S, r)}

Quiet(r) == IF r = None THEN None ELSE [r EXCEPT !.rep = {}, !.req = {}, !.bug = {}]

\* The local activities that the LA manager cancelled while it waited to retry them
CancelledAtOnce(S) ==
    {<<r, x>> \in Cached(S) \X LA :
        /\ runs[r] # None
        /\ runs[r].m.la[x] = "backoff"
        /\ S.runs[r].m.la[x] \notin {"sent", "backoff"}}

\* The completion calls that got their outcome go on to report it.
Replied(S) ==
    LET replies == UNION {S.runs[r].rep : r \in Cached(S)}
    IN  [c \in CallId |->
           IF \E p \in replies : p.call = c
           THEN [calls[c] EXCEPT !.stage = "report", !.oc = (CHOOSE p \in replies : p.call = c).oc]
           ELSE calls[c]]

\* What follows every input: reconcile_buffered, then either the end of the
\* stream or the output of the activations and fetch requests.
Commit(After, sh) ==
    \E S \in {ReconcileBuffered(T) : T \in After} :
    \E labels \in {S.bug \cup UNION {S.runs[r].bug : r \in Cached(S)}} :
        /\ runs' = [r \in Run |-> Quiet(S.runs[r])]
        /\ cap' = cap
        /\ lru' = S.lru
        /\ polls' = S.polls
        /\ timers' = S.timers
        /\ lam' = (lam \ CancelledAtOnce(S)) \cup UNION {{r} \X S.runs[r].req : r \in Cached(S)}
        /\ bugs' = bugs \cup labels
        /\ fetching' = S.fetch
        /\ shut' = CASE labels \cap PanicLabels # {} -> "panicked"
                     [] labels \cap PanicLabels = {} /\ ShutdownDone(S, sh) -> "done"
                     [] OTHER -> sh
        /\ acts' = IF shut' \in {"panicked", "done"} THEN acts ELSE acts \o S.out
        /\ calls' = Replied(S)

Running == shut \in {"no", "requested", "dead"}

\* Local inputs have priority over the pollers' and the extractor's.
ExternalTurn == Running /\ localQ = <<>> /\ beats = {}

HandleLocalInput ==
    /\ Running
    /\ localQ # <<>>
    /\ Commit(HandleLocal(Touch(Current, Head(localQ).run), Head(localQ)), shut)
    /\ localQ' = Tail(localQ)
    /\ UNCHANGED <<beats, srv>>

HandleHeartbeat(r) ==
    /\ Running
    /\ r \in beats
    /\ Commit(ProcessHeartbeatTimeout(Touch(Current, r), r), shut)
    /\ beats' = beats \ {r}
    /\ UNCHANGED <<localQ, srv>>

\* GetStateInfo: shutdown keeps sending it to drive the stream.
Bump ==
    /\ shut \in {"requested", "dead"}
    /\ localQ = <<>>
    /\ Commit({Current}, shut)
    /\ UNCHANGED <<localQ, beats, srv>>

RequestShutdown ==
    /\ "shutdown" \in Env
    /\ shut = "no"
    /\ shut' = "requested"
    /\ UNCHANGED <<cap, runs, lru, polls, fetching, localQ, beats, timers, acts, calls, lam, srv, bugs>>

\* The end of the poll stream cancels the shutdown token, if nobody has yet.
PollerDead ==
    /\ "shutdown" \in Env
    /\ shut \in {"no", "requested"}
    /\ ExternalTurn
    /\ Commit({Current}, "dead")
    /\ UNCHANGED <<localQ, beats, srv>>

-----------------------------------------------------------------------------
(* The server, and the extractor its answers go through.  For each run:    *)
(*   tok, q     tasks and legacy queries handed out so far                  *)
(*   cur, att   the started workflow task, and its attempt                  *)
(*   done       completed workflow tasks                                    *)
(*   owed       something happened that calls for a workflow task           *)
(*   sticky     tasks come with the events since the last one only          *)
(*   issued     the WFT whose completion had the command of an LA, 0 if none *)
(*   hist       see ManagedRun                                              *)
(*   answered   tokens of the tasks the worker has reported on              *)

NewSrv == [tok |-> 0, q |-> 0, cur |-> None, att |-> 1, done |-> 0, owed |-> TRUE,
           sticky |-> FALSE, closed |-> FALSE, issued |-> [x \in LA |-> 0],
           hist |-> NewHist, answered |-> {}]

\* A history has one sequence per completed WFT and one for what follows: the
\* started WFT, or the events since the last one.  The paginator reads pages until
\* it has all of it or two complete sequences past WFT prev, so it can only leave
\* pages for later when the history has grown since the task was polled.  The last
\* page may turn out to be empty.
Histories(prev, last, total) ==
    {h \in [seqs : 1 .. total, more : BOOLEAN] :
        IF h.more THEN "pages" \in Env /\ h.seqs \in prev + 2 .. last ELSE h.seqs = total}

\* The history of run r as the server has it now, given to task t
WithHistory(t) ==
    LET v    == srv[t.run]
        last == IF v.cur = None THEN v.done ELSE v.done + 1
    IN  {[t EXCEPT !.incr = FALSE, !.seqs = h.seqs, !.more = h.more, !.left = v.done + 1 - h.seqs,
                   !.last = last, !.closed = v.closed, !.hist = v.hist] :
            h \in Histories(t.prev, last, v.done + 1)}

\* A task with this query as the server hands it out for run r
TaskFor(v, r, query) ==
    [run |-> r, tok |-> v.tok, query |-> query, attempt |-> v.att, incr |-> TRUE,
     prev |-> v.done, last |-> IF v.cur = None THEN v.done ELSE v.done + 1,
     seqs |-> 1, more |-> FALSE, left |-> 0, closed |-> v.closed, hist |-> v.hist]

Full(t) == [t EXCEPT !.incr = FALSE, !.seqs = t.prev + 1]

WftDue(v) == v.owed /\ ~v.closed /\ v.cur = None /\ v.tok - v.q < MaxTasks

Start(v) == [v EXCEPT !.tok = @ + 1, !.cur = v.tok + 1, !.owed = FALSE]

PollWft(r) ==
    /\ shut \in {"no", "requested"}
    /\ WftDue(srv[r])
    /\ srv' = [srv EXCEPT ![r] = Start(@)]
    /\ \E query \in {"none"} \cup IF "queries" \in Env THEN {"normal"} ELSE {},
          sticky \in IF "timeout" \in Env THEN {FALSE, srv[r].sticky} ELSE {srv[r].sticky} :
          LET t == TaskFor(srv'[r], r, query)
          IN  fetching' = fetching \cup {[k |-> "poll", task |-> IF sticky THEN t ELSE Full(t)]}
    /\ UNCHANGED <<cap, runs, lru, polls, localQ, beats, timers, acts, calls, lam, shut, bugs>>

\* The server sends a query as a task of its own only to a run without a
\* pending workflow task.
PollQuery(r) ==
    /\ shut \in {"no", "requested"}
    /\ srv[r].done > 0
    /\ srv[r].cur = None
    /\ srv[r].owed => srv[r].closed
    /\ srv[r].q < MaxQueries
    /\ srv' = [srv EXCEPT ![r].tok = @ + 1, ![r].q = @ + 1]
    /\ LET t == TaskFor(srv'[r], r, "legacy")
       IN  fetching' = fetching \cup {[k |-> "poll", task |-> IF srv[r].sticky THEN t ELSE Full(t)]}
    /\ UNCHANGED <<cap, runs, lru, polls, localQ, beats, timers, acts, calls, lam, shut, bugs>>

Signal(r) ==
    /\ ~srv[r].owed
    /\ ~srv[r].closed
    /\ srv[r].tok - srv[r].q < MaxTasks
    /\ srv' = [srv EXCEPT ![r].owed = TRUE]
    /\ UNCHANGED <<stream, localQ, beats, calls>>

Retry(v) == [v EXCEPT !.cur = None, !.owed = TRUE, !.att = 2, !.sticky = FALSE]

TimeOut(r) ==
    /\ "timeout" \in Env
    /\ srv[r].cur # None
    /\ srv' = [srv EXCEPT ![r] = Retry(@)]
    /\ UNCHANGED <<stream, localQ, beats, calls>>

\* A task, a fetched history or a page leaves the extractor.
Extracted(f) ==
    /\ ExternalTurn
    /\ f \in fetching
    /\ LET T == [Current EXCEPT !.fetch = @ \ {f}]
           pages == {p \in [n : 0 .. f.left, more : BOOLEAN] :
                        IF p.more THEN p.n >= 2 /\ p.n <= f.whole ELSE p.n = f.left}
       IN  Commit(IF f.k = "page"
                  THEN UNION {FetchedPage(Touch(T, f.run), f, p.n, p.more) : p \in pages}
                  ELSE UNION {InstantiateOrUpdate(T, t) :
                                 t \in IF f.k = "poll" THEN {f.task} ELSE WithHistory(f.task)},
                  shut)
    /\ UNCHANGED <<localQ, beats, srv>>

FailedFetch(f) ==
    /\ "fetch" \in Env
    /\ ExternalTurn
    /\ f \in fetching
    /\ LET T == [Current EXCEPT !.fetch = @ \ {f}]
       IN  Commit({EvictRun(T, IF f.k = "page" THEN f.run ELSE f.task.run, "Pagination",
                            IF f.k = "poll" THEN f.task ELSE None)},
                  shut)
    /\ UNCHANGED <<localQ, beats, srv>>

-----------------------------------------------------------------------------
(* Activations and their completion calls (next_workflow_activation and     *)
(* activation_completed in mod.rs), and lang.  A call goes through the stages *)
(*   lang    lang works on the activation                                  *)
(*   sent    the completion was sent to the stream                         *)
(*   report  the stream replied with the outcome oc                        *)
(*   post    the outcome was reported, the server returned the task next   *)
(*   gone    lang has dropped the call: nothing will finish its activation  *)

IsAuto(call) == call.kind \in {"auto", "autofail", "autofailnd"}

\* After the stream has ended messages go nowhere.
Send(msgs) == localQ' = IF Running THEN localQ \o msgs ELSE localQ

\* Call c sends answer a.  Only an empty completion may go nowhere.  When the call
\* is dropped matters only to the reply, so here it is dropped at once or never.
SendCompletion(c, call, a, drop) ==
    /\ Send(<<a @@ [k |-> "complete", run |-> call.run, call |-> IF drop THEN None ELSE c,
                    auto |-> IsAuto(call), nondet |-> call.kind = "autofailnd"]>>)
    /\ calls' = [calls EXCEPT ![c] = CASE ~Running -> None
                                      [] Running /\ drop -> [call EXCEPT !.stage = "gone"]
                                      [] OTHER -> [call EXCEPT !.stage = "sent"]]
    /\ bugs' = IF shut = "done" /\ (~a.ok \/ a.cmds # "none" \/ a.query # "none")
               THEN bugs \cup {"completion_after_shutdown"} ELSE bugs

Answer(ok, cmds, query) == [ok |-> ok, cmds |-> cmds, query |-> query]

\* next_workflow_activation.  Polls are not concurrent, and an automatic
\* completion happens within the poll: it ends before anything else is polled.
PollActivation(c) ==
    /\ acts # <<>>
    /\ c = Min({d \in CallId : calls[d] = None})
    /\ \A d \in CallId : calls[d] # None => ~IsAuto(calls[d])
    /\ LET call == Head(acts) @@ [stage |-> "lang", oc |-> None, next |-> None]
       IN  IF IsAuto(call)
           THEN SendCompletion(c, call, Answer(call.kind = "auto", "none", "none"), FALSE)
           ELSE /\ calls' = [calls EXCEPT ![c] = call]
                /\ UNCHANGED <<localQ, bugs>>
    /\ acts' = Tail(acts)
    /\ UNCHANGED <<cap, runs, lru, polls, fetching, beats, timers, lam, srv, shut>>

\* The commands lang may answer jobs with.  Lang ends a workflow once, and on
\* replay repeats what it did before, except that commands whose events the machines
\* apply at once are left out.
Commands(m, v) ==
    LET new  == {x \in LA : m.la[x] = "new"}
        then == {x \in new : v.issued[x] = m.started}
    IN  CASE m.fin -> {"none"}
          [] ~m.fin /\ m.started > v.done -> 
                {"none", "term"} \cup (IF new = {} THEN {} ELSE {"la"})
                                \cup (IF "cmds" \in Env THEN {"cmd"} ELSE {})
          [] ~m.fin /\ m.started <= v.done ->
                {CASE then # {} -> "la"
                   [] then = {} /\ v.closed /\ m.started = v.done -> "term"
                   [] OTHER -> "none"}

\* What lang may answer an activation
Answers(call) ==
    LET fails == IF "langfail" \in Env THEN {Answer(FALSE, "none", "none")} ELSE {}
    IN  CASE call.kind = "jobs" ->
                {Answer(TRUE, x, "none") : x \in IF runs[call.run] = None THEN {"none"}
                                                 ELSE Commands(runs[call.run].m, srv[call.run])}
                \cup fails
          [] call.kind = "query" -> {Answer(TRUE, "none", "normal")} \cup fails
          [] call.kind = "legacy" -> {Answer(TRUE, "none", "legacy")} \cup fails
          [] call.kind = "evict" -> {Answer(TRUE, "none", "none")}

Complete(c) ==
    /\ calls[c] # None
    /\ calls[c].stage = "lang"
    /\ \E a \in Answers(calls[c]), drop \in {FALSE, "drop" \in Env} : SendCompletion(c, calls[c], a, drop)
    /\ UNCHANGED <<cap, runs, lru, polls, fetching, beats, timers, acts, lam, srv, shut>>

\* The answers of the server to a report of outcome oc, as the server's next
\* state, the reason to evict the run (or None) and whether it was accepted.
ServerAnswers(v, oc) ==
    LET Ans(w, evict) == [v |-> [w EXCEPT !.answered = @ \cup {oc.task.tok}], evict |-> evict]
        found == v.cur = oc.task.tok
        accepted == [v EXCEPT !.cur = None, !.done = @ + 1, !.closed = oc.term, !.att = 1,
                              !.owed = @ \/ oc.force, !.sticky = cap > 0,
                              !.issued = [x \in LA |-> IF @[x] = 0 /\ oc.la[x] # "new" THEN v.done + 1 ELSE @[x]],
                              !.hist.done = @ + 1,
                              !.hist.jobs = IF oc.jobs THEN @ \cup {v.done + 1} ELSE @,
                              !.hist.marks = [x \in LA |-> IF @[x] = 0 /\ oc.la[x] = "done" THEN v.done + 1 ELSE @[x]]]
    IN  CASE oc.k = "complete" ->
                LET w == CASE ~found -> Ans(v, "TaskNotFound")
                           [] found /\ oc.term /\ v.owed ->
                                 Ans([v EXCEPT !.cur = None, !.att = 1], "UnhandledCommand")
                           [] OTHER -> Ans(accepted, None)
                IN  {w} \cup IF "report" \in Env THEN {Ans(v, "Fatal"), [w EXCEPT !.evict = "Fatal"]}
                             ELSE {}
          [] oc.k = "fail" ->
                {IF found THEN Ans(Retry(v), None) ELSE Ans(v, "TaskNotFound")}
                \cup IF "report" \in Env THEN {Ans(v, "Fatal")} ELSE {}
          [] oc.k \in {"legacy", "legacyfail"} -> {Ans(v, None)}

\* Reporting to the server, which may return the next task of a sticky run.
\* Fetching the history of that task may fail.
Report(c) ==
    /\ calls[c] # None
    /\ calls[c].stage = "report"
    /\ calls[c].oc.k \notin {"drop", "nothing"}
    /\ LET r == calls[c].run
           Evict(reason) == <<[k |-> "evict", run |-> r, reason |-> reason]>>
       IN  \E ans \in ServerAnswers(srv[r], calls[c].oc) :
             \/ /\ srv' = [srv EXCEPT ![r] = ans.v]
                /\ calls' = [calls EXCEPT ![c].stage = "post"]
                /\ Send(IF ans.evict = None THEN <<>> ELSE Evict(ans.evict))
             \/ /\ calls[c].oc.k = "complete"
                /\ ans.evict = None
                /\ cap > 0
                /\ WftDue(ans.v)
                /\ srv' = [srv EXCEPT ![r] = Start(ans.v)]
                /\ \E lost \in {FALSE, "fetch" \in Env} :
                      /\ calls' = [calls EXCEPT ![c].stage = "post",
                                      ![c].next = IF lost THEN None ELSE
                                                          TaskFor(Start(ans.v), r, "none")]
                      /\ Send(IF lost THEN Evict("Fatal") ELSE <<>>)
    /\ UNCHANGED <<stream, beats>>

\* post_activation: the end of the call
Post(c) ==
    /\ calls[c] # None
    /\ \/ calls[c].stage = "post"
       \/ calls[c].stage = "report" /\ calls[c].oc.k \in {"drop", "nothing"}
    /\ Send(<<[k |-> "post", run |-> calls[c].run, next |-> calls[c].next,
               auto |-> IsAuto(calls[c]),
               status |-> CASE calls[c].oc.k = "drop" -> "dropped"
                            [] calls[c].oc.k = "nothing" -> "notreported"
                            [] OTHER -> "reported"]>>)
    /\ calls' = [calls EXCEPT ![c] = None]
    /\ UNCHANGED <<stream, beats, srv>>

\* Worker::request_workflow_eviction
LangEvicts(r) ==
    /\ "evict" \in Env
    /\ runs[r] # None
    /\ runs[r].evict = None
    /\ \A i \in 1 .. Len(localQ) : localQ[i].k # "evict"  \* bound: one request at a time
    /\ Running
    /\ Send(<<[k |-> "evict", run |-> r, reason |-> "LangRequested"]>>)
    /\ UNCHANGED <<stream, beats, calls, srv>>

-----------------------------------------------------------------------------
(* Local activities and heartbeat timers.                                  *)

\* A local activity of a run that is gone or being evicted is cancelled with it,
\* unless it ends just before it hears of that ("stale").
CanEnd(r, x) ==
    /\ <<r, x>> \in lam
    /\ "stale" \notin Env =>
          runs[r] # None /\ runs[r].act # "evict" /\ runs[r].m.la[x] \in {"sent", "backoff", "resolved", "done"}

LaDone(r, x) ==
    /\ CanEnd(r, x)
    /\ lam' = lam \ {<<r, x>>}
    /\ Send(<<[k |-> "lares", run |-> r, la |-> x]>>)
    /\ runs' = IF runs[r] # None /\ runs[r].m.la[x] = "backoff"
               THEN [runs EXCEPT ![r].m.la[x] = "sent"] ELSE runs
    /\ UNCHANGED <<cap, lru, polls, fetching, beats, timers, acts, calls, srv, shut, bugs>>

\* An attempt of a local activity has failed and the LA manager waits before the
\* next one.  The run cannot tell the next attempt from this one: LaDone ends it.
LaBackoff(r, x) ==
    /\ "retry" \in Env
    /\ Running
    /\ <<r, x>> \in lam
    /\ runs[r] # None
    /\ runs[r].m.la[x] = "sent"
    /\ runs' = [runs EXCEPT ![r].m.la[x] = "backoff"]
    /\ UNCHANGED <<cap, lru, polls, fetching, localQ, beats, timers, acts, calls, lam, srv, shut, bugs>>

FireTimer(r) ==
    /\ Running
    /\ runs[r] # None
    /\ runs[r].hb
    /\ runs' = [runs EXCEPT ![r].hb = FALSE]
    /\ beats' = beats \cup {r}
    /\ UNCHANGED <<cap, lru, polls, fetching, localQ, timers, acts, calls, lam, srv, shut, bugs>>

FireOrphanTimer(r) ==
    /\ Running
    /\ r \in timers
    /\ timers' = timers \ {r}
    /\ beats' = beats \cup {r}
    /\ UNCHANGED <<cap, runs, lru, polls, fetching, localQ, acts, calls, lam, srv, shut, bugs>>

-----------------------------------------------------------------------------

Init ==
    /\ cap \in Caps
    /\ runs = [r \in Run |-> None]
    /\ lru = <<>>
    /\ polls = <<>>
    /\ fetching = {}
    /\ localQ = <<>>
    /\ beats = {}
    /\ timers = {}
    /\ acts = <<>>
    /\ calls = [c \in CallId |-> None]
    /\ lam = {}
    /\ srv = [r \in Run |-> NewSrv]
    /\ shut = "no"
    /\ bugs = {}

Next ==
    \/ HandleLocalInput
    \/ \E r \in Run : HandleHeartbeat(r)
    \/ Bump
    \/ RequestShutdown
    \/ PollerDead
    \/ \E r \in Run : PollWft(r)
    \/ \E r \in Run : PollQuery(r)
    \/ \E r \in Run : Signal(r)
    \/ \E r \in Run : TimeOut(r)
    \/ \E f \in fetching : Extracted(f)
    \/ \E f \in fetching : FailedFetch(f)
    \/ \E c \in CallId : PollActivation(c)
    \/ \E c \in CallId : Complete(c)
    \/ \E c \in CallId : Report(c)
    \/ \E c \in CallId : Post(c)
    \/ \E r \in Run : LangEvicts(r)
    \/ \E r \in Run, x \in LA : LaDone(r, x)
    \/ \E r \in Run, x \in LA : LaBackoff(r, x)
    \/ \E r \in Run : FireTimer(r)
    \/ \E r \in Run : FireOrphanTimer(r)

Spec == Init /\ [][Next]_vars

=============================================================================
