-------------------------- MODULE StreamProperties --------------------------
(***************************************************************************)
(* What the workflow stream promises its users and relies on internally.   *)
(***************************************************************************)
EXTENDS WorkflowStream

-----------------------------------------------------------------------------
(* Safety.                                                                 *)

Positions(seq, Test(_)) == {i \in 1 .. Len(seq) : Test(seq[i])}

\* Who is at work on run r: the channel to lang, a completion call, or its
\* PostActivation message.
Parties(r) ==
    ({"act"} \X Positions(acts, LAMBDA a : a.run = r))
    \cup ({"call"} \X {c \in CallId : calls[c] # None /\ calls[c].run = r})
    \cup ({"post"} \X Positions(localQ, LAMBDA msg : msg.k = "post" /\ msg.run = r))

\* Is p at work on something the core completes by itself, and if so, is that an
\* Autocomplete?  Not every AutoFail is recorded as an activation (update_to_acts).
Automatic(p) ==
    CASE p[1] = "act" -> IsAuto(acts[p[2]])
      [] p[1] = "call" -> IsAuto(calls[p[2]])
      [] p[1] = "post" -> localQ[p[2]].auto

Autocompletes(p) ==
    \/ p[1] = "act" /\ acts[p[2]].kind = "auto"
    \/ p[1] = "call" /\ calls[p[2]].kind = "auto"

\* The stream runs, and no run has lost its eviction activation, which happens when
\* a nondeterminism error outside a completion is to fail the workflow: FailWorkflow
\* replies to an eviction that lang has not been given.
Intact == Running /\ "eviction_reply_commands" \notin bugs

\* "There can only be one outstanding activation for a particular run of a
\* workflow at any time" (core-api/src/lib.rs): a run that records an activation of
\* lang has exactly one party that will finish it, one that records an Autocomplete
\* has someone who will, and a run that records none has nobody at work on one, so
\* that it neither gets stuck nor is completed twice.
ActivationOwned ==
    Intact => \A r \in Run :
        LET act == IF runs[r] = None THEN "none" ELSE runs[r].act
        IN  /\ Cardinality({p \in Parties(r) : ~Automatic(p)}) = IF act \in {"none", "auto"} THEN 0 ELSE 1
            /\ act = "none" => \A p \in Parties(r) : ~Autocompletes(p)
            /\ act = "auto" => Parties(r) # {}

\* Where the response channel of call c is.
ReplyHolders(c) ==
    ({"msg"} \X Positions(localQ, LAMBDA msg : msg.k = "complete" /\ msg.call = c))
    \cup ({"page"} \X {r \in Run : runs[r] # None /\ runs[r].page # None /\ runs[r].page.call = c})
    \cup ({"wait"} \X {r \in Run : /\ runs[r] # None
                                  /\ runs[r].wait # None
                                  /\ runs[r].wait.dat # None
                                  /\ runs[r].wait.dat.call = c})

\* activation_completed awaits an answer on a response channel: while it does,
\* exactly one place in the stream holds the sending half, be it a completion
\* waiting for a history page or for local activities.
ReplyHeldOnce ==
    Running => \A c \in CallId :
        Cardinality(ReplyHolders(c)) =
            IF calls[c] = None THEN 0 ELSE IF calls[c].stage = "sent" THEN 1 ELSE 0

Reports(c) == calls[c] # None /\ calls[c].oc # None /\ calls[c].oc.k \notin {"drop", "nothing"}

\* No workflow task is reported to the server twice, whichever of completion,
\* failure and eviction comes first.  Checked without legacy queries: the failed
\* replay of one is reported, and the query answered once more after that.
ReportedOnce ==
    \A c \in CallId : Reports(c) /\ calls[c].stage = "report" =>
        /\ calls[c].oc.task.tok \notin srv[calls[c].run].answered
        /\ \A d \in CallId \ {c} : Reports(d) =>
              <<calls[d].run, calls[d].oc.task.tok>> # <<calls[c].run, calls[c].oc.task.tok>>

\* "we might try to reply to the task as if it were a task rather than a query"
\* (request_eviction): a legacy query is answered by a query response and a
\* workflow task never is.  Checked without failing fetches: a legacy query whose
\* history cannot be fetched as it is polled is failed as a task (auto_reply_fail_tt).
QueriesAnsweredAsQueries ==
    \A c \in CallId : Reports(c) =>
        (calls[c].oc.task.query = "legacy") = (calls[c].oc.k \in {"legacy", "legacyfail"})

\* A run does not sit on a workflow task: if it has one and no activation out,
\* a heartbeat timer of the local activities it waits for will wake it.
NoIdleWft ==
    Intact => \A r \in Run :
        runs[r] # None => (runs[r].wft # None /\ Parties(r) = {} => runs[r].hb \/ r \in beats)

\* A workflow task is completed only when lang has been given all of its history,
\* over however many activations and history pages that took, unless the core itself
\* fails a nondeterministic workflow.
CompletesWhenCaughtUp ==
    \A c \in CallId : (Reports(c) /\ calls[c].oc.k = "complete" /\ calls[c].stage = "report"
                        /\ ~calls[c].oc.forced) =>
        /\ runs[calls[c].run].m.started = calls[c].oc.task.last
        /\ runs[calls[c].run].m.todo = 0
        /\ ~runs[calls[c].run].m.more
        /\ "wf" \notin runs[calls[c].run].m.jobs

\* Of the places where the code says "this is a bug", by a panic! or a dbg_panic!, only
\* three are reached, though lang may ask for evictions at any moment: an eviction
\* finds commands that were left in the machines ("There should not be any outgoing
\* commands", prepare_complete_resp); a heartbeat timer fires for a run whose eviction activation
\* is outstanding, which gives it a second one (see OneActivation); and the core, to
\* fail a nondeterministic workflow, replies to an eviction with commands.
OtherAssertionsHold ==
    bugs \subseteq {"eviction_with_commands"}
                   \cup (IF LA = {} THEN {} ELSE {"double_activation"})
                   \cup (IF "failwf" \in Env THEN {"eviction_reply_commands"} ELSE {})

\* "This is a panic because we have screwed up core logic if this is violated. It
\* must be upheld." (insert_outstanding_activation): a run that has an activation
\* outstanding is not given another.
OneActivation == "double_activation" \notin bugs

Evicting == {r \in Run : runs[r] # None /\ runs[r].evict # None}

\* Once the stream has ended nothing lang could do is missed: the only activations
\* still out are evictions, and only if the worker ignores those on shutdown.
EndsWithNothingOut ==
    shut = "done" =>
        /\ \A i \in 1 .. Len(acts) : IgnoreEvicts /\ acts[i].kind = "evict"
        /\ \A c \in CallId : calls[c] # None => IgnoreEvicts /\ calls[c].kind = "evict"

-----------------------------------------------------------------------------
(* Liveness.  The stream handles every input it gets, the extractor finishes *)
(* every fetch, lang polls and completes activations, calls to the server    *)
(* return, local activities end and timers fire.  Nothing is assumed of the   *)
(* server's handing out tasks or of requests for evictions and shutdown.      *)

Progress ==
    \/ HandleLocalInput
    \/ \E r \in Run : HandleHeartbeat(r)
    \/ Bump
    \/ shut = "requested" /\ PollerDead
    \/ \E f \in fetching : Extracted(f)
    \/ \E c \in CallId : PollActivation(c) \/ Complete(c) \/ Report(c) \/ Post(c)
    \/ \E r \in Run, x \in LA : LaDone(r, x)
    \/ \E r \in Run : FireTimer(r) \/ FireOrphanTimer(r)

\* ENABLED <<Progress>>_vars, spelled out for TLC.
Busy ==
    \/ /\ Running
       /\ \/ localQ # <<>> \/ beats # {} \/ fetching # {} \/ timers # {}
          \/ \E r \in Run : runs[r] # None /\ runs[r].hb
    \/ shut = "requested"
    \/ shut = "dead" /\ ShutdownDone(ReconcileBuffered(Current), shut)
    \/ /\ acts # <<>>
       /\ \E c \in CallId : calls[c] = None
       /\ \A c \in CallId : calls[c] # None => ~IsAuto(calls[c])
    \/ \E c \in CallId : calls[c] # None /\ calls[c].stage \notin {"sent", "gone"}
    \/ \E r \in Run, x \in LA : CanEnd(r, x)

\* Weak fairness of Progress as a whole
FairSpec == Spec /\ ([]<>(~Busy) \/ []<><<Progress>>_vars)

\* Every completion call returns, however its reply is delayed by local activities
\* or heartbeats, and every activation polled is completed.
CallsReturn == \A c \in CallId : calls[c] # None ~> calls[c] = None

\* A requested eviction happens: the run leaves the cache (it may come back at
\* once with a task it had buffered).
EvictionsComplete ==
    \A r \in Run : r \in Evicting ~> r \notin Evicting

\* Every workflow task handed out is answered: the server never has to time it out.
TasksAnswered ==
    \A r \in Run, n \in 1 .. MaxTasks + MaxQueries : srv[r].cur = n ~> srv[r].cur # n

\* Tasks that wait for a slot of the full cache get one.
PollsServed == polls # <<>> ~> polls = <<>>

\* "Continue driving... until everything is done": once requested, shutdown ends.
ShutdownEnds == shut = "requested" ~> shut = "done"

-----------------------------------------------------------------------------
(* The cache.                                                              *)

Cache == INSTANCE RunCache WITH
            cached <- {r \in Run : runs[r] # None},
            evicting <- Evicting,
            waiting <- [i \in 1 .. Len(polls) |-> polls[i][1].run]

\* Every step of the stream is a step of the cache as RunCache describes it, or
\* leaves cache and queue alone: in particular no handler drops or admits a run
\* behind the cache's back.
ImplementsRunCache == Cache!Spec

=============================================================================
