---------------------------- MODULE BufferedTasks ----------------------------
(***************************************************************************)
(* BufferedTasks of core/src/worker/workflow/mod.rs: the tasks a busy run   *)
(* keeps for later.  b.wft is the one workflow task, b.queries the          *)
(* query-only tasks to handle before it and b.forBuffered those after it.   *)
(***************************************************************************)
EXTENDS Naturals, Sequences

CONSTANT None   \* the absent value of an Option

\* t.query is the kind of queries task t carries: none, normal or legacy.  A legacy
\* query is the only content of its task and such a task starts no WFT, so
\* "query-only" and "carries a legacy query" coincide.
IsQueryOnly(t) == t.query = "legacy"

EmptyBuffer == [wft |-> None, queries |-> <<>>, forBuffered |-> <<>>]

Buffer(b, t) ==
    CASE IsQueryOnly(t) /\ b.wft = None -> [b EXCEPT !.queries = Append(@, t)]
      [] IsQueryOnly(t) /\ b.wft # None -> [b EXCEPT !.forBuffered = Append(@, t)]
      [] ~IsQueryOnly(t) -> [b EXCEPT !.wft = t,
                                      !.forBuffered = IF b.wft # None THEN <<>> ELSE @]

HasTasks(b) == b.wft # None \/ b.queries # <<>>

\* The task get_next_wft returns, and the buffer it leaves.
NextTaskWftFirst(b) == IF b.wft # None THEN b.wft ELSE Head(b.queries)

NextTask(b) == IF b.queries # <<>> THEN Head(b.queries) ELSE b.wft

AfterNextKeepsQueries(b) ==
    IF b.queries # <<>> THEN [b EXCEPT !.queries = Tail(@)] ELSE [b EXCEPT !.wft = None]

AfterNext(b) ==
    CASE b.queries # <<>> -> [b EXCEPT !.queries = Tail(@)]
      [] b.queries = <<>> /\ b.wft # None ->
            [wft |-> None, queries |-> b.forBuffered, forBuffered |-> <<>>]
      [] OTHER -> b

=============================================================================
