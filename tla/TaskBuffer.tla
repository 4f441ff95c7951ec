----------------------------- MODULE TaskBuffer -----------------------------
(***************************************************************************)
(* The buffer of one run by itself, for any sequence of arriving tasks: the *)
(* two calls instantiate_or_update and get_next_wft make on it, with the    *)
(* tasks numbered as they arrive so that their order can be talked about.   *)
(***************************************************************************)
EXTENDS BufferedTasks

CONSTANT MaxTasks   \* bound: tasks that arrive

ASSUME MaxTasksAssumption == MaxTasks \in Nat
ASSUME NoneAssumption == None \notin [tok : Nat, query : {"none", "normal"}, after : Nat]

VARIABLES buf,      \* the buffer
          arrived,  \* number of tasks that have arrived
          newest,   \* the last workflow task that arrived, 0 for the one the run began with
          taken,    \* the task taken last
          current   \* the workflow task taken last

vars == <<buf, arrived, newest, taken, current>>

Wft == [tok : 1 .. MaxTasks, query : {"none", "normal"}, after : 0 .. MaxTasks]
Query == [tok : 1 .. MaxTasks, query : {"legacy"}, after : 0 .. MaxTasks]

Init ==
    /\ buf = EmptyBuffer
    /\ arrived = 0
    /\ newest = 0
    /\ taken = 0
    /\ current = 0

\* A task comes for a run that is busy.
Arrive(query) ==
    /\ arrived < MaxTasks
    /\ arrived' = arrived + 1
    /\ LET t == [tok |-> arrived + 1, query |-> query, after |-> newest]
       IN  /\ buf' = Buffer(buf, t)
           /\ newest' = IF IsQueryOnly(t) THEN newest ELSE t.tok
    /\ UNCHANGED <<taken, current>>

\* The run is done with its task and takes the next one.
Take ==
    /\ HasTasks(buf)
    /\ buf' = AfterNext(buf)
    /\ taken' = NextTask(buf).tok
    /\ current' = IF IsQueryOnly(NextTask(buf)) THEN current ELSE NextTask(buf).tok
    /\ UNCHANGED <<arrived, newest>>

Next == Take \/ \E query \in {"none", "normal", "legacy"} : Arrive(query)

Spec == Init /\ [][Next]_vars

-----------------------------------------------------------------------------

TypeOK ==
    /\ buf \in [wft : Wft \cup {None}, queries : Seq(Query), forBuffered : Seq(Query)]
    /\ arrived \in 0 .. MaxTasks
    /\ newest \in 0 .. arrived
    /\ taken \in 0 .. arrived
    /\ current \in 0 .. arrived

\* "They move to query_only_tasks once the buffered task is taken": has_tasks does
\* not look at query_only_tasks_for_buffered, so nothing may be in there without
\* the task it belongs to, or it would never be handled.
NothingStranded == buf.forBuffered # <<>> => buf.wft # None

\* "any new one will immediately supersede any old one": the newest workflow task
\* is the current one or the next one, so no newer task is lost to an older one.
NewestIsNext == IF buf.wft = None THEN newest = current ELSE newest = buf.wft.tok

\* "they must all be handled before applying the next real wft": tasks are taken
\* in the order they arrived in, each once, though they sit in three places.
TakenInOrder == [][Take => taken < taken']_vars

\* A query is handled with the workflow at the very task it was made after: neither
\* before that task is applied nor once a later one is.
QueriesSeeTheirTask ==
    [][Take /\ IsQueryOnly(NextTask(buf)) => NextTask(buf).after = current]_vars

-----------------------------------------------------------------------------
(* What makes these properties inductive: the three places hold the tasks   *)
(* that arrived since the one taken last, in the order of their arrival.    *)

Increasing(q) == \A i, j \in 1 .. Len(q) : i < j => q[i].tok < q[j].tok

\* q holds queries made after task w that arrived after task lo and up to task hi.
QueriesAfter(q, w, lo, hi) ==
    /\ Increasing(q)
    /\ \A i \in 1 .. Len(q) : q[i].after = w /\ lo < q[i].tok /\ q[i].tok <= hi

BufferOrdered ==
    /\ QueriesAfter(buf.queries, current, taken, arrived)
    /\ buf.wft # None =>
          /\ taken < buf.wft.tok /\ buf.wft.tok <= arrived
          /\ \A i \in 1 .. Len(buf.queries) : buf.queries[i].tok < buf.wft.tok
          /\ QueriesAfter(buf.forBuffered, buf.wft.tok, buf.wft.tok, arrived)

IInv == TypeOK /\ NothingStranded /\ NewestIsNext /\ BufferOrdered

=============================================================================
