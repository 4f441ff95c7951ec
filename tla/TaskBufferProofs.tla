-------------------------- MODULE TaskBufferProofs --------------------------
(***************************************************************************)
(* The order in which a busy run takes the tasks it has buffered, for any   *)
(* number of tasks.                                                        *)
(***************************************************************************)
EXTENDS TaskBuffer, TLAPS

\* The newest arrival goes to the end of a list of queries.
LEMMA QueryAppended ==
    ASSUME NEW q \in Seq(Query), NEW t \in Query, NEW lo \in Nat, NEW hi \in Nat,
           QueriesAfter(q, t.after, lo, hi), t.tok = hi + 1, lo <= hi
    PROVE  /\ Append(q, t) \in Seq(Query)
           /\ QueriesAfter(Append(q, t), t.after, lo, hi + 1)
<1> DEFINE p == Append(q, t)
<1>1. /\ p \in Seq(Query)
      /\ Len(q) \in Nat
      /\ Len(p) = Len(q) + 1
      /\ \A i \in 1 .. Len(q) : p[i] = q[i] /\ q[i] \in Query
      /\ p[Len(q) + 1] = t
  OBVIOUS
<1>2. \A i \in 1 .. Len(q) : q[i].tok \in Nat
  BY <1>1 DEF Query
<1> HIDE DEF p
<1>3. Increasing(p)
  BY <1>1, <1>2 DEF Increasing, QueriesAfter
<1>4. \A i \in 1 .. Len(p) : p[i].after = t.after /\ lo < p[i].tok /\ p[i].tok <= hi + 1
  BY <1>1, <1>2 DEF QueriesAfter
<1>5. QueriesAfter(p, t.after, lo, hi + 1)
  BY <1>3, <1>4 DEF QueriesAfter
<1> QED
  BY <1>1, <1>5 DEF p

\* Taking the first query leaves those that arrived after it.
LEMMA QueryTaken ==
    ASSUME NEW q \in Seq(Query), q # <<>>, NEW w \in Nat, NEW lo \in Nat, NEW hi \in Nat,
           QueriesAfter(q, w, lo, hi)
    PROVE  /\ Head(q) \in Query
           /\ Head(q) = q[1]
           /\ 1 \in 1 .. Len(q)
           /\ Tail(q) \in Seq(Query)
           /\ QueriesAfter(Tail(q), w, Head(q).tok, hi)
           /\ \A i \in 1 .. Len(Tail(q)) : Tail(q)[i] = q[i + 1] /\ i + 1 \in 1 .. Len(q)
<1> DEFINE p == Tail(q)
<1>1. /\ p \in Seq(Query)
      /\ Len(q) \in Nat \ {0}
      /\ Len(p) = Len(q) - 1
      /\ \A i \in 1 .. Len(p) : p[i] = q[i + 1] /\ i + 1 \in 1 .. Len(q)
      /\ Head(q) = q[1]
      /\ \A i \in 1 .. Len(q) : q[i] \in Query
  OBVIOUS
<1>2. \A i \in 1 .. Len(q) : q[i].tok \in Nat
  BY <1>1 DEF Query
<1> HIDE DEF p
<1>3. Increasing(p)
  <2> SUFFICES ASSUME NEW i \in 1 .. Len(p), NEW j \in 1 .. Len(p), i < j
               PROVE  p[i].tok < p[j].tok
    BY DEF Increasing
  <2>1. q[i + 1].tok < q[j + 1].tok
    <3>1. i + 1 \in 1 .. Len(q) /\ j + 1 \in 1 .. Len(q) /\ i + 1 < j + 1
      BY <1>1
    <3> QED
      BY <3>1 DEF Increasing, QueriesAfter
  <2> QED
    BY <1>1, <2>1
<1>4. \A i \in 1 .. Len(p) : p[i].after = w /\ q[1].tok < p[i].tok /\ p[i].tok <= hi
  BY <1>1, <1>2 DEF QueriesAfter, Increasing
<1>5. QueriesAfter(p, w, Head(q).tok, hi)
  BY <1>1, <1>3, <1>4 DEF QueriesAfter
<1> QED
  BY <1>1, <1>5 DEF p

\* More arrivals do not disturb the queries already there.
LEMMA QueriesLater ==
    ASSUME NEW q \in Seq(Query), NEW w \in Nat, NEW lo \in Nat, NEW hi \in Nat,
           QueriesAfter(q, w, lo, hi)
    PROVE  QueriesAfter(q, w, lo, hi + 1)
<1>1. \A i \in 1 .. Len(q) : q[i] \in Query
  OBVIOUS
<1>2. \A i \in 1 .. Len(q) : q[i].tok \in Nat
  BY <1>1 DEF Query
<1> QED
  BY <1>2 DEF QueriesAfter

-----------------------------------------------------------------------------
(* The inductive invariant.                                                *)

\* An empty buffer is in order.
LEMMA InitInv == Init => IInv
BY MaxTasksAssumption
   DEF Init, IInv, TypeOK, NothingStranded, NewestIsNext, BufferOrdered, QueriesAfter,
       Increasing, EmptyBuffer

\* What the buffer holds, by place.
LEMMA BufferParts ==
    ASSUME TypeOK
    PROVE  /\ buf = [wft |-> buf.wft, queries |-> buf.queries, forBuffered |-> buf.forBuffered]
           /\ buf.wft # None => buf.wft \in Wft
           /\ buf.queries \in Seq(Query)
           /\ buf.forBuffered \in Seq(Query)
           /\ arrived \in Nat /\ newest \in Nat /\ taken \in Nat /\ current \in Nat
           /\ newest <= arrived /\ taken <= arrived /\ current <= arrived
           /\ arrived <= MaxTasks
BY MaxTasksAssumption DEF TypeOK

\* A workflow task is not the absent value.
LEMMA WftIsSome == \A t \in Wft : t # None /\ t.tok \in Nat /\ t.query # "legacy"
BY NoneAssumption, MaxTasksAssumption DEF Wft

\* Arriving tasks join the buffer behind those that came before.
LEMMA ArriveInv ==
    ASSUME IInv, NEW query \in {"none", "normal", "legacy"}, Arrive(query)
    PROVE  IInv'
<1> DEFINE t == [tok |-> arrived + 1, query |-> query, after |-> newest]
           q == buf.queries
           f == buf.forBuffered
           w == buf.wft
<1> USE DEF IInv
<1>1. /\ arrived < MaxTasks /\ arrived' = arrived + 1
      /\ buf' = Buffer(buf, t)
      /\ newest' = IF query = "legacy" THEN newest ELSE arrived + 1
      /\ taken' = taken /\ current' = current
  BY DEF Arrive, IsQueryOnly
<1>2. /\ buf = [wft |-> w, queries |-> q, forBuffered |-> f]
      /\ w # None => w \in Wft
      /\ q \in Seq(Query) /\ f \in Seq(Query)
      /\ arrived \in Nat /\ newest \in Nat /\ taken \in Nat /\ current \in Nat
      /\ newest <= arrived /\ taken <= arrived /\ current <= arrived
  BY BufferParts
<1>3. /\ arrived' \in 0 .. MaxTasks
      /\ newest' \in 0 .. arrived' /\ taken' \in 0 .. arrived' /\ current' \in 0 .. arrived'
  BY <1>1, <1>2, MaxTasksAssumption
<1>4. CASE query = "legacy" /\ w = None
  <2>1. buf' = [wft |-> None, queries |-> Append(q, t), forBuffered |-> f]
    BY <1>1, <1>2, <1>4 DEF Buffer, IsQueryOnly
  <2>2. t \in Query /\ t.after = current /\ t.tok = arrived + 1
    BY <1>1, <1>2, <1>4, MaxTasksAssumption DEF Query, NewestIsNext
  <2>3. /\ Append(q, t) \in Seq(Query)
        /\ QueriesAfter(Append(q, t), current, taken, arrived + 1)
    BY <1>2, <2>2, QueryAppended DEF BufferOrdered
  <2>4. TypeOK'
    BY <1>2, <1>3, <2>1, <2>3 DEF TypeOK
  <2>5. NothingStranded' /\ NewestIsNext'
    BY <1>1, <1>4, <2>1 DEF NothingStranded, NewestIsNext
  <2>6. BufferOrdered'
    <3>1. buf'.wft = None /\ buf'.queries = Append(q, t)
      BY <2>1
    <3> QED
      BY <1>1, <2>3, <3>1 DEF BufferOrdered
  <2> QED
    BY <2>4, <2>5, <2>6
<1>5. CASE query = "legacy" /\ w # None
  <2>1. buf' = [wft |-> w, queries |-> q, forBuffered |-> Append(f, t)]
    BY <1>1, <1>2, <1>5 DEF Buffer, IsQueryOnly
  <2>2. t \in Query /\ t.after = w.tok /\ t.tok = arrived + 1 /\ w.tok \in Nat /\ w.tok <= arrived
    BY <1>1, <1>2, <1>5, WftIsSome, MaxTasksAssumption DEF Query, NewestIsNext, BufferOrdered
  <2>3. /\ Append(f, t) \in Seq(Query)
        /\ QueriesAfter(Append(f, t), w.tok, w.tok, arrived + 1)
    BY <1>2, <1>5, <2>2, QueryAppended DEF BufferOrdered
  <2>4. QueriesAfter(q, current, taken, arrived + 1)
    BY <1>2, QueriesLater DEF BufferOrdered
  <2>5. TypeOK'
    BY <1>2, <1>3, <1>5, <2>1, <2>3 DEF TypeOK
  <2>6. NothingStranded' /\ NewestIsNext'
    BY <1>1, <1>5, <2>1 DEF NothingStranded, NewestIsNext
  <2>7. BufferOrdered'
    <3>1. buf'.wft = w /\ buf'.queries = q /\ buf'.forBuffered = Append(f, t)
      BY <2>1
    <3>2. /\ taken < w.tok /\ w.tok <= arrived + 1
          /\ \A i \in 1 .. Len(q) : q[i].tok < w.tok
      BY <1>2, <1>5, <2>2 DEF BufferOrdered
    <3> QED
      BY <1>1, <2>3, <2>4, <3>1, <3>2 DEF BufferOrdered
  <2> QED
    BY <2>5, <2>6, <2>7
<1>6. CASE query # "legacy"
  <2>1. buf' = [wft |-> t, queries |-> q, forBuffered |-> IF w # None THEN <<>> ELSE f]
    BY <1>1, <1>2, <1>6 DEF Buffer, IsQueryOnly
  <2>2. buf' = [wft |-> t, queries |-> q, forBuffered |-> <<>>]
    BY <1>2, <2>1 DEF NothingStranded
  <2>3. t \in Wft /\ t # None
    BY <1>1, <1>2, <1>6, WftIsSome, MaxTasksAssumption DEF Wft
  <2>4. QueriesAfter(q, current, taken, arrived + 1)
    BY <1>2, QueriesLater DEF BufferOrdered
  <2>5. \A i \in 1 .. Len(q) : q[i].tok < arrived + 1
    <3>1. \A i \in 1 .. Len(q) : q[i] \in Query
      BY <1>2
    <3>2. \A i \in 1 .. Len(q) : q[i].tok \in Nat
      BY <3>1 DEF Query
    <3> QED
      BY <1>2, <3>2 DEF BufferOrdered, QueriesAfter
  <2>6. TypeOK'
    BY <1>2, <1>3, <2>2, <2>3 DEF TypeOK
  <2>7. NothingStranded' /\ NewestIsNext'
    BY <1>1, <1>6, <2>2, <2>3 DEF NothingStranded, NewestIsNext
  <2>8. QueriesAfter(<<>>, t.tok, t.tok, arrived + 1)
    BY DEF QueriesAfter, Increasing
  <2>9. BufferOrdered'
    BY <1>1, <1>2, <2>2, <2>3, <2>4, <2>5, <2>8 DEF BufferOrdered
  <2> QED
    BY <2>6, <2>7, <2>9
<1> QED
  BY <1>4, <1>5, <1>6

\* What is taken is older than what stays, and a query is about the task taken last.
LEMMA TakeInv ==
    ASSUME IInv, Take
    PROVE  /\ IInv'
           /\ taken < taken'
           /\ IsQueryOnly(NextTask(buf)) => NextTask(buf).after = current
<1> DEFINE q == buf.queries
           f == buf.forBuffered
           w == buf.wft
<1> USE DEF IInv
<1>1. /\ HasTasks(buf) /\ buf' = AfterNext(buf)
      /\ taken' = NextTask(buf).tok
      /\ current' = IF NextTask(buf).query = "legacy" THEN current ELSE NextTask(buf).tok
      /\ arrived' = arrived /\ newest' = newest
  BY DEF Take, IsQueryOnly
<1>2. /\ buf = [wft |-> w, queries |-> q, forBuffered |-> f]
      /\ w # None => w \in Wft
      /\ q \in Seq(Query) /\ f \in Seq(Query)
      /\ arrived \in Nat /\ newest \in Nat /\ taken \in Nat /\ current \in Nat
      /\ newest <= arrived /\ taken <= arrived /\ current <= arrived /\ arrived <= MaxTasks
  BY BufferParts
<1>3. QueriesAfter(q, current, taken, arrived)
  BY DEF BufferOrdered
<1>4. CASE q # <<>>
  <2>1. NextTask(buf) = Head(q)
    BY <1>4 DEF NextTask
  <2>2. buf' = [wft |-> w, queries |-> Tail(q), forBuffered |-> f]
    BY <1>1, <1>2, <1>4 DEF AfterNext
  <2>3. buf'.wft = w /\ buf'.queries = Tail(q) /\ buf'.forBuffered = f
    BY <2>2
  <2>4. /\ Head(q) \in Query /\ Head(q) = q[1] /\ 1 \in 1 .. Len(q)
        /\ Tail(q) \in Seq(Query)
        /\ QueriesAfter(Tail(q), current, Head(q).tok, arrived)
        /\ \A i \in 1 .. Len(Tail(q)) : Tail(q)[i] = q[i + 1] /\ i + 1 \in 1 .. Len(q)
    BY <1>2, <1>3, <1>4, QueryTaken
  <2>5. /\ Head(q).query = "legacy" /\ Head(q).after = current
        /\ Head(q).tok \in Nat /\ taken < Head(q).tok /\ Head(q).tok <= arrived
    BY <1>3, <2>4, MaxTasksAssumption DEF Query, QueriesAfter
  <2>6. taken' = Head(q).tok /\ current' = current
    BY <1>1, <2>1, <2>5
  <2>7. TypeOK'
    BY <1>1, <1>2, <2>2, <2>4, <2>5, <2>6, MaxTasksAssumption DEF TypeOK
  <2>8. NothingStranded' /\ NewestIsNext'
    BY <1>1, <2>3, <2>6 DEF NothingStranded, NewestIsNext
  <2>9. BufferOrdered'
    <3>1. QueriesAfter(buf'.queries, current', taken', arrived')
      BY <1>1, <2>3, <2>4, <2>6
    <3>2. ASSUME w # None
          PROVE  /\ taken' < w.tok /\ w.tok <= arrived
                 /\ \A i \in 1 .. Len(Tail(q)) : Tail(q)[i].tok < w.tok
                 /\ QueriesAfter(f, w.tok, w.tok, arrived)
      BY <2>4, <2>6, <3>2 DEF BufferOrdered
    <3> QED
      BY <1>1, <2>3, <3>1, <3>2 DEF BufferOrdered
  <2> QED
    BY <2>1, <2>5, <2>6, <2>7, <2>8, <2>9
<1>5. CASE q = <<>>
  <2>1. w # None /\ w \in Wft
    BY <1>1, <1>2, <1>5 DEF HasTasks
  <2>2. NextTask(buf) = w
    BY <1>5 DEF NextTask
  <2>3. buf' = [wft |-> None, queries |-> f, forBuffered |-> <<>>]
    BY <1>1, <1>5, <2>1 DEF AfterNext
  <2>4. buf'.wft = None /\ buf'.queries = f /\ buf'.forBuffered = <<>>
    BY <2>3
  <2>5. /\ w.tok \in Nat /\ w.query # "legacy"
        /\ taken < w.tok /\ w.tok <= arrived
        /\ QueriesAfter(f, w.tok, w.tok, arrived)
    BY <2>1, WftIsSome DEF BufferOrdered
  <2>6. taken' = w.tok /\ current' = w.tok
    BY <1>1, <2>2, <2>5
  <2>7. TypeOK'
    BY <1>1, <1>2, <2>3, <2>5, <2>6, MaxTasksAssumption DEF TypeOK
  <2>8. NothingStranded' /\ NewestIsNext'
    BY <1>1, <2>1, <2>4, <2>6 DEF NothingStranded, NewestIsNext
  <2>9. BufferOrdered'
    BY <1>1, <2>4, <2>5, <2>6 DEF BufferOrdered
  <2> QED
    BY <2>2, <2>5, <2>6, <2>7, <2>8, <2>9 DEF IsQueryOnly
<1> QED
  BY <1>4, <1>5

\* Neither an arrival nor a take puts the buffer out of order.
LEMMA NextInv == IInv /\ [Next]_vars => IInv'
<1> SUFFICES ASSUME IInv, [Next]_vars PROVE IInv'
  OBVIOUS
<1>1. CASE Next
  BY <1>1, ArriveInv, TakeInv DEF Next
<1>2. CASE UNCHANGED vars
  BY <1>2 DEF vars, IInv, TypeOK, NothingStranded, NewestIsNext, BufferOrdered
<1> QED
  BY <1>1, <1>2

\* The tasks in the three places of the buffer stay in the order of their arrival.
THEOREM Invariance == Spec => []IInv
BY InitInv, NextInv, PTL DEF Spec

\* No query is left where has_tasks does not see it.
THEOREM NoQueryStranded == Spec => []NothingStranded
<1>1. IInv => NothingStranded
  BY DEF IInv
<1> QED
  BY <1>1, Invariance, PTL

\* The newest workflow task is never lost to an older one.
THEOREM NewestNotLost == Spec => []NewestIsNext
<1>1. IInv => NewestIsNext
  BY DEF IInv
<1> QED
  BY <1>1, Invariance, PTL

\* Tasks are taken in the order of their arrival, whatever is superseded meanwhile.
THEOREM FirstInFirstOut == Spec => TakenInOrder
<1>1. IInv /\ [Next]_vars => [Take => taken < taken']_vars
  BY TakeInv
<1> QED
  BY <1>1, Invariance, PTL DEF Spec, TakenInOrder

\* Every buffered query is put to the workflow as it was when the query was made.
THEOREM QueriesNotMisplaced == Spec => QueriesSeeTheirTask
<1>1. IInv /\ [Next]_vars =>
        [Take /\ IsQueryOnly(NextTask(buf)) => NextTask(buf).after = current]_vars
  BY TakeInv
<1> QED
  BY <1>1, Invariance, PTL DEF Spec, QueriesSeeTheirTask

=============================================================================
