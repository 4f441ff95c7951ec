-------------------------- MODULE ActivityTasksProofs --------------------------
(***************************************************************************)
(* For any number of activities, slots, pollers and heartbeats: the        *)
(* heartbeat manager outlives the activities lang has, no more reports of  *)
(* an activity are in flight than throttling allows, and after the grace   *)
(* period no activity is left without a cancel.                            *)
(***************************************************************************)
EXTENDS ActivityTasks, FiniteSetTheorems, TLAPS

(* Time for the leaves with the larger records *)
USE SMTT(30)

Kinds == {"send", "reported", "throttled", "evict"}
InfoType == [issued : Reasons \cup {"no"}, notFound : BOOLEAN, timer : BOOLEAN]
CancelType == [t : Task, reason : Reasons]
ActionType == [kind : Kinds, t : Task]
HbType ==
    [tracked : SUBSET Task, details : SUBSET Task, flying : SUBSET Task,
     sleeping : SUBSET Task, flush : SUBSET Task, chan : Seq(ActionType),
     reports : [Task -> Nat], down : BOOLEAN]
EagerType ==
    [pc : {"idle", "checked", "added", "holds", "panicked"}, count : Int, chan : Seq(Task),
     requested : BOOLEAN, check : BOOLEAN, complete : BOOLEAN, closed : BOOLEAN]

PollerType == [polls : Int, buffer : Seq(Task \cup {Empty, Error})]
SrvType == [Task -> {"new", "open", "cancel", "closed"}]
CallsType == [Task -> {"none", "evicting", "evicted", "sending", "done", "forgotten"}]
StreamType == [phase : {"starts", "check", "waits", "ended"}, immediate : BOOLEAN]
PlanType == [grace : BOOLEAN, tasks : SUBSET Task, beats : Nat, reserves : Nat,
             failing : SUBSET {Empty, Error}]

Types ==
    /\ srv \in SrvType /\ poller \in PollerType /\ eager \in EagerType
    /\ live \subseteq Task /\ info \in [Task -> InfoType] /\ cancels \in Seq(CancelType)
    /\ hb \in HbType /\ calls \in CallsType /\ stream \in StreamType /\ plan \in PlanType

\* Lang has finitely many tasks at a time.
LiveFinite == IsFiniteSet(live)

\* A task is handed out once: it waits in one of the two queues, or lang has it, or
\* its completion has begun.
Queued(t) ==
    (\E i \in DOMAIN poller.buffer : poller.buffer[i] = t)
    \/ (\E i \in DOMAIN eager.chan : eager.chan[i] = t)

Once ==
    /\ \A i, j \in DOMAIN poller.buffer :
          poller.buffer[i] = poller.buffer[j] /\ poller.buffer[i] \in Task => i = j
    /\ \A i, j \in DOMAIN eager.chan : eager.chan[i] = eager.chan[j] => i = j
    /\ \A i \in DOMAIN poller.buffer, j \in DOMAIN eager.chan : poller.buffer[i] # eager.chan[j]
    /\ \A t \in Task :
          /\ srv[t] = "new" => ~ Queued(t) /\ t \notin live /\ calls[t] = "none"
          /\ Queued(t) => t \notin live /\ calls[t] = "none"
          /\ t \in live => calls[t] = "none"

\* The manager is stopped at the end of the stream, when lang has nothing.
Ended ==
    /\ hb.down => stream.phase = "ended"
    /\ stream.phase = "ended" => live = {}

\* The manager has handled the eviction of t.
Gone(t) == calls[t] # "none" /\ \A i \in DOMAIN hb.chan : hb.chan[i] # [kind |-> "evict", t |-> t]

\* What the manager waits for before it may report t again.
Awaited(m, t) == m.t = t /\ m.kind \in {"reported", "throttled"}

\* Of a tracked activity there is one report in flight, or its end to be handled, or
\* one throttle running, or its end to be handled; of others nothing, until evict.
OneAwaited(t) ==
    /\ hb.reports[t] \in {0, 1}
    /\ t \in hb.sleeping => hb.reports[t] = 0
    /\ \A i \in DOMAIN hb.chan :
          Awaited(hb.chan[i], t) =>
              /\ hb.reports[t] = 0
              /\ t \notin hb.sleeping
              /\ t \in hb.tracked
              /\ \A j \in DOMAIN hb.chan : Awaited(hb.chan[j], t) => i = j
    /\ t \notin hb.tracked => hb.reports[t] = 0 /\ t \notin hb.sleeping /\ t \notin hb.details

\* The heartbeats of an activity precede its eviction.
InOrder(t) ==
    \A i, j \in DOMAIN hb.chan :
        hb.chan[i] = [kind |-> "evict", t |-> t]
            => /\ calls[t] # "none"
               /\ hb.chan[j] = [kind |-> "evict", t |-> t] => i = j
               /\ hb.chan[j] = [kind |-> "send", t |-> t] => j < i

AfterEvict(t) ==
    /\ t \notin hb.tracked /\ t \notin hb.details
    /\ \A i \in DOMAIN hb.chan : hb.chan[i] # [kind |-> "send", t |-> t]

Throttled ==
    /\ \A t \in Task : hb.reports[t] > 1 => hb.reports[t] = 2 /\ calls[t] # "none"
    /\ \A t \in hb.flush : calls[t] # "none"
    /\ ~ hb.down => \A t \in Task : InOrder(t) /\ IF Gone(t) THEN AfterEvict(t) ELSE OneAwaited(t)

Inv == Types /\ LiveFinite /\ Once /\ Ended /\ Throttled /\ CancelledAfterGrace

-----------------------------------------------------------------------------
(* Updates of the records, field by field.                                 *)

\* on_permit_dropped and close leave the queue of eager tasks alone.
LEMMA DropTrackedFields ==
    ASSUME NEW e \in EagerType
    PROVE  DropTracked(e) \in EagerType /\ DropTracked(e).chan = e.chan
<1> DEFINE n == e.count - 1
           c == e.complete \/ (e.requested /\ e.count = 1)
           a == [e EXCEPT !.count = n]
           b == [a EXCEPT !.complete = c]
<1>1. n \in Int
  BY DEF EagerType
<1>2. c \in BOOLEAN
  BY DEF EagerType
<1>3. DropTracked(e) = b
  BY DEF DropTracked
<1> HIDE DEF n, c
<1>4. a \in EagerType /\ a.chan = e.chan
  BY <1>1 DEF EagerType
<1> HIDE DEF a
<1>5. b \in EagerType /\ b.chan = a.chan
  BY <1>2, <1>4 DEF EagerType
<1> QED
  BY <1>3, <1>4, <1>5

\* Asking the dealer to close does not touch the channel of eager tasks.
LEMMA RequestCloseFields ==
    ASSUME NEW e \in EagerType
    PROVE  RequestClose(e) \in EagerType /\ RequestClose(e).chan = e.chan
<1> DEFINE a == [e EXCEPT !.requested = TRUE]
           b == [a EXCEPT !.check = TRUE]
<1>1. a \in EagerType /\ a.chan = e.chan
  BY Zenon DEF EagerType
<1>2. RequestClose(e) = b
  BY DEF RequestClose
<1> HIDE DEF a
<1>3. b \in EagerType /\ b.chan = a.chan
  BY Zenon, <1>1 DEF EagerType
<1> QED
  BY <1>1, <1>2, <1>3

\* A report more is on its way for task t.
LEMMA ReportFields ==
    ASSUME NEW h \in HbType, NEW t \in Task
    PROVE  LET g == Report(h, t) IN
           /\ g \in HbType /\ g.tracked = h.tracked /\ g.details = h.details /\ g.flying = h.flying
           /\ g.sleeping = h.sleeping /\ g.flush = h.flush /\ g.chan = h.chan /\ g.down = h.down
           /\ g.reports[t] = h.reports[t] + 1 /\ \A u \in Task \ {t} : g.reports[u] = h.reports[u]
<1> DEFINE f == [h.reports EXCEPT ![t] = @ + 1]
<1>1. /\ f \in [Task -> Nat]
      /\ f[t] = h.reports[t] + 1 /\ \A u \in Task \ {t} : f[u] = h.reports[u]
  BY DEF HbType
<1>2. Report(h, t) = [h EXCEPT !.reports = f]
  BY DEF Report
<1> HIDE DEF f
<1> QED
  BY Zenon, <1>1, <1>2 DEF HbType

\* record, handle_report_completed, handle_throttle_completed and evict: what they do to
\* the heartbeats of t; they leave those of other activities, and the queue, alone.
LEMMA RecordFields ==
    ASSUME NEW h \in HbType, NEW t \in Task
    PROVE  LET g == Record(h, t) IN
           /\ g \in HbType /\ g.sleeping = h.sleeping /\ g.flush = h.flush
           /\ g.chan = h.chan /\ g.down = h.down
           /\ g.tracked = h.tracked \cup {t}
           /\ \A u \in Task \ {t} : g.reports[u] = h.reports[u]
           /\ \/ t \in h.tracked /\ g.details = h.details \cup {t} /\ g.reports[t] = h.reports[t]
              \/ t \notin h.tracked /\ g.details = h.details /\ g.reports[t] = h.reports[t] + 1
<1> h.tracked \cup {t} \in SUBSET Task /\ h.details \cup {t} \in SUBSET Task
    /\ h.flying \cup {t} \in SUBSET Task
  BY DEF HbType
<1>1. CASE t \in h.tracked
  <2>1. Record(h, t) = [h EXCEPT !.details = @ \cup {t}] /\ h.tracked \cup {t} = h.tracked
    BY <1>1 DEF Record
  <2> QED
    BY <1>1, <2>1 DEF HbType
<1>2. CASE t \notin h.tracked
  <2> DEFINE a == [h EXCEPT !.tracked = @ \cup {t}]
             b == [a EXCEPT !.flying = @ \cup {t}]
  <2>1. /\ a \in HbType /\ a.tracked = h.tracked \cup {t} /\ a.details = h.details
        /\ a.flying = h.flying /\ a.sleeping = h.sleeping /\ a.flush = h.flush
        /\ a.chan = h.chan /\ a.reports = h.reports /\ a.down = h.down
    BY DEF HbType
  <2>2. Record(h, t) = Report(b, t)
    BY <1>2, <2>1 DEF Record
  <2> HIDE DEF a
  <2>3. /\ b \in HbType /\ b.tracked = a.tracked /\ b.details = a.details
        /\ b.sleeping = a.sleeping /\ b.flush = a.flush
        /\ b.chan = a.chan /\ b.reports = a.reports /\ b.down = a.down
    BY <2>1 DEF HbType
  <2> HIDE DEF b
  <2> QED
    BY <1>2, <2>1, <2>2, <2>3, ReportFields
<1> QED
  BY <1>1, <1>2

\* The manager hears that a report is through: it throttles t, and a flush is answered.
LEMMA ReportCompletedFields ==
    ASSUME NEW h \in HbType, NEW t \in Task
    PROVE  LET g == ReportCompleted(h, t) IN
           /\ g \in HbType /\ g.tracked = h.tracked /\ g.details = h.details
           /\ g.chan = h.chan /\ g.down = h.down /\ g.reports = h.reports
           /\ g.flush = h.flush \ {t}
           /\ \/ t \in h.tracked /\ g.sleeping = h.sleeping \cup {t}
              \/ t \notin h.tracked /\ g.sleeping = h.sleeping
<1> DEFINE a == [h EXCEPT !.flush = @ \ {t}]
           b == [a EXCEPT !.flying = @ \ {t}]
           c == [b EXCEPT !.sleeping = @ \cup {t}]
<1>1. /\ a \in HbType /\ a.tracked = h.tracked /\ a.details = h.details /\ a.flying = h.flying
      /\ a.sleeping = h.sleeping /\ a.flush = h.flush \ {t}
      /\ a.chan = h.chan /\ a.reports = h.reports /\ a.down = h.down
  <2>1. h.flush \ {t} \in SUBSET Task
    BY DEF HbType
  <2> QED
    BY <2>1 DEF HbType
<1>2. b.sleeping = a.sleeping
  BY <1>1 DEF HbType
<1>3. ReportCompleted(h, t) = IF t \in h.tracked THEN c ELSE a
  BY <1>2 DEF ReportCompleted
<1> HIDE DEF a
<1>4. /\ b \in HbType /\ b.tracked = a.tracked /\ b.details = a.details
      /\ b.sleeping = a.sleeping /\ b.flush = a.flush
      /\ b.chan = a.chan /\ b.reports = a.reports /\ b.down = a.down
  <2>1. a.flying \ {t} \in SUBSET Task
    BY <1>1 DEF HbType
  <2> QED
    BY <1>1, <2>1 DEF HbType
<1> HIDE DEF b
<1>5. /\ c \in HbType /\ c.tracked = b.tracked /\ c.details = b.details
      /\ c.sleeping = b.sleeping \cup {t} /\ c.flush = b.flush
      /\ c.chan = b.chan /\ c.reports = b.reports /\ c.down = b.down
  <2>1. b.sleeping \cup {t} \in SUBSET Task
    BY <1>4 DEF HbType
  <2> QED
    BY Zenon, <1>4, <2>1 DEF HbType
<1> HIDE DEF c
<1> QED
  BY <1>1, <1>3, <1>4, <1>5

\* The manager hears that the throttling is over: it reports what came in the meantime, or stops.
LEMMA ThrottleCompletedFields ==
    ASSUME NEW h \in HbType, NEW t \in Task
    PROVE  LET g == ThrottleCompleted(h, t) IN
           /\ g \in HbType /\ g.flush = h.flush /\ g.sleeping = h.sleeping
           /\ g.chan = h.chan /\ g.down = h.down
           /\ \A u \in Task \ {t} : g.reports[u] = h.reports[u]
           /\ \/ /\ t \notin h.tracked /\ g.tracked = h.tracked /\ g.details = h.details
                 /\ g.reports[t] = h.reports[t]
              \/ /\ t \in h.tracked /\ g.tracked = h.tracked
                 /\ t \in h.details /\ g.details = h.details \ {t}
                 /\ g.reports[t] = h.reports[t] + 1
              \/ /\ t \in h.tracked /\ g.tracked = h.tracked \ {t}
                 /\ t \notin h.details /\ g.details = h.details
                 /\ g.reports[t] = h.reports[t]
<1>1. CASE t \notin h.tracked
  BY <1>1 DEF ThrottleCompleted
<1>2. CASE t \in h.tracked /\ t \in h.details
  <2> DEFINE a == [h EXCEPT !.details = @ \ {t}]
             b == [a EXCEPT !.flying = @ \cup {t}]
  <2>1. /\ a \in HbType /\ a.tracked = h.tracked /\ a.details = h.details \ {t}
        /\ a.flying = h.flying /\ a.sleeping = h.sleeping /\ a.flush = h.flush
        /\ a.chan = h.chan /\ a.reports = h.reports /\ a.down = h.down
    BY DEF HbType
  <2>2. ThrottleCompleted(h, t) = Report(b, t)
    BY <1>2, <2>1 DEF ThrottleCompleted
  <2> HIDE DEF a
  <2>3. /\ b \in HbType /\ b.tracked = a.tracked /\ b.details = a.details
        /\ b.sleeping = a.sleeping /\ b.flush = a.flush
        /\ b.chan = a.chan /\ b.reports = a.reports /\ b.down = a.down
    BY <2>1 DEF HbType
  <2> HIDE DEF b
  <2> QED
    BY <1>2, <2>1, <2>2, <2>3, ReportFields
<1>3. CASE t \in h.tracked /\ t \notin h.details
  <2> DEFINE a == [h EXCEPT !.tracked = @ \ {t}]
  <2>1. /\ a \in HbType /\ a.tracked = h.tracked \ {t} /\ a.details = h.details
        /\ a.sleeping = h.sleeping /\ a.flush = h.flush
        /\ a.chan = h.chan /\ a.reports = h.reports /\ a.down = h.down
    BY DEF HbType
  <2>2. ThrottleCompleted(h, t) = a
    BY <1>3 DEF ThrottleCompleted
  <2> HIDE DEF a
  <2> QED
    BY <1>3, <2>1, <2>2
<1> QED
  BY <1>1, <1>2, <1>3

\* The manager forgets task t; a last report may be flushed.
LEMMA EvictFields ==
    ASSUME NEW h \in HbType, NEW t \in Task
    PROVE  LET g == Evict(h, t) IN
           /\ g \in HbType /\ g.chan = h.chan /\ g.down = h.down
           /\ g.tracked = h.tracked \ {t} /\ g.details = h.details \ {t}
           /\ g.sleeping = h.sleeping \ {t}
           /\ g.flush \subseteq h.flush \cup {t}
           /\ \A u \in Task \ {t} : g.reports[u] = h.reports[u]
           /\ g.reports[t] = IF t \in h.details THEN h.reports[t] + 1 ELSE h.reports[t]
<1> DEFINE a == [h EXCEPT !.tracked = @ \ {t}]
           b == [a EXCEPT !.details = @ \ {t}]
           c == [b EXCEPT !.flying = @ \ {t}]
           d == [c EXCEPT !.sleeping = @ \ {t}]
           e == [d EXCEPT !.flush = @ \cup {t}]
<1>1. /\ a \in HbType /\ a.tracked = h.tracked \ {t} /\ a.details = h.details
      /\ a.flying = h.flying /\ a.sleeping = h.sleeping /\ a.flush = h.flush
      /\ a.chan = h.chan /\ a.reports = h.reports /\ a.down = h.down
  BY DEF HbType
<1>2. b = [a EXCEPT !.details = h.details \ {t}]
  BY <1>1
<1> HIDE DEF a
<1>3. /\ b \in HbType /\ b.tracked = a.tracked /\ b.details = a.details \ {t}
      /\ b.flying = a.flying /\ b.sleeping = a.sleeping /\ b.flush = a.flush
      /\ b.chan = a.chan /\ b.reports = a.reports /\ b.down = a.down
  BY <1>1 DEF HbType
<1> HIDE DEF b
<1>4. c = [b EXCEPT !.flying = h.flying \ {t}]
  BY <1>1, <1>3
<1>5. /\ c \in HbType /\ c.tracked = b.tracked /\ c.details = b.details
      /\ c.sleeping = b.sleeping /\ c.flush = b.flush
      /\ c.chan = b.chan /\ c.reports = b.reports /\ c.down = b.down
  BY Zenon, <1>3 DEF HbType
<1> HIDE DEF c
<1>6. d = [c EXCEPT !.sleeping = h.sleeping \ {t}]
  BY <1>1, <1>3, <1>5
<1>7. /\ d \in HbType /\ d.tracked = c.tracked /\ d.details = c.details
      /\ d.sleeping = c.sleeping \ {t} /\ d.flush = c.flush
      /\ d.chan = c.chan /\ d.reports = c.reports /\ d.down = c.down
  BY Zenon, <1>5 DEF HbType
<1>8. d = [h EXCEPT !.tracked = @ \ {t}, !.details = @ \ {t}, !.flying = @ \ {t},
                    !.sleeping = @ \ {t}]
  BY <1>2, <1>4, <1>6 DEF a
<1> HIDE DEF d
<1>9. Evict(h, t) = IF t \in h.details THEN Report(e, t) ELSE IF t \in h.flying THEN e ELSE d
  BY <1>8 DEF Evict
<1>10. /\ e \in HbType /\ e.tracked = d.tracked /\ e.details = d.details
       /\ e.sleeping = d.sleeping /\ e.flush = d.flush \cup {t}
       /\ e.chan = d.chan /\ e.reports = d.reports /\ e.down = d.down
  BY Zenon, <1>7 DEF HbType
<1> HIDE DEF e
<1>11. /\ d.tracked = h.tracked \ {t} /\ d.details = h.details \ {t}
       /\ d.sleeping = h.sleeping \ {t} /\ d.flush = h.flush
       /\ d.chan = h.chan /\ d.reports = h.reports /\ d.down = h.down
  BY <1>1, <1>3, <1>5, <1>7
<1>12. CASE t \in h.details
  BY <1>9, <1>10, <1>11, <1>12, ReportFields
<1>13. CASE t \notin h.details
  BY <1>7, <1>9, <1>10, <1>11, <1>13
<1> QED
  BY <1>12, <1>13

\* The manager handles the first action in its queue, m.
SameFor(u) ==
    /\ hb'.reports[u] = hb.reports[u] /\ (u \in hb'.tracked <=> u \in hb.tracked)
    /\ (u \in hb'.details <=> u \in hb.details) /\ (u \in hb'.sleeping <=> u \in hb.sleeping)
    /\ (u \in hb'.flush => u \in hb.flush)

Handles(m) ==
    /\ hb' \in HbType /\ hb'.chan = Tail(hb.chan) /\ hb'.down = hb.down
    /\ \A u \in Task \ {m.t} : SameFor(u)
    /\ \/ /\ m.kind = "send" /\ m.t \in hb.tracked /\ m.t \in hb'.tracked
          /\ hb'.reports[m.t] = hb.reports[m.t]
          /\ (m.t \in hb'.sleeping <=> m.t \in hb.sleeping)
          /\ m.t \in hb'.details /\ (m.t \in hb'.flush => m.t \in hb.flush)
       \/ /\ m.kind = "send" /\ m.t \notin hb.tracked /\ m.t \in hb'.tracked
          /\ hb'.reports[m.t] = hb.reports[m.t] + 1
          /\ (m.t \in hb'.sleeping <=> m.t \in hb.sleeping)
          /\ (m.t \in hb'.details <=> m.t \in hb.details)
          /\ (m.t \in hb'.flush => m.t \in hb.flush)
       \/ /\ m.kind = "reported" /\ (m.t \in hb'.tracked <=> m.t \in hb.tracked)
          /\ (m.t \in hb'.details <=> m.t \in hb.details)
          /\ hb'.reports[m.t] = hb.reports[m.t] /\ m.t \notin hb'.flush
          /\ (m.t \in hb'.sleeping <=> m.t \in hb.sleeping \/ m.t \in hb.tracked)
       \/ /\ m.kind = "throttled" /\ m.t \notin hb.tracked /\ SameFor(m.t)
       \/ /\ m.kind = "throttled" /\ m.t \in hb.tracked /\ m.t \in hb'.tracked
          /\ m.t \in hb.details /\ m.t \notin hb'.details
          /\ hb'.reports[m.t] = hb.reports[m.t] + 1
          /\ (m.t \in hb'.sleeping <=> m.t \in hb.sleeping)
          /\ (m.t \in hb'.flush => m.t \in hb.flush)
       \/ /\ m.kind = "throttled" /\ m.t \in hb.tracked /\ m.t \notin hb'.tracked
          /\ m.t \notin hb.details /\ m.t \notin hb'.details
          /\ hb'.reports[m.t] = hb.reports[m.t]
          /\ (m.t \in hb'.sleeping <=> m.t \in hb.sleeping)
          /\ (m.t \in hb'.flush => m.t \in hb.flush)
       \/ /\ m.kind = "evict" /\ m.t \notin hb'.tracked /\ m.t \notin hb'.details
          /\ m.t \notin hb'.sleeping
          /\ hb'.reports[m.t] = IF m.t \in hb.details THEN hb.reports[m.t] + 1
                                ELSE hb.reports[m.t]

\* The action the manager takes is well formed and handled by its kind.
LEMMA HandleFields ==
    ASSUME Types, HandleAction
    PROVE  Head(hb.chan) \in ActionType /\ Handles(Head(hb.chan))
<1> DEFINE m == Head(hb.chan)
           h == [hb EXCEPT !.chan = Tail(@)]
<1>1. hb \in HbType /\ hb.chan \in Seq(ActionType) /\ hb.chan # <<>>
  BY DEF Types, HandleAction, HbType
<1>2. m \in ActionType /\ Tail(hb.chan) \in Seq(ActionType)
  BY <1>1
<1>3. /\ h \in HbType
      /\ h.tracked = hb.tracked /\ h.details = hb.details /\ h.sleeping = hb.sleeping
      /\ h.flush = hb.flush /\ h.reports = hb.reports /\ h.down = hb.down
      /\ h.chan = Tail(hb.chan)
  BY Zenon, <1>1, <1>2 DEF HbType
<1>4. hb' = Handled(h, m)
  BY DEF HandleAction
<1>5. m.kind \in Kinds /\ m.t \in Task
  BY <1>2 DEF ActionType
<1> HIDE DEF m, h
<1>6. CASE m.kind = "send"
  <2>1. hb' = Record(h, m.t)
    BY <1>4, <1>6 DEF Handled
  <2>2. Handles(m)
    BY <1>3, <1>5, <1>6, <2>1, RecordFields DEF Handles, SameFor
  <2> QED
    BY <1>2, <2>2 DEF m
<1>7. CASE m.kind = "reported"
  <2>1. hb' = ReportCompleted(h, m.t)
    BY <1>4, <1>7 DEF Handled
  <2>2. /\ hb' \in HbType /\ hb'.tracked = hb.tracked /\ hb'.details = hb.details
        /\ hb'.chan = Tail(hb.chan) /\ hb'.down = hb.down /\ hb'.reports = hb.reports
        /\ hb'.flush = hb.flush \ {m.t}
        /\ \/ m.t \in hb.tracked /\ hb'.sleeping = hb.sleeping \cup {m.t}
           \/ m.t \notin hb.tracked /\ hb'.sleeping = hb.sleeping
    BY <1>3, <1>5, <2>1, ReportCompletedFields
  <2>3. \A u \in Task \ {m.t} : SameFor(u)
    <3> SUFFICES ASSUME NEW u \in Task \ {m.t} PROVE SameFor(u)
      OBVIOUS
    <3>1. u \in hb'.sleeping <=> u \in hb.sleeping
      BY <2>2
    <3>2. u \in hb'.flush => u \in hb.flush
      BY <2>2
    <3> QED
      BY <2>2, <3>1, <3>2 DEF SameFor
  <2>4. m.t \in hb'.sleeping <=> m.t \in hb.sleeping \/ m.t \in hb.tracked
    BY <2>2
  <2>5. Handles(m)
    BY <1>5, <1>7, <2>2, <2>3, <2>4 DEF Handles
  <2> QED
    BY <1>2, <2>5 DEF m
<1>8. CASE m.kind = "throttled"
  <2>1. hb' = ThrottleCompleted(h, m.t)
    BY <1>4, <1>8 DEF Handled
  <2>2. /\ hb' \in HbType /\ hb'.flush = hb.flush /\ hb'.sleeping = hb.sleeping
        /\ hb'.chan = Tail(hb.chan) /\ hb'.down = hb.down
        /\ \A u \in Task \ {m.t} : hb'.reports[u] = hb.reports[u]
        /\ \/ /\ m.t \notin hb.tracked /\ hb'.tracked = hb.tracked
              /\ hb'.details = hb.details /\ hb'.reports[m.t] = hb.reports[m.t]
           \/ /\ m.t \in hb.tracked /\ hb'.tracked = hb.tracked
              /\ m.t \in hb.details /\ hb'.details = hb.details \ {m.t}
              /\ hb'.reports[m.t] = hb.reports[m.t] + 1
           \/ /\ m.t \in hb.tracked /\ hb'.tracked = hb.tracked \ {m.t}
              /\ m.t \notin hb.details /\ hb'.details = hb.details
              /\ hb'.reports[m.t] = hb.reports[m.t]
    BY <1>3, <1>5, <2>1, ThrottleCompletedFields
  <2>3. Handles(m)
    BY <1>5, <1>8, <2>2 DEF Handles, SameFor
  <2> QED
    BY <1>2, <2>3 DEF m
<1>9. CASE m.kind = "evict"
  <2>1. hb' = Evict(h, m.t)
    BY <1>4, <1>9 DEF Handled
  <2>2. Handles(m)
    BY <1>3, <1>5, <1>9, <2>1, EvictFields DEF Handles, SameFor
  <2> QED
    BY <1>2, <2>2 DEF m
<1> QED
  BY <1>5, <1>6, <1>7, <1>8, <1>9 DEF Kinds

-----------------------------------------------------------------------------
(* Types.                                                                  *)

\* A task that is handed to lang is entered in the outstanding map.
LEMMA StartedTypes ==
    ASSUME Types, NEW t \in Task, Started(t)
    PROVE  /\ live' \subseteq Task /\ info' \in [Task -> InfoType]
           /\ cancels' \in Seq(CancelType)
<1> DEFINE c == [t |-> t, reason |-> "WorkerShutdown"]
           n == [NoInfo EXCEPT !.timer = ~ stream.immediate]
<1>1. c \in CancelType /\ n \in InfoType
  BY Zenon DEF CancelType, Reasons, NoInfo, InfoType
<1>2. live' = live \cup {t} /\ info' = [info EXCEPT ![t] = n]
      /\ cancels' \in {cancels, Append(cancels, c)}
  BY DEF Started
<1> HIDE DEF c, n
<1> QED
  BY <1>1, <1>2 DEF Types

\* Every step keeps the types.
LEMMA TypesStep ==
    ASSUME Types, LiveFinite, [Next]_vars
    PROVE  Types'
<1>0. Types
  OBVIOUS
<1>1. CASE StartPoll \/ \E r \in Task \cup {Empty, Error} : PollReturns(r)
  <2>1. CASE StartPoll
    <3>1. poller' \in PollerType
      BY <2>1 DEF StartPoll, Types, PollerType
    <3> QED
      BY <2>1, <3>1 DEF StartPoll, Types
  <2>2. ASSUME NEW r \in Task \cup {Empty, Error}, PollReturns(r)
        PROVE  Types'
    <3>1. poller.buffer \in Seq(Task \cup {Empty, Error}) /\ poller.polls - 1 \in Int
      BY DEF Types, PollerType
    <3>2. poller' \in PollerType
      BY <2>2, <3>1 DEF PollReturns, PollerType
    <3>3. srv' \in SrvType
      BY <2>2 DEF PollReturns, Types, SrvType
    <3>4. plan' \in PlanType
      BY Zenon, <2>2 DEF PollReturns, Types, PlanType
    <3> QED
      BY <2>2, <3>2, <3>3, <3>4 DEF PollReturns, Types
  <2> QED
    BY <1>1, <2>1, <2>2
<1>2. CASE ReserveCheck \/ Reserve \/ CloseCheck
  <2>1. CASE ReserveCheck
    <3>1. eager' \in EagerType
      BY Zenon, <2>1 DEF ReserveCheck, Types, EagerType
    <3>2. plan.reserves - 1 \in Nat
      BY <2>1 DEF ReserveCheck, Types, PlanType
    <3>3. plan' \in PlanType
      BY Zenon, <2>1, <3>2 DEF ReserveCheck, Types, PlanType
    <3> QED
      BY <2>1, <3>1, <3>3 DEF ReserveCheck, Types
  <2>2. CASE ReserveAdd
    <3> DEFINE a == [eager EXCEPT !.pc = "added"]
               n == eager.count + 1
    <3>1. a \in EagerType /\ n \in Int /\ a.count = eager.count
      BY DEF Types, EagerType
    <3>2. eager' = [a EXCEPT !.count = n]
      BY <2>2, <3>1 DEF ReserveAdd
    <3> HIDE DEF a, n
    <3>3. eager' \in EagerType
      BY <3>1, <3>2 DEF EagerType
    <3> QED
      BY <2>2, <3>3 DEF ReserveAdd, Types
  <2>3. CASE ReserveTry
    <3> DEFINE a == [eager EXCEPT !.pc = "idle"]
               n == eager.count - 1
    <3>1. a \in EagerType /\ n \in Int /\ a.count = eager.count
      BY DEF Types, EagerType
    <3> DEFINE b == [eager EXCEPT !.pc = "holds"]
               c == [a EXCEPT !.count = n]
    <3>2. eager' = b \/ eager' = c
      BY <2>3, <3>1 DEF ReserveTry
    <3>3. b \in EagerType
      BY DEF Types, EagerType
    <3> HIDE DEF a, n
    <3>4. c \in EagerType
      BY <3>1 DEF EagerType
    <3> HIDE DEF b, c
    <3>5. eager' \in EagerType
      BY <3>2, <3>3, <3>4
    <3> QED
      BY <2>3, <3>5 DEF ReserveTry, Types
  <2>4. CASE EagerDeclined
    <3>1. DropTracked(eager) \in EagerType
      BY DropTrackedFields DEF Types
    <3>2. eager' \in EagerType
      BY <2>4, <3>1 DEF EagerDeclined, EagerType
    <3> QED
      BY <2>4, <3>2 DEF EagerDeclined, Types
  <2>5. CASE CloseCheck
    <3> DEFINE a == [eager EXCEPT !.check = FALSE]
               c == eager.complete \/ eager.count = 0
    <3>1. a \in EagerType /\ c \in BOOLEAN /\ a.complete = eager.complete
      BY Zenon DEF Types, EagerType
    <3>2. eager' = [a EXCEPT !.complete = c]
      BY <2>5, <3>1 DEF CloseCheck
    <3> HIDE DEF a, c
    <3>3. eager' \in EagerType
      BY <3>1, <3>2 DEF EagerType
    <3> QED
      BY <2>5, <3>3 DEF CloseCheck, Types
  <2> QED
    BY <1>2, <2>1, <2>2, <2>3, <2>4, <2>5 DEF Reserve
<1>3. ASSUME NEW t \in Task, EagerTask(t)
      PROVE  Types'
  <2>1. DropTracked(eager) \in EagerType
    BY DropTrackedFields DEF Types
  <2> DEFINE a == [eager EXCEPT !.pc = "idle"]
  <2>2. a \in EagerType /\ a.chan = eager.chan
    BY DEF Types, EagerType
  <2> DEFINE b == [DropTracked(eager) EXCEPT !.pc = "panicked"]
             n == Append(a.chan, t)
             c == [a EXCEPT !.chan = n]
  <2>3. eager' = b \/ eager' = c
    BY <1>3, <2>2 DEF EagerTask
  <2>4. b \in EagerType
    BY <2>1 DEF EagerType
  <2>5. n \in Seq(Task)
    BY <2>2 DEF EagerType
  <2> HIDE DEF a, n
  <2>6. c \in EagerType
    BY <2>2, <2>5 DEF EagerType
  <2> HIDE DEF b, c
  <2>7. eager' \in EagerType
    BY <2>3, <2>4, <2>6
  <2>8. srv' \in SrvType
    BY <1>3 DEF EagerTask, Types, SrvType
  <2> QED
    BY <1>3, <2>7, <2>8 DEF EagerTask, Types
<1>4. CASE TakeCancel
  <2> DEFINE c == Head(cancels)
             n == [issued |-> c.reason, timer |-> info[c.t].timer,
                   notFound |-> info[c.t].notFound \/ c.reason \in {"NotFound", "TimedOut"}]
  <2>1. c \in CancelType /\ cancels' = Tail(cancels) /\ cancels' \in Seq(CancelType)
    BY <1>4 DEF TakeCancel, Types
  <2>2. c.t \in Task /\ c.reason \in Reasons /\ info[c.t] \in InfoType
    BY <2>1 DEF CancelType, Types
  <2>3. (info[c.t].notFound \/ c.reason \in {"NotFound", "TimedOut"}) \in BOOLEAN
    OBVIOUS
  <2>4. n \in InfoType
    BY <2>2, <2>3 DEF InfoType
  <2>5. info' \in {info, [info EXCEPT ![c.t] = n]}
    BY <1>4 DEF TakeCancel
  <2> HIDE DEF c, n
  <2>6. info' \in [Task -> InfoType]
    BY <2>2, <2>4, <2>5 DEF Types
  <2> QED
    BY <1>4, <2>1, <2>6 DEF TakeCancel, Types
<1>5. CASE TakeEager
  <2>1. DropTracked(eager) \in EagerType /\ DropTracked(eager).chan = eager.chan
    BY DropTrackedFields DEF Types
  <2>2. eager.chan \in Seq(Task) /\ eager.chan # <<>>
    BY <1>5 DEF TakeEager, EagerType, Types
  <2>3. Head(eager.chan) \in Task /\ Tail(eager.chan) \in Seq(Task)
    BY <2>2
  <2>4. eager' \in EagerType
    BY Zenon, <1>5, <2>1, <2>3 DEF TakeEager, EagerType
  <2> QED
    BY <1>5, <2>3, <2>4, StartedTypes DEF TakeEager, Types
<1>6. CASE TakePolled
  <2>1. poller.buffer \in Seq(Task \cup {Empty, Error}) /\ poller.buffer # <<>>
    BY <1>6 DEF TakePolled, Types, PollerType
  <2> DEFINE rest == [poller EXCEPT !.buffer = Tail(@)]
             r == Head(poller.buffer)
  <2>2. rest \in PollerType
    <3>1. Tail(poller.buffer) \in Seq(Task \cup {Empty, Error})
      BY <2>1
    <3> QED
      BY Zenon, <3>1 DEF Types, PollerType
  <2>3. poller' = rest \/ poller' = [rest EXCEPT !.polls = 0]
    BY <1>6 DEF TakePolled
  <2> HIDE DEF rest
  <2>4. poller' \in PollerType
    BY <2>2, <2>3 DEF PollerType
  <2>5. eager' \in EagerType
    BY <1>6, RequestCloseFields DEF TakePolled, Types
  <2>6. CASE r \in Task /\ Started(r)
    BY <1>6, <2>4, <2>5, <2>6, StartedTypes DEF TakePolled, Types
  <2>7. CASE UNCHANGED <<live, info, cancels>>
    BY <1>6, <2>4, <2>5, <2>7 DEF TakePolled, Types
  <2> QED
    BY <1>6, <2>6, <2>7 DEF TakePolled
<1>7. CASE EagerEnds \/ StartsEnd \/ CheckOutstanding
  <2>1. eager' \in EagerType
    BY Zenon, <1>7 DEF EagerEnds, StartsEnd, CheckOutstanding, Types, EagerType
  <2>2. stream' \in StreamType
    BY <1>7 DEF EagerEnds, StartsEnd, CheckOutstanding, Types, StreamType
  <2> QED
    BY <1>7, <2>1, <2>2 DEF EagerEnds, StartsEnd, CheckOutstanding, Types
<1>8. CASE GraceElapses
  <2> DEFINE C(s) == [i \in DOMAIN s |-> [t |-> s[i], reason |-> "WorkerShutdown"]]
  <2>1. PICK s \in Orders(live) : cancels' = cancels \o C(s)
    BY Zenon, <1>8 DEF GraceElapses
  <2>2. Cardinality(live) \in Nat /\ s \in [1 .. Cardinality(live) -> live]
    BY <2>1, FS_CardinalityType DEF Orders, LiveFinite
  <2>3. \A i \in DOMAIN s : [t |-> s[i], reason |-> "WorkerShutdown"] \in CancelType
    BY <2>2 DEF CancelType, Reasons, Types
  <2>4. C(s) \in Seq(CancelType)
    BY <2>2, <2>3
  <2> HIDE DEF C
  <2>5. cancels' \in Seq(CancelType)
    BY <2>1, <2>4 DEF Types
  <2>6. stream' \in StreamType
    BY Zenon, <1>8 DEF GraceElapses, Types, StreamType
  <2> QED
    BY <1>8, <2>5, <2>6 DEF GraceElapses, Types
<1>9. ASSUME NEW t \in Task, LocalTimeout(t)
      PROVE  Types'
  <2>1. [t |-> t, reason |-> "TimedOut"] \in CancelType
    BY DEF CancelType, Reasons
  <2>2. info' \in [Task -> InfoType]
    BY Zenon, <1>9 DEF LocalTimeout, InfoType, Types
  <2> QED
    BY <1>9, <2>1, <2>2 DEF LocalTimeout, Types
<1>10. ASSUME NEW t \in Task, RecordHeartbeat(t)
       PROVE  Types'
  <2>1. [kind |-> "send", t |-> t] \in ActionType
    BY DEF ActionType, Kinds
  <2>2. hb' \in HbType
    <3> DEFINE n == Append(hb.chan, [kind |-> "send", t |-> t])
    <3>1. n \in Seq(ActionType)
      BY <2>1 DEF HbType, Types
    <3>2. hb' = [hb EXCEPT !.chan = n]
      BY <1>10 DEF RecordHeartbeat
    <3> HIDE DEF n
    <3> QED
      BY Zenon, <3>1, <3>2 DEF HbType, Types
  <2>3. plan.beats - 1 \in Nat
    BY <1>10 DEF RecordHeartbeat, Types, PlanType
  <2>4. plan' \in PlanType
    BY <1>10, <2>3 DEF RecordHeartbeat, Types, PlanType
  <2> QED
    BY <1>10, <2>2, <2>4 DEF RecordHeartbeat, Types
<1>11. CASE HandleAction
  <2>1. hb' \in HbType
    BY ZenonT(40), <1>11, HandleFields DEF Handles
  <2>2. calls' \in CallsType
    BY Zenon, <1>11 DEF HandleAction, Types, CallsType
  <2> QED
    BY <1>11, <2>1, <2>2 DEF HandleAction, Types
<1>12. ASSUME NEW t \in Task, NEW ok \in BOOLEAN, ReportReturns(t, ok)
       PROVE  Types'
  <2> DEFINE m == [kind |-> "reported", t |-> t]
             f == [hb.reports EXCEPT ![t] = @ - 1]
             a == [hb EXCEPT !.reports = f]
             n == Append(hb.chan, m)
  <2>1. m \in ActionType /\ hb.chan \in Seq(ActionType)
    BY DEF ActionType, Kinds, HbType, Types
  <2>2. n \in Seq(ActionType)
    BY <2>1
  <2>3. hb.reports[t] \in Nat /\ hb.reports[t] > 0
    BY <1>12 DEF ReportReturns, HbType, Types
  <2>4. f \in [Task -> Nat]
    BY <2>3 DEF HbType, Types
  <2>5. a.chan = hb.chan
    BY DEF HbType, Types
  <2>6. hb' = [a EXCEPT !.chan = n]
    BY <1>12, <2>5 DEF ReportReturns
  <2> HIDE DEF m, f, n
  <2>7. a \in HbType
    BY Zenon, <2>4 DEF HbType, Types
  <2> HIDE DEF a
  <2>8. hb' \in HbType
    BY Zenon, <2>2, <2>6, <2>7 DEF HbType
  <2>9. /\ [t |-> t, reason |-> "Cancelled"] \in CancelType
        /\ [t |-> t, reason |-> "NotFound"] \in CancelType
    BY DEF CancelType, Reasons
  <2>10. cancels' \in Seq(CancelType)
    BY <1>12, <2>9 DEF ReportReturns, Types
  <2> QED
    BY <1>12, <2>8, <2>10 DEF ReportReturns, Types
<1>13. ASSUME NEW t \in Task, ThrottleElapses(t)
       PROVE  Types'
  <2> DEFINE m == [kind |-> "throttled", t |-> t]
             a == [hb EXCEPT !.sleeping = @ \ {t}]
             n == Append(hb.chan, m)
  <2>1. m \in ActionType /\ hb.chan \in Seq(ActionType)
    BY DEF ActionType, Kinds, HbType, Types
  <2>2. n \in Seq(ActionType)
    BY <2>1
  <2>3. a \in HbType /\ a.chan = hb.chan
    BY Zenon DEF HbType, Types
  <2>4. hb' = [a EXCEPT !.chan = n]
    BY <1>13, <2>3 DEF ThrottleElapses
  <2> HIDE DEF m, a, n
  <2>5. hb' \in HbType
    BY Zenon, <2>2, <2>3, <2>4 DEF HbType
  <2> QED
    BY <1>13, <2>5 DEF ThrottleElapses, Types
<1>14. ASSUME NEW t \in Task, ServerCancels(t) \/ ServerCloses(t)
       PROVE  Types'
  BY <1>14 DEF ServerCancels, ServerCloses, Types, SrvType
<1>15. ASSUME NEW t \in live, Complete(t)
       PROVE  Types'
  <2>1. [kind |-> "evict", t |-> t] \in ActionType
    BY DEF ActionType, Kinds, Types
  <2>2. hb' \in HbType
    <3> DEFINE n == Append(hb.chan, [kind |-> "evict", t |-> t])
               a == [hb EXCEPT !.chan = n]
    <3>1. n \in Seq(ActionType)
      BY <2>1 DEF HbType, Types
    <3>2. hb' = hb \/ hb' = a
      BY <1>15 DEF Complete
    <3> HIDE DEF n
    <3>3. a \in HbType
      BY Zenon, <3>1 DEF HbType, Types
    <3> HIDE DEF a
    <3> QED
      BY <3>2, <3>3 DEF Types
  <2>3. info' \in [Task -> InfoType]
    BY Zenon, <1>15 DEF Complete, InfoType, Types
  <2>4. calls' \in CallsType
    BY <1>15 DEF Complete, CallsType, Types
  <2> QED
    BY <1>15, <2>2, <2>3, <2>4 DEF Complete, Types
<1>16. ASSUME NEW t \in Task, Evicted(t) \/ \E ok \in BOOLEAN : Sent(t, ok)
       PROVE  Types'
  <2>1. calls' \in CallsType
    BY <1>16 DEF Evicted, Sent, CallsType, Types
  <2>2. CASE Evicted(t)
    <3>1. NoInfo \in InfoType
      BY DEF NoInfo, InfoType
    <3> QED
      BY <2>1, <2>2, <3>1 DEF Evicted, Types
  <2>3. ASSUME NEW ok \in BOOLEAN, Sent(t, ok)
        PROVE  Types'
    <3>1. srv' \in SrvType
      BY <2>3 DEF Sent, SrvType, Types
    <3>2. stream' \in StreamType
      BY <2>3 DEF Sent, Notify, StreamType, Types
    <3> QED
      BY <2>1, <2>3, <3>1, <3>2 DEF Sent, Types
  <2> QED
    BY <1>16, <2>2, <2>3
<1>17. CASE InitiateShutdown \/ Shutdown \/ ShutdownActivities
  <2>1. eager' \in EagerType
    BY <1>17, RequestCloseFields
    DEF InitiateShutdown, Initiated, Shutdown, ShutdownActivities, Types
  <2>2. poller' \in PollerType
    BY <1>17 DEF InitiateShutdown, Initiated, Shutdown, ShutdownActivities, Types, PollerType
  <2>3. plan' \in PlanType
    BY <1>17 DEF InitiateShutdown, Initiated, Shutdown, ShutdownActivities, Types, PlanType
  <2> QED
    BY <1>17, <2>1, <2>2, <2>3
    DEF InitiateShutdown, Initiated, Shutdown, ShutdownActivities, Types
<1>18. CASE LockCompleters \/ JoinHeartbeats
  BY <1>18 DEF LockCompleters, JoinHeartbeats, Types
<1>19. CASE StopHeartbeats
  <2> DEFINE a == [hb EXCEPT !.down = TRUE]
             b == [a EXCEPT !.chan = <<>>]
             c == [b EXCEPT !.sleeping = {}]
  <2>1. hb' = c
    BY <1>19 DEF StopHeartbeats
  <2>2. a \in HbType
    BY Zenon DEF HbType, Types
  <2> HIDE DEF a
  <2>3. b \in HbType
    <3>1. <<>> \in Seq(ActionType)
      OBVIOUS
    <3> QED
      BY Zenon, <2>2, <3>1 DEF HbType
  <2> HIDE DEF b
  <2>4. c \in HbType
    BY Zenon, <2>3 DEF HbType, Types
  <2> QED
    BY Zenon, <1>19, <2>1, <2>4 DEF StopHeartbeats, Types
<1>20. CASE UNCHANGED vars
  BY <1>20 DEF vars, Types
<1> QED
  BY <1>1, <1>2, <1>3, <1>4, <1>5, <1>6, <1>7, <1>8, <1>9, <1>10, <1>11, <1>12, <1>13, <1>14,
     <1>15, <1>16, <1>17, <1>18, <1>19, <1>20
  DEF Next, Stream, Heartbeats, Completing, Lang, Ending

-----------------------------------------------------------------------------
(* The heartbeat manager outlives the stream.                              *)

\* The steps that concern neither lang's activities nor their heartbeats.
Aside ==
    \/ StartPoll \/ (\E r \in Task \cup {Empty, Error} : PollReturns(r))
    \/ ReserveCheck \/ Reserve \/ (\E t \in Task : EagerTask(t)) \/ CloseCheck
    \/ TakeCancel \/ EagerEnds \/ (\E t \in Task : LocalTimeout(t))
    \/ (\E t \in Task : ServerCancels(t) \/ ServerCloses(t))
    \/ InitiateShutdown \/ Shutdown \/ ShutdownActivities \/ LockCompleters \/ JoinHeartbeats
    \/ UNCHANGED vars

Starts == TakeEager \/ TakePolled
Moves == StartsEnd \/ CheckOutstanding \/ GraceElapses
Beats ==
    \/ \E t \in Task : RecordHeartbeat(t) \/ ThrottleElapses(t)
    \/ \E t \in Task, ok \in BOOLEAN : ReportReturns(t, ok)

\* The steps, grouped by what they touch.
LEMMA Steps ==
    ASSUME [Next]_vars
    PROVE  Aside \/ Starts \/ Moves \/ Beats \/ HandleAction \/ Lang \/ Completing \/ StopHeartbeats
BY DEF Next, Aside, Starts, Moves, Beats, Stream, Heartbeats, Ending

\* Polls and reservations do not touch the outstanding tasks.
LEMMA AsideFrame ==
    ASSUME Aside
    PROVE  UNCHANGED <<live, hb, calls, stream>>
BY Zenon DEF Aside, StartPoll, PollReturns, ReserveCheck, Reserve, ReserveAdd, ReserveTry, EagerDeclined,
       EagerTask, CloseCheck, TakeCancel, EagerEnds, LocalTimeout, ServerCancels, ServerCloses,
       InitiateShutdown, Shutdown, ShutdownActivities, LockCompleters, JoinHeartbeats, vars

\* A task that starts is the first of one of the two queues.
LEMMA StartsFrame ==
    ASSUME Types, Starts
    PROVE  /\ Polled /\ UNCHANGED <<srv, hb, calls, stream>>
           /\ \/ UNCHANGED <<live, info, cancels>> /\ eager'.chan = eager.chan
                 /\ poller.buffer # <<>> /\ poller'.buffer = Tail(poller.buffer)
              \/ /\ poller.buffer # <<>> /\ Head(poller.buffer) \in Task
                 /\ Started(Head(poller.buffer))
                 /\ eager'.chan = eager.chan /\ poller'.buffer = Tail(poller.buffer)
              \/ /\ eager.chan # <<>> /\ Head(eager.chan) \in Task /\ Started(Head(eager.chan))
                 /\ eager'.chan = Tail(eager.chan) /\ poller'.buffer = poller.buffer
<1>1. CASE TakeEager
  <2>1. DropTracked(eager) \in EagerType /\ DropTracked(eager).chan = eager.chan
    BY DropTrackedFields DEF Types
  <2>2. eager.chan \in Seq(Task) /\ eager.chan # <<>>
    BY <1>1 DEF TakeEager, EagerType, Types
  <2>3. Head(eager.chan) \in Task
    BY <2>2
  <2> DEFINE d == DropTracked(eager)
  <2>4. eager' = [d EXCEPT !.chan = Tail(d.chan)]
    BY <1>1 DEF TakeEager
  <2> HIDE DEF d
  <2>5. eager'.chan = Tail(d.chan)
    BY <2>1, <2>4 DEF EagerType, d
  <2> QED
    BY <1>1, <2>1, <2>2, <2>3, <2>5 DEF TakeEager, d
<1>2. CASE TakePolled
  <2> DEFINE r == Head(poller.buffer)
             rest == [poller EXCEPT !.buffer = Tail(@)]
             none == [rest EXCEPT !.polls = 0]
  <2>1. rest \in [polls : Int, buffer : {Tail(poller.buffer)}]
    BY DEF Types, PollerType
  <2>2. none.buffer = rest.buffer /\ rest.buffer = Tail(poller.buffer)
    BY <2>1
  <2>3. /\ Polled /\ UNCHANGED <<srv, hb, calls, stream>> /\ poller.buffer # <<>>
        /\ \/ r \in Task /\ Started(r) /\ poller' = rest /\ eager' = eager
           \/ poller' = rest /\ UNCHANGED <<live, info, cancels>> /\ eager' = eager
           \/ poller' = none /\ UNCHANGED <<live, info, cancels>> /\ eager' = RequestClose(eager)
    BY <1>2 DEF TakePolled
  <2>4. eager'.chan = eager.chan
    BY <2>3, RequestCloseFields DEF Types
  <2> HIDE DEF rest, none
  <2> QED
    BY <2>2, <2>3, <2>4
<1> QED
  BY <1>1, <1>2 DEF Starts

\* Steps of the heartbeat manager do not touch the outstanding tasks.
LEMMA BeatsFrame ==
    ASSUME Types, Beats
    PROVE  UNCHANGED <<live, calls, stream, info, poller, eager, srv>> /\ hb'.down = hb.down
<1>1. UNCHANGED <<live, calls, stream, info, poller, eager, srv>>
  BY Zenon DEF Beats, RecordHeartbeat, ThrottleElapses, ReportReturns
<1>2. \A t \in Task : RecordHeartbeat(t) => hb'.down = hb.down
  BY DEF RecordHeartbeat, Types, HbType
<1>3. \A t \in Task : ThrottleElapses(t) => hb'.down = hb.down
  <2> SUFFICES ASSUME NEW t \in Task, ThrottleElapses(t) PROVE hb'.down = hb.down
    OBVIOUS
  <2> DEFINE a == [hb EXCEPT !.sleeping = @ \ {t}]
             n == Append(hb.chan, [kind |-> "throttled", t |-> t])
  <2>1. a \in HbType /\ a.down = hb.down
    BY Zenon DEF Types, HbType
  <2>2. hb' = [a EXCEPT !.chan = n]
    BY DEF ThrottleElapses
  <2> HIDE DEF a, n
  <2> QED
    BY <2>1, <2>2 DEF HbType
<1>4. \A t \in Task, ok \in BOOLEAN : ReportReturns(t, ok) => hb'.down = hb.down
  <2> SUFFICES ASSUME NEW t \in Task, NEW ok \in BOOLEAN, ReportReturns(t, ok)
               PROVE  hb'.down = hb.down
    OBVIOUS
  <2> DEFINE f == [hb.reports EXCEPT ![t] = @ - 1]
             a == [hb EXCEPT !.reports = f]
             n == Append(hb.chan, [kind |-> "reported", t |-> t])
  <2>1. hb' = [a EXCEPT !.chan = n]
    BY DEF ReportReturns
  <2> HIDE DEF f, n
  <2>2. DOMAIN a = DOMAIN hb /\ a.down = hb.down /\ "down" \in DOMAIN hb
    BY DEF Types, HbType
  <2> HIDE DEF a
  <2> QED
    BY <2>1, <2>2
<1> QED
  BY <1>1, <1>2, <1>3, <1>4 DEF Beats

\* Once the stream has ended, every step keeps what has ended as it is.
LEMMA EndedStep ==
    ASSUME Types, Ended, [Next]_vars
    PROVE  Ended'
<1>1. CASE Aside
  BY <1>1, AsideFrame DEF Ended
<1>2. CASE Starts
  <2>1. Polled /\ UNCHANGED <<hb, stream>>
    BY <1>2, StartsFrame
  <2> QED
    BY <2>1 DEF Ended, Polled
<1>3. CASE Moves
  BY <1>3 DEF Moves, StartsEnd, CheckOutstanding, GraceElapses, Ended, Types, StreamType
<1>4. CASE Beats
  BY <1>4, BeatsFrame DEF Ended
<1>5. CASE HandleAction
  <2>1. hb'.down = hb.down
    BY ZenonT(40), <1>5, HandleFields DEF Handles
  <2> QED
    BY <1>5, <2>1 DEF HandleAction, Ended
<1>6. CASE Lang
  <2>1. PICK t \in live : Complete(t)
    BY <1>6 DEF Lang
  <2>2. hb'.down = hb.down
    BY <2>1 DEF Complete, Types, HbType
  <2> QED
    BY <2>1, <2>2 DEF Complete, Ended
<1>7. CASE Completing
  BY <1>7 DEF Completing, Evicted, Sent, Notify, Ended, Types, StreamType
<1>8. CASE StopHeartbeats
  <2>1. stream.phase = "ended" /\ UNCHANGED <<live, stream>>
    BY <1>8 DEF StopHeartbeats
  <2> QED
    BY <2>1 DEF Ended
<1> QED
  BY <1>1, <1>2, <1>3, <1>4, <1>5, <1>6, <1>7, <1>8, Steps

-----------------------------------------------------------------------------
(* A task is handed out once.                                              *)

\* A completion, once begun, stays so: only complete begins one.
LEMMA CallsBegun ==
    ASSUME Types, Throttled, [Next]_vars, ~ Lang
    PROVE  \A t \in Task : calls'[t] = "none" <=> calls[t] = "none"
<1>1. CASE Aside \/ Starts \/ Moves \/ Beats \/ StopHeartbeats
  <2>1. calls' = calls
    BY <1>1, AsideFrame, StartsFrame, BeatsFrame
    DEF Moves, StartsEnd, CheckOutstanding, GraceElapses, StopHeartbeats
  <2> QED
    BY <2>1
<1>2. CASE HandleAction
  <2> DEFINE m == Head(hb.chan)
  <2>1. m \in ActionType /\ ~ hb.down /\ hb.chan # <<>> /\ hb.chan \in Seq(ActionType)
    BY <1>2, HandleFields DEF HandleAction, Types, HbType
  <2>2. m.t \in Task /\ m = [kind |-> m.kind, t |-> m.t] /\ m = hb.chan[1] /\ 1 \in DOMAIN hb.chan
    BY <2>1 DEF ActionType
  <2>3. m.kind = "evict" => calls[m.t] # "none"
    BY Zenon, <2>1, <2>2 DEF Throttled, InOrder
  <2>4. m.t \in hb.flush => calls[m.t] # "none"
    BY DEF Throttled
  <2>5. calls' = calls
        \/ ((m.kind = "evict" \/ m.t \in hb.flush) /\ calls' = [calls EXCEPT ![m.t] = "evicted"])
    BY <1>2 DEF HandleAction, Answered
  <2> HIDE DEF m
  <2> QED
    BY <2>2, <2>3, <2>4, <2>5 DEF Types, CallsType
<1>3. CASE Completing
  BY <1>3 DEF Completing, Evicted, Sent, Types, CallsType
<1> QED
  BY <1>1, <1>2, <1>3, Steps

\* Neither queue changes but where a task enters it.
LEMMA AsideQueues ==
    ASSUME Types, Aside
    PROVE  \/ UNCHANGED <<poller.buffer, eager.chan>>
              /\ \A t \in Task : srv'[t] = "new" <=> srv[t] = "new"
           \/ \E r \in Task \cup {Empty, Error} :
                /\ poller'.buffer = Append(poller.buffer, r) /\ eager'.chan = eager.chan
                /\ \/ r \in Task /\ srv[r] = "new" /\ srv' = [srv EXCEPT ![r] = "open"]
                   \/ r \notin Task /\ srv' = srv
           \/ \E t \in Task :
                /\ eager'.chan = Append(eager.chan, t) /\ poller'.buffer = poller.buffer
                /\ srv[t] = "new" /\ srv' = [srv EXCEPT ![t] = "open"]
           \/ \E t \in Task :
                /\ UNCHANGED <<poller.buffer, eager.chan>>
                /\ srv[t] = "new" /\ srv' = [srv EXCEPT ![t] = "open"]
<1>1. CASE StartPoll
  BY <1>1 DEF StartPoll, Types, PollerType
<1>2. ASSUME NEW r \in Task \cup {Empty, Error}, PollReturns(r)
      PROVE  \/ UNCHANGED <<poller.buffer, eager.chan>>
                /\ \A t \in Task : srv'[t] = "new" <=> srv[t] = "new"
             \/ \E q \in Task \cup {Empty, Error} :
                  /\ poller'.buffer = Append(poller.buffer, q) /\ eager'.chan = eager.chan
                  /\ \/ q \in Task /\ srv[q] = "new" /\ srv' = [srv EXCEPT ![q] = "open"]
                     \/ q \notin Task /\ srv' = srv
  <2>1. poller'.buffer = Append(poller.buffer, r) /\ eager'.chan = eager.chan
    BY <1>2 DEF PollReturns
  <2>2. plan.tasks \subseteq Task /\ plan.failing \subseteq {Empty, Error}
    BY DEF Types, PlanType
  <2>3. \/ r \in Task /\ srv[r] = "new" /\ srv' = [srv EXCEPT ![r] = "open"]
        \/ r \notin Task /\ srv' = srv
    BY <1>2, <2>2, TaskAssumption DEF PollReturns
  <2> QED
    BY <2>1, <2>3
<1>3. CASE ReserveCheck \/ EagerEnds
  BY <1>3 DEF ReserveCheck, EagerEnds, Types, EagerType
<1>4. CASE Reserve
  <2>1. eager'.chan = eager.chan
    <3>1. CASE ReserveAdd
      <4> DEFINE a == [eager EXCEPT !.pc = "added"]
      <4>1. a \in EagerType /\ a.chan = eager.chan
        BY DEF Types, EagerType
      <4>2. eager' = [a EXCEPT !.count = eager.count + 1]
        BY <3>1 DEF ReserveAdd
      <4> HIDE DEF a
      <4> QED
        BY <4>1, <4>2 DEF EagerType
    <3>2. CASE ReserveTry
      <4> DEFINE a == [eager EXCEPT !.pc = "idle"]
                 b == [eager EXCEPT !.pc = "holds"]
      <4>1. a \in EagerType /\ a.chan = eager.chan /\ b.chan = eager.chan
        BY DEF Types, EagerType
      <4>2. eager' = b \/ eager' = [a EXCEPT !.count = eager.count - 1]
        BY <3>2 DEF ReserveTry
      <4> HIDE DEF a, b
      <4> QED
        BY <4>1, <4>2 DEF EagerType
    <3>3. CASE EagerDeclined
      <4>1. DropTracked(eager) \in EagerType /\ DropTracked(eager).chan = eager.chan
        BY DropTrackedFields DEF Types
      <4> QED
        BY <3>3, <4>1 DEF EagerDeclined, EagerType
    <3> QED
      BY <1>4, <3>1, <3>2, <3>3 DEF Reserve
  <2>2. UNCHANGED <<poller, srv>>
    BY <1>4 DEF Reserve, ReserveAdd, ReserveTry, EagerDeclined
  <2> QED
    BY <2>1, <2>2
<1>5. ASSUME NEW t \in Task, EagerTask(t)
      PROVE  /\ \/ eager'.chan = Append(eager.chan, t) \/ eager'.chan = eager.chan
             /\ poller'.buffer = poller.buffer
             /\ srv[t] = "new" /\ srv' = [srv EXCEPT ![t] = "open"]
  <2>1. DropTracked(eager) \in EagerType /\ DropTracked(eager).chan = eager.chan
    BY DropTrackedFields DEF Types
  <2> DEFINE a == [eager EXCEPT !.pc = "idle"]
             b == [DropTracked(eager) EXCEPT !.pc = "panicked"]
             n == Append(eager.chan, t)
  <2>2. a \in EagerType /\ a.chan = eager.chan /\ b.chan = eager.chan
    BY <2>1 DEF Types, EagerType
  <2>3. eager' = b \/ eager' = [a EXCEPT !.chan = n]
    BY <1>5 DEF EagerTask
  <2> HIDE DEF a, b, n
  <2>4. eager'.chan = n \/ eager'.chan = eager.chan
    BY <2>2, <2>3 DEF EagerType
  <2> QED
    BY <1>5, <2>4 DEF EagerTask, n
<1>6. CASE CloseCheck
  <2> DEFINE a == [eager EXCEPT !.check = FALSE]
             c == eager.complete \/ eager.count = 0
  <2>1. a \in EagerType /\ a.chan = eager.chan
    BY Zenon DEF Types, EagerType
  <2>2. eager' = [a EXCEPT !.complete = c]
    BY <1>6 DEF CloseCheck
  <2> HIDE DEF a, c
  <2>3. eager'.chan = eager.chan
    BY <2>1, <2>2 DEF EagerType
  <2> QED
    BY <1>6, <2>3 DEF CloseCheck
<1>7. CASE TakeCancel \/ (\E t \in Task : LocalTimeout(t)) \/ LockCompleters \/ JoinHeartbeats
           \/ UNCHANGED vars
  BY Zenon, <1>7 DEF TakeCancel, LocalTimeout, LockCompleters, JoinHeartbeats, vars
<1>8. CASE \E t \in Task : ServerCancels(t) \/ ServerCloses(t)
  BY <1>8 DEF ServerCancels, ServerCloses, Types, SrvType
<1>9. CASE InitiateShutdown \/ Shutdown \/ ShutdownActivities
  <2>1. eager'.chan = eager.chan
    BY <1>9, RequestCloseFields
    DEF InitiateShutdown, Initiated, Shutdown, ShutdownActivities, Types
  <2>2. poller'.buffer = poller.buffer
    BY <1>9 DEF InitiateShutdown, Initiated, Shutdown, ShutdownActivities, Types, PollerType
  <2> QED
    BY <1>9, <2>1, <2>2 DEF InitiateShutdown, Initiated, Shutdown, ShutdownActivities
<1> QED
  BY ZenonT(40), <1>1, <1>2, <1>3, <1>4, <1>5, <1>6, <1>7, <1>8, <1>9 DEF Aside

\* The elements of a queue a value is added to, or its first taken from.
LEMMA Queues ==
    ASSUME NEW S, NEW q \in Seq(S), NEW x \in S
    PROVE  /\ DOMAIN q = 1 .. Len(q) /\ Len(q) \in Nat
           /\ DOMAIN Append(q, x) = 1 .. Len(q) + 1
           /\ \A i \in 1 .. Len(q) : Append(q, x)[i] = q[i] /\ q[i] \in S
           /\ Append(q, x)[Len(q) + 1] = x
           /\ q # <<>> => /\ 1 \in DOMAIN q /\ Head(q) = q[1] /\ DOMAIN Tail(q) = 1 .. Len(q) - 1
                          /\ \A i \in 1 .. Len(q) - 1 : Tail(q)[i] = q[i + 1] /\ i + 1 \in DOMAIN q
OBVIOUS

\* Every step keeps a task in one place.
LEMMA OnceStep ==
    ASSUME Types, Once, Throttled, [Next]_vars
    PROVE  Once'
<1> DEFINE b == poller.buffer
           q == eager.chan
<1>1. /\ b \in Seq(Task \cup {Empty, Error}) /\ q \in Seq(Task)
      /\ live \subseteq Task /\ srv \in SrvType /\ calls \in CallsType
  BY DEF Types, PollerType, EagerType
<1>2. CASE Aside
  <2>1. UNCHANGED <<live, calls>>
    BY <1>2, AsideFrame
  <2>2. CASE UNCHANGED <<b, q>> /\ \A t \in Task : srv'[t] = "new" <=> srv[t] = "new"
    BY <2>1, <2>2 DEF Once, Queued
  <2>3. ASSUME NEW r \in Task \cup {Empty, Error},
               b' = Append(b, r), q' = q,
               \/ r \in Task /\ srv[r] = "new" /\ srv' = [srv EXCEPT ![r] = "open"]
               \/ r \notin Task /\ srv' = srv
        PROVE  Once'
    <3>1. /\ DOMAIN b = 1 .. Len(b) /\ Len(b) \in Nat /\ DOMAIN b' = 1 .. Len(b) + 1
          /\ \A i \in 1 .. Len(b) : b'[i] = b[i]
          /\ b'[Len(b) + 1] = r
      BY <1>1, <2>3, Queues
    <3>2. \A t \in Task : /\ t # r => (Queued(t)' <=> Queued(t)) /\ srv'[t] = srv[t]
                          /\ t = r => srv'[t] # "new" /\ srv[t] = "new"
      BY <1>1, <2>3, <3>1 DEF Queued, SrvType
    <3>3. r \in Task => ~ Queued(r) /\ r \notin live /\ calls[r] = "none"
      BY <2>3 DEF Once
    <3>4. \A t \in Task :
            /\ srv'[t] = "new" => ~ Queued(t)' /\ t \notin live' /\ calls'[t] = "none"
            /\ Queued(t)' => t \notin live' /\ calls'[t] = "none"
            /\ t \in live' => calls'[t] = "none"
      BY <2>1, <3>2, <3>3 DEF Once
    <3>5. \A i \in DOMAIN b : b[i] = r => r \notin Task
      BY <3>3 DEF Queued
    <3>6. \A i, j \in DOMAIN b' : b'[i] = b'[j] /\ b'[i] \in Task => i = j
      BY <3>1, <3>5 DEF Once
    <3>7. \A i \in DOMAIN b', j \in DOMAIN q' : b'[i] # q'[j]
      <4>1. \A j \in DOMAIN q : q[j] # r
        BY <1>1, <3>3, Queues DEF Queued
      <4> QED
        BY <2>3, <3>1, <4>1 DEF Once
    <3> QED
      BY <2>3, <3>4, <3>6, <3>7 DEF Once
  <2>4. ASSUME NEW r \in Task, q' = Append(q, r), b' = b,
               srv[r] = "new", srv' = [srv EXCEPT ![r] = "open"]
        PROVE  Once'
    <3>1. /\ DOMAIN q = 1 .. Len(q) /\ Len(q) \in Nat /\ DOMAIN q' = 1 .. Len(q) + 1
          /\ \A i \in 1 .. Len(q) : q'[i] = q[i]
          /\ q'[Len(q) + 1] = r
      BY <1>1, <2>4, Queues
    <3>2. \A t \in Task : /\ t # r => (Queued(t)' <=> Queued(t)) /\ srv'[t] = srv[t]
                          /\ t = r => srv'[t] # "new"
      BY <1>1, <2>4, <3>1 DEF Queued, SrvType
    <3>3. ~ Queued(r) /\ r \notin live /\ calls[r] = "none"
      BY <2>4 DEF Once
    <3>4. \A t \in Task :
            /\ srv'[t] = "new" => ~ Queued(t)' /\ t \notin live' /\ calls'[t] = "none"
            /\ Queued(t)' => t \notin live' /\ calls'[t] = "none"
            /\ t \in live' => calls'[t] = "none"
      BY <2>1, <3>2, <3>3 DEF Once
    <3>5. (\A i \in DOMAIN b : b[i] # r) /\ (\A i \in DOMAIN q : q[i] # r)
      BY <3>3 DEF Queued
    <3>6. \A i, j \in DOMAIN q' : q'[i] = q'[j] => i = j
      BY <3>1, <3>5 DEF Once
    <3>7. \A i \in DOMAIN b', j \in DOMAIN q' : b'[i] # q'[j]
      BY <2>4, <3>1, <3>5 DEF Once
    <3> QED
      BY <2>4, <3>4, <3>6, <3>7 DEF Once
  <2>5. ASSUME NEW r \in Task, UNCHANGED <<b, q>>, srv[r] = "new",
               srv' = [srv EXCEPT ![r] = "open"]
        PROVE  Once'
    BY <1>1, <2>1, <2>5 DEF Once, Queued, SrvType
  <2> HIDE DEF b, q
  <2> QED
    BY <1>2, <2>2, <2>3, <2>4, <2>5, AsideQueues DEF b, q
<1>3. CASE Starts
  <2>1. UNCHANGED <<srv, calls>>
    BY <1>3, StartsFrame
  <2>2. CASE live' = live /\ q' = q /\ b # <<>> /\ b' = Tail(b)
    <3>1. /\ DOMAIN b = 1 .. Len(b) /\ Len(b) \in Nat /\ DOMAIN b' = 1 .. Len(b) - 1
          /\ \A i \in 1 .. Len(b) - 1 : b'[i] = b[i + 1] /\ i + 1 \in DOMAIN b
      BY <1>1, <2>2, Queues
    <3>2. \A t \in Task : Queued(t)' => Queued(t)
      BY <2>2, <3>1 DEF Queued
    <3>3. \A i, j \in DOMAIN b' : b'[i] = b'[j] /\ b'[i] \in Task => i = j
      <4> SUFFICES ASSUME NEW i \in DOMAIN b', NEW j \in DOMAIN b', b'[i] = b'[j], b'[i] \in Task
                   PROVE  i = j
        OBVIOUS
      <4>1. i \in 1 .. Len(b) - 1 /\ j \in 1 .. Len(b) - 1
        BY <3>1
      <4>2. b[i + 1] = b[j + 1] /\ i + 1 \in DOMAIN b /\ j + 1 \in DOMAIN b /\ b'[i] = b[i + 1]
        BY Zenon, <3>1, <4>1
      <4>3. i + 1 = j + 1
        BY <4>2 DEF Once
      <4> QED
        BY <3>1, <4>1, <4>3
    <3>4. \A i \in DOMAIN b', j \in DOMAIN q' : b'[i] # q'[j]
      BY <2>2, <3>1 DEF Once
    <3> QED
      BY Zenon, <2>1, <2>2, <3>2, <3>3, <3>4 DEF Once
  <2>3. CASE b # <<>> /\ Head(b) \in Task /\ live' = live \cup {Head(b)} /\ q' = q /\ b' = Tail(b)
    <3>1. /\ DOMAIN b = 1 .. Len(b) /\ Len(b) \in Nat /\ DOMAIN b' = 1 .. Len(b) - 1
          /\ \A i \in 1 .. Len(b) - 1 : b'[i] = b[i + 1] /\ i + 1 \in DOMAIN b
          /\ 1 \in DOMAIN b /\ Head(b) = b[1]
      BY <1>1, <2>3, Queues
    <3>2. \A t \in Task : Queued(t)' => Queued(t) /\ t # b[1]
      BY <2>3, <3>1 DEF Queued, Once
    <3>3. Queued(b[1]) /\ b[1] \in Task
      BY <2>3, <3>1 DEF Queued
    <3>4. \A i, j \in DOMAIN b' : b'[i] = b'[j] /\ b'[i] \in Task => i = j
      <4> SUFFICES ASSUME NEW i \in DOMAIN b', NEW j \in DOMAIN b', b'[i] = b'[j], b'[i] \in Task
                   PROVE  i = j
        OBVIOUS
      <4>1. i \in 1 .. Len(b) - 1 /\ j \in 1 .. Len(b) - 1
        BY <3>1
      <4>2. b[i + 1] = b[j + 1] /\ i + 1 \in DOMAIN b /\ j + 1 \in DOMAIN b /\ b'[i] = b[i + 1]
        BY <3>1, <4>1
      <4>3. i + 1 = j + 1
        BY <4>2 DEF Once
      <4> QED
        BY <3>1, <4>1, <4>3
    <3>5. \A i \in DOMAIN b', j \in DOMAIN q' : b'[i] # q'[j]
      BY <2>3, <3>1 DEF Once
    <3>6. live' = live \cup {b[1]}
      BY <2>3, <3>1
    <3>7. \A t \in Task :
            /\ srv'[t] = "new" => ~ Queued(t)' /\ t \notin live' /\ calls'[t] = "none"
            /\ Queued(t)' => t \notin live' /\ calls'[t] = "none"
            /\ t \in live' => calls'[t] = "none"
      BY <2>1, <3>2, <3>3, <3>6 DEF Once
    <3> QED
      BY <2>3, <3>4, <3>5, <3>7 DEF Once
  <2>4. CASE q # <<>> /\ Head(q) \in Task /\ live' = live \cup {Head(q)} /\ b' = b /\ q' = Tail(q)
    <3>1. /\ DOMAIN q = 1 .. Len(q) /\ Len(q) \in Nat /\ DOMAIN q' = 1 .. Len(q) - 1
          /\ \A i \in 1 .. Len(q) - 1 : q'[i] = q[i + 1] /\ i + 1 \in DOMAIN q
          /\ 1 \in DOMAIN q /\ Head(q) = q[1]
      BY <1>1, <2>4, Queues
    <3>2. \A t \in Task : Queued(t)' => Queued(t) /\ t # q[1]
      BY <2>4, <3>1 DEF Queued, Once
    <3>3. Queued(q[1]) /\ q[1] \in Task
      BY ZenonT(40), <2>4, <3>1 DEF Queued
    <3>4. \A i, j \in DOMAIN q' : q'[i] = q'[j] => i = j
      <4> SUFFICES ASSUME NEW i \in DOMAIN q', NEW j \in DOMAIN q', q'[i] = q'[j]
                   PROVE  i = j
        OBVIOUS
      <4>1. i \in 1 .. Len(q) - 1 /\ j \in 1 .. Len(q) - 1
        BY <3>1
      <4>2. q[i + 1] = q[j + 1] /\ i + 1 \in DOMAIN q /\ j + 1 \in DOMAIN q /\ q'[i] = q[i + 1]
        BY Zenon, <3>1, <4>1
      <4>3. i + 1 = j + 1
        BY Zenon, <4>2 DEF Once
      <4> QED
        BY <3>1, <4>1, <4>3
    <3>5. \A i \in DOMAIN b', j \in DOMAIN q' : b'[i] # q'[j]
      BY <2>4, <3>1 DEF Once
    <3>6. live' = live \cup {q[1]}
      BY <2>4, <3>1
    <3>7. \A t \in Task :
            /\ srv'[t] = "new" => ~ Queued(t)' /\ t \notin live' /\ calls'[t] = "none"
            /\ Queued(t)' => t \notin live' /\ calls'[t] = "none"
            /\ t \in live' => calls'[t] = "none"
      BY Zenon, <2>1, <3>2, <3>3, <3>6 DEF Once
    <3> QED
      BY ZenonT(40), <2>4, <3>4, <3>5, <3>7 DEF Once
  <2> QED
    BY <1>3, <2>2, <2>3, <2>4, StartsFrame DEF Started
<1>4. CASE Moves \/ Beats \/ HandleAction \/ Completing \/ StopHeartbeats
  <2>1. UNCHANGED <<b, q, live>>
    BY <1>4, BeatsFrame DEF Moves, StartsEnd, CheckOutstanding, GraceElapses, HandleAction,
                            Completing, Evicted, Sent, StopHeartbeats
  <2>2. \A t \in Task : srv'[t] = "new" => srv[t] = "new"
    BY <1>4, <1>1, BeatsFrame DEF Moves, StartsEnd, CheckOutstanding, GraceElapses, HandleAction,
                            Completing, Evicted, Sent, StopHeartbeats, SrvType
  <2>3. ~ Lang
    BY Zenon, <2>1 DEF Lang, Complete
  <2>4. \A t \in Task : calls'[t] = "none" <=> calls[t] = "none"
    BY <2>3, CallsBegun
  <2> QED
    BY <2>1, <2>2, <2>4 DEF Once, Queued
<1>5. CASE Lang
  <2>1. PICK t \in live : Complete(t)
    BY <1>5 DEF Lang
  <2>2. UNCHANGED <<b, q, srv>> /\ live' = live \ {t} /\ calls' = [calls EXCEPT ![t] = "evicting"]
    BY <2>1 DEF Complete
  <2>3. ~ Queued(t) /\ srv[t] # "new"
    BY ZenonT(40), <1>1, <2>1 DEF Once
  <2>4. \A u \in Task : u # t => calls'[u] = calls[u]
    BY <1>1, <2>2 DEF CallsType
  <2>5. \A u \in Task : Queued(u)' <=> Queued(u)
    BY <2>2 DEF Queued
  <2> QED
    BY <1>1, <2>2, <2>3, <2>4, <2>5 DEF Once
<1> QED
  BY <1>2, <1>3, <1>4, <1>5, Steps

\* Every step keeps the outstanding map finite.
LEMMA FiniteStep ==
    ASSUME Types, LiveFinite, [Next]_vars
    PROVE  LiveFinite'
<1>1. CASE live' = live
  BY <1>1 DEF LiveFinite
<1>2. CASE Starts
  <2>1. live' = live \/ \E t \in Task : live' = live \cup {t}
    BY <1>2, StartsFrame DEF Started
  <2> QED
    BY <2>1, FS_AddElement DEF LiveFinite
<1>3. CASE Lang
  <2>1. PICK t \in live : live' = live \ {t}
    BY <1>3 DEF Lang, Complete
  <2> QED
    BY <2>1, FS_RemoveElement DEF LiveFinite
<1> QED
  BY <1>1, <1>2, <1>3, Steps, AsideFrame, BeatsFrame
  DEF Moves, StartsEnd, CheckOutstanding, GraceElapses, HandleAction, Completing, Evicted, Sent,
      StopHeartbeats

-----------------------------------------------------------------------------
(* After the grace period every activity lang has was cancelled.           *)

Told(t) == info[t].issued # "no" \/ \E i \in DOMAIN cancels : cancels[i].t = t

\* A cancel that is added, or handed to lang, leaves the activities that were told so.
LEMMA ToldAppend ==
    ASSUME Types, NEW c \in CancelType, cancels' = Append(cancels, c),
           NEW t \in Task, Told(t), info'[t].issued = info[t].issued
    PROVE  Told(t)'
<1>1. cancels \in Seq(CancelType)
  BY DEF Types
<1>2. DOMAIN cancels = 1 .. Len(cancels) /\ Len(cancels) \in Nat
      /\ DOMAIN cancels' = 1 .. Len(cancels) + 1
      /\ \A i \in 1 .. Len(cancels) : cancels'[i] = cancels[i]
  BY <1>1, Queues
<1> QED
  BY <1>2 DEF Told

\* Lang taking a cancel from the channel does not untell task t.
LEMMA ToldTaken ==
    ASSUME Types, TakeCancel, NEW t \in live, Told(t)
    PROVE  Told(t)'
<1> DEFINE c == Head(cancels)
<1>1. cancels \in Seq(CancelType) /\ cancels # <<>> /\ cancels' = Tail(cancels)
      /\ live \subseteq Task /\ info \in [Task -> InfoType]
  BY DEF Types, TakeCancel
<1>2. /\ DOMAIN cancels = 1 .. Len(cancels) /\ Len(cancels) \in Nat
      /\ 1 \in DOMAIN cancels /\ c = cancels[1] /\ DOMAIN cancels' = 1 .. Len(cancels) - 1
      /\ \A i \in 1 .. Len(cancels) - 1 : cancels'[i] = cancels[i + 1]
  BY <1>1, Queues DEF CancelType
<1>3. c \in CancelType
  BY <1>1
<1>4. c.t \in Task /\ c.reason \in Reasons /\ c.reason # "no"
  BY <1>3 DEF CancelType, Reasons
<1>5. \/ info' = info /\ (c.t \notin live \/ info[c.t].issued # "no")
      \/ /\ \A u \in Task : u # c.t => info'[u] = info[u]
         /\ info'[c.t].issued # "no"
  <2>1. CASE c.t \in live /\ info[c.t].issued = "no"
    <3> DEFINE n == [issued |-> c.reason, timer |-> info[c.t].timer,
                     notFound |-> info[c.t].notFound \/ c.reason \in {"NotFound", "TimedOut"}]
    <3>1. info' = [info EXCEPT ![c.t] = n]
      BY <2>1 DEF TakeCancel
    <3>2. n.issued = c.reason
      OBVIOUS
    <3> HIDE DEF n, c
    <3> QED
      BY <1>1, <1>4, <3>1, <3>2
  <2>2. CASE ~ (c.t \in live /\ info[c.t].issued = "no")
    BY Zenon, <2>2 DEF TakeCancel
  <2> QED
    BY Zenon, <2>1, <2>2
<1>6. CASE t = c.t
  BY <1>5, <1>6 DEF Told
<1>7. CASE t # c.t
  <2>1. info'[t] = info[t]
    BY <1>1, <1>5, <1>7
  <2>2. CASE info[t].issued # "no"
    BY <2>1, <2>2 DEF Told
  <2>3. ASSUME NEW i \in DOMAIN cancels, cancels[i].t = t
        PROVE  Told(t)'
    <3>1. i # 1 /\ i - 1 \in 1 .. Len(cancels) - 1
      BY <1>2, <1>7, <2>3
    <3>2. cancels'[i - 1] = cancels[i] /\ i - 1 \in DOMAIN cancels'
      BY <1>2, <3>1
    <3> QED
      BY <2>3, <3>2 DEF Told
  <2> QED
    BY <2>2, <2>3 DEF Told
<1> QED
  BY <1>6, <1>7

\* A task that starts after the grace period is told at once.
LEMMA ToldStarted ==
    ASSUME Types, CancelledAfterGrace, NEW s \in Task, Started(s), stream' = stream
    PROVE  CancelledAfterGrace'
<1> SUFFICES ASSUME stream.immediate, NEW t \in live' PROVE Told(t)'
  BY DEF CancelledAfterGrace, Told
<1> DEFINE c == [t |-> s, reason |-> "WorkerShutdown"]
<1>1. cancels' = Append(cancels, c) /\ live' = live \cup {s} /\ cancels \in Seq(CancelType)
      /\ live \subseteq Task
  BY DEF Started, Types
<1>2. c \in CancelType /\ c.t = s
  BY DEF CancelType, Reasons
<1> HIDE DEF c
<1>3. Len(cancels) + 1 \in DOMAIN cancels' /\ cancels'[Len(cancels) + 1] = c
  BY <1>1, <1>2, Queues
<1>4. CASE t = s
  BY <1>2, <1>3, <1>4 DEF Told
<1>5. CASE t # s
  <2>1. t \in live /\ t \in Task /\ Told(t)
    BY <1>1, <1>5 DEF CancelledAfterGrace, Told
  <2>2. info'[t] = info[t]
    BY <1>5, <2>1 DEF Started, Types
  <2> QED
    BY ZenonT(40), <1>1, <1>2, <2>1, <2>2, ToldAppend
<1> QED
  BY <1>4, <1>5

\* The end of the grace period tells all outstanding tasks.
LEMMA ToldGrace ==
    ASSUME Types, LiveFinite, GraceElapses
    PROVE  CancelledAfterGrace'
<1> SUFFICES ASSUME NEW t \in live PROVE Told(t)'
  BY Zenon DEF CancelledAfterGrace, Told, GraceElapses
<1>1. PICK s \in Orders(live) :
        cancels' = cancels \o [i \in DOMAIN s |-> [t |-> s[i], reason |-> "WorkerShutdown"]]
  BY Zenon DEF GraceElapses
<1> DEFINE n == Cardinality(live)
           q == [i \in DOMAIN s |-> [t |-> s[i], reason |-> "WorkerShutdown"]]
<1>2. s \in [1 .. n -> live] /\ DOMAIN s = 1 .. n
  BY DEF Orders
<1>3. PICK i \in 1 .. n : s[i] = t
  BY <1>2 DEF Orders
<1>4. n \in Nat
  BY FS_CardinalityType DEF LiveFinite
<1>5. q \in Seq(CancelType) /\ Len(q) = n /\ q[i].t = t
  <2>1. \A j \in 1 .. n : [t |-> s[j], reason |-> "WorkerShutdown"] \in CancelType
    BY <1>2 DEF CancelType, Reasons, Types
  <2>2. q \in [1 .. n -> CancelType]
    BY <1>2, <2>1
  <2> QED
    BY <1>2, <1>3, <1>4, <2>2
<1> HIDE DEF q
<1>6. cancels \in Seq(CancelType) /\ cancels' = cancels \o q
  BY <1>1 DEF Types, q
<1>7. Len(cancels) + i \in DOMAIN cancels' /\ cancels'[Len(cancels) + i] = q[i]
  BY <1>3, <1>4, <1>5, <1>6
<1> QED
  BY <1>5, <1>7 DEF Told

\* Every step keeps the tasks told that were outstanding when the grace period ended.
LEMMA CancelledStep ==
    ASSUME Types, LiveFinite, Once, CancelledAfterGrace, [Next]_vars
    PROVE  CancelledAfterGrace'
<1>1. CASE GraceElapses
  BY <1>1, ToldGrace
<1>2. CASE Starts
  <2>1. /\ stream' = stream
        /\ \/ UNCHANGED <<live, info, cancels>>
           \/ \E s \in Task : Started(s)
    BY <1>2, StartsFrame
  <2>2. CASE UNCHANGED <<live, info, cancels>>
    BY ZenonT(40), <2>1, <2>2 DEF CancelledAfterGrace
  <2> QED
    BY <2>1, <2>2, ToldStarted
<1>3. ASSUME stream'.immediate = stream.immediate, live' \subseteq live,
             \A t \in live' : Told(t) => Told(t)'
      PROVE  CancelledAfterGrace'
  BY ZenonT(40), <1>3 DEF CancelledAfterGrace, Told
<1>4. CASE TakeCancel
  <2>1. UNCHANGED <<live, stream>>
    BY <1>4 DEF TakeCancel
  <2> QED
    BY <1>3, <1>4, <2>1, ToldTaken
<1>5. CASE Aside /\ ~ TakeCancel
  <2>1. UNCHANGED <<live, stream>>
    BY <1>5, AsideFrame
  <2>2. CASE UNCHANGED <<info, cancels>>
    BY <1>3, <2>1, <2>2 DEF Told
  <2>3. ASSUME NEW u \in Task, LocalTimeout(u)
        PROVE  CancelledAfterGrace'
    <3> DEFINE c == [t |-> u, reason |-> "TimedOut"]
    <3>1. c \in CancelType /\ cancels' = Append(cancels, c)
      BY <2>3 DEF CancelType, Reasons, LocalTimeout
    <3>2. \A t \in Task : info'[t].issued = info[t].issued
      BY <2>3 DEF LocalTimeout, Types, InfoType
    <3> QED
      BY ZenonT(40), <1>3, <2>1, <3>1, <3>2, ToldAppend DEF Types
  <2> QED
    BY Zenon, <1>5, <2>2, <2>3
    DEF Aside, StartPoll, PollReturns, ReserveCheck, Reserve, ReserveAdd, ReserveTry,
        EagerDeclined, EagerTask, CloseCheck, EagerEnds, ServerCancels, ServerCloses,
        InitiateShutdown, Shutdown, ShutdownActivities, LockCompleters, JoinHeartbeats, vars
<1>6. CASE StartsEnd \/ CheckOutstanding \/ HandleAction \/ StopHeartbeats
  <2>1. UNCHANGED <<live, info, cancels>> /\ stream'.immediate = stream.immediate
    BY <1>6 DEF StartsEnd, CheckOutstanding, HandleAction, StopHeartbeats, Types, StreamType
  <2> QED
    BY <1>3, <2>1 DEF Told
<1>7. CASE Beats
  <2>1. UNCHANGED <<live, info, stream>>
    BY <1>7, BeatsFrame
  <2>2. CASE cancels' = cancels
    BY <1>3, <2>1, <2>2 DEF Told
  <2>3. ASSUME NEW c \in CancelType, cancels' = Append(cancels, c)
        PROVE  CancelledAfterGrace'
    BY <1>3, <2>1, <2>3, ToldAppend DEF Types
  <2>4. cancels' = cancels \/ \E c \in CancelType : cancels' = Append(cancels, c)
    <3>1. ASSUME NEW t \in Task
          PROVE  /\ [t |-> t, reason |-> "Cancelled"] \in CancelType
                 /\ [t |-> t, reason |-> "NotFound"] \in CancelType
      BY DEF CancelType, Reasons
    <3> QED
      BY Zenon, <1>7, <3>1 DEF Beats, RecordHeartbeat, ThrottleElapses, ReportReturns
  <2> QED
    BY <2>2, <2>3, <2>4
<1>8. CASE Lang
  <2>1. PICK t \in live : Complete(t)
    BY <1>8 DEF Lang
  <2>2. UNCHANGED <<cancels, stream>> /\ live' \subseteq live
    BY <2>1 DEF Complete
  <2>3. \A u \in Task : info'[u].issued = info[u].issued
    BY <2>1 DEF Complete, Types, InfoType
  <2> QED
    BY <1>3, <2>2, <2>3 DEF Told, Types
<1>9. CASE Completing
  <2>1. PICK t \in Task : Evicted(t) \/ \E ok \in BOOLEAN : Sent(t, ok)
    BY <1>9 DEF Completing
  <2>2. UNCHANGED <<live, cancels>> /\ stream'.immediate = stream.immediate
    BY <2>1 DEF Evicted, Sent, Notify, Types, StreamType
  <2>3. t \in live => info' = info
    BY ZenonT(40), <2>1 DEF Evicted, Sent, Once
  <2>4. \A u \in live : info'[u] = info[u]
    BY <2>1, <2>3 DEF Evicted, Sent, Types
  <2> QED
    BY ZenonT(40), <1>3, <2>2, <2>4 DEF Told
<1> QED
  BY <1>1, <1>2, <1>4, <1>5, <1>6, <1>7, <1>8, <1>9, Steps DEF Moves

-----------------------------------------------------------------------------
(* Reports are throttled.                                                  *)

Fits(t) == InOrder(t) /\ IF Gone(t) THEN AfterEvict(t) ELSE OneAwaited(t)

\* Steps that leave the manager alone keep its reports throttled.
LEMMA ThrottledSame ==
    ASSUME Throttled, hb' = hb, \A t \in Task : calls'[t] = "none" <=> calls[t] = "none",
           hb \in HbType
    PROVE  Throttled'
<1>1. hb.flush \subseteq Task
  BY ZenonT(40) DEF HbType
<1>2. \A t \in Task : InOrder(t)' <=> InOrder(t)
  BY DEF InOrder
<1>3. \A t \in Task : (Gone(t)' <=> Gone(t)) /\ (AfterEvict(t)' <=> AfterEvict(t))
                      /\ (OneAwaited(t)' <=> OneAwaited(t))
  BY ZenonT(40) DEF Gone, AfterEvict, OneAwaited
<1> QED
  BY ZenonT(40), <1>1, <1>2, <1>3 DEF Throttled

\* What an action added to the queue changes for the activities it is not about,
\* and for its own.
LEMMA AddedFits ==
    ASSUME hb.chan \in Seq(ActionType), NEW m \in ActionType, hb'.chan = Append(hb.chan, m),
           NEW u \in Task, calls'[u] = "none" <=> calls[u] = "none",
           hb'.reports[u] = hb.reports[u], u \in hb'.tracked <=> u \in hb.tracked,
           u \in hb'.details <=> u \in hb.details, u \in hb'.sleeping <=> u \in hb.sleeping,
           m.t # u, Fits(u)
    PROVE  Fits(u)'
<1>1. /\ DOMAIN hb.chan = 1 .. Len(hb.chan) /\ Len(hb.chan) \in Nat
      /\ DOMAIN hb'.chan = 1 .. Len(hb.chan) + 1
      /\ \A i \in 1 .. Len(hb.chan) : hb'.chan[i] = hb.chan[i]
      /\ hb'.chan[Len(hb.chan) + 1] = m
  BY Queues
<1>2. \A k \in Kinds : m # [kind |-> k, t |-> u]
  OBVIOUS
<1>3. InOrder(u)'
  BY <1>1, <1>2 DEF InOrder, Fits, Kinds
<1>4. Gone(u)' <=> Gone(u)
  BY <1>1, <1>2 DEF Gone, Kinds
<1>5. Gone(u) => AfterEvict(u)'
  BY <1>1, <1>2 DEF Fits, AfterEvict, Kinds
<1>6. ~ Gone(u) => OneAwaited(u)'
  <2>1. \A i \in DOMAIN hb'.chan : Awaited(hb'.chan[i], u) =>
           i \in DOMAIN hb.chan /\ hb'.chan[i] = hb.chan[i]
    BY <1>1 DEF Awaited
  <2> QED
    BY ZenonT(40), <2>1 DEF Fits, OneAwaited
<1> QED
  BY ZenonT(40), <1>3, <1>4, <1>5, <1>6 DEF Fits

\* The steps that add an action to the queue, one by one.
LEMMA RecordFits ==
    ASSUME Types, Once, NEW t \in Task, RecordHeartbeat(t), \A u \in Task : Fits(u)
    PROVE  \A u \in Task : Fits(u)'
<1> DEFINE m == [kind |-> "send", t |-> t]
           n == Append(hb.chan, m)
<1>1. hb.chan \in Seq(ActionType) /\ m \in ActionType /\ m.t = t
  BY DEF Types, HbType, ActionType, Kinds
<1>2. hb' = [hb EXCEPT !.chan = n] /\ calls' = calls
  BY DEF RecordHeartbeat
<1>3. hb'.chan = Append(hb.chan, m)
      /\ UNCHANGED <<hb.reports, hb.tracked, hb.details, hb.sleeping>>
  BY <1>1, <1>2 DEF Types, HbType
<1>4. \A u \in Task : u # t => Fits(u)'
  BY <1>1, <1>2, <1>3, AddedFits
<1>5. calls[t] = "none"
  BY DEF RecordHeartbeat, Once
<1>6. /\ DOMAIN hb.chan = 1 .. Len(hb.chan) /\ Len(hb.chan) \in Nat
      /\ DOMAIN hb'.chan = 1 .. Len(hb.chan) + 1
      /\ \A i \in 1 .. Len(hb.chan) : hb'.chan[i] = hb.chan[i]
      /\ hb'.chan[Len(hb.chan) + 1] = m
  BY <1>1, <1>3, Queues
<1>7. ~ Gone(t) /\ ~ Gone(t)'
  BY <1>2, <1>5 DEF Gone
<1>8. InOrder(t)'
  BY <1>2, <1>5, <1>6 DEF InOrder, Fits
<1>9. OneAwaited(t)'
  <2>1. OneAwaited(t) /\ ~ Awaited(m, t)
    BY <1>7 DEF Fits, Awaited
  <2>2. \A i \in DOMAIN hb'.chan : Awaited(hb'.chan[i], t) =>
           i \in DOMAIN hb.chan /\ hb'.chan[i] = hb.chan[i]
    BY <1>6, <2>1
  <2> QED
    BY ZenonT(40), <1>3, <2>1, <2>2 DEF OneAwaited
<1> QED
  BY <1>4, <1>7, <1>8, <1>9 DEF Fits

\* The end of a throttling fits in what the manager has of each task.
LEMMA ThrottleFits ==
    ASSUME Types, NEW t \in Task, ThrottleElapses(t), \A u \in Task : Fits(u)
    PROVE  /\ \A u \in Task : Fits(u)'
           /\ hb'.reports = hb.reports /\ hb'.flush = hb.flush
<1> DEFINE m == [kind |-> "throttled", t |-> t]
           n == Append(hb.chan, m)
           a == [hb EXCEPT !.sleeping = @ \ {t}]
<1>1. hb.chan \in Seq(ActionType) /\ m \in ActionType /\ m.t = t
  BY DEF Types, HbType, ActionType, Kinds
<1>2. hb' = [a EXCEPT !.chan = n] /\ calls' = calls /\ t \in hb.sleeping
  BY DEF ThrottleElapses
<1>3. a \in HbType /\ a.sleeping = hb.sleeping \ {t} /\ a.reports = hb.reports
      /\ a.tracked = hb.tracked /\ a.details = hb.details /\ a.flush = hb.flush
  BY Zenon DEF Types, HbType
<1> HIDE DEF a, n
<1>4. hb'.chan = n /\ hb'.sleeping = hb.sleeping \ {t} /\ hb'.reports = hb.reports
      /\ hb'.tracked = hb.tracked /\ hb'.details = hb.details /\ hb'.flush = hb.flush
  BY <1>2, <1>3 DEF HbType
<1>5. \A u \in Task : u # t => Fits(u)'
  <2>1. hb'.chan = Append(hb.chan, m)
    BY <1>4 DEF n
  <2> QED
    BY <1>1, <1>2, <1>4, <2>1, AddedFits
<1>6. /\ DOMAIN hb.chan = 1 .. Len(hb.chan) /\ Len(hb.chan) \in Nat
      /\ DOMAIN hb'.chan = 1 .. Len(hb.chan) + 1
      /\ \A i \in 1 .. Len(hb.chan) : hb'.chan[i] = hb.chan[i]
      /\ hb'.chan[Len(hb.chan) + 1] = m
  BY <1>1, <1>4, Queues DEF n
<1>7. Gone(t)' <=> Gone(t)
  BY <1>2, <1>6 DEF Gone
<1>8. InOrder(t)'
  <2>1. InOrder(t) /\ calls' = calls
    BY <1>2 DEF Fits
  <2>2. \A k \in {"evict", "send"} : m # [kind |-> k, t |-> t]
    OBVIOUS
  <2> HIDE DEF m
  <2>3. \A i \in DOMAIN hb'.chan, k \in {"evict", "send"} :
          hb'.chan[i] = [kind |-> k, t |-> t] => i \in DOMAIN hb.chan /\ hb'.chan[i] = hb.chan[i]
    BY <1>6, <2>2
  <2> QED
    BY ZenonT(40), <2>1, <2>3 DEF InOrder
<1>9. Gone(t) => AfterEvict(t)'
  BY <1>4, <1>6 DEF AfterEvict, Fits
<1>10. ASSUME ~ Gone(t) PROVE OneAwaited(t)'
  <2>1. OneAwaited(t)
    BY <1>10 DEF Fits
  <2>2. hb.reports[t] = 0 /\ t \in hb.tracked /\ \A i \in DOMAIN hb.chan : ~ Awaited(hb.chan[i], t)
    BY <1>2, <2>1 DEF OneAwaited
  <2>3. \A i \in DOMAIN hb'.chan : Awaited(hb'.chan[i], t) => i = Len(hb.chan) + 1
    BY <1>6, <2>2
  <2> QED
    BY ZenonT(40), <1>4, <2>2, <2>3 DEF OneAwaited, Awaited
<1> QED
  BY <1>4, <1>5, <1>7, <1>8, <1>9, <1>10 DEF Fits

\* So does the return of a report.
LEMMA ReportFits ==
    ASSUME Types, NEW t \in Task, NEW ok \in BOOLEAN, ReportReturns(t, ok)
    PROVE  /\ (\A u \in Task : Fits(u)) => (\A u \in Task : Fits(u)')
           /\ \A u \in Task : hb'.reports[u] <= hb.reports[u] /\ hb'.reports[u] \in Nat
           /\ hb'.flush = hb.flush
<1> DEFINE m == [kind |-> "reported", t |-> t]
           n == Append(hb.chan, m)
           f == [hb.reports EXCEPT ![t] = @ - 1]
           a == [hb EXCEPT !.reports = f]
<1>1. hb.chan \in Seq(ActionType) /\ m \in ActionType /\ m.t = t
  BY DEF Types, HbType, ActionType, Kinds
<1>2. hb' = [a EXCEPT !.chan = n] /\ calls' = calls /\ hb.reports[t] > 0
  BY DEF ReportReturns
<1>3. f \in [Task -> Nat] /\ f[t] = hb.reports[t] - 1
      /\ \A u \in Task : u # t => f[u] = hb.reports[u]
  BY <1>2 DEF Types, HbType
<1> HIDE DEF f, n
<1>4. a \in HbType /\ a.sleeping = hb.sleeping /\ a.reports = f
      /\ a.tracked = hb.tracked /\ a.details = hb.details /\ a.flush = hb.flush
  BY Zenon, <1>3 DEF Types, HbType
<1> HIDE DEF a
<1>5. hb'.chan = n /\ hb'.sleeping = hb.sleeping /\ hb'.reports = f
      /\ hb'.tracked = hb.tracked /\ hb'.details = hb.details /\ hb'.flush = hb.flush
  BY <1>2, <1>4 DEF HbType
<1>6. \A u \in Task : hb'.reports[u] <= hb.reports[u] /\ hb'.reports[u] \in Nat
  <2>1. hb.reports \in [Task -> Nat]
    BY DEF Types, HbType
  <2>2. \A u \in Task : f[u] <= hb.reports[u] /\ f[u] \in Nat
    BY <1>3, <2>1
  <2> QED
    BY <1>5, <2>2
<1>7. ASSUME \A u \in Task : Fits(u) PROVE \A u \in Task : Fits(u)'
  <2>1. \A u \in Task : u # t => Fits(u)'
    <3>1. hb'.chan = Append(hb.chan, m)
      BY <1>5 DEF n
    <3> QED
      BY ZenonT(40), <1>1, <1>2, <1>3, <1>5, <1>7, <3>1, AddedFits
  <2>2. /\ DOMAIN hb.chan = 1 .. Len(hb.chan) /\ Len(hb.chan) \in Nat
        /\ DOMAIN hb'.chan = 1 .. Len(hb.chan) + 1
        /\ \A i \in 1 .. Len(hb.chan) : hb'.chan[i] = hb.chan[i]
        /\ hb'.chan[Len(hb.chan) + 1] = m
    BY <1>1, <1>5, Queues DEF n
  <2>3. Gone(t)' <=> Gone(t)
    BY <1>2, <2>2 DEF Gone
  <2>4. InOrder(t)'
    <3>1. InOrder(t) /\ calls' = calls
      BY <1>2, <1>7 DEF Fits
    <3>2. \A k \in {"evict", "send"} : m # [kind |-> k, t |-> t]
      OBVIOUS
    <3> HIDE DEF m
    <3>3. \A i \in DOMAIN hb'.chan, k \in {"evict", "send"} :
          hb'.chan[i] = [kind |-> k, t |-> t] => i \in DOMAIN hb.chan /\ hb'.chan[i] = hb.chan[i]
      BY <2>2, <3>2
    <3> QED
      BY <3>1, <3>3 DEF InOrder
  <2>5. Gone(t) => AfterEvict(t)'
    BY <1>5, <1>7, <2>2 DEF AfterEvict, Fits
  <2>6. ASSUME ~ Gone(t) PROVE OneAwaited(t)'
    <3>1. OneAwaited(t)
      BY <1>7, <2>6 DEF Fits
    <3>2. hb.reports[t] = 1 /\ t \in hb.tracked /\ t \notin hb.sleeping
          /\ \A i \in DOMAIN hb.chan : ~ Awaited(hb.chan[i], t)
      BY <1>2, <3>1 DEF OneAwaited
    <3>3. hb'.reports[t] = 0
      BY <1>3, <1>5, <3>2
    <3>4. \A i \in DOMAIN hb'.chan : Awaited(hb'.chan[i], t) => i = Len(hb.chan) + 1
      BY <2>2, <3>2
    <3> QED
      BY <1>5, <3>2, <3>3, <3>4 DEF OneAwaited, Awaited
  <2> QED
    BY <2>1, <2>3, <2>4, <2>5, <2>6 DEF Fits
<1> QED
  BY <1>5, <1>6, <1>7

\* An action that is taken, for the activities it is not about.
LEMMA TakenFits ==
    ASSUME hb.chan \in Seq(ActionType), hb.chan # <<>>, hb'.chan = Tail(hb.chan),
           NEW u \in Task, calls'[u] = "none" <=> calls[u] = "none",
           Head(hb.chan).t # u, SameFor(u), Fits(u)
    PROVE  Fits(u)'
<1>1. /\ DOMAIN hb.chan = 1 .. Len(hb.chan) /\ Len(hb.chan) \in Nat
      /\ 1 \in DOMAIN hb.chan /\ Head(hb.chan) = hb.chan[1]
      /\ DOMAIN hb'.chan = 1 .. Len(hb.chan) - 1
      /\ \A i \in 1 .. Len(hb.chan) - 1 : hb'.chan[i] = hb.chan[i + 1] /\ i + 1 \in DOMAIN hb.chan
  <2>1. Head(hb.chan) \in ActionType
    OBVIOUS
  <2> QED
    BY <2>1, Queues
<1>2. \A k \in Kinds : hb.chan[1] # [kind |-> k, t |-> u]
  BY <1>1
<1>3. InOrder(u)'
  <2> SUFFICES ASSUME NEW i \in DOMAIN hb'.chan, NEW j \in DOMAIN hb'.chan,
                      hb'.chan[i] = [kind |-> "evict", t |-> u]
               PROVE  /\ calls'[u] # "none"
                      /\ hb'.chan[j] = [kind |-> "evict", t |-> u] => i = j
                      /\ hb'.chan[j] = [kind |-> "send", t |-> u] => j < i
    BY ZenonT(40) DEF InOrder
  <2>1. i \in Int /\ j \in Int /\ i + 1 \in DOMAIN hb.chan /\ j + 1 \in DOMAIN hb.chan
        /\ hb'.chan[i] = hb.chan[i + 1] /\ hb'.chan[j] = hb.chan[j + 1]
    BY <1>1
  <2>2. /\ calls[u] # "none"
        /\ hb.chan[j + 1] = [kind |-> "evict", t |-> u] => i + 1 = j + 1
        /\ hb.chan[j + 1] = [kind |-> "send", t |-> u] => j + 1 < i + 1
    BY ZenonT(40), <2>1 DEF InOrder, Fits
  <2> QED
    BY <2>1, <2>2
<1>4. Gone(u)' <=> Gone(u)
  <2>1. ASSUME NEW i \in DOMAIN hb.chan, hb.chan[i] = [kind |-> "evict", t |-> u]
        PROVE  i - 1 \in DOMAIN hb'.chan /\ hb'.chan[i - 1] = hb.chan[i]
    <3>1. i # 1
      BY <1>2, <2>1 DEF Kinds
    <3> QED
      BY <1>1, <3>1
  <2> QED
    BY ZenonT(40), <1>1, <2>1 DEF Gone
<1>5. Gone(u) => AfterEvict(u)'
  BY ZenonT(40), <1>1 DEF Fits, AfterEvict, SameFor
<1>6. ASSUME ~ Gone(u) PROVE OneAwaited(u)'
  <2>1. OneAwaited(u)
    BY <1>6 DEF Fits
  <2>2. ASSUME NEW i \in DOMAIN hb'.chan, NEW j \in DOMAIN hb'.chan,
               Awaited(hb'.chan[i], u), Awaited(hb'.chan[j], u)
        PROVE  i = j
    <3>1. i \in Int /\ j \in Int /\ i + 1 \in DOMAIN hb.chan /\ j + 1 \in DOMAIN hb.chan
          /\ hb'.chan[i] = hb.chan[i + 1] /\ hb'.chan[j] = hb.chan[j + 1]
      BY <1>1
    <3>2. i + 1 = j + 1
      BY ZenonT(40), <2>1, <2>2, <3>1 DEF OneAwaited
    <3> QED
      BY <3>1, <3>2
  <2>3. \A i \in DOMAIN hb'.chan : \E k \in DOMAIN hb.chan : hb'.chan[i] = hb.chan[k]
    BY Zenon, <1>1
  <2>4. \A i \in DOMAIN hb'.chan : Awaited(hb'.chan[i], u) =>
           hb.reports[u] = 0 /\ u \notin hb.sleeping /\ u \in hb.tracked
    BY ZenonT(40), <2>1, <2>3 DEF OneAwaited
  <2> QED
    BY Zenon, <2>1, <2>2, <2>4 DEF OneAwaited, SameFor, Awaited
<1> QED
  BY ZenonT(40), <1>3, <1>4, <1>5, <1>6 DEF Fits

\* And for the activity it is about.
LEMMA HandledFits ==
    ASSUME Types, HandleAction, \A u \in Task : Fits(u),
           \A u \in Task : calls'[u] = "none" <=> calls[u] = "none",
           NEW t \in Task, t = Head(hb.chan).t
    PROVE  /\ Fits(t)'
           /\ hb'.reports[t] # hb.reports[t] =>
                 hb'.reports[t] = 1 \/ (hb'.reports[t] = 2 /\ calls[t] # "none")
           /\ Head(hb.chan).kind = "evict" => calls[t] # "none"
<1> DEFINE m == Head(hb.chan)
<1>1. m \in ActionType /\ Handles(m) /\ hb.chan \in Seq(ActionType) /\ hb.chan # <<>>
  BY HandleFields DEF HandleAction, Types, HbType
<1>2. /\ DOMAIN hb.chan = 1 .. Len(hb.chan) /\ Len(hb.chan) \in Nat
      /\ 1 \in DOMAIN hb.chan /\ m = hb.chan[1]
      /\ DOMAIN hb'.chan = 1 .. Len(hb.chan) - 1
      /\ \A i \in 1 .. Len(hb.chan) - 1 : hb'.chan[i] = hb.chan[i + 1] /\ i + 1 \in DOMAIN hb.chan
  <2>1. hb'.chan = Tail(hb.chan)
    BY <1>1, Zenon DEF Handles
  <2> QED
    BY <1>1, <2>1, Queues
<1>3. t = m.t /\ m = [kind |-> m.kind, t |-> t] /\ m.kind \in Kinds
  BY ZenonT(40), <1>1 DEF ActionType
<1>4. Fits(t) /\ InOrder(t) /\ (calls'[t] = "none" <=> calls[t] = "none") /\ hb.reports[t] \in Nat
  BY ZenonT(40), <1>3 DEF Fits, Types, HbType
<1> HIDE DEF m
<1>5. \A i \in DOMAIN hb'.chan : i \in Int /\ i + 1 \in DOMAIN hb.chan /\ hb'.chan[i] = hb.chan[i + 1]
                                 /\ i + 1 # 1
  BY <1>2
<1>6. InOrder(t)'
  <2> SUFFICES ASSUME NEW i \in DOMAIN hb'.chan, NEW j \in DOMAIN hb'.chan,
                      hb'.chan[i] = [kind |-> "evict", t |-> t]
               PROVE  /\ calls'[t] # "none"
                      /\ hb'.chan[j] = [kind |-> "evict", t |-> t] => i = j
                      /\ hb'.chan[j] = [kind |-> "send", t |-> t] => j < i
    BY ZenonT(40) DEF InOrder
  <2>1. i \in Int /\ j \in Int /\ i + 1 \in DOMAIN hb.chan /\ j + 1 \in DOMAIN hb.chan
        /\ hb'.chan[i] = hb.chan[i + 1] /\ hb'.chan[j] = hb.chan[j + 1]
    BY ZenonT(40), <1>5
  <2>2. /\ calls[t] # "none"
        /\ hb.chan[j + 1] = [kind |-> "evict", t |-> t] => i + 1 = j + 1
        /\ hb.chan[j + 1] = [kind |-> "send", t |-> t] => j + 1 < i + 1
    BY ZenonT(40), <1>4, <2>1 DEF InOrder
  <2> QED
    BY <1>4, <2>1, <2>2
<1>7. m.kind # "evict" => (Gone(t)' <=> Gone(t))
  <2>1. ASSUME m.kind # "evict", NEW i \in DOMAIN hb.chan, hb.chan[i] = [kind |-> "evict", t |-> t]
        PROVE  i - 1 \in DOMAIN hb'.chan /\ hb'.chan[i - 1] = hb.chan[i]
    <3>1. i # 1
      BY <1>2, <2>1
    <3> QED
      BY <1>2, <3>1
  <2>2. \A i \in DOMAIN hb'.chan : \E k \in DOMAIN hb.chan : hb'.chan[i] = hb.chan[k]
    BY <1>5
  <2>3. ASSUME m.kind # "evict", Gone(t)' PROVE Gone(t)
    BY ZenonT(40), <1>4, <2>1, <2>3 DEF Gone
  <2>4. ASSUME Gone(t) PROVE Gone(t)'
    BY ZenonT(40), <1>4, <2>2, <2>4 DEF Gone
  <2> QED
    BY ZenonT(40), <2>3, <2>4
<1>8. CASE m.kind = "send"
  <2>1. ~ Gone(t)
    BY ZenonT(40), <1>2, <1>3, <1>4, <1>8 DEF Fits, AfterEvict
  <2>2. OneAwaited(t) /\ ~ Gone(t)'
    BY ZenonT(40), <1>4, <1>7, <1>8, <2>1 DEF Fits
  <2>3. \A i, j \in DOMAIN hb'.chan : Awaited(hb'.chan[i], t) /\ Awaited(hb'.chan[j], t) => i = j
    <3> SUFFICES ASSUME NEW i \in DOMAIN hb'.chan, NEW j \in DOMAIN hb'.chan,
                        Awaited(hb'.chan[i], t), Awaited(hb'.chan[j], t)
                 PROVE  i = j
      OBVIOUS
    <3>1. i + 1 = j + 1
      BY ZenonT(40), <1>5, <2>2 DEF OneAwaited
    <3> QED
      BY <1>5, <3>1
  <2>4. \A i \in DOMAIN hb'.chan : Awaited(hb'.chan[i], t) =>
           hb.reports[t] = 0 /\ t \notin hb.sleeping /\ t \in hb.tracked
    BY ZenonT(40), <1>5, <2>2 DEF OneAwaited
  <2>5. \/ /\ t \in hb.tracked /\ t \in hb'.tracked /\ hb'.reports[t] = hb.reports[t]
           /\ (t \in hb'.sleeping <=> t \in hb.sleeping)
        \/ /\ t \notin hb.tracked /\ t \in hb'.tracked /\ hb'.reports[t] = hb.reports[t] + 1
           /\ (t \in hb'.sleeping <=> t \in hb.sleeping)
    BY ZenonT(40), <1>1, <1>3, <1>8 DEF Handles
  <2>6. OneAwaited(t)' /\ (hb'.reports[t] # hb.reports[t] => hb'.reports[t] = 1)
    <3>1. /\ hb.reports[t] \in {0, 1} /\ (t \in hb.sleeping => hb.reports[t] = 0)
          /\ t \notin hb.tracked => hb.reports[t] = 0 /\ t \notin hb.sleeping
      BY <2>2, Zenon DEF OneAwaited
    <3>2. /\ hb'.reports[t] \in {0, 1} /\ t \in hb'.tracked
          /\ t \in hb'.sleeping => hb'.reports[t] = 0
          /\ t \in hb'.sleeping <=> t \in hb.sleeping
          /\ t \in hb.tracked => hb'.reports[t] = hb.reports[t]
          /\ hb'.reports[t] # hb.reports[t] => hb'.reports[t] = 1
      BY <2>5, <3>1
    <3> QED
      BY ZenonT(40), <2>3, <2>4, <3>2 DEF OneAwaited
  <2>7. Fits(t)'
    BY ZenonT(40), <1>6, <2>2, <2>6 DEF Fits
  <2> QED
    BY ZenonT(40), <1>8, <2>6, <2>7 DEF m
<1>9. ASSUME m.kind \in {"reported", "throttled"}, ~ Gone(t)
      PROVE  /\ OneAwaited(t) /\ hb.reports[t] = 0 /\ t \notin hb.sleeping /\ t \in hb.tracked
             /\ \A i \in DOMAIN hb'.chan : ~ Awaited(hb'.chan[i], t)
  <2>1. OneAwaited(t) /\ Awaited(hb.chan[1], t)
    BY ZenonT(40), <1>2, <1>3, <1>4, <1>9 DEF Fits, Awaited
  <2> QED
    BY Zenon, <1>2, <1>5, <2>1 DEF OneAwaited
<1>10. Gone(t) => AfterEvict(t) /\ \A i \in DOMAIN hb'.chan : hb'.chan[i] # [kind |-> "send", t |-> t]
  BY ZenonT(40), <1>4, <1>5 DEF Fits, AfterEvict
<1>11. CASE m.kind = "reported"
  <2>1. /\ (t \in hb'.tracked <=> t \in hb.tracked) /\ (t \in hb'.details <=> t \in hb.details)
        /\ hb'.reports[t] = hb.reports[t]
        /\ (t \in hb'.sleeping <=> t \in hb.sleeping \/ t \in hb.tracked)
    BY ZenonT(40), <1>1, <1>3, <1>11 DEF Handles
  <2>2. Gone(t) => AfterEvict(t)'
    BY ZenonT(40), <1>10, <2>1 DEF AfterEvict
  <2>3. ~ Gone(t) => OneAwaited(t)'
    BY ZenonT(40), <1>9, <1>11, <2>1 DEF OneAwaited, Awaited
  <2>4. Gone(t)' <=> Gone(t)
    BY ZenonT(40), <1>7, <1>11
  <2>5. Fits(t)'
    BY ZenonT(40), <1>6, <2>2, <2>3, <2>4 DEF Fits
  <2> QED
    BY ZenonT(40), <1>11, <2>1, <2>5 DEF m
<1>12. CASE m.kind = "throttled"
  <2>1. \/ t \notin hb.tracked /\ SameFor(t)
        \/ /\ t \in hb.tracked /\ t \in hb'.tracked /\ t \notin hb'.details
           /\ hb'.reports[t] = hb.reports[t] + 1 /\ (t \in hb'.sleeping <=> t \in hb.sleeping)
        \/ /\ t \in hb.tracked /\ t \notin hb'.tracked /\ t \notin hb'.details
           /\ hb'.reports[t] = hb.reports[t] /\ (t \in hb'.sleeping <=> t \in hb.sleeping)
    BY ZenonT(40), <1>1, <1>3, <1>12 DEF Handles
  <2>2. Gone(t) => AfterEvict(t)' /\ hb'.reports[t] = hb.reports[t]
    BY ZenonT(40), <1>10, <2>1 DEF AfterEvict, SameFor
  <2>3. ASSUME ~ Gone(t) PROVE OneAwaited(t)' /\ hb'.reports[t] \in {0, 1}
    <3>1. /\ hb.reports[t] = 0 /\ t \notin hb.sleeping /\ t \in hb.tracked
          /\ \A i \in DOMAIN hb'.chan : ~ Awaited(hb'.chan[i], t)
      BY ZenonT(40), <1>9, <1>12, <2>3
    <3>2. /\ hb'.reports[t] \in {0, 1} /\ t \notin hb'.sleeping
          /\ t \notin hb'.tracked => hb'.reports[t] = 0 /\ t \notin hb'.details
      BY <2>1, <3>1
    <3> QED
      BY ZenonT(40), <3>1, <3>2 DEF OneAwaited
  <2>4. ~ Gone(t) => hb.reports[t] = 0
    BY ZenonT(40), <1>9, <1>12
  <2> QED
    BY ZenonT(40), <1>6, <1>7, <1>12, <2>2, <2>3, <2>4 DEF Fits, m
<1>13. CASE m.kind = "evict"
  <2>1. /\ t \notin hb'.tracked /\ t \notin hb'.details
        /\ hb'.reports[t] = IF t \in hb.details THEN hb.reports[t] + 1 ELSE hb.reports[t]
    BY ZenonT(40), <1>1, <1>3, <1>13 DEF Handles
  <2>2. hb.chan[1] = [kind |-> "evict", t |-> t]
    BY ZenonT(40), <1>2, <1>3, <1>13
  <2>3. calls[t] # "none" /\ calls'[t] # "none"
    BY ZenonT(40), <1>2, <1>4, <2>2 DEF InOrder
  <2>4. \A i \in DOMAIN hb'.chan : /\ hb'.chan[i] # [kind |-> "evict", t |-> t]
                                   /\ hb'.chan[i] # [kind |-> "send", t |-> t]
    <3> SUFFICES ASSUME NEW i \in DOMAIN hb'.chan
                 PROVE  /\ hb.chan[i + 1] # [kind |-> "evict", t |-> t]
                        /\ hb.chan[i + 1] # [kind |-> "send", t |-> t]
      BY ZenonT(40), <1>5
    <3>1. i + 1 \in DOMAIN hb.chan /\ i + 1 # 1 /\ ~ (i + 1 < 1)
      BY <1>2, <1>5
    <3> QED
      BY ZenonT(40), <1>2, <1>4, <2>2, <3>1 DEF InOrder
  <2>5. Gone(t)' /\ AfterEvict(t)'
    BY ZenonT(40), <2>1, <2>3, <2>4 DEF Gone, AfterEvict
  <2>6. ~ Gone(t)
    BY ZenonT(40), <1>2, <2>2 DEF Gone
  <2>7. hb.reports[t] \in {0, 1}
    BY ZenonT(40), <1>4, <2>6 DEF Fits, OneAwaited
  <2>8. Fits(t)'
    BY ZenonT(40), <1>6, <2>5 DEF Fits
  <2>9. hb'.reports[t] # hb.reports[t] => hb'.reports[t] \in {1, 2}
    BY <2>1, <2>7
  <2> QED
    BY ZenonT(40), <2>3, <2>8, <2>9
<1> QED
  BY ZenonT(40), <1>3, <1>8, <1>11, <1>12, <1>13 DEF Kinds

\* So does the eviction that complete asks for.
LEMMA CompleteFits ==
    ASSUME Types, Once, NEW t \in live, Complete(t), ~ hb.down, \A u \in Task : Fits(u)
    PROVE  \A u \in Task : Fits(u)'
<1> DEFINE m == [kind |-> "evict", t |-> t]
           n == Append(hb.chan, m)
<1>1. hb.chan \in Seq(ActionType) /\ m \in ActionType /\ m.t = t /\ t \in Task
  BY DEF Types, HbType, ActionType, Kinds
<1>2. hb' = [hb EXCEPT !.chan = n]
  BY DEF Complete
<1>3. hb'.chan = Append(hb.chan, m)
      /\ UNCHANGED <<hb.reports, hb.tracked, hb.details, hb.sleeping>>
  BY <1>1, <1>2 DEF Types, HbType
<1>4. calls'[t] # "none" /\ \A u \in Task : u # t => calls'[u] = calls[u]
  BY <1>1 DEF Complete, Types, CallsType
<1>5. \A u \in Task : u # t => Fits(u)'
  BY ZenonT(40), <1>1, <1>3, <1>4, AddedFits
<1>6. calls[t] = "none" /\ InOrder(t)
  BY ZenonT(40), <1>1 DEF Once, Fits
<1>7. /\ DOMAIN hb.chan = 1 .. Len(hb.chan) /\ Len(hb.chan) \in Nat
      /\ DOMAIN hb'.chan = 1 .. Len(hb.chan) + 1
      /\ \A i \in 1 .. Len(hb.chan) : hb'.chan[i] = hb.chan[i]
      /\ hb'.chan[Len(hb.chan) + 1] = m
  BY <1>1, <1>3, Queues
<1>8. ~ Gone(t) /\ ~ Gone(t)'
  BY <1>6, <1>7 DEF Gone
<1>9. InOrder(t)'
  <2>1. \A i \in DOMAIN hb.chan : hb.chan[i] # m
    BY <1>6 DEF InOrder
  <2>2. \A i \in DOMAIN hb'.chan : hb'.chan[i] = m => i = Len(hb.chan) + 1
    BY <1>7, <2>1
  <2>3. \A j \in DOMAIN hb'.chan : hb'.chan[j] = [kind |-> "send", t |-> t] => j < Len(hb.chan) + 1
    BY <1>7
  <2> QED
    BY ZenonT(40), <1>4, <2>2, <2>3 DEF InOrder
<1>10. OneAwaited(t)'
  <2>1. OneAwaited(t) /\ ~ Awaited(m, t)
    BY <1>1, <1>8 DEF Fits, Awaited
  <2>2. \A i \in DOMAIN hb'.chan : Awaited(hb'.chan[i], t) =>
           i \in DOMAIN hb.chan /\ hb'.chan[i] = hb.chan[i]
    BY <1>7, <2>1
  <2> QED
    BY ZenonT(40), <1>3, <2>1, <2>2 DEF OneAwaited
<1> QED
  BY <1>5, <1>8, <1>9, <1>10 DEF Fits

\* Every step keeps the reports throttled.
LEMMA ThrottledStep ==
    ASSUME Types, Once, Throttled, [Next]_vars
    PROVE  Throttled'
<1>1. /\ hb \in HbType /\ hb.flush \subseteq Task /\ hb.reports \in [Task -> Nat]
      /\ ~ hb.down => \A t \in Task : Fits(t)
  BY ZenonT(40) DEF Types, HbType, Throttled, Fits
<1>2. SUFFICES /\ \A t \in Task : hb'.reports[t] > 1 => hb'.reports[t] = 2 /\ calls'[t] # "none"
               /\ \A t \in hb'.flush : calls'[t] # "none"
               /\ ~ hb'.down => \A t \in Task : Fits(t)'
  BY ZenonT(40) DEF Throttled, Fits
<1>3. ~ Lang => \A t \in Task : calls'[t] = "none" <=> calls[t] = "none"
  BY CallsBegun
<1>4. CASE (Aside \/ Starts \/ Moves \/ Completing) /\ ~ Lang
  <2>1. hb' = hb
    BY <1>4, AsideFrame, StartsFrame
    DEF Moves, StartsEnd, CheckOutstanding, GraceElapses, Completing, Evicted, Sent
  <2>2. Throttled'
    BY <1>1, <1>3, <1>4, <2>1, ThrottledSame
  <2> QED
    BY ZenonT(40), <2>2 DEF Throttled, Fits
<1>5. CASE Beats
  <2>1. calls' = calls /\ hb'.down = hb.down
    BY <1>5, BeatsFrame
  <2>2. ASSUME NEW t \in Task, RecordHeartbeat(t)
        PROVE  /\ UNCHANGED <<hb.reports, hb.flush>>
               /\ ~ hb.down => \A u \in Task : Fits(u)'
    <3>1. UNCHANGED <<hb.reports, hb.flush>>
      BY <1>1, <2>2 DEF RecordHeartbeat, HbType
    <3> QED
      BY <1>1, <2>2, <3>1, RecordFits
  <2>3. ASSUME NEW t \in Task, ThrottleElapses(t)
        PROVE  /\ UNCHANGED <<hb.reports, hb.flush>>
               /\ ~ hb.down => \A u \in Task : Fits(u)'
    <3> DEFINE a == [hb EXCEPT !.sleeping = @ \ {t}]
               n == Append(hb.chan, [kind |-> "throttled", t |-> t])
    <3>1. a \in HbType /\ a.reports = hb.reports /\ a.flush = hb.flush
      BY Zenon, <1>1 DEF HbType
    <3>2. hb' = [a EXCEPT !.chan = n]
      BY <2>3 DEF ThrottleElapses
    <3> HIDE DEF a, n
    <3>3. UNCHANGED <<hb.reports, hb.flush>>
      BY <3>1, <3>2 DEF HbType
    <3> QED
      BY <1>1, <2>3, <3>3, ThrottleFits
  <2>4. CASE UNCHANGED <<hb.reports, hb.flush>> /\ (~ hb.down => \A u \in Task : Fits(u)')
    BY ZenonT(40), <2>1, <2>4 DEF Throttled
  <2>5. ASSUME NEW t \in Task, NEW ok \in BOOLEAN, ReportReturns(t, ok)
        PROVE  /\ \A u \in Task : hb'.reports[u] > 1 => hb'.reports[u] = 2 /\ calls'[u] # "none"
               /\ \A u \in hb'.flush : calls'[u] # "none"
               /\ ~ hb'.down => \A u \in Task : Fits(u)'
    <3>1. /\ \A u \in Task : hb'.reports[u] <= hb.reports[u] /\ hb'.reports[u] \in Nat
          /\ hb'.flush = hb.flush /\ (~ hb.down => \A u \in Task : Fits(u)')
      BY ZenonT(40), <1>1, <2>5, ReportFits
    <3>2. \A u \in Task : hb'.reports[u] > 1 => hb'.reports[u] = 2 /\ calls'[u] # "none"
      BY <1>1, <2>1, <3>1 DEF Throttled
    <3> QED
      BY ZenonT(40), <2>1, <3>1, <3>2 DEF Throttled
  <2> QED
    BY ZenonT(40), <1>5, <2>2, <2>3, <2>4, <2>5 DEF Beats
<1>6. CASE HandleAction /\ ~ Lang
  <2> DEFINE m == Head(hb.chan)
  <2>1. /\ m \in ActionType /\ Handles(m) /\ ~ hb.down /\ m.t \in Task
        /\ hb.chan \in Seq(ActionType) /\ hb.chan # <<>>
    BY <1>6, HandleFields DEF HandleAction, Types, HbType, ActionType
  <2>2. PICK t \in Task : t = m.t
    BY <2>1
  <2>3. /\ Fits(t)'
        /\ hb'.reports[t] # hb.reports[t] =>
              hb'.reports[t] = 1 \/ (hb'.reports[t] = 2 /\ calls[t] # "none")
        /\ m.kind = "evict" => calls[t] # "none"
    BY ZenonT(40), <1>1, <1>3, <1>6, <2>1, <2>2, HandledFits
  <2> HIDE DEF m
  <2>4. \A u \in Task : u # t => SameFor(u)
    BY ZenonT(40), <2>1, <2>2 DEF Handles
  <2>5. \A u \in Task : u # t => Fits(u)'
    BY ZenonT(40), <1>1, <1>3, <1>6, <2>1, <2>2, <2>4, TakenFits DEF Handles, m
  <2>6. \A u \in Task : hb'.reports[u] > 1 => hb'.reports[u] = 2 /\ calls'[u] # "none"
    <3>1. \A u \in Task : u # t => hb'.reports[u] = hb.reports[u]
      BY ZenonT(40), <2>4 DEF SameFor
    <3>2. /\ \A u \in Task : hb.reports[u] > 1 => hb.reports[u] = 2 /\ calls[u] # "none"
          /\ \A u \in Task : calls'[u] = "none" <=> calls[u] = "none"
      BY <1>3, <1>6, Zenon DEF Throttled
    <3> QED
      BY <2>3, <3>1, <3>2
  <2>7. hb'.flush \subseteq Task /\ (t \in hb'.flush => t \in hb.flush \/ m.kind = "evict")
    <3>1. hb' \in HbType
      BY <2>1, Zenon DEF Handles
    <3>2. t \in hb'.flush => t \in hb.flush \/ m.kind = "evict"
      BY ZenonT(40), <2>1, <2>2 DEF Handles, SameFor
    <3> QED
      BY ZenonT(40), <3>1, <3>2 DEF HbType
  <2>8. \A u \in hb'.flush : calls'[u] # "none"
    BY ZenonT(40), <1>3, <1>6, <2>3, <2>4, <2>7 DEF SameFor, Throttled
  <2> QED
    BY ZenonT(40), <2>3, <2>5, <2>6, <2>8
<1>7. CASE Lang
  <2>1. PICK t \in live : Complete(t)
    BY <1>7 DEF Lang
  <2>2. t \in Task /\ calls'[t] # "none" /\ \A u \in Task : u # t => calls'[u] = calls[u]
    BY <2>1 DEF Complete, Types, CallsType
  <2>3. UNCHANGED <<hb.reports, hb.flush, hb.down>>
    BY <1>1, <2>1 DEF Complete, HbType
  <2>4. ~ hb.down => \A u \in Task : Fits(u)'
    BY <1>1, <2>1, CompleteFits
  <2> QED
    BY ZenonT(40), <1>1, <2>2, <2>3, <2>4 DEF Throttled
<1>8. CASE StopHeartbeats /\ ~ Lang
  <2> DEFINE a == [hb EXCEPT !.down = TRUE]
             b == [a EXCEPT !.chan = <<>>]
  <2>1. hb' = [b EXCEPT !.sleeping = {}]
    BY <1>8 DEF StopHeartbeats
  <2>2. /\ DOMAIN a = DOMAIN hb /\ a.down = TRUE /\ a.reports = hb.reports /\ a.flush = hb.flush
        /\ {"down", "reports", "flush"} \subseteq DOMAIN hb
    BY <1>1 DEF HbType
  <2> HIDE DEF a
  <2>3. DOMAIN b = DOMAIN hb /\ b.down = TRUE /\ b.reports = hb.reports /\ b.flush = hb.flush
    BY <2>2
  <2> HIDE DEF b
  <2>4. hb'.down = TRUE /\ hb'.reports = hb.reports /\ hb'.flush = hb.flush
    BY <2>1, <2>2, <2>3
  <2> QED
    BY ZenonT(40), <1>1, <1>3, <1>8, <2>4 DEF Throttled
<1> QED
  BY ZenonT(40), <1>4, <1>5, <1>6, <1>7, <1>8, Steps

-----------------------------------------------------------------------------
\* The invariant holds initially.
LEMMA InitInv == Init => Inv
<1> SUFFICES ASSUME Init PROVE Inv
  OBVIOUS
<1>1. Types
  <2>1. srv \in SrvType /\ calls \in CallsType /\ live \subseteq Task
    BY ZenonT(40) DEF Init, SrvType, CallsType
  <2>2. poller \in PollerType
    <3>1. poller = [polls |-> 0, buffer |-> <<>>]
      BY Zenon DEF Init
    <3> QED
      BY <3>1 DEF PollerType
  <2>3. eager \in EagerType
    <3>1. eager = [pc |-> "idle", count |-> 0, chan |-> <<>>, requested |-> FALSE,
                   check |-> FALSE, complete |-> FALSE, closed |-> FALSE]
      BY Zenon DEF Init
    <3> QED
      BY <3>1 DEF EagerType
  <2>4. NoInfo \in InfoType
    BY DEF NoInfo, InfoType
  <2>5. info \in [Task -> InfoType] /\ cancels \in Seq(CancelType)
    <3>1. info = [t \in Task |-> NoInfo] /\ cancels = <<>>
      BY Zenon DEF Init
    <3> QED
      BY <2>4, <3>1
  <2>6. hb \in HbType
    <3>1. hb = [tracked |-> {}, details |-> {}, flying |-> {}, sleeping |-> {}, flush |-> {},
                chan |-> <<>>, reports |-> [t \in Task |-> 0], down |-> FALSE]
      BY Zenon DEF Init
    <3> QED
      BY <3>1 DEF HbType
  <2>7. stream \in StreamType /\ plan \in PlanType
    <3>1. stream = [phase |-> "starts", immediate |-> FALSE] /\ plan \in Plans
      BY Zenon DEF Init
    <3> QED
      BY <3>1, PlansAssumption DEF StreamType, PlanType
  <2> QED
    BY <2>1, <2>2, <2>3, <2>5, <2>6, <2>7 DEF Types
<1>2. LiveFinite
  BY FS_EmptySet, Zenon DEF Init, LiveFinite
<1>3. Once
  <2>1. calls = [t \in Task |-> "none"] /\ live = {} /\ poller.buffer = <<>> /\ eager.chan = <<>>
    BY Zenon DEF Init
  <2> QED
    BY <2>1 DEF Once, Queued
<1>4. Ended
  BY Zenon DEF Init, Ended
<1>5. Throttled
  <2>1. /\ hb.chan = <<>> /\ hb.reports = [t \in Task |-> 0] /\ hb.flush = {} /\ hb.tracked = {}
        /\ hb.details = {} /\ hb.sleeping = {} /\ calls = [t \in Task |-> "none"]
    BY Zenon DEF Init
  <2>2. \A t \in Task : InOrder(t) /\ ~Gone(t) /\ OneAwaited(t)
    BY <2>1 DEF InOrder, Gone, OneAwaited
  <2> QED
    BY <2>1, <2>2 DEF Throttled
<1>6. CancelledAfterGrace
  BY Zenon DEF Init, CancelledAfterGrace
<1> QED
  BY <1>1, <1>2, <1>3, <1>4, <1>5, <1>6 DEF Inv

\* Every step keeps it.
LEMMA InvStep == Inv /\ [Next]_vars => Inv'
BY TypesStep, FiniteStep, OnceStep, EndedStep, ThrottledStep, CancelledStep DEF Inv

\* So it holds always.
LEMMA Invariance == Spec => []Inv
BY InitInv, InvStep, PTL DEF Spec

\* Details leave the manager in a report, or stay.
LEMMA DetailsReported ==
    Inv /\ [Next]_vars => [\A t \in hb.details \ hb'.details : hb'.reports[t] = hb.reports[t] + 1]_vars
<1> SUFFICES ASSUME Inv, [Next]_vars
             PROVE  \A t \in hb.details \ hb'.details : hb'.reports[t] = hb.reports[t] + 1
  BY ZenonT(40)
<1>1. Types /\ hb \in HbType /\ hb.details \subseteq Task
  BY ZenonT(40) DEF Inv, Types, HbType
<1>2. CASE Aside \/ Starts \/ Moves \/ Completing
  <2>1. hb' = hb
    BY <1>1, <1>2, AsideFrame, StartsFrame
    DEF Moves, StartsEnd, CheckOutstanding, GraceElapses, Completing, Evicted, Sent
  <2> QED
    BY <2>1
<1>3. CASE Beats
  <2>1. ASSUME NEW t \in Task, RecordHeartbeat(t) PROVE hb'.details = hb.details
    BY <1>1, <2>1 DEF RecordHeartbeat, HbType
  <2>2. ASSUME NEW t \in Task, ThrottleElapses(t) PROVE hb'.details = hb.details
    <3> DEFINE a == [hb EXCEPT !.sleeping = @ \ {t}]
               n == Append(hb.chan, [kind |-> "throttled", t |-> t])
    <3>1. a \in HbType /\ a.details = hb.details
      BY <1>1 DEF HbType
    <3>2. hb' = [a EXCEPT !.chan = n]
      BY <2>2 DEF ThrottleElapses
    <3> HIDE DEF a, n
    <3> QED
      BY <3>1, <3>2 DEF HbType
  <2>3. ASSUME NEW t \in Task, NEW ok \in BOOLEAN, ReportReturns(t, ok)
        PROVE  hb'.details = hb.details
    <3> DEFINE f == [hb.reports EXCEPT ![t] = @ - 1]
               a == [hb EXCEPT !.reports = f]
               n == Append(hb.chan, [kind |-> "reported", t |-> t])
    <3>1. hb' = [a EXCEPT !.chan = n]
      BY <2>3 DEF ReportReturns
    <3> HIDE DEF f, n
    <3>2. DOMAIN a = DOMAIN hb /\ a.details = hb.details /\ "details" \in DOMAIN hb
      BY <1>1 DEF HbType
    <3> HIDE DEF a
    <3> QED
      BY <3>1, <3>2
  <2> QED
    BY <1>3, <2>1, <2>2, <2>3 DEF Beats
<1>4. CASE HandleAction
  <2> DEFINE m == Head(hb.chan)
  <2>1. m \in ActionType /\ Handles(m)
    BY <1>1, <1>4, HandleFields
  <2> HIDE DEF m
  <2>2. \A t \in Task : t # m.t => (t \in hb'.details <=> t \in hb.details)
    BY ZenonT(40), <2>1 DEF Handles, SameFor
  <2>3. m.t \in hb.details /\ m.t \notin hb'.details => hb'.reports[m.t] = hb.reports[m.t] + 1
    BY ZenonT(40), <2>1 DEF Handles, SameFor
  <2> QED
    BY ZenonT(40), <1>1, <2>2, <2>3
<1>5. CASE Lang
  <2>1. hb'.details = hb.details
    BY <1>1, <1>5 DEF Lang, Complete, HbType
  <2> QED
    BY <2>1
<1>6. CASE StopHeartbeats
  <2> DEFINE a == [hb EXCEPT !.down = TRUE]
             b == [a EXCEPT !.chan = <<>>]
  <2>1. hb' = [b EXCEPT !.sleeping = {}]
    BY <1>6 DEF StopHeartbeats
  <2>2. DOMAIN a = DOMAIN hb /\ a.details = hb.details /\ "details" \in DOMAIN hb
    BY <1>1 DEF HbType
  <2> HIDE DEF a
  <2>3. DOMAIN b = DOMAIN hb /\ b.details = hb.details
    BY <2>2
  <2> HIDE DEF b
  <2>4. hb'.details = hb.details
    BY <2>1, <2>2, <2>3
  <2> QED
    BY <2>4
<1> QED
  BY ZenonT(40), <1>2, <1>3, <1>4, <1>5, <1>6, Steps

-----------------------------------------------------------------------------
\* record and handle_throttle_completed: whatever the order in which reports return,
\* throttles end and activities complete, an activity has at most one report in
\* flight, or two once evict has flushed its last details, and details are not lost
\* while the manager runs.
THEOREM ReportsThrottled == Spec => HeartbeatsReported
<1>1. Inv => \A t \in Task : hb.reports[t] > 1 => hb.reports[t] = 2 /\ calls[t] # "none"
  BY DEF Inv, Throttled
<1> QED
  BY <1>1, Invariance, DetailsReported, PTL DEF Spec, HeartbeatsReported

\* "Receive half of the heartbeats event channel must not be dropped": shutdown stops
\* the heartbeat manager only when lang has no activity left to heartbeat for.
THEOREM ManagerOutlivesActivities == Spec => []HeartbeatsHeard
<1>1. Inv => HeartbeatsHeard
  BY DEF Inv, Ended, HeartbeatsHeard
<1> QED
  BY <1>1, Invariance, PTL

\* streamify: when the grace period is over, the activities that lang has, and those it
\* is handed later, are cancelled.
THEOREM GraceCancelsAll == Spec => []CancelledAfterGrace
<1>1. Inv => CancelledAfterGrace
  BY DEF Inv
<1> QED
  BY <1>1, Invariance, PTL

===============================================================================
