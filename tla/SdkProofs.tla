------------------------------ MODULE SdkProofs ------------------------------
(* The activations of the Rust SDK's worker, for any number of runs, tasks,    *)
(* signals, updates and calls of the code.                                     *)
EXTENDS SdkWorker, FiniteSetTheorems, SequenceTheorems, TLAPS

(* Time for the leaves with the larger records *)
USE SMTT(30)

IsSeq(s) == s \in Seq({s[i] : i \in DOMAIN s})

Fields == {"code", "seqs", "chan", "futs", "status", "sig", "got", "handler", "running", "rep",
           "patch", "cancelled", "inbox", "out", "ph", "who", "after", "turn", "jobs", "only",
           "die", "again", "cmds", "res", "left"}

Eviction == <<RemoveFromCache>>

(* An eviction is an activation of its own                                     *)
Plain(s) == IsSeq(s) /\ \A i \in DOMAIN s : s[i].j # "remove"
JobsOK(s) == s = Eviction \/ Plain(s)
Starts(s) == \E i \in DOMAIN s : s[i] = InitializeWorkflow

InPolls == {"jobs", "code", "drain", "failed"}

(* A future between two steps                                                  *)
FutureOK(w) ==
  /\ DOMAIN w = Fields
  /\ w.out = <<>> /\ w.ph \in InPolls \cup {"idle", "evicted"}
  /\ w.only \in BOOLEAN /\ w.die \in BOOLEAN
  /\ w.ph \in {"code", "drain"} => ~w.only
  /\ w.ph \in {"jobs", "code", "drain"} =>
       IF w.only THEN w.jobs \in {Eviction, <<>>} ELSE ~w.die /\ Plain(w.jobs)

CoreFields == {"st", "jobs", "evict", "open", "signals", "updates", "cancelled", "done", "past"}

PlanOK ==
  /\ {"runs", "types", "work", "signals", "updates", "cancels", "evicts", "restarts"}
       \subseteq DOMAIN plan
  /\ plan.signals \in Nat /\ plan.updates \in Nat

CoreOK ==
  DOMAIN core = Runs /\ \A r \in Runs : DOMAIN core[r] = CoreFields /\ JobsOK(core[r].jobs)

TasksOK ==
  /\ IsSeq(tasks)
  /\ \A t \in DOMAIN tasks :
       /\ DOMAIN tasks[t] = {"run", "st", "wf"}
       /\ tasks[t].run \in Runs /\ tasks[t].run \in plan.types
       /\ FutureOK(tasks[t].wf)

CompletionsOK == IsSeq(completions) /\ \A n \in DOMAIN completions : completions[n].run \in Runs

Types ==
  /\ PlanOK /\ CoreOK /\ TasksOK /\ CompletionsOK
  /\ DOMAIN workflows = Runs /\ DOMAIN loop = {"wf", "act"}

AtRest(t) == tasks[t].wf.inbox = <<>> /\ ~Busy(t)
RestBut(r, t) == \A u \in Mine(r) : u # t => AtRest(u)
NoCompletion(r) == \A n \in DOMAIN completions : completions[n].run # r

(* The places of an activation                                                 *)
InInbox(r) ==
  \E t \in Mine(r) :
    /\ tasks[t].wf.ph = "idle" /\ Len(tasks[t].wf.inbox) = 1 /\ IsSeq(tasks[t].wf.inbox)
    /\ tasks[t].wf.inbox[1].jobs = core[r].jobs
    /\ RestBut(r, t) /\ NoCompletion(r)

InPoll(r) ==
  \E t \in Mine(r) :
    /\ Busy(t) /\ tasks[t].wf.inbox = <<>>
    /\ tasks[t].wf.only = (core[r].jobs = Eviction)
    /\ RestBut(r, t) /\ NoCompletion(r)

OneCompletion(r) ==
  \E n \in DOMAIN completions :
    /\ completions[n].run = r
    /\ \A m \in DOMAIN completions : completions[m].run = r => m = n

ComingBack(r) == OneCompletion(r) /\ \A t \in Mine(r) : AtRest(t)

Nowhere(r) == NoCompletion(r) /\ \A t \in Mine(r) : AtRest(t)

OnePlace(r) ==
  IF core[r].st = "lang" THEN InInbox(r) \/ InPoll(r) \/ ComingBack(r) ELSE Nowhere(r)

(* The map has futures that have not been joined, and one that has been evicted *)
(* only until the run is started again                                         *)
Mapped(r) == workflows[r] # 0 => workflows[r] \in Mine(r)

Replaced(t) ==
  LET r == tasks[t].run
  IN tasks[t].st = "running" /\ tasks[t].wf.ph = "evicted" /\ workflows[r] = t =>
       \/ core[r].st = "none"
       \/ core[r].st = "ready" /\ Starts(core[r].jobs)
       \/ core[r].st = "lang" /\ core[r].jobs = Eviction

Stopped == loop.wf # "polling" => \A r \in Runs : core[r].st # "lang"

InOrder ==
  /\ Types /\ Stopped
  /\ \A r \in Runs : OnePlace(r) /\ Mapped(r)
  /\ \A t \in DOMAIN tasks : Replaced(t)

Inv == Up => InOrder
-----------------------------------------------------------------------------
(* Sequences                                                                   *)

\* The indices of a sequence.
LEMMA SeqDomain ==
    ASSUME NEW s, IsSeq(s)
    PROVE  Len(s) \in Nat /\ DOMAIN s = 1..Len(s)
BY DEF IsSeq

\* Any sequence is one of its own elements.
LEMMA SeqIs ==
    ASSUME NEW S, NEW s \in Seq(S)
    PROVE  IsSeq(s)
<1>1. Len(s) \in Nat /\ DOMAIN s = 1..Len(s) /\ s = [i \in 1..Len(s) |-> s[i]]
  OBVIOUS
<1> QED
  BY <1>1 DEF IsSeq

\* A sequence is one over its elements and any others.
LEMMA Wider ==
    ASSUME NEW s, IsSeq(s), NEW T
    PROVE  s \in Seq({s[i] : i \in DOMAIN s} \cup T)
<1> DEFINE R == {s[i] : i \in DOMAIN s}
           S == R \cup T
<1>1. Len(s) \in Nat /\ DOMAIN s = 1..Len(s) /\ s = [i \in 1..Len(s) |-> s[i]]
  BY DEF IsSeq
<1>2. \A i \in 1..Len(s) : s[i] \in S
  BY <1>1
<1> HIDE DEF S
<1>3. s \in Seq(S)
  BY <1>1, <1>2
<1> QED
  BY <1>3 DEF S

\* What Append makes of a sequence.
LEMMA AppendSeq ==
    ASSUME NEW s, IsSeq(s), NEW x
    PROVE  /\ IsSeq(Append(s, x)) /\ Len(s) \in Nat /\ Len(Append(s, x)) = Len(s) + 1
           /\ DOMAIN Append(s, x) = 1..Len(s) + 1 /\ DOMAIN s = 1..Len(s)
           /\ \A i \in DOMAIN s : Append(s, x)[i] = s[i]
           /\ Append(s, x)[Len(s) + 1] = x
<1> DEFINE S == {s[i] : i \in DOMAIN s} \cup {x}
<1>2. s \in Seq(S)
  BY Zenon, Wider
<1> HIDE DEF S
<1>3. x \in S
  BY DEF S
<1>4. Append(s, x) \in Seq(S)
  BY <1>2, <1>3
<1>5. /\ Len(s) \in Nat /\ Len(Append(s, x)) = Len(s) + 1
      /\ DOMAIN Append(s, x) = 1..Len(s) + 1 /\ DOMAIN s = 1..Len(s)
      /\ \A i \in DOMAIN s : Append(s, x)[i] = s[i]
      /\ Append(s, x)[Len(s) + 1] = x
  BY <1>2, <1>3
<1> QED
  BY Zenon, <1>4, <1>5, SeqIs

\* What is left of a sequence without its first element.
LEMMA TailSeq ==
    ASSUME NEW s, IsSeq(s), s # <<>>
    PROVE  /\ IsSeq(Tail(s)) /\ Len(s) \in Nat \ {0} /\ Len(Tail(s)) = Len(s) - 1
           /\ DOMAIN s = 1..Len(s) /\ DOMAIN Tail(s) = 1..Len(s) - 1
           /\ \A i \in 1..Len(s) - 1 : Tail(s)[i] = s[i + 1]
           /\ Head(s) = s[1]
<1> DEFINE R == {s[i] : i \in DOMAIN s}
<1>1. s \in Seq(R)
  BY DEF IsSeq
<1> HIDE DEF R
<1>2. Tail(s) \in Seq(R)
  BY <1>1
<1>3. /\ Len(s) \in Nat \ {0} /\ Len(Tail(s)) = Len(s) - 1
      /\ DOMAIN s = 1..Len(s) /\ DOMAIN Tail(s) = 1..Len(s) - 1
      /\ \A i \in 1..Len(s) - 1 : Tail(s)[i] = s[i + 1]
      /\ Head(s) = s[1]
  BY <1>1
<1> QED
  BY Zenon, <1>2, <1>3, SeqIs

\* A sequence of one element.
LEMMA OneSeq ==
    ASSUME NEW x
    PROVE  IsSeq(<<x>>) /\ Head(<<x>>) = x /\ Tail(<<x>>) = <<>>
<1>1. <<x>> \in Seq({x}) /\ Len(<<x>>) = 1 /\ Head(<<x>>) = x /\ <<x>> # <<>>
  OBVIOUS
<1>2. IsSeq(<<x>>)
  BY <1>1, SeqIs, Zenon
<1>3. IsSeq(Tail(<<x>>)) /\ Len(Tail(<<x>>)) = Len(<<x>>) - 1
  BY <1>1, <1>2, TailSeq, Zenon
<1> QED
  BY <1>1, <1>2, <1>3 DEF IsSeq

\* A sequence with one element replaced.
LEMMA ChangedSeq ==
    ASSUME NEW s, IsSeq(s), NEW n \in DOMAIN s, NEW x, NEW z, z = [s EXCEPT ![n] = x]
    PROVE  /\ IsSeq(z) /\ DOMAIN z = DOMAIN s
           /\ z[n] = x /\ \A i \in DOMAIN s : i # n => z[i] = s[i]
<1> DEFINE S == {s[i] : i \in DOMAIN s} \cup {x}
<1>1. s \in Seq(S) /\ x \in S
  BY Wider
<1>2. n \in 1..Len(s)
  BY SeqDomain
<1> HIDE DEF S
<1>3. [s EXCEPT ![n] = x] \in Seq(S)
  BY <1>1, <1>2, ExceptSeq, Zenon
<1>4. IsSeq(z)
  BY Zenon, <1>3, SeqIs
<1>5. DOMAIN z = DOMAIN s /\ z[n] = x /\ \A i \in DOMAIN s : i # n => z[i] = s[i]
  BY Zenon
<1> QED
  BY <1>4, <1>5

\* What is left when one element is taken out.
LEMMA RemoveSeq ==
    ASSUME NEW s, IsSeq(s), NEW n \in DOMAIN s, NEW z, z = RemoveAt(s, n)
    PROVE  /\ IsSeq(z) /\ Len(s) \in Nat /\ DOMAIN s = 1..Len(s) /\ DOMAIN z = 1..Len(s) - 1
           /\ \A i \in DOMAIN z : z[i] = IF i < n THEN s[i] ELSE s[i + 1]
<1> DEFINE R == {s[i] : i \in DOMAIN s}
           p == n - 1
           q == n + 1
           l == Len(s)
<1>1. /\ l \in Nat /\ DOMAIN s = 1..l /\ n \in 1..l /\ p \in Int /\ q \in Int /\ l \in Int /\ 1 \in Int
      /\ \A i \in DOMAIN s : s[i] \in R
  BY SeqDomain
<1>3. (IF 1 <= p THEN p - 1 + 1 ELSE 0) = n - 1 /\ (IF q <= l THEN l - q + 1 ELSE 0) = l - n
  BY <1>1
<1> HIDE DEF R
<1>2. (\A i \in 1..p : s[i] \in R) /\ (\A i \in q..l : s[i] \in R)
  BY <1>1
<1>4. z = SubSeq(s, 1, p) \o SubSeq(s, q, l)
  BY Zenon DEF RemoveAt
<1> HIDE DEF p, q, l
<1>5. PICK a \in Seq(R) :
        /\ a = SubSeq(s, 1, p) /\ Len(a) = IF 1 <= p THEN p - 1 + 1 ELSE 0
        /\ \A i \in 1..p - 1 + 1 : a[i] = s[1 + i - 1]
  <2>1. /\ SubSeq(s, 1, p) \in Seq(R)
        /\ Len(SubSeq(s, 1, p)) = IF 1 <= p THEN p - 1 + 1 ELSE 0
        /\ \A i \in 1..p - 1 + 1 : SubSeq(s, 1, p)[i] = s[1 + i - 1]
    BY <1>1, <1>2, SubSeqProperties, SMTT(30)
  <2> QED
    BY <2>1, Zenon
<1>6. PICK b \in Seq(R) :
        /\ b = SubSeq(s, q, l) /\ Len(b) = IF q <= l THEN l - q + 1 ELSE 0
        /\ \A i \in 1..l - q + 1 : b[i] = s[q + i - 1]
  <2>1. /\ SubSeq(s, q, l) \in Seq(R)
        /\ Len(SubSeq(s, q, l)) = IF q <= l THEN l - q + 1 ELSE 0
        /\ \A i \in 1..l - q + 1 : SubSeq(s, q, l)[i] = s[q + i - 1]
    BY <1>1, <1>2, SubSeqProperties, SMTT(30)
  <2> QED
    BY <2>1, Zenon
<1>7. /\ z \in Seq(R) /\ Len(z) = Len(a) + Len(b)
      /\ \A i \in 1..Len(a) + Len(b) : z[i] = IF i <= Len(a) THEN a[i] ELSE b[i - Len(a)]
  <2>1. /\ a \o b \in Seq(R) /\ Len(a \o b) = Len(a) + Len(b)
        /\ \A i \in 1..Len(a) + Len(b) : (a \o b)[i] = IF i <= Len(a) THEN a[i] ELSE b[i - Len(a)]
    BY ConcatProperties, SMTT(30)
  <2> QED
    BY <1>4, <1>5, <1>6, <2>1, Zenon
<1>8. Len(a) = n - 1 /\ Len(b) = l - n /\ Len(a) + Len(b) = l - 1
  <2>1. Len(a) = n - 1 /\ Len(b) = l - n
    BY <1>3, <1>5, <1>6, Zenon
  <2>2. (n - 1) + (l - n) = l - 1
    BY <1>1
  <2> QED
    BY <2>1, <2>2
<1>9. \A i \in 1..l - 1 : z[i] = IF i < n THEN s[i] ELSE s[i + 1]
  <2> SUFFICES ASSUME NEW i \in 1..l - 1
               PROVE  z[i] = IF i < n THEN s[i] ELSE s[i + 1]
    OBVIOUS
  <2>1. z[i] = IF i <= n - 1 THEN a[i] ELSE b[i - (n - 1)]
    BY <1>7, <1>8, Zenon
  <2>2. CASE i < n
    <3>1. i <= n - 1 /\ i \in 1..p - 1 + 1 /\ 1 + i - 1 = i
      BY <1>1, <2>2 DEF p
    <3>2. a[i] = s[i]
      BY <1>5, <3>1, Zenon
    <3> QED
      BY <2>1, <2>2, <3>1, <3>2, Zenon
  <2>3. CASE ~(i < n)
    <3> DEFINE k == i - (n - 1)
    <3>1. ~(i <= n - 1) /\ k \in 1..l - q + 1 /\ q + k - 1 = i + 1
      BY <1>1, <2>3 DEF q
    <3>2. b[k] = s[i + 1]
      <4> HIDE DEF k
      <4> QED
        BY <1>6, <3>1, Zenon
    <3> QED
      BY <2>1, <2>3, <3>1, <3>2, Zenon
  <2> QED
    BY <2>2, <2>3
<1>10. DOMAIN z = 1..l - 1 /\ IsSeq(z)
  <2>1. IsSeq(z)
    BY <1>7, SeqIs
  <2>2. Len(z) = l - 1
    BY <1>7, <1>8
  <2> QED
    BY <2>1, <2>2, SeqDomain
<1> QED
  BY <1>1, <1>9, <1>10 DEF l
-----------------------------------------------------------------------------
(* What the operations of a future leave alone                                 *)

(* Everything that decides where its activation is, and its signals            *)
Kept(w, v) ==
  /\ DOMAIN v = Fields
  /\ v.inbox = w.inbox /\ v.only = w.only /\ v.die = w.die /\ v.jobs = w.jobs
  /\ v.got = w.got /\ v.sig = w.sig

SameControl(w, v) == Kept(w, v) /\ v.out = w.out /\ v.ph = w.ph
PollsOn(w, v) == Kept(w, v) /\ v.out = w.out /\ v.ph \in {"code", "drain"}

\* A call of the context sends a command and leaves the control of the poll alone.
LEMMA Sends ==
    ASSUME NEW w, DOMAIN w = Fields, NEW c
    PROVE  SameControl(w, Send(w, c))
BY DEF Send, SameControl, Kept, Fields

\* So does a call that also makes a future the code may await.
LEMMA Issues ==
    ASSUME NEW w, DOMAIN w = Fields, NEW own, NEW counter, NEW c
    PROVE  SameControl(w, Issue(w, own, counter, c))
<1> DEFINE u == [w EXCEPT !.seqs[counter] = @ + 1, !.futs = Append(@, NewFut(c.k, c.seq, 0, own))]
<1>1. SameControl(w, u)
  BY DEF SameControl, Kept, Fields
<1>2. Issue(w, own, counter, c) = Send(u, c)
  BY DEF Issue
<1> HIDE DEF u
<1>3. SameControl(u, Send(u, c))
  BY <1>1, Sends DEF SameControl, Kept
<1> QED
  BY <1>1, <1>2, <1>3 DEF SameControl, Kept

\* Whatever the code starts.
LEMMA StartCalls ==
    ASSUME NEW w, DOMAIN w = Fields, NEW own, NEW k
    PROVE  SameControl(w, StartCall(w, own, k))
<1>1. \A counter, c : SameControl(w, Issue(w, own, counter, c))
  BY Issues
<1>2. SameControl(w, StartChild(w, own))
  <2> DEFINE n == Len(w.futs)
             u == [w EXCEPT !.seqs.child = w.seqs.child + 1,
                            !.seqs.cancelExternal = w.seqs.cancelExternal + 1,
                            !.futs = @ \o <<NewFut("childComplete", w.seqs.child, w.seqs.cancelExternal, own),
                                            NewFut("childStart", w.seqs.child, 0, own)>>]
             x == Send(u, Command("subscribe", "childComplete", w.seqs.child, n + 1))
             y == Send(x, ChildCommand(w.seqs.child, n + 2))
  <2>1. SameControl(w, u)
    BY DEF SameControl, Kept, Fields
  <2>2. StartChild(w, own) = y
    BY DEF StartChild
  <2> HIDE DEF u, n
  <2>3. SameControl(u, x)
    BY <2>1, Sends DEF SameControl, Kept
  <2> HIDE DEF x
  <2>4. SameControl(x, y)
    BY <2>3, Sends DEF SameControl, Kept
  <2> QED
    BY ZenonT(40), <2>1, <2>2, <2>3, <2>4 DEF SameControl, Kept
<1>3. SameControl(w, StartNexusOperation(w, own))
  <2> DEFINE n == Len(w.futs)
             u == [w EXCEPT !.seqs.nexus = w.seqs.nexus + 1,
                            !.futs = @ \o <<NewFut("nexusComplete", w.seqs.nexus, 0, own),
                                            NewFut("nexusStart", w.seqs.nexus, 0, own)>>]
             x == Send(u, Command("subscribe", "nexusComplete", w.seqs.nexus, n + 1))
             y == Send(x, NexusCommand(w.seqs.nexus, n + 2))
  <2>1. SameControl(w, u)
    BY DEF SameControl, Kept, Fields
  <2>2. StartNexusOperation(w, own) = y
    BY DEF StartNexusOperation
  <2> HIDE DEF u, n
  <2>3. SameControl(u, x)
    BY <2>1, Sends DEF SameControl, Kept
  <2> HIDE DEF x
  <2>4. SameControl(x, y)
    BY <2>3, Sends DEF SameControl, Kept
  <2> QED
    BY <2>1, <2>2, <2>3, <2>4 DEF SameControl, Kept
<1> QED
  BY <1>1, <1>2, <1>3
     DEF StartCall, Timer, ScheduleActivity, LocalActivity, SignalWorkflow, CancelExternal

\* Whatever else it calls.
LEMMA OtherCalls ==
    ASSUME NEW w, DOMAIN w = Fields, NEW n
    PROVE  /\ SameControl(w, CancelCall(w, n)) /\ SameControl(w, CancelStartedChild(w, n))
           /\ SameControl(w, CancelStartedNexus(w, n)) /\ SameControl(w, SignalChannel(w))
           /\ SameControl(w, UpdateHandler(w)) /\ SameControl(w, PatchCall(w))
           /\ SameControl(w, UpsertCall(w)) /\ SameControl(w, ForceTaskFail(w))
<1>1. \A c : SameControl(w, Send(w, c))
  BY Sends
<1>2. SameControl(w, CancelLocalActivity(w, n))
  <2> DEFINE u == [w EXCEPT !.futs[n].did = TRUE]
             x == IF w.futs[n].alt > 0 THEN Send(u, Command("cancel", "timer", w.futs[n].alt, 0)) ELSE u
  <2>1. SameControl(w, u)
    BY DEF SameControl, Kept, Fields
  <2>2. CancelLocalActivity(w, n) = Send(x, CancelId(w.futs[n]))
    BY DEF CancelLocalActivity
  <2> HIDE DEF u
  <2>3. SameControl(u, x)
    BY ZenonT(40), <2>1, Sends DEF SameControl, Kept
  <2> HIDE DEF x
  <2>4. SameControl(x, Send(x, CancelId(w.futs[n])))
    BY <2>3, Sends DEF SameControl, Kept
  <2> QED
    BY <2>1, <2>2, <2>3, <2>4 DEF SameControl, Kept
<1>3. SameControl(w, PatchCall(w))
  <2> DEFINE u == Send(w, Command("plain", "patch", 0, 0))
  <2>1. SameControl(w, u)
    BY <1>1
  <2>2. PatchCall(w) = [u EXCEPT !.patch = IF @ # "unknown" THEN @ ELSE IF w.rep THEN "old" ELSE "new"]
    BY DEF PatchCall
  <2> HIDE DEF u
  <2>3. SameControl(u, PatchCall(w))
    BY <2>1, <2>2 DEF SameControl, Kept, Fields
  <2> QED
    BY <2>1, <2>3 DEF SameControl, Kept
<1> QED
  BY <1>1, <1>2, <1>3
     DEF CancelCall, CancelStartedChild, CancelStartedNexus, SignalChannel, UpdateHandler, UpsertCall,
         ForceTaskFail

\* So does polling the futures that the code awaits.
LEMMA FuturesPolled ==
    ASSUME NEW w, DOMAIN w = Fields, NEW own
    PROVE  SameControl(w, PollFutures(w, own))
<1>1. PICK x : PollFutures(w, own) = [w EXCEPT !.futs = x.futs, !.seqs = x.seqs, !.chan = x.chan]
  BY Zenon DEF PollFutures
<1> QED
  BY <1>1 DEF SameControl, Kept, Fields

\* poll_wf_future begins, or begins again.
LEMMA InnerPolled ==
    ASSUME NEW w, DOMAIN w = Fields
    PROVE  PollsOn(w, PollInner(w)) /\ PollsOn(w, Repoll(w)) /\ \A a : PollsOn(w, PollWfFuture(w, a))
<1>1. ASSUME NEW u, DOMAIN u = Fields
      PROVE  PollsOn(u, PollInner(u))
  <2> DEFINE x == PollFutures(u, Main)
  <2>1. SameControl(u, x)
    BY <1>1, FuturesPolled
  <2> HIDE DEF x
  <2>2. PollsOn(u, [x EXCEPT !.ph = "code", !.who = Main])
    BY <2>1 DEF PollsOn, SameControl, Kept, Fields
  <2>3. PollsOn(u, [u EXCEPT !.ph = "drain", !.res = "pending"])
    BY <1>1 DEF PollsOn, Kept, Fields
  <2> QED
    BY <2>2, <2>3 DEF PollInner, x
<1>2. PollsOn(w, Repoll(w))
  <2> DEFINE u == [w EXCEPT !.again = TRUE]
  <2>1. SameControl(w, u)
    BY DEF SameControl, Kept, Fields
  <2>2. Repoll(w) = PollInner(u)
    BY DEF Repoll
  <2> HIDE DEF u
  <2> QED
    BY <1>1, <2>1, <2>2 DEF SameControl, PollsOn, Kept
<1>3. ASSUME NEW a PROVE PollsOn(w, PollWfFuture(w, a))
  <2> DEFINE u == [w EXCEPT !.after = a, !.res = "pending", !.again = FALSE]
  <2>1. SameControl(w, u)
    BY DEF SameControl, Kept, Fields
  <2>2. PollWfFuture(w, a) = PollInner(u)
    BY DEF PollWfFuture
  <2> HIDE DEF u
  <2> QED
    BY <1>1, <2>1, <2>2 DEF SameControl, PollsOn, Kept
<1> QED
  BY <1>1, <1>2, <1>3

(* A step of a poll: it goes on, or its completion is sent                     *)
GoesOn(w, v) ==
  FutureOK(v) /\ v.ph \in InPolls /\ v.inbox = w.inbox /\ v.only = w.only

GivesBack(w, v) ==
  /\ DOMAIN v = Fields /\ v.inbox = w.inbox
  /\ \E x : v.out = <<x>>
  /\ v.only \in BOOLEAN /\ v.die \in BOOLEAN
  /\ v.ph = "idle" \/ (v.ph = "evicted" /\ w.only)

Polled(w, v) == GoesOn(w, v) \/ GivesBack(w, v)

\* Polling on keeps a future that is not being evicted in order.
LEMMA PollGoesOn ==
    ASSUME NEW w, FutureOK(w), w.ph \in {"jobs", "code", "drain"}, ~w.only, NEW v, PollsOn(w, v)
    PROVE  GoesOn(w, v)
BY DEF FutureOK, PollsOn, Kept, GoesOn, InPolls

\* fail_wft ends a poll with one completion, a failure.
LEMMA FailureSent ==
    ASSUME NEW w, DOMAIN w = Fields, w.out = <<>>
    PROVE  /\ Kept(w, FailWft(w)) /\ FailWft(w).ph = "idle"
           /\ FailWft(w).out = <<[ok |-> FALSE, cmds |-> <<>>]>>
<1>1. Append(w.out, [ok |-> FALSE, cmds |-> <<>>]) = <<[ok |-> FALSE, cmds |-> <<>>]>>
  OBVIOUS
<1> QED
  BY Zenon, <1>1 DEF FailWft, Kept, Fields

\* The next of the update handlers is polled, or the main code.
LEMMA TurnTaken ==
    ASSUME NEW w, DOMAIN w = Fields
    PROVE  PollsOn(w, NextTurn(w))
<1>1. CASE w.turn = <<>>
  BY <1>1, InnerPolled DEF NextTurn
<1>2. CASE w.turn # <<>>
  <2> DEFINE x == PollFutures(w, Head(w.turn))
  <2>1. SameControl(w, x)
    BY FuturesPolled
  <2>2. NextTurn(w) = [x EXCEPT !.ph = "code", !.who = Head(w.turn), !.turn = Tail(@)]
    BY <1>2 DEF NextTurn
  <2> HIDE DEF x
  <2> QED
    BY <2>1, <2>2 DEF PollsOn, SameControl, Kept, Fields
<1> QED
  BY <1>1, <1>2

\* The code that is polled calls, waits, returns or panics.
LEMMA CodePolled ==
    ASSUME NEW w, FutureOK(w), w.ph = "code"
    PROVE  /\ GoesOn(w, Waits(w)) /\ GoesOn(w, Returns(w)) /\ Polled(w, Panics(w))
           /\ \A v : SameControl(w, v) => GoesOn(w, v)
<1>1. DOMAIN w = Fields /\ ~w.only /\ w.out = <<>>
  BY DEF FutureOK
<1>2. PollsOn(w, Waits(w))
  BY <1>1, TurnTaken DEF Waits, PollsOn, Kept, Fields
<1>3. PollsOn(w, Returns(w))
  <2>1. CASE w.who = Main
    BY <1>1, <2>1 DEF Returns, PollsOn, Kept, Fields
  <2>2. CASE w.who # Main
    <3> DEFINE x == Send(w, Command("plain", "completed", w.who, 0))
               y == [x EXCEPT !.running = SelectSeq(@, LAMBDA u : u # w.who)]
    <3>1. SameControl(w, x)
      BY <1>1, Sends
    <3>2. Returns(w) = NextTurn(y)
      BY <2>2 DEF Returns
    <3> HIDE DEF x
    <3>3. SameControl(w, y)
      BY <3>1 DEF SameControl, Kept, Fields
    <3> HIDE DEF y
    <3>4. PollsOn(y, NextTurn(y))
      BY <3>3, TurnTaken DEF SameControl, Kept
    <3> QED
      BY <3>2, <3>3, <3>4 DEF SameControl, PollsOn, Kept
  <2> QED
    BY <2>1, <2>2
<1>4. Polled(w, Panics(w))
  <2>1. CASE w.again \/ w.who # Main
    <3>1. Panics(w) = [w EXCEPT !.ph = "failed"]
      BY <2>1 DEF Panics
    <3> QED
      BY <3>1 DEF Polled, GoesOn, FutureOK, InPolls, Fields
  <2>2. CASE ~(w.again \/ w.who # Main)
    <3> DEFINE x == [w EXCEPT !.code = "panicked"]
    <3>1. SameControl(w, x)
      BY <1>1 DEF SameControl, Kept, Fields
    <3>2. Panics(w) = FailWft(x)
      BY <2>2 DEF Panics
    <3> HIDE DEF x
    <3>3. Kept(x, FailWft(x)) /\ FailWft(x).ph = "idle" /\ FailWft(x).out = <<[ok |-> FALSE, cmds |-> <<>>]>>
      BY <1>1, <3>1, FailureSent DEF SameControl, Kept
    <3> QED
      BY <3>1, <3>2, <3>3 DEF Polled, GivesBack, FutureOK, SameControl, Kept
  <2> QED
    BY <2>1, <2>2
<1>5. ASSUME NEW v, SameControl(w, v) PROVE GoesOn(w, v)
  BY ZenonT(40), <1>5 DEF SameControl, Kept, GoesOn, FutureOK, InPolls
<1> QED
  BY <1>1, <1>2, <1>3, <1>4, <1>5, PollGoesOn

\* unblock wakes the future of a job that resolves something.
LEMMA Unblocks ==
    ASSUME NEW w, DOMAIN w = Fields, NEW k, NEW seq, NEW r
    PROVE  SameControl(w, Unblock(w, k, seq, r))
<1> DEFINE s == CHOOSE s \in w.status : s.id = <<k, seq>>
<1>1. Unblock(w, k, seq, r) = [w EXCEPT !.status = @ \ {s}, !.futs[s.fut].st = "sent", !.futs[s.fut].r = r]
  BY DEF Unblock
<1> HIDE DEF s
<1> QED
  BY <1>1 DEF SameControl, Kept, Fields

\* handle_job for each kind of job.
LEMMA JobHandled ==
    ASSUME NEW w, FutureOK(w), w.ph = "jobs", w.jobs # <<>>, NEW how
    PROVE  Polled(w, HandleJob(w, how))
<1> DEFINE j == Head(w.jobs)
           x == [w EXCEPT !.jobs = Tail(@)]
           v == HandleJob(w, how)
<1>1. DOMAIN w = Fields /\ w.out = <<>> /\ w.only \in BOOLEAN
  BY DEF FutureOK
<1>2. /\ DOMAIN x = Fields /\ x.out = <<>> /\ x.ph = "jobs" /\ x.inbox = w.inbox
      /\ x.only = w.only /\ x.die = w.die /\ x.jobs = Tail(w.jobs)
  BY <1>1 DEF Fields
<1>3. CASE w.only
  <2>1. w.jobs = Eviction /\ j = RemoveFromCache /\ Tail(w.jobs) = <<>>
    <3>1. w.jobs = Eviction
      BY <1>3 DEF FutureOK
    <3> QED
      BY <3>1, OneSeq, ZenonT(40) DEF Eviction
  <2>2. v = [x EXCEPT !.die = TRUE]
    BY <2>1 DEF HandleJob, RemoveFromCache, Job
  <2> HIDE DEF x
  <2> QED
    BY ZenonT(40), <1>2, <1>3, <2>1, <2>2 DEF Polled, GoesOn, FutureOK, InPolls, Fields
<1>4. CASE ~w.only
  <2>1. Plain(w.jobs) /\ ~w.die
    BY <1>4 DEF FutureOK
  <2>2. Plain(Tail(w.jobs)) /\ j.j # "remove"
    <3>1. /\ IsSeq(Tail(w.jobs)) /\ Len(w.jobs) \in Nat \ {0} /\ DOMAIN w.jobs = 1..Len(w.jobs)
          /\ DOMAIN Tail(w.jobs) = 1..Len(w.jobs) - 1 /\ j = w.jobs[1]
          /\ \A i \in 1..Len(w.jobs) - 1 : Tail(w.jobs)[i] = w.jobs[i + 1]
      BY <2>1, TailSeq DEF Plain
    <3> QED
      BY <2>1, <3>1 DEF Plain
  <2>3. FutureOK(x) /\ x.ph = "jobs" /\ ~x.only
    BY <1>2, <1>4, <2>1, <2>2 DEF FutureOK, InPolls
  <2> HIDE DEF x
  <2>4. ASSUME NEW y, SameControl(x, y) PROVE Polled(w, y)
    BY <1>2, <2>3, <2>4 DEF Polled, GoesOn, SameControl, Kept, FutureOK, InPolls
  <2>5. Polled(w, FailWft(x))
    <3>1. Kept(x, FailWft(x)) /\ FailWft(x).ph = "idle" /\ FailWft(x).out = <<[ok |-> FALSE, cmds |-> <<>>]>>
      BY <1>2, FailureSent
    <3> QED
      BY ZenonT(40), <1>2, <2>3, <3>1 DEF Polled, GivesBack, Kept, FutureOK
  <2>6. CASE j.j = "resolve"
    <3>1. v = IF CanUnblock(x, j.k, j.seq) THEN Unblock(x, j.k, j.seq, j.r) ELSE FailWft(x)
      BY <2>6 DEF HandleJob, x
    <3> QED
      BY <1>2, <2>4, <2>5, <3>1, Unblocks
  <2>7. CASE j.j = "signal"
    <3>1. v = Signaled(x, j.seq)
      BY <2>7 DEF HandleJob, x
    <3> QED
      BY ZenonT(40), <1>2, <2>3, <3>1 DEF Signaled, Polled, GoesOn, FutureOK, InPolls, Fields
  <2>8. CASE j.j = "update"
    <3>1. v = DoUpdate(x, j.seq, how)
      BY <2>8 DEF HandleJob, x
    <3>2. \A c : SameControl(x, [x EXCEPT !.cmds = Append(@, c)])
      BY <1>2 DEF SameControl, Kept, Fields
    <3>3. \A c, d : SameControl(x, [x EXCEPT !.cmds = Append(@, c), !.running = Append(@, d)])
      BY <1>2 DEF SameControl, Kept, Fields
    <3> QED
      BY ZenonT(40), <2>4, <2>5, <3>1, <3>2, <3>3 DEF DoUpdate
  <2>9. CASE j.j \notin {"resolve", "signal", "update"}
    <3>1. v \in {[x EXCEPT !.patch = "new"], [x EXCEPT !.cancelled = TRUE], x}
      BY <2>2, <2>9 DEF HandleJob, x
    <3>2. \A y \in {[x EXCEPT !.patch = "new"], [x EXCEPT !.cancelled = TRUE], x} : SameControl(x, y)
      BY ZenonT(40), <1>2 DEF SameControl, Kept, Fields
    <3> QED
      BY Zenon, <2>4, <3>1, <3>2
  <2> QED
    BY <2>6, <2>7, <2>8, <2>9
<1> QED
  BY <1>1, <1>3, <1>4

\* All jobs are handled: an eviction ends the future, anything else polls the code.
LEMMA JobsHandled ==
    ASSUME NEW w, FutureOK(w), w.ph = "jobs"
    PROVE  Polled(w, JobsDone(w))
<1>1. DOMAIN w = Fields /\ w.out = <<>> /\ w.only \in BOOLEAN /\ w.die \in BOOLEAN
  BY DEF FutureOK
<1>2. CASE w.only
  <2>1. Append(w.out, [ok |-> TRUE, cmds |-> <<>>]) = <<[ok |-> TRUE, cmds |-> <<>>]>>
    BY <1>1
  <2>2. JobsDone(w) = [w EXCEPT !.out = Append(@, [ok |-> TRUE, cmds |-> <<>>]), !.ph = "evicted"]
    BY <1>2 DEF JobsDone
  <2> QED
    BY ZenonT(40), <1>1, <1>2, <2>1, <2>2 DEF Polled, GivesBack, Fields
<1>3. CASE ~w.only
  <2> DEFINE x == [w EXCEPT !.turn = w.running]
  <2>1. SameControl(w, x)
    BY <1>1 DEF SameControl, Kept, Fields
  <2>2. JobsDone(w) = NextTurn(x)
    BY <1>3 DEF JobsDone
  <2> HIDE DEF x
  <2>3. PollsOn(x, NextTurn(x))
    BY <2>1, TurnTaken DEF SameControl, Kept
  <2>4. PollsOn(w, NextTurn(x))
    BY <2>1, <2>3 DEF SameControl, PollsOn, Kept
  <2> QED
    BY <1>3, <2>2, <2>4, PollGoesOn DEF Polled
<1> QED
  BY <1>1, <1>2, <1>3

\* poll_wf_future takes a call of the code.
LEMMA CommandDrained ==
    ASSUME NEW w, FutureOK(w), w.ph = "drain"
    PROVE  Polled(w, DrainCommand(w))
<1> DEFINE c == Head(w.chan)
           x == [w EXCEPT !.chan = Tail(@)]
           v == DrainCommand(w)
<1> SUFFICES Polled(w, v)
  OBVIOUS
<1>1. DOMAIN w = Fields /\ ~w.only /\ w.out = <<>> /\ w.only \in BOOLEAN /\ w.die \in BOOLEAN
  BY DEF FutureOK
<1>2. SameControl(w, x)
  BY <1>1 DEF SameControl, Kept, Fields
<1>3. ASSUME NEW y, SameControl(x, y) PROVE Polled(w, y)
  <2> HIDE DEF x
  <2> QED
    BY <1>2, <1>3 DEF Polled, GoesOn, SameControl, Kept, FutureOK, InPolls
<1>4. ASSUME NEW y, PollsOn(x, y) PROVE Polled(w, y)
  <2> HIDE DEF x
  <2>1. PollsOn(w, y)
    BY <1>2, <1>4 DEF SameControl, PollsOn, Kept
  <2> QED
    BY <1>1, <2>1, PollGoesOn DEF Polled
<1>5. DOMAIN x = Fields /\ x.out = <<>> /\ x.ph = "drain"
  BY <1>1, <1>2 DEF SameControl, Kept
<1>6. CASE c.c = "cancel"
  <2> DEFINE u == [x EXCEPT !.cmds = Append(@, c)]
             y == Unblock(u, "timer", c.seq, "cancelled")
  <2>1. v = CancelCommand(x, c)
    BY <1>6 DEF DrainCommand
  <2> HIDE DEF x, v
  <2>2. SameControl(x, u)
    BY <1>5 DEF SameControl, Kept, Fields
  <2>3. v = u \/ v = [x EXCEPT !.ph = "failed"] \/ v = Repoll(y)
    BY <2>1 DEF CancelCommand
  <2> HIDE DEF u
  <2>4. Polled(w, [x EXCEPT !.ph = "failed"])
    BY <1>2, <1>5 DEF Polled, GoesOn, SameControl, Kept, FutureOK, InPolls, Fields
  <2>5. SameControl(u, y)
    BY <2>2, Unblocks DEF SameControl, Kept
  <2> HIDE DEF y
  <2>6. PollsOn(y, Repoll(y))
    BY <2>5, InnerPolled DEF SameControl, Kept
  <2>7. PollsOn(x, Repoll(y))
    BY <2>2, <2>5, <2>6 DEF SameControl, PollsOn, Kept
  <2> QED
    BY <1>3, <1>4, <2>2, <2>3, <2>4, <2>7
<1>7. CASE c.c \in {"new", "subscribe"}
  <2> DEFINE u == [x EXCEPT !.cmds = Append(@, c)]
  <2>1. v = Subscribe(u, CommandIdOf(c.k), c.seq, c.fut) \/ v = Subscribe(x, c.k, c.seq, c.fut)
    BY Zenon, <1>7 DEF DrainCommand
  <2> HIDE DEF x, v
  <2>2. SameControl(x, u)
    BY <1>5 DEF SameControl, Kept, Fields
  <2> HIDE DEF u
  <2>3. \A k, s, f : SameControl(x, Subscribe(x, k, s, f)) /\ SameControl(u, Subscribe(u, k, s, f))
    BY <1>5, <2>2 DEF Subscribe, SameControl, Kept, Fields
  <2>4. SameControl(x, v)
    BY <2>1, <2>2, <2>3 DEF SameControl, Kept
  <2> QED
    BY <1>3, <2>4
<1>8. CASE c.c = "subscribeSignal"
  <2> DEFINE u == [x EXCEPT !.sig = [st |-> "chan", buf |-> <<>>], !.got = @ \o x.sig.buf]
  <2>1. v = SubscribeSignal(x)
    BY <1>8 DEF DrainCommand
  <2> HIDE DEF x, v
  <2>2. v = u \/ v = Repoll(u)
    BY <2>1 DEF SubscribeSignal
  <2>3. /\ DOMAIN u = Fields /\ u.inbox = x.inbox /\ u.only = x.only /\ u.die = x.die
        /\ u.jobs = x.jobs /\ u.out = x.out /\ u.ph = x.ph
    BY <1>5 DEF Fields
  <2> HIDE DEF u
  <2>4. FutureOK(u) /\ ~u.only /\ u.ph = "drain" /\ u.inbox = w.inbox /\ u.only = w.only
    BY <1>1, <1>2, <2>3 DEF FutureOK, SameControl, Kept
  <2>5. GoesOn(u, u)
    BY <2>4 DEF GoesOn, InPolls
  <2>6. GoesOn(u, Repoll(u))
    BY <2>3, <2>4, InnerPolled, PollGoesOn
  <2> QED
    BY <2>2, <2>4, <2>5, <2>6 DEF Polled, GoesOn
<1>9. CASE c.c = "forceFailure"
  <2>1. v = FailWft(x)
    BY Zenon, <1>9 DEF DrainCommand, ForcedFailure
  <2> HIDE DEF x, v
  <2>2. Kept(x, FailWft(x)) /\ FailWft(x).ph = "idle" /\ FailWft(x).out = <<[ok |-> FALSE, cmds |-> <<>>]>>
    BY Zenon, <1>5, FailureSent
  <2> QED
    BY <1>1, <1>2, <2>1, <2>2 DEF Polled, GivesBack, SameControl, Kept
<1>10. CASE c.c \notin {"cancel", "new", "subscribe", "subscribeSignal", "forceFailure"}
  <2>1. v = [x EXCEPT !.cmds = Append(@, c)] \/ v = [x EXCEPT !.handler = TRUE]
    BY Zenon, <1>10 DEF DrainCommand
  <2> HIDE DEF x, v
  <2>2. SameControl(x, v)
    BY <1>5, <2>1 DEF SameControl, Kept, Fields
  <2> QED
    BY <1>3, <2>2
<1> QED
  BY <1>6, <1>7, <1>8, <1>9, <1>10

\* poll_wf_future is through, and poll goes on to the jobs or sends its completion.
LEMMA AllDrained ==
    ASSUME NEW w, FutureOK(w), w.ph = "drain"
    PROVE  Polled(w, Drained(w))
<1> DEFINE x == IF w.res = "done" THEN [w EXCEPT !.cmds = Append(@, Command("plain", "end", 0, 0))]
                ELSE w
<1>1. DOMAIN w = Fields /\ ~w.only /\ w.out = <<>> /\ w.only \in BOOLEAN /\ ~w.die /\ w.die \in BOOLEAN
  BY Zenon DEF FutureOK
<1>2. SameControl(w, x)
  BY <1>1 DEF SameControl, Kept, Fields
<1>3. Drained(w) = IF x.after = "jobs" THEN [x EXCEPT !.ph = "jobs"] ELSE SendCompletion(x)
  BY DEF Drained
<1> HIDE DEF x
<1>4. CASE x.after = "jobs"
  BY <1>1, <1>2, <1>3, <1>4 DEF Polled, GoesOn, SameControl, Kept, FutureOK, InPolls, Fields
<1>5. CASE x.after # "jobs"
  <2>1. Append(x.out, [ok |-> TRUE, cmds |-> x.cmds]) = <<[ok |-> TRUE, cmds |-> x.cmds]>>
    BY <1>1, <1>2 DEF SameControl
  <2>2. Drained(w) = [x EXCEPT !.out = Append(@, [ok |-> TRUE, cmds |-> x.cmds]), !.ph = "idle"]
    BY <1>1, <1>2, <1>3, <1>5 DEF SendCompletion, SameControl, Kept
  <2> QED
    BY <1>1, <1>2, <2>1, <2>2 DEF Polled, GivesBack, SameControl, Kept, Fields
<1> QED
  BY <1>4, <1>5

\* poll takes an activation from its inbox.
LEMMA ActivationTaken ==
    ASSUME NEW w, FutureOK(w), IsSeq(w.inbox), Len(w.inbox) = 1, JobsOK(w.inbox[1].jobs)
    PROVE  LET v == TakeActivation(w)
           IN /\ FutureOK(v) /\ v.ph \in InPolls /\ v.inbox = <<>>
              /\ v.only = (w.inbox[1].jobs = Eviction)
<1> DEFINE a == w.inbox[1]
           e == (a.jobs = <<RemoveFromCache>>)
           x == [w EXCEPT !.inbox = Tail(@), !.rep = a.rep, !.jobs = a.jobs, !.cmds = <<>>,
                          !.only = e, !.die = FALSE, !.ph = "jobs"]
<1>1. DOMAIN w = Fields /\ w.out = <<>>
  BY DEF FutureOK
<1>2. w.inbox # <<>> /\ Head(w.inbox) = a /\ Tail(w.inbox) = <<>>
  <2>1. w.inbox # <<>>
    OBVIOUS
  <2>2. /\ IsSeq(Tail(w.inbox)) /\ Len(Tail(w.inbox)) = 0 /\ Head(w.inbox) = a
    BY <2>1, TailSeq
  <2> QED
    BY <2>1, <2>2 DEF IsSeq
<1>3. TakeActivation(w) = IF PolledFirst(a.jobs) THEN PollWfFuture(x, "jobs") ELSE x
  BY <1>2 DEF TakeActivation
<1>4. e \in BOOLEAN /\ e = (a.jobs = Eviction)
  BY ZenonT(40) DEF Eviction
<1> HIDE DEF e
<1>5. /\ DOMAIN x = Fields /\ x.inbox = <<>> /\ x.out = <<>> /\ x.ph = "jobs" /\ x.jobs = a.jobs
      /\ x.only = e /\ x.die = FALSE
  BY <1>1, <1>2 DEF Fields
<1> HIDE DEF x
<1>6. FutureOK(x)
  BY Zenon, <1>4, <1>5 DEF FutureOK, InPolls, JobsOK
<1>7. CASE PolledFirst(a.jobs)
  <2>1. ~e
    <3>1. \A n \in DOMAIN a.jobs : a.jobs[n].j \in {"initialize", "update"}
      BY <1>7 DEF PolledFirst
    <3>2. 1 \in DOMAIN Eviction /\ Eviction[1].j \notin {"initialize", "update"}
      BY DEF Eviction, RemoveFromCache, Job
    <3> QED
      BY <1>4, <3>1, <3>2, Zenon
  <2>2. GoesOn(x, PollWfFuture(x, "jobs"))
    BY <1>5, <1>6, <2>1, InnerPolled, PollGoesOn
  <2> QED
    BY ZenonT(40), <1>3, <1>4, <1>5, <1>7, <2>2 DEF GoesOn
<1>8. CASE ~PolledFirst(a.jobs)
  BY <1>3, <1>4, <1>5, <1>6, <1>8 DEF InPolls
<1> QED
  BY ZenonT(40), <1>7, <1>8
-----------------------------------------------------------------------------
(* Steps of the worker                                                         *)

\* Runs that a step does not concern, but for futures that have nothing.
LEMMA Elsewhere ==
    ASSUME NEW r, OnePlace(r),
           \A t \in Mine(r)' : t \in Mine(r) /\ tasks'[t] = tasks[t],
           \A t \in Mine(r) : t \notin Mine(r)' => AtRest(t),
           (core'[r].st = "lang") = (core[r].st = "lang"),
           core[r].st = "lang" => core'[r].jobs = core[r].jobs,
           NoCompletion(r) => NoCompletion(r)', OneCompletion(r) => OneCompletion(r)'
    PROVE  OnePlace(r)'
<1>1. \A t \in Mine(r)' : AtRest(t)' = AtRest(t) /\ Busy(t)' = Busy(t)
  BY DEF AtRest, Busy
<1>2. CASE core[r].st # "lang"
  BY ZenonT(40), <1>1, <1>2 DEF OnePlace, Nowhere
<1>3. CASE core[r].st = "lang" /\ InInbox(r)
  <2>1. PICK t \in Mine(r) :
          /\ tasks[t].wf.ph = "idle" /\ Len(tasks[t].wf.inbox) = 1 /\ IsSeq(tasks[t].wf.inbox)
          /\ tasks[t].wf.inbox[1].jobs = core[r].jobs
          /\ RestBut(r, t) /\ NoCompletion(r)
    BY ZenonT(40), <1>3 DEF InInbox
  <2>2. t \in Mine(r)'
    <3>1. tasks[t].wf.inbox # <<>>
      BY <2>1
    <3> QED
      BY ZenonT(40), <3>1 DEF AtRest
  <2>3. RestBut(r, t)'
    BY ZenonT(40), <1>1, <2>1 DEF RestBut
  <2> QED
    BY ZenonT(40), <1>3, <2>1, <2>2, <2>3 DEF OnePlace, InInbox
<1>4. CASE core[r].st = "lang" /\ InPoll(r)
  <2>1. PICK t \in Mine(r) :
          /\ Busy(t) /\ tasks[t].wf.inbox = <<>>
          /\ tasks[t].wf.only = (core[r].jobs = Eviction)
          /\ RestBut(r, t) /\ NoCompletion(r)
    BY ZenonT(40), <1>4 DEF InPoll
  <2>2. t \in Mine(r)'
    BY <2>1 DEF AtRest
  <2>3. RestBut(r, t)'
    BY <1>1, <2>1 DEF RestBut
  <2>4. Busy(t)'
    BY <1>1, <2>1, <2>2
  <2> QED
    BY ZenonT(40), <1>4, <2>1, <2>2, <2>3, <2>4 DEF OnePlace, InPoll
<1>5. CASE core[r].st = "lang" /\ ComingBack(r)
  BY <1>1, <1>5 DEF OnePlace, ComingBack
<1> QED
  BY ZenonT(40), <1>2, <1>3, <1>4, <1>5 DEF OnePlace

\* A completion more.
LEMMA OneMoreCompletion ==
    ASSUME CompletionsOK, NEW x, x.run \in Runs, completions' = Append(completions, x), Runs' = Runs
    PROVE  /\ CompletionsOK'
           /\ \A r : r # x.run => /\ NoCompletion(r) => NoCompletion(r)'
                                  /\ OneCompletion(r) => OneCompletion(r)'
           /\ NoCompletion(x.run) => OneCompletion(x.run)'
<1>1. /\ IsSeq(completions') /\ Len(completions) \in Nat
      /\ DOMAIN completions' = 1..Len(completions) + 1 /\ DOMAIN completions = 1..Len(completions)
      /\ \A i \in DOMAIN completions : completions'[i] = completions[i]
      /\ completions'[Len(completions) + 1] = x
  BY AppendSeq DEF CompletionsOK
<1>2. \A i \in DOMAIN completions' : i \in DOMAIN completions \/ i = Len(completions) + 1
  BY <1>1
<1>3. Len(completions) + 1 \in DOMAIN completions' /\ DOMAIN completions \subseteq DOMAIN completions'
  BY <1>1
<1>4. CompletionsOK'
  BY <1>1, <1>2 DEF CompletionsOK
<1> QED
  BY <1>1, <1>2, <1>3, <1>4 DEF NoCompletion, OneCompletion

\* The one that has an activation of run r is the only one.
LEMMA TheOne ==
    ASSUME NEW r, OnePlace(r), NEW t \in Mine(r), ~AtRest(t)
    PROVE  /\ core[r].st = "lang" /\ RestBut(r, t) /\ NoCompletion(r)
           /\ IF Busy(t)
              THEN tasks[t].wf.inbox = <<>> /\ tasks[t].wf.only = (core[r].jobs = Eviction)
              ELSE /\ tasks[t].wf.ph = "idle" /\ Len(tasks[t].wf.inbox) = 1
                   /\ IsSeq(tasks[t].wf.inbox) /\ tasks[t].wf.inbox[1].jobs = core[r].jobs
<1>1. core[r].st = "lang" /\ (InInbox(r) \/ InPoll(r))
  BY DEF OnePlace, Nowhere, ComingBack
<1>2. CASE InInbox(r)
  <2>1. PICK s \in Mine(r) :
          /\ tasks[s].wf.ph = "idle" /\ Len(tasks[s].wf.inbox) = 1 /\ IsSeq(tasks[s].wf.inbox)
          /\ tasks[s].wf.inbox[1].jobs = core[r].jobs
          /\ RestBut(r, s) /\ NoCompletion(r)
    BY ZenonT(40), <1>2 DEF InInbox
  <2>2. s = t
    BY <2>1 DEF RestBut
  <2>3. ~Busy(t)
    BY <2>1, <2>2 DEF Busy
  <2> QED
    BY ZenonT(40), <1>1, <2>1, <2>2, <2>3
<1>3. CASE InPoll(r)
  <2>1. PICK s \in Mine(r) :
          /\ Busy(s) /\ tasks[s].wf.inbox = <<>>
          /\ tasks[s].wf.only = (core[r].jobs = Eviction)
          /\ RestBut(r, s) /\ NoCompletion(r)
    BY <1>3 DEF InPoll
  <2>2. s = t
    BY <2>1 DEF RestBut
  <2> QED
    BY <1>1, <2>1, <2>2
<1> QED
  BY ZenonT(40), <1>1, <1>2, <1>3

\* A future's step changes that future.
LEMMA TaskChanges ==
    ASSUME TasksOK, NEW t \in DOMAIN tasks, NEW u, tasks' = [tasks EXCEPT ![t].wf = u], FutureOK(u),
           Runs' = Runs, plan'.types = plan.types
    PROVE  /\ TasksOK' /\ DOMAIN tasks' = DOMAIN tasks
           /\ tasks'[t].run = tasks[t].run /\ tasks'[t].st = tasks[t].st /\ tasks'[t].wf = u
           /\ \A s \in DOMAIN tasks : s # t => tasks'[s] = tasks[s]
           /\ \A r : Mine(r)' = Mine(r)
<1> DEFINE x == [tasks[t] EXCEPT !.wf = u]
<1>1. DOMAIN tasks[t] = {"run", "st", "wf"} /\ IsSeq(tasks)
  BY DEF TasksOK
<1>2. /\ DOMAIN x = {"run", "st", "wf"} /\ x.run = tasks[t].run /\ x.st = tasks[t].st /\ x.wf = u
  BY <1>1
<1>3. tasks' = [tasks EXCEPT ![t] = x]
  OBVIOUS
<1> HIDE DEF x
<1>4. /\ IsSeq(tasks') /\ DOMAIN tasks' = DOMAIN tasks /\ tasks'[t] = x
      /\ \A s \in DOMAIN tasks : s # t => tasks'[s] = tasks[s]
  <2>1. PICK z : z = [tasks EXCEPT ![t] = x]
    BY Zenon
  <2>2. /\ IsSeq(z) /\ DOMAIN z = DOMAIN tasks /\ z[t] = x
        /\ \A s \in DOMAIN tasks : s # t => z[s] = tasks[s]
    BY Zenon, <1>1, <2>1, ChangedSeq
  <2>3. tasks' = z
    BY Zenon, <1>3, <2>1
  <2> QED
    BY Zenon, <2>2, <2>3
<1>5. TasksOK'
  BY <1>2, <1>4 DEF TasksOK
<1>6. \A r : Mine(r)' = Mine(r)
  BY <1>2, <1>4 DEF Mine
<1> QED
  BY <1>2, <1>4, <1>5, <1>6

\* A step of a poll.
LEMMA PollStepKeeps ==
    ASSUME InOrder, NEW t \in DOMAIN tasks, Busy(t), NEW v, Polled(tasks[t].wf, v), Step(t, v)
    PROVE  InOrder'
<1> PICK r : r = tasks[t].run
  OBVIOUS
<1> DEFINE w == tasks[t].wf
           u == [v EXCEPT !.out = <<>>]
<1>1. /\ Types /\ r \in Runs /\ OnePlace(r) /\ t \in Mine(r) /\ tasks[t].st = "running"
      /\ CompletionsOK /\ TasksOK
  BY ZenonT(40) DEF InOrder, Types, TasksOK, Busy, Mine
<1>2. /\ core[r].st = "lang" /\ RestBut(r, t) /\ NoCompletion(r)
      /\ w.inbox = <<>> /\ w.only = (core[r].jobs = Eviction)
  BY ZenonT(40), <1>1, TheOne DEF AtRest
<1>3. /\ tasks' = [tasks EXCEPT ![t].wf = u] /\ UNCHANGED <<plan, core, loop, workflows, ended>>
      /\ completions' = completions \o [n \in DOMAIN v.out |->
                           [run |-> r, ok |-> v.out[n].ok, cmds |-> v.out[n].cmds]]
  BY DEF Step
<1>4. Runs' = Runs /\ plan'.types = plan.types
  BY <1>3 DEF Runs
<1>5. /\ FutureOK(u) /\ u.ph = v.ph /\ u.inbox = <<>> /\ u.only = v.only
  <2>1. CASE GoesOn(w, v)
    BY Zenon, <1>2, <2>1 DEF GoesOn, FutureOK, Fields
  <2>2. CASE GivesBack(w, v)
    BY <1>2, <2>2 DEF GivesBack, FutureOK, Fields
  <2> QED
    BY <2>1, <2>2 DEF Polled
<1> HIDE DEF u
<1>6. /\ TasksOK' /\ DOMAIN tasks' = DOMAIN tasks
      /\ tasks'[t].run = r /\ tasks'[t].st = "running" /\ tasks'[t].wf = u
      /\ \A s \in DOMAIN tasks : s # t => tasks'[s] = tasks[s]
      /\ \A q : Mine(q)' = Mine(q)
  BY Zenon, <1>1, <1>3, <1>4, <1>5, TaskChanges
<1>7. \A q : \A s \in Mine(q) : s # t => AtRest(s)' = AtRest(s) /\ tasks'[s] = tasks[s]
  BY ZenonT(40), <1>6 DEF AtRest, Busy, Mine
<1>8. RestBut(r, t)'
  BY ZenonT(40), <1>2, <1>6, <1>7 DEF RestBut
<1>9. /\ CompletionsOK' /\ OnePlace(r)'
      /\ \A q : q # r => (NoCompletion(q) => NoCompletion(q)') /\ (OneCompletion(q) => OneCompletion(q)')
  <2>1. CASE GoesOn(w, v)
    <3>1. completions' = completions
      <4>1. [n \in DOMAIN v.out |-> [run |-> r, ok |-> v.out[n].ok, cmds |-> v.out[n].cmds]] = <<>>
        BY <2>1 DEF GoesOn, FutureOK
      <4>2. completions \o <<>> = completions
        BY <1>1 DEF CompletionsOK, IsSeq
      <4> QED
        BY Zenon, <1>3, <4>1, <4>2
    <3>2. Busy(t)' /\ u.only = w.only
      BY ZenonT(40), <1>5, <1>6, <2>1 DEF Busy, GoesOn, InPolls
    <3>3. InPoll(r)'
      BY ZenonT(40), <1>1, <1>2, <1>3, <1>5, <1>6, <1>8, <3>1, <3>2 DEF InPoll, NoCompletion
    <3> QED
      BY Zenon, <1>1, <1>2, <1>3, <1>4, <3>1, <3>3 DEF OnePlace, CompletionsOK, NoCompletion, OneCompletion
  <2>2. CASE GivesBack(w, v)
    <3>1. PICK x : v.out = <<x>>
      BY ZenonT(40), <2>2 DEF GivesBack
    <3> DEFINE y == [run |-> r, ok |-> x.ok, cmds |-> x.cmds]
    <3>2. [n \in DOMAIN v.out |-> [run |-> r, ok |-> v.out[n].ok, cmds |-> v.out[n].cmds]] = <<y>>
      BY <3>1
    <3>3. y.run = r
      OBVIOUS
    <3> HIDE DEF y
    <3>4. completions' = Append(completions, y)
      <4>1. completions \o <<y>> = Append(completions, y)
        BY <1>1 DEF CompletionsOK, IsSeq
      <4> QED
        BY ZenonT(40), <1>3, <3>2, <4>1
    <3>5. /\ CompletionsOK' /\ OneCompletion(r)'
          /\ \A q : q # r => (NoCompletion(q) => NoCompletion(q)') /\ (OneCompletion(q) => OneCompletion(q)')
      BY ZenonT(40), <1>1, <1>2, <1>4, <3>3, <3>4, OneMoreCompletion
    <3>6. AtRest(t)'
      BY ZenonT(40), <1>5, <1>6, <2>2 DEF AtRest, Busy, GivesBack
    <3>7. ComingBack(r)'
      BY ZenonT(40), <1>6, <1>8, <3>5, <3>6 DEF ComingBack, RestBut
    <3> QED
      BY ZenonT(40), <1>2, <1>3, <3>5, <3>7 DEF OnePlace
  <2> QED
    BY <2>1, <2>2 DEF Polled
<1>10. \A q \in Runs : OnePlace(q)'
  <2> SUFFICES ASSUME NEW q \in Runs, q # r PROVE OnePlace(q)'
    BY <1>9
  <2>1. \A s \in Mine(q) : s # t
    BY DEF Mine
  <2>2. OnePlace(q)
    BY DEF InOrder
  <2> QED
    BY <1>3, <1>6, <1>7, <1>9, <2>1, <2>2, Elsewhere
<1>11. Replaced(t)'
  <2>1. v.ph = "evicted" => w.only
    BY DEF Polled, GoesOn, GivesBack, InPolls
  <2> QED
    BY Zenon, <1>2, <1>3, <1>5, <1>6, <2>1 DEF Replaced
<1>12. \A s \in DOMAIN tasks : Replaced(s)'
  BY ZenonT(40), <1>3, <1>6, <1>11 DEF InOrder, Replaced
<1>13. Types' /\ Stopped'
  BY ZenonT(40), <1>1, <1>3, <1>4, <1>6, <1>9 DEF InOrder, Types, PlanOK, CoreOK, Stopped
<1>14. \A q \in Runs : Mapped(q)'
  BY <1>3, <1>6 DEF InOrder, Mapped
<1> QED
  BY ZenonT(40), <1>4, <1>6, <1>10, <1>12, <1>13, <1>14 DEF InOrder

\* A future takes the activation that was sent to it.
LEMMA TakeKeeps ==
    ASSUME InOrder, NEW t \in DOMAIN tasks, TaskTakesActivation(t)
    PROVE  InOrder'
<1> PICK r : r = tasks[t].run
  OBVIOUS
<1> DEFINE w == tasks[t].wf
           v == TakeActivation(w)
           u == [v EXCEPT !.out = <<>>]
<1>1. /\ Types /\ r \in Runs /\ OnePlace(r) /\ t \in Mine(r) /\ tasks[t].st = "running"
      /\ CompletionsOK /\ TasksOK /\ CoreOK /\ w.ph = "idle" /\ w.inbox # <<>> /\ FutureOK(w)
  BY ZenonT(40) DEF InOrder, Types, TasksOK, TaskTakesActivation, At, Mine
<1>2. /\ core[r].st = "lang" /\ RestBut(r, t) /\ NoCompletion(r)
      /\ Len(w.inbox) = 1 /\ IsSeq(w.inbox) /\ w.inbox[1].jobs = core[r].jobs
  <2>1. ~AtRest(t) /\ ~Busy(t)
    BY <1>1 DEF AtRest, Busy
  <2> QED
    BY ZenonT(40), <1>1, <2>1, TheOne
<1>3. /\ FutureOK(v) /\ v.ph \in InPolls /\ v.inbox = <<>> /\ v.only = (core[r].jobs = Eviction)
  <2>1. JobsOK(w.inbox[1].jobs)
    BY ZenonT(40), <1>1, <1>2 DEF CoreOK
  <2> QED
    BY ZenonT(40), <1>1, <1>2, <2>1, ActivationTaken
<1>4. /\ tasks' = [tasks EXCEPT ![t].wf = u] /\ UNCHANGED <<plan, core, loop, workflows, ended>>
      /\ completions' = completions \o [n \in DOMAIN v.out |->
                           [run |-> r, ok |-> v.out[n].ok, cmds |-> v.out[n].cmds]]
  BY ZenonT(40) DEF TaskTakesActivation, Step
<1> HIDE DEF v
<1>5. FutureOK(u) /\ u.ph = v.ph /\ u.inbox = <<>> /\ u.only = v.only
  BY Zenon, <1>3 DEF FutureOK, Fields
<1>6. Runs' = Runs /\ plan'.types = plan.types
  BY <1>4 DEF Runs
<1>7. completions' = completions
  <2>1. [n \in DOMAIN v.out |-> [run |-> r, ok |-> v.out[n].ok, cmds |-> v.out[n].cmds]] = <<>>
    BY <1>3 DEF FutureOK
  <2>2. completions \o <<>> = completions
    BY <1>1 DEF CompletionsOK, IsSeq
  <2> QED
    BY Zenon, <1>4, <2>1, <2>2
<1> HIDE DEF u
<1>8. /\ TasksOK' /\ DOMAIN tasks' = DOMAIN tasks
      /\ tasks'[t].run = r /\ tasks'[t].st = "running" /\ tasks'[t].wf = u
      /\ \A s \in DOMAIN tasks : s # t => tasks'[s] = tasks[s]
      /\ \A q : Mine(q)' = Mine(q)
  BY Zenon, <1>1, <1>4, <1>5, <1>6, TaskChanges
<1>9. \A q : \A s \in Mine(q) : s # t => AtRest(s)' = AtRest(s) /\ tasks'[s] = tasks[s]
  BY <1>8 DEF AtRest, Busy, Mine
<1>10. OnePlace(r)'
  <2>1. RestBut(r, t)'
    BY <1>2, <1>8, <1>9 DEF RestBut
  <2>2. Busy(t)'
    BY <1>3, <1>5, <1>8 DEF Busy, InPolls
  <2>3. InPoll(r)'
    <3>1. NoCompletion(r)'
      BY ZenonT(40), <1>2, <1>7 DEF NoCompletion
    <3>2. t \in Mine(r)' /\ tasks'[t].wf.inbox = <<>>
      BY ZenonT(40), <1>1, <1>5, <1>8
    <3>3. tasks'[t].wf.only = (core'[r].jobs = Eviction)
      <4>1. core' = core
        BY Zenon, <1>4
      <4> QED
        BY ZenonT(40), <1>3, <1>5, <1>8, <4>1
    <3> QED
      BY ZenonT(40), <2>1, <2>2, <3>1, <3>2, <3>3 DEF InPoll
  <2> QED
    BY <1>2, <1>4, <2>3 DEF OnePlace
<1>11. ASSUME NEW q \in Runs PROVE OnePlace(q)'
  <2>1. CASE q = r
    BY <1>10, <2>1
  <2>2. CASE q # r
    <3>1. \A s \in Mine(q) : s # t
      BY <2>2 DEF Mine
    <3>2. OnePlace(q)
      BY DEF InOrder
    <3>3. NoCompletion(q)' = NoCompletion(q) /\ OneCompletion(q)' = OneCompletion(q)
      BY <1>7 DEF NoCompletion, OneCompletion
    <3> QED
      BY <1>4, <1>8, <1>9, <3>1, <3>2, <3>3, Elsewhere
  <2> QED
    BY <2>1, <2>2
<1>12. \A s \in DOMAIN tasks : Replaced(s)'
  BY ZenonT(40), <1>3, <1>4, <1>5, <1>8 DEF InOrder, Replaced, InPolls
<1>13. Types' /\ Stopped'
  BY Zenon, <1>1, <1>4, <1>6, <1>7, <1>8 DEF InOrder, Types, PlanOK, CoreOK, CompletionsOK, Stopped
<1>14. \A q \in Runs : Mapped(q)'
  BY <1>4, <1>8 DEF InOrder, Mapped
<1> QED
  BY <1>6, <1>8, <1>11, <1>12, <1>13, <1>14 DEF InOrder

\* A workflow future as start_workflow makes it.
LEMMA NewFutureOK ==
    ASSUME NEW n
    PROVE  /\ FutureOK(NewWorkflowFuture(n)) /\ NewWorkflowFuture(n).inbox = <<>>
           /\ NewWorkflowFuture(n).ph = "idle"
<1>1. DOMAIN NewWorkflowFuture(n) = Fields
  BY ZenonT(40) DEF NewWorkflowFuture, Fields
<1> QED
  BY ZenonT(40), <1>1 DEF NewWorkflowFuture, FutureOK

\* The joiner takes a future that has nothing to do any more.
LEMMA JoinKeeps ==
    ASSUME InOrder, NEW t \in DOMAIN tasks, JoinTask(t)
    PROVE  InOrder'
<1> PICK r : r = tasks[t].run
  OBVIOUS
<1> DEFINE x == [run |-> r, st |-> "joined", wf |-> NewWorkflowFuture(0)]
<1>1. /\ Types /\ TasksOK /\ IsSeq(tasks) /\ r \in Runs /\ r \in plan.types /\ OnePlace(r)
      /\ tasks[t].st = "running" /\ t \in Mine(r) /\ DOMAIN workflows = Runs
      /\ tasks[t].wf.ph = "evicted" \/ (tasks[t].wf.ph = "idle" /\ loop.wf = "stopped")
  BY ZenonT(40) DEF InOrder, Types, TasksOK, JoinTask, At, Mine
<1>2. /\ tasks' = [tasks EXCEPT ![t] = x] /\ workflows' = [workflows EXCEPT ![r] = 0]
      /\ UNCHANGED <<plan, core, loop, completions>>
  BY DEF JoinTask
<1>3. AtRest(t)
  <2>1. ~Busy(t)
    BY <1>1 DEF Busy
  <2>2. CASE tasks[t].wf.ph = "evicted"
    BY ZenonT(40), <1>1, <2>1, <2>2, TheOne
  <2>3. CASE loop.wf = "stopped"
    BY ZenonT(40), <1>1, <2>1, <2>3, TheOne DEF InOrder, Stopped
  <2> QED
    BY <1>1, <2>2, <2>3
<1>4. /\ DOMAIN x = {"run", "st", "wf"} /\ x.run = r /\ x.st = "joined" /\ x.wf = NewWorkflowFuture(0)
      /\ FutureOK(x.wf)
  BY ZenonT(40), NewFutureOK
<1> HIDE DEF x
<1>5. /\ IsSeq(tasks') /\ DOMAIN tasks' = DOMAIN tasks /\ tasks'[t] = x
      /\ \A s \in DOMAIN tasks : s # t => tasks'[s] = tasks[s]
  BY Zenon, <1>1, <1>2, ChangedSeq
<1>6. Runs' = Runs /\ plan' = plan
  BY <1>2 DEF Runs
<1>7. TasksOK'
  BY <1>1, <1>4, <1>5, <1>6 DEF TasksOK
<1>8. \A q : Mine(q)' = Mine(q) \ {t}
  BY ZenonT(40), <1>4, <1>5 DEF Mine
<1>9. ASSUME NEW q \in Runs PROVE OnePlace(q)'
  <2>1. OnePlace(q)
    BY DEF InOrder
  <2>2. \A s \in Mine(q)' : s \in Mine(q) /\ tasks'[s] = tasks[s]
    BY <1>5, <1>8 DEF Mine
  <2>3. \A s \in Mine(q) : s \notin Mine(q)' => AtRest(s)
    BY <1>3, <1>8
  <2>4. NoCompletion(q)' = NoCompletion(q) /\ OneCompletion(q)' = OneCompletion(q)
    BY <1>2 DEF NoCompletion, OneCompletion
  <2> QED
    BY Zenon, <1>2, <2>1, <2>2, <2>3, <2>4, Elsewhere
<1>10. \A q \in Runs : Mapped(q)'
  <2> SUFFICES ASSUME NEW q \in Runs, workflows'[q] # 0 PROVE workflows'[q] \in Mine(q)'
    BY DEF Mapped
  <2>1. q # r /\ workflows'[q] = workflows[q]
    BY <1>1, <1>2
  <2>2. workflows[q] \in Mine(q) /\ workflows[q] # t
    BY <2>1 DEF InOrder, Mapped, Mine
  <2> QED
    BY <1>8, <2>1, <2>2
<1>11. \A s \in DOMAIN tasks : Replaced(s)'
  <2> SUFFICES ASSUME NEW s \in DOMAIN tasks, s # t PROVE Replaced(s)'
    BY Zenon, <1>4, <1>5 DEF Replaced
  <2>1. tasks[s].run \in Runs /\ s # 0
    BY <1>1, SeqDomain DEF TasksOK
  <2>2. tasks[s].run # r => workflows'[tasks[s].run] = workflows[tasks[s].run]
    BY <1>1, <1>2, <2>1
  <2>3. tasks[s].run = r => workflows'[tasks[s].run] = 0
    BY <1>1, <1>2
  <2> QED
    BY ZenonT(40), <1>2, <1>5, <2>1, <2>2, <2>3 DEF InOrder, Replaced
<1>12. Types' /\ Stopped'
  BY <1>1, <1>2, <1>6, <1>7 DEF InOrder, Types, PlanOK, CoreOK, CompletionsOK, Stopped
<1> QED
  BY ZenonT(40), <1>5, <1>6, <1>9, <1>10, <1>11, <1>12 DEF InOrder

\* The core takes a completion.
LEMMA ProcessKeeps ==
    ASSUME InOrder, NEW n \in DOMAIN completions, ProcessCompletion(n)
    PROVE  InOrder'
<1> PICK r : r = completions[n].run
  OBVIOUS
<1> DEFINE c == Completed(core[r], completions[n])
<1>1. /\ Types /\ TasksOK /\ CompletionsOK /\ IsSeq(completions) /\ CoreOK /\ r \in Runs
      /\ OnePlace(r) /\ Stopped
  BY DEF InOrder, Types, CompletionsOK
<1>2. /\ core' = [core EXCEPT ![r] = c] /\ completions' = RemoveAt(completions, n)
      /\ UNCHANGED <<plan, loop, workflows, tasks>>
  BY DEF ProcessCompletion
<1>3. core[r].st = "lang" /\ ComingBack(r) /\ \A m \in DOMAIN completions : completions[m].run = r => m = n
  BY Zenon, <1>1 DEF OnePlace, Nowhere, NoCompletion, InInbox, InPoll, ComingBack, OneCompletion
<1>4. /\ DOMAIN c = CoreFields /\ c.jobs = <<>> /\ c.st \in {"none", "idle"}
      /\ core[r].jobs = Eviction => c.st = "none"
  <2>1. DOMAIN core[r] = CoreFields
    BY <1>1 DEF CoreOK
  <2>2. CASE core[r].jobs = Eviction
    BY <2>2 DEF Completed, Eviction, NoCoreRun, CoreFields
  <2>3. CASE core[r].jobs # Eviction
    BY Zenon, <2>1, <2>3 DEF Completed, Eviction, CoreFields
  <2> QED
    BY Zenon, <2>2, <2>3
<1> HIDE DEF c
<1>5. Runs' = Runs /\ plan' = plan
  BY <1>2 DEF Runs
<1>6. core'[r] = c /\ DOMAIN core' = Runs /\ \A q \in Runs : q # r => core'[q] = core[q]
  BY <1>1, <1>2 DEF CoreOK
<1>7. CoreOK'
  <2>1. JobsOK(<<>>)
    BY DEF JobsOK, Plain, IsSeq
  <2> QED
    BY Zenon, <1>1, <1>4, <1>5, <1>6, <2>1 DEF CoreOK
<1>8. /\ IsSeq(completions') /\ Len(completions) \in Nat /\ DOMAIN completions = 1..Len(completions)
      /\ DOMAIN completions' = 1..Len(completions) - 1
      /\ \A i \in DOMAIN completions' :
            completions'[i] = IF i < n THEN completions[i] ELSE completions[i + 1]
  BY <1>1, <1>2, RemoveSeq
<1>9. \A i \in DOMAIN completions' : \E m \in DOMAIN completions : m # n /\ completions'[i] = completions[m]
  <2> SUFFICES ASSUME NEW i \in DOMAIN completions'
               PROVE  \E m \in DOMAIN completions : m # n /\ completions'[i] = completions[m]
    OBVIOUS
  <2>1. CASE i < n
    BY <1>8, <2>1
  <2>2. CASE ~(i < n)
    <3>1. i + 1 \in DOMAIN completions /\ i + 1 # n /\ completions'[i] = completions[i + 1]
      BY <1>8, <2>2
    <3> QED
      BY <3>1
  <2> QED
    BY <2>1, <2>2
<1>10. CompletionsOK'
  BY <1>1, <1>5, <1>8, <1>9 DEF CompletionsOK
<1>11. \A q : Mine(q)' = Mine(q) /\ \A t \in Mine(q) : tasks'[t] = tasks[t] /\ AtRest(t)' = AtRest(t)
  BY Zenon, <1>2 DEF Mine, AtRest, Busy
<1>12. OnePlace(r)'
  <2>1. NoCompletion(r)'
    BY <1>3, <1>9 DEF NoCompletion
  <2>2. Nowhere(r)'
    BY Zenon, <1>3, <1>11, <2>1 DEF Nowhere, ComingBack
  <2> QED
    BY Zenon, <1>4, <1>6, <2>2 DEF OnePlace
<1>13. ASSUME NEW q \in Runs, q # r PROVE OnePlace(q)'
  <2>1. OnePlace(q) /\ core'[q] = core[q]
    BY <1>6, <1>13 DEF InOrder
  <2>2. NoCompletion(q) => NoCompletion(q)'
    BY <1>9 DEF NoCompletion
  <2>3. ASSUME OneCompletion(q) PROVE OneCompletion(q)'
    <3>1. PICK m \in DOMAIN completions :
            /\ completions[m].run = q
            /\ \A i \in DOMAIN completions : completions[i].run = q => i = m
      BY <2>3 DEF OneCompletion
    <3> DEFINE k == IF m < n THEN m ELSE m - 1
    <3>2. m # n /\ m \in Nat /\ n \in Nat
      BY <1>8, <1>13, <3>1
    <3>3. k \in DOMAIN completions' /\ completions'[k] = completions[m]
      <4>1. CASE m < n
        BY <1>8, <3>1, <3>2, <4>1
      <4>2. CASE ~(m < n)
        <5>1. m - 1 \in DOMAIN completions' /\ ~(m - 1 < n) /\ m - 1 + 1 = m
          BY <1>8, <3>1, <3>2, <4>2
        <5> QED
          BY <1>8, <4>2, <5>1
      <4> QED
        BY <4>1, <4>2
    <3>4. ASSUME NEW i \in DOMAIN completions', completions'[i].run = q PROVE i = k
      <4>1. CASE i < n
        <5>1. i = m
          BY <1>8, <3>1, <3>4, <4>1
        <5> QED
          BY <4>1, <5>1
      <4>2. CASE ~(i < n)
        <5>1. i + 1 = m /\ i \in Nat
          BY <1>8, <3>1, <3>4, <4>2
        <5> QED
          BY <1>8, <3>2, <4>2, <5>1
      <4> QED
        BY <4>1, <4>2
    <3> HIDE DEF k
    <3> QED
      BY Zenon, <3>1, <3>3, <3>4 DEF OneCompletion
  <2> QED
    BY Zenon, <1>11, <2>1, <2>2, <2>3, Elsewhere
<1>14. \A t \in DOMAIN tasks : Replaced(t)'
  <2> SUFFICES ASSUME NEW t \in DOMAIN tasks PROVE Replaced(t)'
    OBVIOUS
  <2>1. tasks[t].run \in Runs /\ Replaced(t)
    BY Zenon, <1>1 DEF InOrder, TasksOK
  <2>2. CASE tasks[t].run = r
    BY ZenonT(40), <1>2, <1>3, <1>4, <1>6, <2>1, <2>2 DEF Replaced
  <2>3. CASE tasks[t].run # r
    BY ZenonT(40), <1>2, <1>6, <2>1, <2>3 DEF Replaced
  <2> QED
    BY <2>2, <2>3
<1>15. \A q \in Runs : Mapped(q)'
  BY <1>2, <1>11 DEF InOrder, Mapped
<1>16. Stopped'
  <2>1. \A q \in Runs : core'[q].st = "lang" => core[q].st = "lang"
    BY <1>4, <1>6
  <2> QED
    BY <1>1, <1>2, <1>5, <2>1 DEF Stopped
<1>17. Types'
  BY ZenonT(40), <1>1, <1>2, <1>5, <1>7, <1>10 DEF Types, PlanOK, TasksOK
<1> QED
  BY <1>2, <1>5, <1>12, <1>13, <1>14, <1>15, <1>16, <1>17 DEF InOrder

(* z is ts after future t was given an activation with these jobs              *)
GivenTo(z, ts, t, jobs) ==
  /\ IsSeq(z) /\ DOMAIN z = DOMAIN ts /\ \A s \in DOMAIN ts : s # t => z[s] = ts[s]
  /\ DOMAIN z[t] = {"run", "st", "wf"} /\ z[t].run = ts[t].run /\ z[t].st = ts[t].st
  /\ FutureOK(z[t].wf) /\ z[t].wf.ph = ts[t].wf.ph /\ IsSeq(z[t].wf.inbox)
  /\ Len(z[t].wf.inbox) = 1 /\ z[t].wf.inbox[1].jobs = jobs

\* An activation is put into the empty inbox of a future.
LEMMA Given ==
    ASSUME NEW ts, IsSeq(ts), NEW t \in DOMAIN ts, DOMAIN ts[t] = {"run", "st", "wf"},
           FutureOK(ts[t].wf), ts[t].wf.inbox = <<>>, NEW jobs, NEW rep
    PROVE  GivenTo(GiveTo(ts, t, jobs, rep), ts, t, jobs)
<1> PICK z : z = GiveTo(ts, t, jobs, rep)
  OBVIOUS
<1> DEFINE a == [jobs |-> jobs, rep |-> rep]
           w == [ts[t].wf EXCEPT !.inbox = Append(@, a)]
           x == [ts[t] EXCEPT !.wf = w]
<1>1. z = [ts EXCEPT ![t] = x]
  BY DEF GiveTo
<1>2. a.jobs = jobs
  OBVIOUS
<1> HIDE DEF a
<1>3. Append(<<>>, a) = <<a>>
  OBVIOUS
<1>4. w.inbox = <<a>> /\ FutureOK(w) /\ w.ph = ts[t].wf.ph
  BY <1>3 DEF FutureOK, Fields
<1> HIDE DEF w
<1>5. DOMAIN x = {"run", "st", "wf"} /\ x.run = ts[t].run /\ x.st = ts[t].st /\ x.wf = w
  OBVIOUS
<1> HIDE DEF x
<1>6. /\ IsSeq(z) /\ DOMAIN z = DOMAIN ts
      /\ z[t] = x /\ \A i \in DOMAIN ts : i # t => z[i] = ts[i]
  <2>1. PICK y : y = [ts EXCEPT ![t] = x]
    BY Zenon
  <2>2. /\ IsSeq(y) /\ DOMAIN y = DOMAIN ts
        /\ y[t] = x /\ \A i \in DOMAIN ts : i # t => y[i] = ts[i]
    BY Zenon, <2>1, ChangedSeq
  <2> QED
    BY <1>1, <2>1, <2>2
<1>7. IsSeq(<<a>>) /\ Len(<<a>>) = 1 /\ <<a>>[1] = a
  <2>1. <<a>> \in Seq({a})
    OBVIOUS
  <2> QED
    BY Zenon, <2>1, SeqIs
<1>8. GivenTo(z, ts, t, jobs)
  BY ZenonT(40), <1>2, <1>4, <1>5, <1>6, <1>7 DEF GivenTo
<1> QED
  BY <1>8, Zenon

\* Future t of run r is given the activation that the core has for r.
LEMMA GivenKeeps ==
    ASSUME InOrder, NEW r \in Runs, core[r].st = "ready", loop.wf = "polling",
           core' = [core EXCEPT ![r].st = "lang"],
           UNCHANGED <<plan, loop, completions>>,
           NEW t \in DOMAIN tasks', IsSeq(tasks'), DOMAIN tasks \subseteq DOMAIN tasks',
           \A s \in DOMAIN tasks' : s # t => s \in DOMAIN tasks /\ tasks'[s] = tasks[s],
           t \in DOMAIN tasks => t \in Mine(r),
           DOMAIN tasks'[t] = {"run", "st", "wf"}, tasks'[t].run = r, tasks'[t].st = "running",
           r \in plan.types, FutureOK(tasks'[t].wf), tasks'[t].wf.ph = "idle",
           IsSeq(tasks'[t].wf.inbox), Len(tasks'[t].wf.inbox) = 1,
           tasks'[t].wf.inbox[1].jobs = core[r].jobs,
           DOMAIN workflows' = DOMAIN workflows, workflows'[r] = t,
           \A q \in Runs : q # r => workflows'[q] = workflows[q]
    PROVE  InOrder'
<1>1. /\ Types /\ TasksOK /\ CoreOK /\ CompletionsOK /\ DOMAIN core = Runs /\ DOMAIN workflows = Runs
      /\ DOMAIN core[r] = CoreFields /\ OnePlace(r)
  BY DEF InOrder, Types, CoreOK
<1>2. Runs' = Runs /\ plan' = plan
  BY DEF Runs
<1>3. /\ DOMAIN core' = Runs /\ core'[r].st = "lang" /\ core'[r].jobs = core[r].jobs
      /\ DOMAIN core'[r] = CoreFields /\ \A q \in Runs : q # r => core'[q] = core[q]
  BY <1>1 DEF CoreFields
<1>4. CoreOK'
  BY <1>1, <1>2, <1>3 DEF CoreOK
<1>5. TasksOK'
  BY <1>1, <1>2 DEF TasksOK
<1>6. \A q : q # r => Mine(q)' = Mine(q)
  BY DEF Mine
<1>7. t \in Mine(r)' /\ \A s \in Mine(r)' : s # t => s \in Mine(r) /\ tasks'[s] = tasks[s]
  BY DEF Mine
<1>8. Nowhere(r)
  BY <1>1 DEF OnePlace
<1>9. OnePlace(r)'
  <2>1. RestBut(r, t)' /\ NoCompletion(r)'
    BY <1>7, <1>8 DEF Nowhere, RestBut, NoCompletion, AtRest, Busy
  <2>2. InInbox(r)'
    BY <1>3, <1>7, <2>1 DEF InInbox
  <2> QED
    BY <1>3, <2>2 DEF OnePlace
<1>10. ASSUME NEW q \in Runs, q # r PROVE OnePlace(q)'
  <2>1. OnePlace(q) /\ core'[q] = core[q]
    BY <1>3, <1>10 DEF InOrder
  <2>2. \A s \in Mine(q)' : s \in Mine(q) /\ tasks'[s] = tasks[s]
    BY <1>6, <1>10 DEF Mine
  <2>3. NoCompletion(q)' = NoCompletion(q) /\ OneCompletion(q)' = OneCompletion(q)
    BY DEF NoCompletion, OneCompletion
  <2> QED
    BY ZenonT(40), <1>6, <1>10, <2>1, <2>2, <2>3, Elsewhere
<1>11. \A q \in Runs : Mapped(q)'
  BY <1>1, <1>6, <1>7 DEF InOrder, Mapped
<1>12. \A s \in DOMAIN tasks' : Replaced(s)'
  <2> SUFFICES ASSUME NEW s \in DOMAIN tasks', s # t PROVE Replaced(s)'
    BY ZenonT(40) DEF Replaced
  <2>1. s \in DOMAIN tasks /\ tasks'[s] = tasks[s] /\ tasks[s].run \in Runs /\ Replaced(s)
    BY <1>1 DEF InOrder, TasksOK
  <2>2. CASE tasks[s].run = r
    BY <1>1, <2>1, <2>2 DEF Replaced
  <2>3. CASE tasks[s].run # r
    <3>1. workflows'[tasks[s].run] = workflows[tasks[s].run] /\ core'[tasks[s].run] = core[tasks[s].run]
      BY <1>1, <1>3, <2>1, <2>3
    <3> QED
      BY ZenonT(40), <2>1, <3>1 DEF Replaced
  <2> QED
    BY <2>2, <2>3
<1>13. Types' /\ Stopped'
  BY <1>1, <1>2, <1>4, <1>5 DEF Types, PlanOK, CompletionsOK, Stopped
<1> QED
  BY <1>2, <1>9, <1>10, <1>11, <1>12, <1>13 DEF InOrder

\* The activation is answered at once: its type is unknown, or there is no future to evict.
LEMMA AnsweredKeeps ==
    ASSUME InOrder, NEW r \in Runs, core[r].st = "ready", loop.wf = "polling",
           core' = [core EXCEPT ![r].st = "lang"],
           UNCHANGED <<plan, loop, workflows, tasks>>,
           NEW x, x.run = r, completions' = Append(completions, x),
           r \notin plan.types \/ workflows[r] = 0
    PROVE  InOrder'
<1>1. /\ Types /\ TasksOK /\ CoreOK /\ CompletionsOK /\ DOMAIN core = Runs
      /\ DOMAIN core[r] = CoreFields /\ OnePlace(r)
  BY DEF InOrder, Types, CoreOK
<1>2. Runs' = Runs /\ plan' = plan
  BY DEF Runs
<1>3. /\ DOMAIN core' = Runs /\ core'[r].st = "lang" /\ core'[r].jobs = core[r].jobs
      /\ DOMAIN core'[r] = CoreFields /\ \A q \in Runs : q # r => core'[q] = core[q]
  BY <1>1 DEF CoreFields
<1>4. CoreOK'
  BY <1>1, <1>2, <1>3 DEF CoreOK
<1>5. \A q : Mine(q)' = Mine(q) /\ \A s \in Mine(q) : tasks'[s] = tasks[s] /\ AtRest(s)' = AtRest(s)
  BY DEF Mine, AtRest, Busy
<1>6. Nowhere(r)
  BY <1>1 DEF OnePlace
<1>7. /\ CompletionsOK'
      /\ \A q : q # r => (NoCompletion(q) => NoCompletion(q)') /\ (OneCompletion(q) => OneCompletion(q)')
      /\ NoCompletion(r) => OneCompletion(r)'
  BY <1>1, <1>2, OneMoreCompletion
<1>8. OnePlace(r)'
  <2>1. ComingBack(r)'
    BY <1>5, <1>6, <1>7 DEF Nowhere, ComingBack
  <2> QED
    BY <1>3, <2>1 DEF OnePlace
<1>9. ASSUME NEW q \in Runs, q # r PROVE OnePlace(q)'
  <2>1. OnePlace(q) /\ core'[q] = core[q]
    BY <1>3, <1>9 DEF InOrder
  <2> QED
    BY <1>5, <1>7, <1>9, <2>1, Elsewhere
<1>10. \A s \in DOMAIN tasks : Replaced(s)'
  <2> SUFFICES ASSUME NEW s \in DOMAIN tasks PROVE Replaced(s)'
    OBVIOUS
  <2>1. tasks[s].run \in Runs /\ tasks[s].run \in plan.types /\ Replaced(s) /\ s # 0
    BY <1>1, SeqDomain DEF InOrder, TasksOK
  <2>2. CASE tasks[s].run = r
    BY <2>1, <2>2 DEF Replaced
  <2>3. CASE tasks[s].run # r
    BY <1>3, <2>1, <2>3 DEF Replaced
  <2> QED
    BY <2>2, <2>3
<1>11. Types' /\ Stopped'
  BY <1>1, <1>2, <1>4, <1>7 DEF Types, PlanOK, TasksOK, Stopped
<1>12. \A q \in Runs : Mapped(q)'
  BY <1>5 DEF InOrder, Mapped
<1> QED
  BY <1>2, <1>8, <1>9, <1>10, <1>11, <1>12 DEF InOrder

\* The loop polls the activation of a run.
LEMMA PollKeeps ==
    ASSUME InOrder, NEW r \in Runs, PollWorkflow(r)
    PROVE  Inv'
<1> DEFINE jobs == core[r].jobs
           init == \E n \in DOMAIN jobs : jobs[n] = InitializeWorkflow
           A == /\ completions' = Append(completions, [run |-> r, ok |-> FALSE, cmds |-> <<>>])
                /\ UNCHANGED <<workflows, tasks, ended>>
           B == /\ tasks' = GiveTo(Append(tasks, SpawnedTask(r)), Len(tasks) + 1, jobs, core[r].past)
                /\ workflows' = [workflows EXCEPT ![r] = Len(tasks) + 1]
                /\ UNCHANGED <<completions, ended>>
           C == /\ tasks' = GiveTo(tasks, workflows[r], jobs, FALSE)
                /\ UNCHANGED <<workflows, completions, ended>>
           D == /\ completions' = Append(completions, [run |-> r, ok |-> TRUE, cmds |-> <<>>])
                /\ UNCHANGED <<workflows, tasks, ended>>
<1>0. \/ init /\ r \notin plan.types /\ A
      \/ init /\ r \in plan.types /\ B
      \/ ~init /\ workflows[r] # 0 /\ C
      \/ ~init /\ workflows[r] = 0 /\ D
      \/ ended' = "error"
  BY Zenon DEF PollWorkflow
<1> HIDE DEF A, B, C, D
<1>1. /\ loop.wf = "polling" /\ core[r].st = "ready" /\ core' = [core EXCEPT ![r].st = "lang"]
      /\ UNCHANGED <<plan, loop>>
  BY ZenonT(40) DEF PollWorkflow
<1>2. init = Starts(core[r].jobs)
  BY DEF Starts
<1>3. TasksOK /\ IsSeq(tasks) /\ OnePlace(r) /\ DOMAIN workflows = Runs
  BY ZenonT(40) DEF InOrder, Types, TasksOK
<1>4. Nowhere(r)
  BY <1>1, <1>3 DEF OnePlace
<1>5. CASE init /\ r \notin plan.types /\ A
  <2> DEFINE x == [run |-> r, ok |-> FALSE, cmds |-> <<>>]
  <2>1. completions' = Append(completions, x) /\ UNCHANGED <<workflows, tasks>>
    BY ZenonT(40), <1>5 DEF A
  <2>2. x.run = r
    BY ZenonT(40)
  <2> HIDE DEF x
  <2> QED
    BY Zenon, <1>1, <1>5, <2>1, <2>2, AnsweredKeeps DEF Inv
<1>6. CASE init /\ r \in plan.types /\ B
  <2> PICK t : t = Len(tasks) + 1
    OBVIOUS
  <2> DEFINE x == SpawnedTask(r)
             ts == Append(tasks, x)
  <2>1. /\ tasks' = GiveTo(ts, t, jobs, core[r].past)
        /\ workflows' = [workflows EXCEPT ![r] = t] /\ UNCHANGED completions
    BY ZenonT(40), <1>6 DEF B
  <2>2. /\ DOMAIN x = {"run", "st", "wf"} /\ x.run = r /\ x.st = "running"
        /\ x.wf = NewWorkflowFuture(plan.calls)
    BY ZenonT(40) DEF SpawnedTask
  <2>3. /\ FutureOK(x.wf) /\ x.wf.inbox = <<>> /\ x.wf.ph = "idle"
    BY ZenonT(40), <2>2, NewFutureOK
  <2> HIDE DEF x
  <2>4. /\ IsSeq(ts) /\ Len(tasks) \in Nat
        /\ DOMAIN ts = 1..Len(tasks) + 1 /\ DOMAIN tasks = 1..Len(tasks)
        /\ \A i \in DOMAIN tasks : ts[i] = tasks[i]
        /\ ts[Len(tasks) + 1] = x
    BY <1>3, AppendSeq
  <2>5. t \in DOMAIN ts /\ ts[t] = x /\ t \notin DOMAIN tasks
        /\ \A s \in DOMAIN ts : s # t => s \in DOMAIN tasks /\ ts[s] = tasks[s]
    BY <2>4
  <2>6. DOMAIN tasks \subseteq DOMAIN ts
    BY <2>4
  <2> HIDE DEF ts, jobs
  <2>7. /\ IsSeq(tasks') /\ DOMAIN tasks' = DOMAIN ts /\ \A s \in DOMAIN ts : s # t => tasks'[s] = ts[s]
        /\ DOMAIN tasks'[t] = {"run", "st", "wf"} /\ tasks'[t].run = ts[t].run /\ tasks'[t].st = ts[t].st
        /\ FutureOK(tasks'[t].wf) /\ tasks'[t].wf.ph = ts[t].wf.ph /\ IsSeq(tasks'[t].wf.inbox)
        /\ Len(tasks'[t].wf.inbox) = 1 /\ tasks'[t].wf.inbox[1].jobs = jobs
    <3>1. PICK z : z = GiveTo(ts, t, jobs, core[r].past)
      BY ZenonT(40)
    <3>2. /\ IsSeq(z) /\ DOMAIN z = DOMAIN ts /\ \A s \in DOMAIN ts : s # t => z[s] = ts[s]
          /\ DOMAIN z[t] = {"run", "st", "wf"} /\ z[t].run = ts[t].run /\ z[t].st = ts[t].st
          /\ FutureOK(z[t].wf) /\ z[t].wf.ph = ts[t].wf.ph /\ IsSeq(z[t].wf.inbox)
          /\ Len(z[t].wf.inbox) = 1 /\ z[t].wf.inbox[1].jobs = jobs
      <4>1. /\ IsSeq(ts) /\ t \in DOMAIN ts /\ DOMAIN ts[t] = {"run", "st", "wf"}
            /\ FutureOK(ts[t].wf) /\ ts[t].wf.inbox = <<>>
        BY ZenonT(40), <2>2, <2>3, <2>4, <2>5
      <4>2. GivenTo(z, ts, t, jobs)
        BY ZenonT(40), <3>1, <4>1, Given
      <4> QED
        BY ZenonT(40), <4>2 DEF GivenTo
    <3> QED
      BY ZenonT(40), <2>1, <3>1, <3>2
  <2>8. jobs = core[r].jobs
    BY DEF jobs
  <2>9. /\ t \in DOMAIN tasks' /\ DOMAIN tasks \subseteq DOMAIN tasks'
        /\ \A s \in DOMAIN tasks' : s # t => s \in DOMAIN tasks /\ tasks'[s] = tasks[s]
        /\ tasks'[t].run = r /\ tasks'[t].st = "running" /\ tasks'[t].wf.ph = "idle"
        /\ tasks'[t].wf.inbox[1].jobs = core[r].jobs /\ UNCHANGED <<plan, loop, completions>>
        /\ t \in DOMAIN tasks => t \in Mine(r)
    <3>1. /\ t \in DOMAIN tasks' /\ DOMAIN tasks \subseteq DOMAIN tasks' /\ t \notin DOMAIN tasks
          /\ \A s \in DOMAIN tasks' : s # t => s \in DOMAIN tasks /\ tasks'[s] = tasks[s]
      BY <2>5, <2>6, <2>7, Zenon
    <3>2. /\ tasks'[t].run = r /\ tasks'[t].st = "running" /\ tasks'[t].wf.ph = "idle"
          /\ tasks'[t].wf.inbox[1].jobs = core[r].jobs
      BY <2>2, <2>3, <2>5, <2>7, <2>8, Zenon
    <3> QED
      BY ZenonT(40), <1>1, <2>1, <3>1, <3>2
  <2>11. /\ DOMAIN workflows' = DOMAIN workflows /\ workflows'[r] = t
         /\ \A q \in Runs : q # r => workflows'[q] = workflows[q]
    BY <1>3, <2>1
  <2>10. InOrder'
    BY Zenon, <1>1, <1>6, <2>7, <2>9, <2>11, GivenKeeps
  <2> QED
    BY <2>10 DEF Inv
<1>7. CASE ~init /\ workflows[r] # 0 /\ C
  <2>0. PICK t : t = workflows[r]
    OBVIOUS
  <2>1. tasks' = GiveTo(tasks, t, jobs, FALSE) /\ UNCHANGED <<workflows, completions>>
    <3>1. tasks' = GiveTo(tasks, workflows[r], jobs, FALSE) /\ UNCHANGED <<workflows, completions>>
      BY ZenonT(40), <1>7 DEF C
    <3> QED
      BY ZenonT(40), <2>0, <3>1
  <2> HIDE DEF init, jobs
  <2>2. t \in Mine(r)
    <3>1. t # 0
      BY <1>7, <2>0
    <3> QED
      BY <2>0, <3>1 DEF InOrder, Mapped
  <2>3. /\ t \in DOMAIN tasks /\ tasks[t].run = r /\ tasks[t].st = "running" /\ AtRest(t) /\ Replaced(t)
    BY ZenonT(40), <1>4, <2>2 DEF Mine, Nowhere, InOrder
  <2>4. DOMAIN tasks[t] = {"run", "st", "wf"} /\ FutureOK(tasks[t].wf) /\ r \in plan.types
    BY ZenonT(40), <1>3, <2>3 DEF TasksOK
  <2>5. tasks[t].wf.inbox = <<>> /\ tasks[t].wf.ph = "idle"
    <3>1. tasks[t].wf.inbox = <<>> /\ tasks[t].wf.ph \in {"idle", "evicted"}
      BY <2>3 DEF AtRest, Busy
    <3>2. core[r].st = "ready" /\ ~Starts(core[r].jobs)
      BY <1>1, <1>2, <1>7
    <3>3. tasks[t].wf.ph # "evicted"
      BY ZenonT(40), <2>0, <2>3, <3>2 DEF Replaced
    <3> QED
      BY <3>1, <3>3
  <2>6. /\ DOMAIN workflows' = DOMAIN workflows /\ workflows'[r] = t
        /\ \A q \in Runs : q # r => workflows'[q] = workflows[q]
    BY <2>0, <2>1
  <2>7. /\ IsSeq(tasks') /\ DOMAIN tasks' = DOMAIN tasks
        /\ \A s \in DOMAIN tasks : s # t => tasks'[s] = tasks[s]
        /\ DOMAIN tasks'[t] = {"run", "st", "wf"} /\ tasks'[t].run = tasks[t].run /\ tasks'[t].st = tasks[t].st
        /\ FutureOK(tasks'[t].wf) /\ tasks'[t].wf.ph = tasks[t].wf.ph /\ IsSeq(tasks'[t].wf.inbox)
        /\ Len(tasks'[t].wf.inbox) = 1 /\ tasks'[t].wf.inbox[1].jobs = jobs
    <3>1. PICK z : z = GiveTo(tasks, t, jobs, FALSE)
      BY Zenon
    <3>2. /\ IsSeq(z) /\ DOMAIN z = DOMAIN tasks /\ \A s \in DOMAIN tasks : s # t => z[s] = tasks[s]
          /\ DOMAIN z[t] = {"run", "st", "wf"} /\ z[t].run = tasks[t].run /\ z[t].st = tasks[t].st
          /\ FutureOK(z[t].wf) /\ z[t].wf.ph = tasks[t].wf.ph /\ IsSeq(z[t].wf.inbox)
          /\ Len(z[t].wf.inbox) = 1 /\ z[t].wf.inbox[1].jobs = jobs
      <4>1. PICK ts, js, rep : ts = tasks /\ js = jobs /\ z = GiveTo(tasks, t, js, rep)
        BY <3>1, Zenon
      <4>2. /\ IsSeq(ts) /\ t \in DOMAIN ts /\ DOMAIN ts[t] = {"run", "st", "wf"}
            /\ FutureOK(ts[t].wf) /\ ts[t].wf.inbox = <<>> /\ z = GiveTo(ts, t, js, rep)
        BY ZenonT(40), <1>3, <2>3, <2>4, <2>5, <4>1
      <4>3. /\ IsSeq(z) /\ DOMAIN z = DOMAIN ts /\ \A s \in DOMAIN ts : s # t => z[s] = ts[s]
            /\ DOMAIN z[t] = {"run", "st", "wf"} /\ z[t].run = ts[t].run /\ z[t].st = ts[t].st
            /\ FutureOK(z[t].wf) /\ z[t].wf.ph = ts[t].wf.ph /\ IsSeq(z[t].wf.inbox)
            /\ Len(z[t].wf.inbox) = 1 /\ z[t].wf.inbox[1].jobs = js
        <5>1. GivenTo(z, ts, t, js)
          BY ZenonT(40), <4>2, Given
        <5> QED
          BY ZenonT(40), <5>1 DEF GivenTo
      <4> QED
        BY ZenonT(40), <4>1, <4>3
    <3> QED
      BY Zenon, <2>1, <3>1, <3>2
  <2>8. jobs = core[r].jobs
    BY DEF jobs
  <2>9. /\ t \in DOMAIN tasks' /\ DOMAIN tasks \subseteq DOMAIN tasks'
        /\ \A s \in DOMAIN tasks' : s # t => s \in DOMAIN tasks /\ tasks'[s] = tasks[s]
        /\ tasks'[t].run = r /\ tasks'[t].st = "running" /\ tasks'[t].wf.ph = "idle"
        /\ tasks'[t].wf.inbox[1].jobs = core[r].jobs /\ UNCHANGED <<plan, loop, completions>>
    BY Zenon, <1>1, <2>1, <2>3, <2>5, <2>7, <2>8
  <2>10. InOrder'
    BY Zenon, <1>1, <2>2, <2>4, <2>6, <2>7, <2>9, GivenKeeps
  <2> QED
    BY <2>10 DEF Inv
<1>8. CASE ~init /\ workflows[r] = 0 /\ D
  <2> DEFINE x == [run |-> r, ok |-> TRUE, cmds |-> <<>>]
  <2>1. completions' = Append(completions, x) /\ UNCHANGED <<workflows, tasks>>
    BY <1>8 DEF D
  <2>2. x.run = r
    BY Zenon
  <2> HIDE DEF x
  <2> QED
    BY Zenon, <1>1, <1>8, <2>1, <2>2, AnsweredKeeps DEF Inv
<1>9. CASE ended' = "error"
  BY <1>9 DEF Inv, Up
<1> HIDE DEF init
<1> QED
  BY <1>0, <1>5, <1>6, <1>7, <1>8, <1>9
-----------------------------------------------------------------------------
(* The core                                                                    *)

\* Sequences of jobs without an eviction, put together.
LEMMA PlainSeqs ==
    /\ Plain(<<>>)
    /\ \A x : x.j # "remove" => Plain(<<x>>)
    /\ \A s, x : Plain(s) /\ x.j # "remove" => Plain(Append(s, x))
<1>1. Plain(<<>>)
  BY DEF Plain, IsSeq
<1>2. ASSUME NEW x, x.j # "remove" PROVE Plain(<<x>>)
  <2>1. <<x>> \in Seq({x})
    OBVIOUS
  <2>2. IsSeq(<<x>>)
    BY Zenon, <2>1, SeqIs
  <2> QED
    BY <1>2, <2>2 DEF Plain
<1>3. ASSUME NEW s, NEW x, Plain(s), x.j # "remove" PROVE Plain(Append(s, x))
  <2>1. /\ IsSeq(Append(s, x)) /\ Len(s) \in Nat
        /\ DOMAIN Append(s, x) = 1..Len(s) + 1 /\ DOMAIN s = 1..Len(s)
        /\ \A i \in DOMAIN s : Append(s, x)[i] = s[i]
        /\ Append(s, x)[Len(s) + 1] = x
    BY <1>3, AppendSeq DEF Plain
  <2>2. ASSUME NEW i \in DOMAIN Append(s, x) PROVE Append(s, x)[i].j # "remove"
    <3>1. i \in DOMAIN s \/ i = Len(s) + 1
      BY <2>1
    <3> QED
      BY Zenon, <1>3, <2>1, <3>1 DEF Plain
  <2> QED
    BY <2>1, <2>2 DEF Plain
<1> QED
  BY <1>1, <1>2, <1>3

\* Two sequences of jobs, one after the other.
LEMMA PlainConcat ==
    ASSUME NEW s, NEW z, Plain(s), Plain(z)
    PROVE  Plain(s \o z) /\ (Starts(s) => Starts(s \o z))
<1> DEFINE S == {s[i] : i \in DOMAIN s} \cup {z[i] : i \in DOMAIN z}
<1>1. s \in Seq(S) /\ z \in Seq(S)
  <2>1. /\ Len(s) \in Nat /\ DOMAIN s = 1..Len(s) /\ s = [i \in 1..Len(s) |-> s[i]]
    BY DEF Plain, IsSeq
  <2>2. /\ Len(z) \in Nat /\ DOMAIN z = 1..Len(z) /\ z = [i \in 1..Len(z) |-> z[i]]
    BY DEF Plain, IsSeq
  <2>3. (\A i \in 1..Len(s) : s[i] \in S) /\ (\A i \in 1..Len(z) : z[i] \in S)
    BY ZenonT(40), <2>1, <2>2
  <2> HIDE DEF S
  <2> QED
    BY <2>1, <2>2, <2>3
<1> HIDE DEF S
<1>2. /\ s \o z \in Seq(S) /\ Len(s) \in Nat /\ Len(z) \in Nat /\ DOMAIN s = 1..Len(s)
      /\ DOMAIN z = 1..Len(z) /\ DOMAIN (s \o z) = 1..(Len(s) + Len(z))
      /\ \A i \in 1..(Len(s) + Len(z)) : (s \o z)[i] = IF i <= Len(s) THEN s[i] ELSE z[i - Len(s)]
  BY <1>1
<1>3. IsSeq(s \o z)
  BY Zenon, <1>2, SeqIs
<1>4. \A i \in DOMAIN (s \o z) : (s \o z)[i].j # "remove"
  <2> SUFFICES ASSUME NEW i \in DOMAIN (s \o z) PROVE (s \o z)[i].j # "remove"
    OBVIOUS
  <2>1. CASE i <= Len(s)
    BY <1>2, <2>1 DEF Plain
  <2>2. CASE ~(i <= Len(s))
    <3>1. i - Len(s) \in DOMAIN z
      BY <1>2, <2>2
    <3> QED
      BY <1>2, <2>2, <3>1 DEF Plain
  <2> QED
    BY <2>1, <2>2
<1>5. Starts(s) => Starts(s \o z)
  <2> SUFFICES ASSUME NEW i \in DOMAIN s, s[i] = InitializeWorkflow PROVE Starts(s \o z)
    BY DEF Starts
  <2>1. i \in DOMAIN (s \o z) /\ (s \o z)[i] = InitializeWorkflow
    BY <1>2
  <2> QED
    BY <2>1 DEF Starts
<1> QED
  BY Zenon, <1>3, <1>4, <1>5 DEF Plain

\* Such a sequence, given element by element.
LEMMA PlainTuple ==
    ASSUME NEW n \in Nat, NEW z, z = [i \in 1..n |-> z[i]], \A i \in 1..n : z[i].j # "remove"
    PROVE  Plain(z)
<1> DEFINE R == {z[i] : i \in 1..n}
<1>1. \A i \in 1..n : z[i] \in R
  OBVIOUS
<1> HIDE DEF R
<1>2. z \in Seq(R) /\ DOMAIN z = 1..n
  BY <1>1
<1> QED
  BY <1>2, SeqIs DEF Plain

\* What a run is resolved.
LEMMA ResolutionsPlain ==
    ASSUME NEW r, NEW first, Plain(first), NEW n, NEW s \in Resolutions(r, first, n)
    PROVE  Plain(s.jobs)
<1> DEFINE open == core[r].open
           one == {[jobs |-> Append(first, j), open |-> Resolved(open, j)] : j \in ResolveJobs(open)}
           two == UNION {{[jobs |-> Append(o.jobs, j), open |-> Resolved(o.open, j)] :
                            j \in ResolveJobs(o.open)} : o \in one}
<1>1. ASSUME NEW o, NEW j \in ResolveJobs(o) PROVE j.j = "resolve"
  <2>1. PICK y \in o : \E x \in Outcomes(y) : j = Job("resolve", CommandIdOf(y.k), y.seq, x)
    BY ZenonT(40), <1>1 DEF ResolveJobs
  <2> QED
    BY <2>1 DEF Job
<1>2. ASSUME NEW o \in one PROVE Plain(o.jobs)
  <2>1. PICK j \in ResolveJobs(open) : o.jobs = Append(first, j)
    BY <1>2
  <2> QED
    BY ZenonT(40), <1>1, <2>1, PlainSeqs
<1>3. s \in {[jobs |-> first, open |-> open]} \/ s \in one \/ s \in two
  BY ZenonT(40) DEF Resolutions
<1> HIDE DEF one
<1>4. ASSUME s \in two PROVE Plain(s.jobs)
  <2>1. PICK o \in one : \E j \in ResolveJobs(o.open) :
          s = [jobs |-> Append(o.jobs, j), open |-> Resolved(o.open, j)]
    BY ZenonT(40), <1>4
  <2> QED
    BY <1>1, <1>2, <2>1, PlainSeqs
<1> QED
  BY <1>2, <1>3, <1>4

\* The core sends a run something, or changes what only it knows of the run.
LEMMA CoreKeeps ==
    ASSUME InOrder, NEW r \in Runs, NEW c, core' = [core EXCEPT ![r] = c],
           DOMAIN c = CoreFields, JobsOK(c.jobs), PlanOK', plan'.runs = plan.runs, plan'.types = plan.types,
           UNCHANGED <<loop, workflows, tasks, completions>>,
           \/ c.st = core[r].st /\ c.jobs = core[r].jobs
           \/ core[r].st = "none" /\ c.st = "ready" /\ Starts(c.jobs)
           \/ core[r].st = "idle" /\ c.st = "ready"
    PROVE  InOrder'
<1>1. /\ Types /\ TasksOK /\ CoreOK /\ CompletionsOK /\ DOMAIN core = Runs /\ Stopped
  BY ZenonT(40) DEF InOrder, Types, CoreOK
<1>2. Runs' = Runs
  BY DEF Runs
<1>3. DOMAIN core' = Runs /\ core'[r] = c /\ \A q \in Runs : q # r => core'[q] = core[q]
  BY ZenonT(40), <1>1
<1>4. CoreOK'
  BY ZenonT(40), <1>1, <1>2, <1>3 DEF CoreOK
<1>5. ASSUME NEW q \in Runs PROVE OnePlace(q)'
  <2>1. OnePlace(q)
    BY ZenonT(40) DEF InOrder
  <2>2. \A s \in Mine(q)' : s \in Mine(q) /\ tasks'[s] = tasks[s]
    BY ZenonT(40) DEF Mine
  <2>3. \A s \in Mine(q) : s \in Mine(q)'
    BY DEF Mine
  <2>4. NoCompletion(q)' = NoCompletion(q) /\ OneCompletion(q)' = OneCompletion(q)
    BY ZenonT(40) DEF NoCompletion, OneCompletion
  <2>5. /\ (core'[q].st = "lang") = (core[q].st = "lang")
        /\ core[q].st = "lang" => core'[q].jobs = core[q].jobs
    BY ZenonT(40), <1>3
  <2> QED
    BY ZenonT(40), <2>1, <2>2, <2>3, <2>4, <2>5, Elsewhere
<1>6. \A s \in DOMAIN tasks : Replaced(s)'
  <2> SUFFICES ASSUME NEW s \in DOMAIN tasks PROVE Replaced(s)'
    OBVIOUS
  <2>1. tasks[s].run \in Runs /\ Replaced(s)
    BY ZenonT(40), <1>1 DEF InOrder, TasksOK
  <2>2. CASE tasks[s].run = r
    BY ZenonT(40), <1>3, <2>1, <2>2 DEF Replaced
  <2>3. CASE tasks[s].run # r
    BY ZenonT(40), <1>3, <2>1, <2>3 DEF Replaced
  <2> QED
    BY ZenonT(40), <2>2, <2>3
<1>7. \A q \in Runs : Mapped(q)'
  BY ZenonT(40) DEF InOrder, Mapped, Mine
<1>8. TasksOK' /\ CompletionsOK'
  BY ZenonT(40), <1>1, <1>2 DEF TasksOK, CompletionsOK
<1>9. Types' /\ Stopped'
  <2>1. \A q \in Runs : core'[q].st = "lang" => core[q].st = "lang"
    BY <1>3
  <2> QED
    BY ZenonT(40), <1>1, <1>2, <1>4, <1>8, <2>1 DEF Types, Stopped
<1> QED
  BY ZenonT(40), <1>2, <1>5, <1>6, <1>7, <1>9 DEF InOrder

\* A step that spends some of the plan leaves its runs and types alone.
LEMMA Spends ==
    ASSUME PlanOK, NEW what \in {"work", "signals", "updates", "cancels", "evicts"}, Spend(what), Spent(what)
    PROVE  PlanOK' /\ plan'.runs = plan.runs /\ plan'.types = plan.types
<1>1. plan' = [plan EXCEPT ![what] = @ - 1]
  BY DEF Spent
<1>2. DOMAIN plan' = DOMAIN plan /\ \A f \in DOMAIN plan : f # what => plan'[f] = plan[f]
  BY <1>1
<1>3. what \in DOMAIN plan /\ plan'[what] = plan[what] - 1 /\ plan[what] > 0
  BY <1>1 DEF PlanOK, Spend
<1>4. plan'.signals \in Nat /\ plan'.updates \in Nat
  <2>1. CASE what = "signals"
    BY <1>2, <1>3, <2>1 DEF PlanOK
  <2>2. CASE what = "updates"
    BY <1>2, <1>3, <2>2 DEF PlanOK
  <2>3. CASE what \notin {"signals", "updates"}
    BY <1>2, <2>3 DEF PlanOK
  <2> QED
    BY <2>1, <2>2, <2>3
<1> QED
  BY <1>2, <1>4 DEF PlanOK

\* Everything that the core does of itself.
LEMMA CoreNextKeeps ==
    ASSUME InOrder, CoreNext
    PROVE  InOrder'
<1>1. PICK r \in Runs : \/ StartRun(r) \/ SendWork(r) \/ SendSignal(r) \/ SendUpdate(r)
                        \/ SendCancel(r) \/ RequestEviction(r) \/ SendEviction(r)
  BY DEF CoreNext
<1>2. UNCHANGED <<loop, workflows, tasks, completions>>
  BY ZenonT(40), <1>1 DEF StartRun, SendWork, SendSignal, SendUpdate, SendCancel, RequestEviction,
         SendEviction, CoreOnly
<1>3. DOMAIN core[r] = CoreFields /\ JobsOK(core[r].jobs) /\ PlanOK
  BY ZenonT(40) DEF InOrder, Types, CoreOK
<1>4. CASE StartRun(r)
  <2>1. PICK s \in 0..plan.signals, u \in 0..plan.updates,
             p \in IF core[r].past /\ Does("patch") THEN {0, 1} ELSE {0} :
       /\ core' = [core EXCEPT
            ![r] = [@ EXCEPT !.st = "ready", !.signals = s, !.updates = u,
                             !.jobs = <<InitializeWorkflow>>
                                        \o [n \in 1..p |-> Job("patch", "none", 0, "none")]
                                        \o [n \in 1..s |-> SignalJob(n)]
                                        \o [n \in 1..u |-> UpdateJob(n)]]]
       /\ plan' = [plan EXCEPT !.signals = @ - s, !.updates = @ - u,
                               !.restarts = IF core[r].past THEN @ - 1 ELSE @]
    BY Zenon, <1>4 DEF StartRun
  <2> DEFINE a == <<InitializeWorkflow>>
             b == [n \in 1..p |-> Job("patch", "none", 0, "none")]
             d == [n \in 1..s |-> SignalJob(n)]
             e == [n \in 1..u |-> UpdateJob(n)]
             jobs == ((a \o b) \o d) \o e
             c == [core[r] EXCEPT !.st = "ready", !.signals = s, !.updates = u, !.jobs = jobs]
  <2>2. s \in Nat /\ u \in Nat /\ p \in Nat
    BY <1>3 DEF PlanOK
  <2>3. Plain(a) /\ Starts(a)
    BY PlainSeqs DEF InitializeWorkflow, Job, Starts
  <2>4. Plain(b)
    <3>1. b = [n \in 1..p |-> b[n]] /\ \A n \in 1..p : b[n].j # "remove"
      BY ZenonT(40) DEF Job
    <3> HIDE DEF b
    <3> QED
      BY <2>2, <3>1, PlainTuple
  <2>5. Plain(d)
    <3>1. d = [n \in 1..s |-> d[n]] /\ \A n \in 1..s : d[n].j # "remove"
      BY ZenonT(40) DEF SignalJob, Job
    <3> HIDE DEF d
    <3> QED
      BY <2>2, <3>1, PlainTuple
  <2>6. Plain(e)
    <3>1. e = [n \in 1..u |-> e[n]] /\ \A n \in 1..u : e[n].j # "remove"
      BY ZenonT(40) DEF UpdateJob, Job
    <3> HIDE DEF e
    <3> QED
      BY ZenonT(40), <2>2, <3>1, PlainTuple
  <2>7. core' = [core EXCEPT ![r] = c]
    BY <2>1
  <2> HIDE DEF a, b, d, e
  <2>8. Plain(jobs) /\ Starts(jobs)
    <3>1. Plain(a \o b) /\ Starts(a \o b)
      BY <2>3, <2>4, PlainConcat
    <3>2. Plain((a \o b) \o d) /\ Starts((a \o b) \o d)
      BY <2>5, <3>1, PlainConcat
    <3> QED
      BY <2>6, <3>2, PlainConcat
  <2> HIDE DEF jobs
  <2>9. DOMAIN c = CoreFields /\ c.st = "ready" /\ c.jobs = jobs
    BY <1>3 DEF CoreFields
  <2> HIDE DEF c
  <2>10. PlanOK' /\ plan'.runs = plan.runs /\ plan'.types = plan.types
    <3>1. /\ DOMAIN plan' = DOMAIN plan /\ plan'.runs = plan.runs /\ plan'.types = plan.types
          /\ plan'.signals = plan.signals - s /\ plan'.updates = plan.updates - u
      BY <1>3, <2>1 DEF PlanOK
    <3> QED
      BY <1>3, <2>2, <3>1 DEF PlanOK
  <2>11. core[r].st = "none"
    BY <1>4 DEF StartRun
  <2> QED
    BY Zenon, <1>2, <2>7, <2>8, <2>9, <2>10, <2>11, CoreKeeps DEF JobsOK
<1>5. CASE SendWork(r)
  <2>1. PICK s \in Resolutions(r, <<>>, 2) : core' = [core EXCEPT ![r] = Answer(r, s)]
    BY Zenon, <1>5 DEF SendWork
  <2>2. Plain(s.jobs)
    BY PlainSeqs, ResolutionsPlain
  <2>3. DOMAIN Answer(r, s) = CoreFields /\ Answer(r, s).st = "ready" /\ Answer(r, s).jobs = s.jobs
    BY <1>3 DEF Answer, CoreFields
  <2>4. PlanOK' /\ plan'.runs = plan.runs /\ plan'.types = plan.types /\ core[r].st = "idle"
    BY ZenonT(40), <1>3, <1>5, Spends DEF SendWork
  <2> QED
    BY Zenon, <1>2, <2>1, <2>2, <2>3, <2>4, CoreKeeps DEF JobsOK
<1>6. CASE SendSignal(r)
  <2> DEFINE first == <<SignalJob(core[r].signals + 1)>>
  <2>1. PICK s \in Resolutions(r, first, 1) :
          core' = [core EXCEPT ![r] = [Answer(r, s) EXCEPT !.signals = core[r].signals + 1]]
    BY Zenon, <1>6 DEF SendSignal
  <2>2. Plain(first)
    BY ZenonT(40), PlainSeqs DEF SignalJob, Job
  <2>3. Plain(s.jobs)
    BY ZenonT(40), <2>2, ResolutionsPlain
  <2>4. DOMAIN Answer(r, s) = CoreFields /\ Answer(r, s).st = "ready" /\ Answer(r, s).jobs = s.jobs
    BY <1>3 DEF Answer, CoreFields
  <2> DEFINE c == [Answer(r, s) EXCEPT !.signals = core[r].signals + 1]
  <2>5. DOMAIN c = CoreFields /\ c.st = "ready" /\ c.jobs = s.jobs
    BY <2>4 DEF CoreFields
  <2>6. PlanOK' /\ plan'.runs = plan.runs /\ plan'.types = plan.types /\ core[r].st = "idle"
    BY <1>3, <1>6, Spends DEF SendSignal
  <2>7. core' = [core EXCEPT ![r] = c]
    BY <2>1
  <2> HIDE DEF c
  <2> QED
    BY Zenon, <1>2, <2>3, <2>5, <2>6, <2>7, CoreKeeps DEF JobsOK
<1>7. CASE SendUpdate(r)
  <2> DEFINE jobs == <<UpdateJob(core[r].updates + 1)>>
             c == [core[r] EXCEPT !.st = "ready", !.updates = core[r].updates + 1, !.jobs = jobs]
  <2>1. core' = [core EXCEPT ![r] = c] /\ core[r].st = "idle"
    BY <1>7, Zenon DEF SendUpdate
  <2>2. Plain(jobs)
    BY PlainSeqs DEF UpdateJob, Job
  <2> HIDE DEF jobs
  <2>3. DOMAIN c = CoreFields /\ c.st = "ready" /\ c.jobs = jobs
    BY <1>3 DEF CoreFields
  <2>4. PlanOK' /\ plan'.runs = plan.runs /\ plan'.types = plan.types
    BY <1>3, <1>7, Spends DEF SendUpdate
  <2> HIDE DEF c
  <2> QED
    BY Zenon, <1>2, <2>1, <2>2, <2>3, <2>4, CoreKeeps DEF JobsOK
<1>8. CASE SendCancel(r)
  <2> DEFINE jobs == <<Job("cancel", "none", 0, "none")>>
             c == [core[r] EXCEPT !.st = "ready", !.cancelled = TRUE, !.jobs = jobs]
  <2>1. core' = [core EXCEPT ![r] = c] /\ core[r].st = "idle"
    BY <1>8 DEF SendCancel
  <2>2. Plain(jobs)
    BY ZenonT(40), PlainSeqs DEF Job
  <2> HIDE DEF jobs
  <2>3. DOMAIN c = CoreFields /\ c.st = "ready" /\ c.jobs = jobs
    BY <1>3 DEF CoreFields
  <2>4. PlanOK' /\ plan'.runs = plan.runs /\ plan'.types = plan.types
    BY <1>3, <1>8, Spends DEF SendCancel
  <2> HIDE DEF c
  <2> QED
    BY Zenon, <1>2, <2>1, <2>2, <2>3, <2>4, CoreKeeps DEF JobsOK
<1>9. CASE RequestEviction(r)
  <2> DEFINE c == [core[r] EXCEPT !.evict = TRUE]
  <2>1. core' = [core EXCEPT ![r] = c]
    BY <1>9 DEF RequestEviction
  <2>2. DOMAIN c = CoreFields /\ c.st = core[r].st /\ c.jobs = core[r].jobs
    BY <1>3 DEF CoreFields
  <2>3. PlanOK' /\ plan'.runs = plan.runs /\ plan'.types = plan.types
    BY <1>3, <1>9, Spends DEF RequestEviction
  <2> HIDE DEF c
  <2> QED
    BY Zenon, <1>2, <1>3, <2>1, <2>2, <2>3, CoreKeeps
<1>10. CASE SendEviction(r)
  <2> DEFINE c == [core[r] EXCEPT !.st = "ready", !.jobs = Eviction]
  <2>1. core' = [core EXCEPT ![r] = c] /\ core[r].st = "idle"
    BY <1>10 DEF SendEviction, SendJobs, Eviction
  <2>2. DOMAIN c = CoreFields /\ c.st = "ready" /\ c.jobs = Eviction
    BY <1>3 DEF CoreFields
  <2>3. PlanOK' /\ plan'.runs = plan.runs /\ plan'.types = plan.types
    BY ZenonT(40), <1>3, <1>10 DEF SendEviction, PlanOK
  <2> HIDE DEF c
  <2> QED
    BY Zenon, <1>2, <2>1, <2>2, <2>3, CoreKeeps DEF JobsOK
<1> QED
  BY <1>1, <1>4, <1>5, <1>6, <1>7, <1>8, <1>9, <1>10
-----------------------------------------------------------------------------
(* Every step                                                                  *)

\* Steps of a spawned future.
LEMMA TaskNextKeeps ==
    ASSUME InOrder, NEW t \in DOMAIN tasks, TaskNext(t)
    PROVE  Inv'
<1> DEFINE w == tasks[t].wf
<1>1. FutureOK(w)
  BY ZenonT(40) DEF InOrder, Types, TasksOK
<1>2. \A ph \in InPolls : At(t, ph) => Busy(t) /\ w.ph = ph
  BY DEF At, Busy, InPolls
<1>3. CASE TaskTakesActivation(t)
  BY <1>3, TakeKeeps DEF Inv
<1>4. CASE TaskHandlesJob(t)
  <2>1. PICK how : Step(t, HandleJob(w, how)) /\ At(t, "jobs") /\ w.jobs # <<>>
    BY ZenonT(40), <1>4 DEF TaskHandlesJob
  <2>2. Busy(t) /\ w.ph = "jobs"
    BY <1>2, <2>1 DEF InPolls
  <2>3. Polled(w, HandleJob(w, how))
    BY ZenonT(40), <1>1, <2>1, <2>2, JobHandled
  <2> QED
    BY ZenonT(40), <2>1, <2>2, <2>3, PollStepKeeps DEF Inv
<1>5. CASE TaskHandledJobs(t)
  <2>1. Step(t, JobsDone(w)) /\ Busy(t) /\ w.ph = "jobs"
    BY ZenonT(40), <1>2, <1>5 DEF TaskHandledJobs, InPolls
  <2>2. Polled(w, JobsDone(w))
    BY ZenonT(40), <1>1, <2>1, JobsHandled
  <2> QED
    BY ZenonT(40), <2>1, <2>2, PollStepKeeps DEF Inv
<1>6. CASE CodeCalls(t)
  <2> DEFINE x == [w EXCEPT !.left = @ - 1]
  <2>1. Busy(t) /\ w.ph = "code"
    BY ZenonT(40), <1>2, <1>6 DEF CodeCalls, InPolls
  <2>2. SameControl(w, x)
    BY <1>1 DEF SameControl, Kept, Fields, FutureOK
  <2>3. \E v : Step(t, v) /\ \/ \E k : v = StartCall(x, w.who, k)
                             \/ \E n : \/ v = CancelCall(x, n) \/ v = CancelStartedChild(x, n)
                                       \/ v = CancelStartedNexus(x, n)
                             \/ v \in {SignalChannel(x), UpdateHandler(x), PatchCall(x), UpsertCall(x),
                                       ForceTaskFail(x)}
    BY ZenonT(40), <1>6 DEF CodeCalls
  <2> HIDE DEF x
  <2>4. PICK v : Step(t, v) /\ SameControl(x, v)
    <3>1. DOMAIN x = Fields
      BY ZenonT(40), <2>2 DEF SameControl, Kept
    <3>2. PICK v : Step(t, v) /\ \/ \E k : v = StartCall(x, w.who, k)
                                 \/ \E n : \/ v = CancelCall(x, n) \/ v = CancelStartedChild(x, n)
                                           \/ v = CancelStartedNexus(x, n)
                                 \/ v \in {SignalChannel(x), UpdateHandler(x), PatchCall(x), UpsertCall(x),
                                           ForceTaskFail(x)}
      BY ZenonT(40), <2>3
    <3>3. CASE \E k : v = StartCall(x, w.who, k)
      BY ZenonT(40), <3>1, <3>2, <3>3, StartCalls
    <3>4. CASE \E n : v = CancelCall(x, n) \/ v = CancelStartedChild(x, n) \/ v = CancelStartedNexus(x, n)
      BY ZenonT(40), <3>1, <3>2, <3>4, OtherCalls
    <3>5. CASE v \in {SignalChannel(x), UpdateHandler(x), PatchCall(x), UpsertCall(x), ForceTaskFail(x)}
      BY ZenonT(40), <3>1, <3>2, <3>5, OtherCalls
    <3> QED
      BY ZenonT(40), <3>2, <3>3, <3>4, <3>5
  <2>5. SameControl(w, v)
    BY ZenonT(40), <2>2, <2>4 DEF SameControl, Kept
  <2>6. Polled(w, v)
    BY ZenonT(40), <1>1, <2>1, <2>5, CodePolled DEF Polled
  <2> QED
    BY ZenonT(40), <2>1, <2>4, <2>6, PollStepKeeps DEF Inv
<1>7. CASE CodeWaits(t) \/ CodeReturns(t) \/ CodePanics(t)
  <2>1. Busy(t) /\ w.ph = "code"
    BY ZenonT(40), <1>2, <1>7 DEF CodeWaits, CodeReturns, CodePanics, InPolls
  <2>2. PICK v \in {Waits(w), Returns(w), Panics(w)} : Step(t, v)
    BY ZenonT(40), <1>7 DEF CodeWaits, CodeReturns, CodePanics
  <2>3. Polled(w, v)
    BY ZenonT(40), <1>1, <2>1, <2>2, CodePolled DEF Polled
  <2> QED
    BY ZenonT(40), <2>1, <2>2, <2>3, PollStepKeeps DEF Inv
<1>8. CASE TaskDrains(t) \/ TaskDrained(t)
  <2>1. Busy(t) /\ w.ph = "drain"
    BY ZenonT(40), <1>2, <1>8 DEF TaskDrains, TaskDrained, InPolls
  <2>2. PICK v \in {DrainCommand(w), Drained(w)} : Step(t, v)
    BY ZenonT(40), <1>8 DEF TaskDrains, TaskDrained
  <2>3. Polled(w, v)
    BY ZenonT(40), <1>1, <2>1, <2>2, CommandDrained, AllDrained
  <2> QED
    BY ZenonT(40), <2>1, <2>2, <2>3, PollStepKeeps DEF Inv
<1>9. CASE JoinTask(t)
  BY <1>9, JoinKeeps DEF Inv
<1>10. CASE JoinFails(t)
  BY <1>10 DEF JoinFails, Inv, Up
<1> QED
  BY ZenonT(40), <1>3, <1>4, <1>5, <1>6, <1>7, <1>8, <1>9, <1>10 DEF TaskNext

\* Steps that leave the runs alone; the loop may be told that it is over.
LEMMA LoopKeeps ==
    ASSUME InOrder, UNCHANGED <<plan, core, workflows, tasks, completions>>,
           DOMAIN loop' = {"wf", "act"}, loop'.wf = loop.wf \/ NoWork
    PROVE  InOrder'
<1>1. Runs' = Runs /\ DOMAIN tasks' = DOMAIN tasks
  BY ZenonT(40) DEF Runs
<1>2. Types'
  BY ZenonT(40), <1>1 DEF InOrder, Types, PlanOK, CoreOK, TasksOK, CompletionsOK
<1>3. Stopped'
  BY ZenonT(40), <1>1 DEF InOrder, Stopped, NoWork
<1>4. \A r \in Runs : OnePlace(r)' /\ Mapped(r)'
  <2>1. \A r : (NoCompletion(r) => NoCompletion(r)') /\ (OneCompletion(r) => OneCompletion(r)')
    BY ZenonT(40) DEF NoCompletion, OneCompletion
  <2>2. \A r : Mine(r)' = Mine(r)
    BY ZenonT(40) DEF Mine
  <2>3. \A t : (Busy(t)' <=> Busy(t)) /\ (AtRest(t) => AtRest(t)')
    BY ZenonT(40) DEF Busy, AtRest
  <2>4. \A r, t : RestBut(r, t) => RestBut(r, t)'
    BY ZenonT(40), <2>2, <2>3 DEF RestBut
  <2>5. \A r : InInbox(r) => InInbox(r)'
    BY ZenonT(40), <2>1, <2>2, <2>4 DEF InInbox
  <2>6. \A r : InPoll(r) => InPoll(r)'
    BY ZenonT(40), <2>1, <2>2, <2>3, <2>4 DEF InPoll
  <2>7. \A r : (ComingBack(r) => ComingBack(r)') /\ (Nowhere(r) => Nowhere(r)')
    BY ZenonT(40), <2>1, <2>2, <2>3 DEF ComingBack, Nowhere
  <2>8. \A r : Mapped(r) => Mapped(r)'
    BY ZenonT(40), <2>2 DEF Mapped
  <2> QED
    BY ZenonT(40), <2>5, <2>6, <2>7, <2>8 DEF InOrder, OnePlace
<1>5. \A t \in DOMAIN tasks : Replaced(t)'
  BY ZenonT(40) DEF InOrder, Replaced
<1> QED
  BY ZenonT(40), <1>1, <1>2, <1>3, <1>4, <1>5 DEF InOrder

\* Every step keeps the invariant.
LEMMA StepKeeps ==
    ASSUME Inv, [Next]_vars
    PROVE  Inv'
<1>1. CASE CoreNext
  <2>1. Up
    BY ZenonT(40), <1>1 DEF CoreNext, StartRun, SendWork, SendSignal, SendUpdate, SendCancel,
           RequestEviction, SendEviction
  <2> QED
    BY <1>1, <2>1, CoreNextKeeps DEF Inv
<1>2. ASSUME NEW r \in Runs, PollWorkflow(r) PROVE Inv'
  <2>1. InOrder
    BY <1>2 DEF PollWorkflow, Inv
  <2> QED
    BY <1>2, <2>1, PollKeeps
<1>3. ASSUME NEW n \in DOMAIN completions, ProcessCompletion(n) PROVE Inv'
  <2>1. InOrder
    BY <1>3 DEF ProcessCompletion, Inv
  <2> QED
    BY <1>3, <2>1, ProcessKeeps DEF Inv
<1>4. ASSUME NEW t \in DOMAIN tasks, TaskNext(t) PROVE Inv'
  <2>1. ended' = "no" => ended = "no"
    BY Zenon, <1>4 DEF TaskNext, TaskTakesActivation, TaskHandlesJob, TaskHandledJobs, CodeCalls,
           CodeWaits, CodeReturns,
                CodePanics, TaskDrains, TaskDrained, JoinTask, JoinFails, Step
  <2>2. CASE Up
    BY <1>4, <2>2, TaskNextKeeps DEF Inv
  <2>3. CASE ~Up
    BY <2>1, <2>3 DEF Inv, Up
  <2> QED
    BY <2>2, <2>3
<1>5. CASE WorkflowLoopEnds \/ ActivityLoopEnds
  <2>1. /\ InOrder /\ UNCHANGED <<plan, core, workflows, tasks, completions>>
        /\ \/ loop' = [loop EXCEPT !.wf = "stopped"] /\ NoWork
           \/ loop' = [loop EXCEPT !.act = "stopped"]
    BY <1>5 DEF WorkflowLoopEnds, PollShutDown, ActivityLoopEnds, Inv
  <2>2. DOMAIN loop' = {"wf", "act"} /\ (loop'.wf = loop.wf \/ NoWork)
    BY <2>1 DEF InOrder, Types
  <2> QED
    BY <2>1, <2>2, LoopKeeps DEF Inv
<1>6. CASE RunEnds
  BY ZenonT(40), <1>6 DEF RunEnds, Inv, Up
<1>7. CASE (\E a \in Acts : ActivityNext(a)) \/ InitiateShutdown \/ UNCHANGED vars
  <2>1. UNCHANGED <<plan, core, loop, workflows, tasks, completions, ended>>
    BY Zenon, <1>7 DEF ActivityNext, StartActivity, AskToCancel, PollStart, PollCancel,
           ActivityReturns, InitiateShutdown, vars
  <2>2. InOrder => DOMAIN loop' = {"wf", "act"} /\ loop'.wf = loop.wf
    BY ZenonT(40), <2>1 DEF InOrder, Types
  <2> QED
    BY ZenonT(40), <2>1, <2>2, LoopKeeps DEF Inv, Up
<1> QED
  BY ZenonT(40), <1>1, <1>2, <1>3, <1>4, <1>5, <1>6, <1>7 DEF Next, LoopNext

\* The invariant holds when Worker::run begins.
LEMMA InitKeeps ==
    ASSUME Init
    PROVE  Inv
<1>1. /\ plan \in Plans /\ core = [r \in Runs |-> NoCoreRun] /\ loop = [wf |-> "polling", act |-> "polling"]
      /\ workflows = [r \in Runs |-> 0] /\ tasks = <<>> /\ completions = <<>>
  BY ZenonT(40) DEF Init
<1>2. PlanOK
  BY ZenonT(40), <1>1, PlansAssumption DEF PlanOK
<1>3. CoreOK
  <2>1. DOMAIN NoCoreRun = CoreFields /\ NoCoreRun.jobs = <<>>
    BY ZenonT(40) DEF NoCoreRun, CoreFields
  <2> QED
    BY ZenonT(40), <1>1, <2>1, PlainSeqs DEF CoreOK, JobsOK
<1>4. TasksOK /\ CompletionsOK
  BY <1>1 DEF TasksOK, CompletionsOK, IsSeq
<1>5. \A r : Mine(r) = {}
  BY <1>1 DEF Mine
<1>6. \A r \in Runs : OnePlace(r)
  <2>1. \A r \in Runs : core[r].st = "none"
    BY ZenonT(40), <1>1 DEF NoCoreRun
  <2> QED
    BY <1>1, <1>5, <2>1 DEF OnePlace, Nowhere, NoCompletion
<1> QED
  BY <1>1, <1>2, <1>3, <1>4, <1>6 DEF Inv, InOrder, Types, Stopped, Mapped, Replaced

\* Where an activation is, in numbers.
LEMMA OneHolder ==
    ASSUME InOrder, NEW r \in Runs
    PROVE  Cardinality(Holders(r)) = IF core[r].st = "lang" THEN 1 ELSE 0
<1> DEFINE In == UNION {{<<"inbox", t, n>> : n \in DOMAIN tasks[t].wf.inbox} : t \in Mine(r)}
           Polls == {<<"poll", t, 0>> : t \in {t \in Mine(r) : Busy(t)}}
           Back == {<<"completion", 0, n>> : n \in {n \in DOMAIN completions : completions[n].run = r}}
<1>1. Holders(r) = In \cup Polls \cup Back
  BY ZenonT(40) DEF Holders
<1>2. OnePlace(r)
  BY ZenonT(40) DEF InOrder
<1>3. NoCompletion(r) => Back = {}
  BY DEF NoCompletion
<1>4. (\A t \in Mine(r) : AtRest(t)) => In = {} /\ Polls = {}
  BY DEF AtRest
<1>5. Cardinality({}) = 0 /\ \A x : Cardinality({x}) = 1
  BY Zenon, FS_EmptySet, FS_Singleton
<1>6. CASE core[r].st # "lang"
  <2>1. Holders(r) = {}
    BY ZenonT(40), <1>1, <1>2, <1>3, <1>4, <1>6 DEF OnePlace, Nowhere
  <2> QED
    BY <1>5, <1>6, <2>1
<1>7. CASE core[r].st = "lang" /\ InInbox(r)
  <2>1. PICK t \in Mine(r) :
          /\ tasks[t].wf.ph = "idle" /\ Len(tasks[t].wf.inbox) = 1 /\ IsSeq(tasks[t].wf.inbox)
          /\ RestBut(r, t) /\ NoCompletion(r)
    BY ZenonT(40), <1>7 DEF InInbox
  <2>2. DOMAIN tasks[t].wf.inbox = {1}
    BY <2>1, SeqDomain
  <2>3. \A s \in Mine(r) : s # t => tasks[s].wf.inbox = <<>> /\ ~Busy(s)
    BY <2>1 DEF RestBut, AtRest
  <2>4. ~Busy(t)
    BY <2>1 DEF Busy
  <2>5. In = {<<"inbox", t, 1>>}
    BY <2>2, <2>3
  <2>6. Polls = {}
    BY <2>3, <2>4
  <2> HIDE DEF In, Polls, Back
  <2>7. Holders(r) = {<<"inbox", t, 1>>}
    BY <1>1, <1>3, <2>1, <2>5, <2>6
  <2> QED
    BY Zenon, <1>5, <1>7, <2>7
<1>8. CASE core[r].st = "lang" /\ InPoll(r)
  <2>1. PICK t \in Mine(r) : Busy(t) /\ tasks[t].wf.inbox = <<>> /\ RestBut(r, t) /\ NoCompletion(r)
    BY ZenonT(40), <1>8 DEF InPoll
  <2>2. \A s \in Mine(r) : tasks[s].wf.inbox = <<>> /\ (s # t => ~Busy(s))
    BY <2>1 DEF RestBut, AtRest
  <2>3. In = {}
    BY <2>2
  <2>4. Polls = {<<"poll", t, 0>>}
    BY <2>1, <2>2
  <2> HIDE DEF In, Polls, Back
  <2>5. Holders(r) = {<<"poll", t, 0>>}
    BY <1>1, <1>3, <2>1, <2>3, <2>4
  <2> QED
    BY Zenon, <1>5, <1>8, <2>5
<1>9. CASE core[r].st = "lang" /\ ComingBack(r)
  <2>1. PICK n \in DOMAIN completions :
          completions[n].run = r /\ \A m \in DOMAIN completions : completions[m].run = r => m = n
    BY <1>9 DEF ComingBack, OneCompletion
  <2>2. Back = {<<"completion", 0, n>>}
    BY <2>1
  <2>3. In = {} /\ Polls = {}
    BY ZenonT(40), <1>4, <1>9 DEF ComingBack
  <2> HIDE DEF In, Polls, Back
  <2>4. Holders(r) = {<<"completion", 0, n>>}
    BY <1>1, <2>2, <2>3
  <2> QED
    BY Zenon, <1>5, <1>9, <2>4
<1> QED
  BY ZenonT(40), <1>2, <1>6, <1>7, <1>8, <1>9 DEF OnePlace

\* The invariant of Worker::run: types, and while the loops are up every activation in
\* one place (InOrder), through every interleaving of the core, the loop, the spawned
\* futures, the joiner and the processor of completions.
THEOREM InvHolds == Spec => []Inv
<1>1. Init => Inv
  BY InitKeeps
<1>2. Inv /\ [Next]_vars => Inv'
  BY StepKeeps
<1> QED
  BY <1>1, <1>2, PTL DEF Spec

\* Every activation that the core hands out to the worker is held in one place
\* until its completion has been taken: no poll of a workflow future, failure
\* of a task, panic, eviction or restart answers it twice or not at all.
THEOREM AnsweredOnce == Spec => []CompletedOnce
<1>1. Inv => CompletedOnce
  BY OneHolder DEF Inv, CompletedOnce
<1> QED
  BY <1>1, InvHolds, PTL
=============================================================================
