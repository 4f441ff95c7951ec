------------------------------- MODULE MCWorker -------------------------------
(* Plans for Worker: each asks for one kind of trouble, so that together they   *)
(* reach every action while each stays small.                                   *)
EXTENDS Worker

NoOptions == [type |-> "none"]
Fixed(n) == [type |-> "fixed", slots |-> n]
Resource(min, max, ramp) == [type |-> "resource", min |-> min, max |-> max, ramp |-> ramp]

Tasks(n, s, x) == [b \in Buffers |-> CASE b = "normal" -> n [] b = "sticky" -> s [] b = "nexus" -> x]

Quiet ==
  [polls |-> 1, ratio |-> 2, cached |-> 1, npolls |-> 0, remote |-> FALSE, graceful |-> FALSE,
   tuner |-> "config", wft |-> Fixed(2), nexus |-> Fixed(1), resources |-> FALSE,
   lang |-> {"wf"}, tasks |-> Tasks(0, 0, 0), empties |-> 0, errs |-> 0, las |-> 0, ats |-> 0,
   flips |-> 0, swaps |-> 0, others |-> 0, eager |-> 0, retries |-> 0, timers |-> FALSE,
   malformed |-> FALSE]

(* The pollers of two queues and an eager start, around the maximum            *)
AroundMax ==
  {[Quiet EXCEPT !.wft = Fixed(5), !.tasks = Tasks(2, 1, 0), !.eager = 1]}

(* Slots that depend on the load and on time, with polls that fail             *)
Loaded ==
  {[Quiet EXCEPT !.tuner = t, !.wft = Resource(1, 2, t = "resource"), !.nexus = NoOptions,
                 !.resources = TRUE, !.tasks = Tasks(1, 0, 0), !.flips = 1,
                 !.empties = IF t = "options" THEN 1 ELSE 0] :
     t \in {"resource", "options"}}
    \cup {[Quiet EXCEPT !.cached = 0, !.polls = 2, !.tasks = Tasks(1, 0, 0), !.errs = 2]}

(* Eager starts through two clients that other workers use too                 *)
Clientele ==
  {[Quiet EXCEPT !.cached = 0, !.wft = Fixed(1), !.eager = 1, !.retries = 2, !.errs = 2],
   [Quiet EXCEPT !.cached = 0, !.wft = Fixed(1), !.eager = 1, !.swaps = 1, !.others = 1],
   [Quiet EXCEPT !.cached = 0, !.lang = {}, !.swaps = 2, !.others = 3]}

(* Local and remote activities in shutdown, with and without workflows         *)
Busy ==
  {[Quiet EXCEPT !.cached = 0, !.lang = {"wf", "act"}, !.remote = r, !.tasks = Tasks(2, 0, 0),
                 !.las = l, !.ats = 1] : r \in BOOLEAN, l \in {0, 1}}
    \cup {[Quiet EXCEPT !.lang = {"act"}, !.remote = TRUE, !.ats = 2, !.errs = 1]}

(* Nexus tasks that time out, fail to be polled and outlive the grace period   *)
NexusOnly ==
  {[Quiet EXCEPT !.cached = 0, !.lang = {"nexus"}, !.npolls = 1, !.nexus = Fixed(2),
                 !.tasks = Tasks(0, 0, 2), !.graceful = ~m, !.timers = ~m, !.malformed = m,
                 !.empties = IF m THEN 1 ELSE 0] :
     m \in BOOLEAN}
    \cup {[Quiet EXCEPT !.cached = 0, !.lang = {"nexus"}, !.npolls = 2, !.nexus = Fixed(2),
                        !.tasks = Tasks(0, 0, 1), !.errs = 1]}
    \cup {[Quiet EXCEPT !.cached = 0, !.lang = {"wf", "act", "nexus"}, !.npolls = 1,
                        !.tasks = Tasks(0, 0, 1), !.remote = TRUE]}

MCPlans == AroundMax \cup Loaded \cup Clientele \cup Busy \cup NexusOnly
=============================================================================
