---------------------------- MODULE NexusManager ----------------------------
(* The manager of Nexus tasks: the map of tasks that lang is working on, the   *)
(* cancels it is sent (a task's own timeout, or the end of the grace period in *)
(* shutdown), and the stream that ends with ShutDown when the pollers are done *)
(* and every task is completed.  Operators on a record nm; Worker holds it.    *)
(*   polled, told   lang has polled, and has been told ShutDown                *)
(*   map            the outstanding tasks: kind, and whether a timer runs      *)
(*   cancels        the cancels not given to lang yet                          *)
(*   source         "open", "done" (SourceComplete seen) or "ended"            *)
(*   grace          "off", "running", "passed"                                 *)
(*   waiting        the stream waits for task_completed_notify                 *)
EXTENDS Naturals, Sequences, FiniteSets

NewNexusManager ==
  [polled |-> FALSE, told |-> FALSE, map |-> <<>>, cancels |-> <<>>, source |-> "open",
   grace |-> "off", waiting |-> FALSE]

Outstanding(nm) == DOMAIN nm.map

(* A task is put in the map, with a timer when it came with a Request-Timeout  *)
Track(nm, t, kind, timer) ==
  [nm EXCEPT !.map = [u \in DOMAIN @ \cup {t} |->
                        IF u \in DOMAIN @ THEN @[u] ELSE [kind |-> kind, timer |-> timer]]]

Untrack(nm, t) == [nm EXCEPT !.map = [u \in DOMAIN @ \ {t} |-> @[u]]]

Cancel(t, reason) == [task |-> t, reason |-> reason]

(* The timer of a task tells lang, which has yet to complete the task          *)
TimedOut(nm, t) ==
  [nm EXCEPT !.map[t].timer = FALSE, !.cancels = Append(@, Cancel(t, "timeout"))]

CancelGiven(nm) == [nm EXCEPT !.cancels = Tail(@)]

(* What lang completes a task with: "start" and "cancel" are responses to      *)
(* the two kinds of requests, "error" and "ack" fit both, and a response may   *)
(* also be empty.  The server hears of all but "ack".                          *)
Malformed(kind, status) == status \in {"start", "cancel", "empty"} \ {kind}

Notified(nm) == [nm EXCEPT !.waiting = FALSE]

(* SourceComplete: the stream now waits for the outstanding tasks, and cancels *)
(* them when the grace period has passed                                       *)
SourceComplete(nm, graceful) ==
  [nm EXCEPT !.source = "done", !.grace = IF graceful THEN "running" ELSE "off"]

CheckOutstanding(nm) ==
  IF Outstanding(nm) = {} THEN [nm EXCEPT !.source = "ended"] ELSE [nm EXCEPT !.waiting = TRUE]

(* The outstanding tasks are cancelled in any order                            *)
Orders(S) == {s \in [1..Cardinality(S) -> S] : \A i, j \in DOMAIN s : s[i] = s[j] => i = j}

GracePassed(nm, order) ==
  [nm EXCEPT !.grace = "passed",
             !.cancels = @ \o [i \in DOMAIN order |-> Cancel(order[i], "shutdown")]]
=============================================================================
