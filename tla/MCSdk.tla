-------------------------------- MODULE MCSdk --------------------------------
(* Bounds for model-checking SdkWorker.                                        *)
EXTENDS SdkWorker

Plan(runs, acts, starts, calls, does) ==
  [runs |-> runs, acts |-> acts, types |-> 1..runs, starts |-> starts, calls |-> calls,
   does |-> does, work |-> 0, signals |-> 0, updates |-> 0, evicts |-> 0, restarts |-> 0,
   cancels |-> 0]

(* One run: everything it can start, with cancellations *)
StartPlans ==
  {[Plan(1, 0, {k}, 3, {"cancel"}) EXCEPT !.work = 3] : k \in StartOf}
    \cup {[Plan(1, 0, {"timer", "localActivity"}, 3, {"cancel"}) EXCEPT !.work = 3]}
    \cup {[Plan(1, 0, {"child", "cancelExternal", "nexus"}, 2, {"child"}) EXCEPT !.work = 2]}

(* One run: signals and updates, before and after its code is ready for them *)
MessagePlans ==
  {[Plan(1, 0, {"timer"}, 3, {"signal", "cancel"}) EXCEPT !.signals = 2, !.work = 1],
   [Plan(1, 0, {"timer"}, 3, {"update", "starts"}) EXCEPT !.updates = 2, !.work = 1]}

(* Two runs, one with an unknown type: failures, evictions and replays *)
FailurePlans ==
  {[Plan(2, 0, {}, 1, {"fail", "panic", "upsert"}) EXCEPT !.types = {1}, !.evicts = 1,
      !.restarts = 1],
   [Plan(1, 0, {}, 2, {"patch", "update"}) EXCEPT !.evicts = 1, !.updates = 1, !.cancels = 1,
      !.restarts = 1],
   [Plan(1, 0, {"timer"}, 2, {"update", "cancel", "panic", "wild"}) EXCEPT !.updates = 1,
      !.work = 1],
   [Plan(1, 0, {"timer"}, 1, {"late"}) EXCEPT !.evicts = 1, !.restarts = 1, !.work = 1]}

ActivityPlans == {Plan(1, 2, {}, 0, {})}

MCPlans == StartPlans \cup MessagePlans \cup FailurePlans \cup ActivityPlans
=============================================================================
