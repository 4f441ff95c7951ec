------------------------------ MODULE MCReplay ------------------------------
EXTENDS WorkflowReplay

Op(k, typ) == [k |-> k, typ |-> typ, r |-> "none"]
PatchOp(r) == [k |-> "patch", typ |-> "none", r |-> r]
Base(ops) ==
  [ops |-> ops, acts |-> 3, lost |-> 1, beats |-> 0, sigs |-> 0, patch |-> 0, upds |-> 0,
   admit |-> FALSE, core |-> "current", early |-> FALSE, swap |-> FALSE]
Plan(ops, beats, sigs, patch) ==
  [Base(ops) EXCEPT !.beats = beats, !.sigs = sigs, !.patch = patch]

\* Every kind of command alone, with one loss of the machines
Alone ==
  {Op(k, "none") : k \in {"timer", "signalExternal", "cancelExternal", "upsert", "modify", "nexus"}}
  \cup {Op(k, t) : k \in {"activity", "localActivity"}, t \in ActivityTypes}
  \cup {Op("child", t) : t \in ChildTypes}
  \cup {PatchOp(r) : r \in {"patched", "deprecated"}}

\* Local activities beside other commands, and beside each other
LocalAnd ==
  {Op("timer", "none"), Op("activity", "Abandon"), PatchOp("patched")}
  \cup {Op("localActivity", t) : t \in ActivityTypes}

\* Commands that are also tried beside a timer
Timed ==
  Alone \ {Op(k, t) : k \in {"timer", "localActivity", "child"},
                     t \in {"none", "TryCancel", "Abandon", "WaitCancellationRequested"}}

\* Commands that are also tried with a signal, which may reorder their outcomes
Signalled ==
  {Op("timer", "none"), Op("nexus", "none"), Op("child", "TryCancel")}
  \cup {Op(k, t) : k \in {"activity", "localActivity"}, t \in ActivityTypes}

Local == Op("localActivity", "WaitCancellationCompleted")

\* Updates, alone and beside what else makes a workflow task
UpdatePlans ==
  {[Base(<<>>) EXCEPT !.upds = 2, !.admit = a] : a \in BOOLEAN}
  \cup {[Base(<<Op("timer", "none")>>) EXCEPT !.upds = 1, !.admit = a] : a \in BOOLEAN}
  \cup {[Base(<<>>) EXCEPT !.upds = 1, !.sigs = 1], [Base(<<Local>>) EXCEPT !.upds = 1, !.beats = 1]}

\* Histories of a core without flags, and terminal commands before others
FlagPlans ==
  {[Base(<<Op("timer", "none")>>) EXCEPT !.core = c, !.early = TRUE] : c \in {"current", "old"}}
  \cup {[Base(<<PatchOp("patched")>>) EXCEPT !.core = "old"]}

\* Code that changes, and should not
SwapPlans ==
  {[Base(<<Op("activity", "Abandon"), Op("activity", "Abandon")>>) EXCEPT !.acts = 1, !.swap = TRUE]}

MCPlans ==
  {Plan(<<op>>, 1, 0, 0) : op \in Alone}
  \cup {Plan(<<Local, op>>, 1, 0, 0) : op \in LocalAnd}
  \cup {Plan(<<op>>, 0, 1, 0) : op \in Signalled}
  \cup {Plan(<<Op("timer", "none"), op>>, 0, 0, 0) : op \in Timed}
  \cup {Plan(<<Op("timer", "none")>>, 0, 0, 5)}
  \cup UpdatePlans \cup FlagPlans \cup SwapPlans

MCEnds == Terminal
=============================================================================
