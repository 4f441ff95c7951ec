---------------------------- MODULE SlotPermits ----------------------------
(* Slots, and the permits to use them: the slot suppliers (fixed size, and     *)
(* resource based), the tuner that makes one for each kind of task, and the    *)
(* dealer that turns a reserved slot into a permit and counts the permits.     *)
(* Operators on records; Worker holds the state.  What a fixed size supplier   *)
(* counts are the permits left in its semaphore, what a resource based one     *)
(* counts are the slots issued for the sticky and for the normal queue.  Time  *)
(* is whether the ramp throttle has passed since the last slot was issued, and *)
(* the PID controllers are a Boolean, room, that the environment chooses.      *)
(* Suppliers written by users (Custom) are not modelled.                       *)
EXTENDS Naturals, FiniteSets

CONSTANT DefaultSlots   \* of a supplier nobody configured, 100 in the code

WorkflowKinds == {"normal", "sticky"}

FixedSizeSlots(n) == [type |-> "fixed", free |-> n]

ResourceBasedSlots(o) ==
  [type |-> "resource", min |-> o.min, max |-> o.max, ramp |-> o.ramp, ramped |-> ~o.ramp,
   normal |-> 0, sticky |-> 0, nexus |-> 0]

DefaultWorkflowSlots == [type |-> "resource", min |-> 2, max |-> 10000, ramp |-> FALSE]
DefaultNexusSlots == [type |-> "resource", min |-> 1, max |-> 10000, ramp |-> FALSE]

(* ResourceBasedTuner: every kind is resource based, with options or defaults  *)
ResourceTuner(opts) ==
  [wft |-> ResourceBasedSlots(IF opts.wft.type = "none" THEN DefaultWorkflowSlots ELSE opts.wft),
   nexus |-> ResourceBasedSlots(IF opts.nexus.type = "none" THEN DefaultNexusSlots
                                                            ELSE opts.nexus)]

SupplierFor(o) ==
  CASE o.type = "fixed" -> FixedSizeSlots(o.slots)
    [] o.type = "resource" -> ResourceBasedSlots(o)
    [] o.type = "none" -> FixedSizeSlots(DefaultSlots)

(* TunerHolderOptions: what is asked for the Nexus slots is not looked at      *)
OptionsTuner(opts) ==
  [wft |-> SupplierFor(opts.wft), nexus |-> FixedSizeSlots(DefaultSlots)]

ValidOptions(opts) == opts.wft.type = "resource" => opts.resources

(* The limits of WorkerConfig (max_outstanding_...)                            *)
ConfigTuner(opts) == [wft |-> SupplierFor(opts.wft), nexus |-> SupplierFor(opts.nexus)]

Tuner(opts) ==
  CASE opts.tuner = "resource" -> ResourceTuner(opts)
    [] opts.tuner = "options" -> OptionsTuner(opts)
    [] opts.tuner = "config" -> ConfigTuner(opts)
-----------------------------------------------------------------------------
(* A dealer counts the extant permits and, of these, the ones not used yet.    *)
(* max is 0 where there is no maximum.                                         *)
Dealer(max, extant, unused, supplier) ==
  [max |-> max, extant |-> extant, unused |-> unused, supplier |-> supplier]

NewDealer(max, supplier) == Dealer(max, 0, 0, supplier)

(* A permit remembers the kind of poller it was made for and, once it is used, *)
(* what it is used for                                                         *)
Permit(kind) == [kind |-> kind, used |-> "no"]

BelowMax_Mut(d) == TRUE
BelowMax(d) == d.max = 0 \/ d.extant < d.max

BelowMinimums(d, kind) ==
  \/ d.extant < d.supplier.min
  \/ kind \in WorkflowKinds /\ d.supplier[kind] = 0

(* Whether the supplier gives a slot now: the semaphore has a permit, or the   *)
(* slots issued are below the minimums, or the throttle, the maximum and the   *)
(* controllers allow another one                                               *)
CanReserve(d, kind, room) ==
  CASE d.supplier.type = "fixed" -> d.supplier.free > 0
    [] d.supplier.type = "resource" ->
         \/ BelowMinimums(d, kind)
         \/ d.supplier.ramped /\ d.extant < d.supplier.max /\ room

IssueSlot(s, kind) ==
  [s EXCEPT ![kind] = IF kind \in WorkflowKinds THEN @ + 1 ELSE @, !.ramped = ~s.ramp]

ReserveSlot(s, kind) ==
  IF s.type = "fixed" THEN FixedSizeSlots(s.free - 1) ELSE IssueSlot(s, kind)

BuildOwned(d, kind) == Dealer(d.max, d.extant + 1, d.unused + 1, ReserveSlot(d.supplier, kind))

IntoUsed(d) == Dealer(d.max, d.extant, d.unused - 1, d.supplier)

(* Permits that were never used are dropped.  A resource based supplier learns *)
(* what kind of slot comes back from the task it was used for, so these slots  *)
(* stay counted.                                                               *)
ReleaseUnused_Mut(d, n) == Dealer(d.max, d.extant, d.unused - n, d.supplier)
ReleaseUnused(d, n) ==
  Dealer(d.max, d.extant - n, d.unused - n,
         IF d.supplier.type = "fixed" THEN FixedSizeSlots(d.supplier.free + n) ELSE d.supplier)

ReleaseSlot(s, p) ==
  CASE s.type = "fixed" -> FixedSizeSlots(s.free + 1)
    [] s.type = "resource" /\ p.used \in WorkflowKinds -> [s EXCEPT ![p.used] = @ - 1]
    [] OTHER -> s

(* A permit is dropped with the task it was used for                           *)
Release(d, p) == Dealer(d.max, d.extant - 1, d.unused, ReleaseSlot(d.supplier, p))
=============================================================================
