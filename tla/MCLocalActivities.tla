--------------------------- MODULE MCLocalActivities ---------------------------
(***************************************************************************)
(* An instance of LocalActivityManager: one LA that is asked for twice,    *)
(* with evictions and a shutdown, or two LAs that compete for the slot.    *)
(***************************************************************************)
EXTENDS LocalActivityManager

CONSTANTS a1, a2

MCPolicy == [attempts |-> 2, interval |-> 1, coeff |-> 1, maxInterval |-> 3, delay |-> 2]

MCPlans == { [las |-> {a1}, requests |-> 2, ends |-> {"eviction", "shutdown"}],
             [las |-> {a1, a2}, requests |-> 2, ends |-> {}] }
===============================================================================
