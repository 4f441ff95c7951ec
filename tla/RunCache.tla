------------------------------ MODULE RunCache ------------------------------
(***************************************************************************)
(* What the sticky cache promises (run_cache.rs, and the part of           *)
(* workflow_stream.rs that decides who gets a slot): a bounded set of runs, *)
(* a run leaves only after its eviction was requested in an earlier step,   *)
(* and runs that find the cache full queue up, once each, for the slots     *)
(* that evictions free.  WorkflowStream is shown to implement this.         *)
(***************************************************************************)
EXTENDS Naturals, Sequences, FiniteSets

CONSTANTS Run,   \* run ids
          Size   \* slots: max_cached_workflows, or 1 if that is 0

\* RunCache::new: "The cache needs room for at least one run"
RoomForOne == Size \in Nat \ {0}

VARIABLES cached,    \* runs in the cache
          evicting,  \* those whose eviction was requested (trying_to_evict)
          waiting    \* runs with tasks in buffered_polls_need_cache_slot, in order

vars == <<cached, evicting, waiting>>

\* is_full compares for equality
Full == Cardinality(cached) = Size

Waits(r) == \E i \in 1 .. Len(waiting) : waiting[i] = r

\* Lang, errors, a finished workflow and reconcile_buffered may ask for evictions
\* in any step; nothing withdraws the request of a run that stays.
MayRequestEvictions(gone) == evicting' \in {E \in SUBSET cached' : evicting \ gone \subseteq E}

Init ==
    /\ cached = {}
    /\ evicting = {}
    /\ waiting = <<>>

RequestEviction ==
    /\ UNCHANGED <<cached, waiting>>
    /\ MayRequestEvictions({})

\* A task with full history of a run that is not cached, when there is room
Instantiate(r) ==
    /\ r \notin cached
    /\ ~Full
    /\ cached' = cached \cup {r}
    /\ UNCHANGED waiting
    /\ MayRequestEvictions({})

\* A task of a run that is not cached, when there is no room
BufferPoll(r) ==
    /\ r \notin cached
    /\ Full
    /\ waiting' = IF Waits(r) THEN waiting ELSE Append(waiting, r)
    /\ UNCHANGED cached
    /\ MayRequestEvictions({})

\* Lang has replied to the eviction of r.  The slot goes to a task of r itself or
\* to the run that has waited longest; a task whose history is not complete is
\* fetched first and leaves the slot free.
Evict(r) ==
    /\ r \in evicting
    /\ \/ /\ cached' \in {cached, cached \ {r}}
          /\ UNCHANGED waiting
       \/ /\ waiting # <<>>
          /\ waiting' = Tail(waiting)
          /\ cached' \in {cached \ {r}, (cached \ {r}) \cup {Head(waiting)}}
    /\ MayRequestEvictions({r})

Next ==
    \/ RequestEviction
    \/ \E r \in Run : Instantiate(r) \/ BufferPoll(r) \/ Evict(r)

Spec == Init /\ [][Next]_vars

-----------------------------------------------------------------------------

TypeOK ==
    /\ cached \subseteq Run
    /\ evicting \subseteq cached
    /\ waiting \in Seq(Run)

\* "Overflowed run cache! Cache owner is expected to avoid this!"
\* (RunCache::instantiate_or_update) is never reached: is_full is an equality
\* test, so it protects the cache only as long as its size was never exceeded.
NoOverflow == IsFiniteSet(cached) /\ Cardinality(cached) <= Size

\* Tasks of one run share one place in the queue for slots
\* (buffer_resp_on_full_cache), so a run is given at most one slot.
WaitsOnce == \A i, j \in 1 .. Len(waiting) : waiting[i] = waiting[j] => i = j

=============================================================================
