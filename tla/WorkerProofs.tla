----------------------------- MODULE WorkerProofs -----------------------------
(* What shutdown of a worker leaves behind, and whose registration it takes     *)
(* away, for every configuration: any number of pollers, slots, tasks, calls    *)
(* and clients.                                                                 *)
EXTENDS Worker, TLAPS

(* Time for the leaves with the larger records *)
USE SMTT(30)

(* The registrations.  The worker's key is one its client has given out, so no  *)
(* other worker gets it from that client.                                       *)
Registration == [by : {"none", "worker", "other"}, key : Nat, next : Nat \ {0}]

RegistryType ==
  registry \in [at : [1..Clients -> Registration], client : 1..Clients, key : Nat]

PlanShape == {"others", "remote"} \subseteq DOMAIN plan /\ plan.others \in Nat

OwnKey ==
  /\ registry.key < registry.at[registry.client].next
  /\ registry.at[registry.client].by = "other" =>
       registry.at[registry.client].key # registry.key

WorkerOffered ==
  \A cl \in 1..Clients : registry.at[cl].by = "worker" =>
    ~shut /\ cl = registry.client /\ registry.at[cl].key = registry.key

KeysGiven == \A cl \in 1..Clients : registry.at[cl].by # "none" => registry.at[cl].key > 0

RegistryInv == RegistryType /\ PlanShape /\ OwnKey /\ KeysGiven /\ WorkerOffered

\* The worker begins registered with its first client.
LEMMA RegistryInit == Init => RegistryInv
BY WorkerAssumption
   DEF Init, RegistryInv, RegistryType, Registration, PlanShape, OwnKey, KeysGiven,
       WorkerOffered

\* What most steps leave alone, and what they do to the plan.
RegistryFrame ==
  /\ registry' = registry
  /\ shut' = shut
  /\ PlanShape' /\ plan'.others = plan.others /\ plan'.remote = plan.remote

\* Pollers spend tasks, empty answers and errors of the plan.
LEMMA PollerFrame ==
    ASSUME PlanShape, NEW p, PollerStep(p)
    PROVE  RegistryFrame
<1>1. UNCHANGED <<registry, shut>>
  BY Zenon DEF PollerStep, PollerStarts, PollerBelowMax, PollerReserves, PollerStops, PollAnswered,
         PollFails, PollAMinute, PollElse
<1>2. PlanShape' /\ plan'.others = plan.others /\ plan'.remote = plan.remote
  BY ZenonT(40) DEF PlanShape, PollerStep, PollerStarts, PollerBelowMax, PollerReserves, PollerStops,
         PollAnswered, PollFails, PollAMinute, Spent
<1> QED
  BY <1>1, <1>2 DEF RegistryFrame

\* Calls that start workflows spend errors of the plan.
LEMMA EagerFrame ==
    ASSUME PlanShape, NEW c, EagerStep(c)
    PROVE  RegistryFrame
<1>1. UNCHANGED <<registry, shut>>
  BY ZenonT(40) DEF EagerStep, EagerCalled, EagerAnswered, EagerFails, EagerTooLong
<1>2. PlanShape' /\ plan'.others = plan.others /\ plan'.remote = plan.remote
  BY ZenonT(40) DEF PlanShape, EagerStep, EagerCalled, EagerAnswered, EagerFails, EagerTooLong, Spent
<1> QED
  BY <1>1, <1>2 DEF RegistryFrame

\* Nexus tasks have nothing to do with registrations.
LEMMA NexusFrame ==
    ASSUME PlanShape, NexusStep
    PROVE  RegistryFrame
BY Zenon DEF RegistryFrame, PlanShape, NexusStep, LangPollsNexus, NexusCancelled, NexusSourceComplete,
       NexusChecks, NexusGracePasses, LangToldNexusShutDown, NexusTaken, NexusTimesOut,
       NexusCompleted, NexusReported, NexusElse

\* A registration gets a new key.
LEMMA RegisterGives ==
    ASSUME NEW reg \in Registration, NEW who \in {"worker", "other"}, reg.by = "none"
    PROVE  LET r == Register(reg, who)
           IN  /\ r \in Registration /\ r.by = who
               /\ r.key = reg.next /\ r.next = reg.next + 1
BY DEF Registration, Register

\* Only the registration with the key is taken away.
LEMMA UnregisterTakes ==
    ASSUME NEW reg \in Registration, NEW key
    PROVE  LET r == Unregister(reg, key)
           IN  /\ r \in Registration /\ r.next = reg.next
               /\ reg.key = key => r.by = "none"
               /\ reg.key # key => r = reg
               /\ r = reg \/ r.by = "none"
BY DEF Registration, Unregister

\* Steps that only change registrations spend other parts of the plan.
LEMMA MovePlan ==
    ASSUME PlanShape, NEW cl, ReplaceClient(cl)
    PROVE  PlanShape'
BY DEF PlanShape, ReplaceClient, Spent

\* initiate_shutdown takes the worker's registration away with its key: the one
\* of its client, if that is still its own, and no other.
LEMMA ShutTakesOwn ==
    ASSUME RegistryInv, InitiateShutdown, PlanShape'
    PROVE  /\ RegistryInv'
           /\ \A cl \in 1..Clients : registry.at[cl].by = "other" =>
                registry'.at[cl] = registry.at[cl]
<1> USE DEF RegistryInv, RegistryType, Registration
<1>1. registry' = [registry EXCEPT !.at[registry.client] = Unregister(@, registry.key)] /\ shut'
  BY DEF InitiateShutdown, ShutRegistry
<1> DEFINE old == registry.at[registry.client]
           new == Unregister(old, registry.key)
<1>2. /\ new \in Registration /\ new.next = old.next
      /\ (new = old /\ old.key # registry.key) \/ new.by = "none"
  BY ZenonT(40), UnregisterTakes
<1> HIDE DEF new
<1>3. /\ registry' = [registry EXCEPT !.at[registry.client] = new]
      /\ registry'.client = registry.client /\ registry'.key = registry.key
      /\ \A cl \in 1..Clients :
           registry'.at[cl] = IF cl = registry.client THEN new ELSE registry.at[cl]
  BY Zenon, <1>1 DEF new
<1>4. RegistryType' /\ KeysGiven'
  BY Zenon, <1>2, <1>3 DEF KeysGiven
<1>5. OwnKey'
  BY <1>2, <1>3 DEF OwnKey
<1>6. WorkerOffered'
  BY <1>1, <1>2, <1>3 DEF WorkerOffered
<1>7. old.by = "other" => new = old
  BY ZenonT(40), UnregisterTakes DEF OwnKey, new
<1>8. \A cl \in 1..Clients : registry.at[cl].by = "other" => registry'.at[cl] = registry.at[cl]
  BY <1>3, <1>7
<1> QED
  BY <1>4, <1>5, <1>6, <1>8

\* replace_client takes along only a registration of its own, and what it
\* registers with the new client has a key nobody else has.
LEMMA MoveTakesOwn ==
    ASSUME RegistryInv, NEW cl \in 1..Clients, ReplaceClient(cl)
    PROVE  /\ RegistryInv'
           /\ \A c \in 1..Clients : registry.at[c].by = "other" =>
                registry'.at[c] = registry.at[c]
<1> USE DEF RegistryInv, RegistryType, Registration
<1> DEFINE left == [registry.at EXCEPT ![registry.client] = Unregister(@, registry.key)]
           joined == Registered(registry.at[registry.client], registry.key) /\ left[cl].by = "none"
<1>1. /\ registry'.at = IF joined THEN [left EXCEPT ![cl] = Register(@, "worker")] ELSE left
      /\ registry'.client = cl
      /\ registry'.key = IF joined THEN left[cl].next ELSE 0
      /\ registry' = [at |-> registry'.at, client |-> registry'.client, key |-> registry'.key]
      /\ shut' = shut
  BY DEF ReplaceClient, MovedTo
<1>2. left \in [1..Clients -> Registration]
  BY Zenon, UnregisterTakes
<1>3. \A c \in 1..Clients : left[c] = IF c = registry.client THEN
          Unregister(registry.at[c], registry.key) ELSE registry.at[c]
  BY Zenon
<1>4. \A c \in 1..Clients : left[c].by # "worker" /\ (left[c].by # "none" => left[c].key > 0)
  <2> TAKE c \in 1..Clients
  <2>1. CASE c = registry.client
    <3>1. registry.at[c] \in Registration
      BY Zenon
    <3>2. left[c] = Unregister(registry.at[c], registry.key)
      BY <1>3, <2>1
    <3> HIDE DEF left
    <3>3. left[c].by = "none" \/ (left[c] = registry.at[c] /\ registry.at[c].key # registry.key)
      BY <3>1, <3>2, UnregisterTakes
    <3> QED
      BY <3>3 DEF KeysGiven, WorkerOffered
  <2>2. CASE c # registry.client
    BY <1>3, <2>2 DEF KeysGiven, WorkerOffered
  <2> QED
    BY <2>1, <2>2
<1>5. \A c \in 1..Clients : registry.at[c].by = "other" => left[c] = registry.at[c]
  BY <1>3, UnregisterTakes DEF OwnKey
<1>6. CASE joined
  <2> DEFINE new == Register(left[cl], "worker")
  <2>1. /\ new \in Registration /\ new.by = "worker"
        /\ new.key = left[cl].next /\ new.next = left[cl].next + 1
    BY Zenon, <1>2, <1>6, RegisterGives
  <2> HIDE DEF left, new
  <2>2. registry'.at = [left EXCEPT ![cl] = new] /\ registry'.key = left[cl].next
    BY <1>1, <1>6 DEF new
  <2>3. registry'.at \in [1..Clients -> Registration]
    BY <1>2, <2>1, <2>2
  <2>4. left[cl].next \in Nat /\ left[cl].by = "none" /\ left[cl].next > 0
    BY <1>2, <1>6
  <2>5. \A c \in 1..Clients : registry'.at[c] = IF c = cl THEN new ELSE left[c]
    BY <1>2, <2>2
  <2>6. RegistryType'
    BY Zenon, <1>1, <2>2, <2>3, <2>4
  <2>7. OwnKey'
    BY <1>1, <2>1, <2>2, <2>4, <2>5 DEF OwnKey
  <2>8. KeysGiven'
    BY Zenon, <1>4, <2>1, <2>4, <2>5 DEF KeysGiven
  <2>9. ~shut
    BY Zenon, <1>6 DEF joined, Registered, WorkerOffered, OwnKey
  <2>10. WorkerOffered'
    BY <1>1, <1>4, <2>1, <2>2, <2>5, <2>9 DEF WorkerOffered
  <2>11. \A c \in 1..Clients : registry.at[c].by = "other" => registry'.at[c] = registry.at[c]
    BY <1>5, <2>4, <2>5
  <2> QED
    BY <2>6, <2>7, <2>8, <2>10, <2>11, MovePlan
<1>7. CASE ~joined
  <2> HIDE DEF left, joined
  <2>1. registry'.at = left /\ registry'.key = 0
    BY <1>1, <1>7
  <2>2. RegistryType' /\ OwnKey' /\ KeysGiven' /\ WorkerOffered'
    BY <1>1, <1>2, <1>4, <2>1 DEF OwnKey, KeysGiven, WorkerOffered
  <2> QED
    BY <1>5, <2>1, <2>2, MovePlan
<1> QED
  BY Zenon, <1>6, <1>7

\* Other workers get a key that is not this worker's, and take away their own.
LEMMA OthersTakeOwn ==
    ASSUME RegistryInv, NEW cl \in 1..Clients, OtherWorkerStarts(cl) \/ OtherWorkerStops(cl)
    PROVE  RegistryInv' /\ plan'.others # plan.others
<1> USE DEF RegistryInv, RegistryType, Registration
<1>1. PlanShape' /\ plan'.others # plan.others
  BY DEF OtherWorkerStarts, OtherWorkerStops, PlanShape, Spend, Spent
<1>2. PICK new \in Registration :
        /\ registry' = [registry EXCEPT !.at[cl] = new]
        /\ shut' = shut
        /\ \/ new.by = "none" /\ registry.at[cl].by = "other" /\ new.next = registry.at[cl].next
           \/ /\ new.by = "other" /\ registry.at[cl].by = "none"
              /\ new.key = registry.at[cl].next /\ new.next = registry.at[cl].next + 1
  <2>1. CASE OtherWorkerStarts(cl)
    <3> DEFINE new == Register(registry.at[cl], "other")
    <3>1. /\ new \in Registration /\ new.by = "other"
          /\ new.key = registry.at[cl].next /\ new.next = registry.at[cl].next + 1
      BY Zenon, <2>1, RegisterGives DEF OtherWorkerStarts
    <3>2. registry' = [registry EXCEPT !.at[cl] = new] /\ shut' = shut /\ registry.at[cl].by = "none"
      BY <2>1 DEF OtherWorkerStarts
    <3> QED
      BY Zenon, <3>1, <3>2
  <2>2. CASE OtherWorkerStops(cl)
    <3> DEFINE new == Unregister(registry.at[cl], registry.at[cl].key)
    <3>1. new \in Registration /\ new.by = "none" /\ new.next = registry.at[cl].next
      BY Zenon, UnregisterTakes
    <3>2. registry' = [registry EXCEPT !.at[cl] = new] /\ shut' = shut /\ registry.at[cl].by = "other"
      BY <2>2 DEF OtherWorkerStops
    <3> QED
      BY Zenon, <3>1, <3>2
  <2> QED
    BY <2>1, <2>2
<1>3. /\ registry'.client = registry.client /\ registry'.key = registry.key
      /\ \A c \in 1..Clients : registry'.at[c] = IF c = cl THEN new ELSE registry.at[c]
  BY Zenon, <1>2
<1>4. RegistryType'
  BY Zenon, <1>2
<1>5. KeysGiven'
  BY <1>2, <1>3 DEF KeysGiven
<1>6. OwnKey'
  BY <1>2, <1>3 DEF OwnKey
<1>7. WorkerOffered'
  BY <1>2, <1>3 DEF WorkerOffered
<1> QED
  BY <1>1, <1>4, <1>5, <1>6, <1>7

KeepsOthers ==
  \A cl \in 1..Clients :
    registry.at[cl].by = "other" /\ plan'.others = plan.others => registry'.at[cl] = registry.at[cl]

\* Every step keeps the invariant of the registrations, and other workers' ones.
LEMMA RegistryStep ==
    ASSUME RegistryInv, [Next]_vars
    PROVE  RegistryInv' /\ KeepsOthers
<1>1. ASSUME RegistryFrame PROVE RegistryInv' /\ KeepsOthers
  BY <1>1 DEF RegistryFrame, RegistryInv, RegistryType, OwnKey, KeysGiven, WorkerOffered, KeepsOthers
<1>2. ASSUME InitiateShutdown, PlanShape' PROVE RegistryInv' /\ KeepsOthers
  BY <1>2, ShutTakesOwn DEF KeepsOthers
<1>3. PlanShape
  BY DEF RegistryInv
<1>4. ASSUME NEW p \in DOMAIN pollers, PollerStep(p) PROVE RegistryInv' /\ KeepsOthers
  BY <1>1, <1>3, <1>4, PollerFrame
<1>5. ASSUME NEW c \in DOMAIN eager.calls, EagerStep(c) PROVE RegistryInv' /\ KeepsOthers
  BY <1>1, <1>3, <1>5, EagerFrame
<1>6. CASE WftStep
  <2>1. CASE LangToldError \/ LangToldWfShutDown
    BY <1>2, <1>3, <2>1 DEF LangToldError, LangToldWfShutDown, PlanShape
  <2>2. CASE ~(LangToldError \/ LangToldWfShutDown)
    <3>1. UNCHANGED <<registry, shut>>
      BY ZenonT(40), <1>6, <2>2 DEF WftStep, LangPollsWf, EagerTaken, WftInputClosed, WorkflowsEnd, WftTaken,
                        WftInputEnds, WftStartsLa, WftDone
    <3>2. PlanShape' /\ plan'.others = plan.others /\ plan'.remote = plan.remote
      BY ZenonT(40), <1>3, <1>6, <2>2 DEF WftStep, LangPollsWf, EagerTaken, WftInputClosed, WorkflowsEnd,
                              WftTaken, WftInputEnds, WftStartsLa, WftDone, PlanShape, Spent
    <3> QED
      BY <1>1, <3>1, <3>2 DEF RegistryFrame
  <2> QED
    BY <2>1, <2>2
<1>7. CASE ActStep
  <2>1. CASE RemoteFails
    BY <1>2, <1>3, <2>1 DEF RemoteFails, PlanShape, Spent
  <2>2. CASE ~RemoteFails
    <3>1. UNCHANGED <<registry, shut>>
      BY Zenon, <1>7, <2>2 DEF ActStep, LangPollsActs, ReceiversLocked, LocalNone, RemoteGiven,
                        RemoteShutDown, RemoteCompleted, LocalDispatched, LocalCompleted
    <3>2. PlanShape' /\ plan'.others = plan.others /\ plan'.remote = plan.remote
      BY Zenon, <1>3, <1>7, <2>2 DEF ActStep, LangPollsActs, ReceiversLocked, LocalNone, RemoteGiven,
            RemoteShutDown, RemoteCompleted, LocalDispatched, LocalCompleted, PlanShape, Spent
    <3> QED
      BY <1>1, <3>1, <3>2 DEF RegistryFrame
  <2> QED
    BY <2>1, <2>2
<1>8. CASE NexusStep
  BY <1>1, <1>3, <1>8, NexusFrame
<1>9. CASE ShutdownGoesOn \/ ShutdownGivesUp
  BY <1>1, <1>3, <1>9 DEF ShutdownGoesOn, ShutdownGivesUp, CloseElse, RegistryFrame, PlanShape
<1>10. CASE Environment
  <2>1. CASE Initiate \/ ShutdownCalled
    BY <1>2, <1>3, <2>1 DEF Initiate, ShutdownCalled, CloseElse, PlanShape
  <2>2. CASE LoadChanges
    BY <1>1, <1>3, <2>2 DEF LoadChanges, RegistryFrame, PlanShape, Spent
  <2>3. ASSUME NEW d \in DOMAIN dealers, RampPasses(d) PROVE RegistryInv' /\ KeepsOthers
    BY <1>1, <1>3, <2>3 DEF RampPasses, PollElse, RegistryFrame, PlanShape
  <2>4. ASSUME NEW cl \in 1..Clients, ReplaceClient(cl) PROVE RegistryInv' /\ KeepsOthers
    BY <2>4, MoveTakesOwn DEF KeepsOthers
  <2>5. ASSUME NEW cl \in 1..Clients, OtherWorkerStarts(cl) \/ OtherWorkerStops(cl)
        PROVE  RegistryInv' /\ KeepsOthers
    BY <2>5, OthersTakeOwn DEF KeepsOthers
  <2> QED
    BY <1>10, <2>1, <2>2, <2>3, <2>4, <2>5 DEF Environment
<1>11. CASE UNCHANGED vars
  BY <1>1, <1>3, <1>11 DEF vars, RegistryFrame, PlanShape
<1> QED
  BY <1>4, <1>5, <1>6, <1>7, <1>8, <1>9, <1>10, <1>11 DEF Next

\* For every number of clients, of other workers that come and go and of calls of
\* replace_client, the worker is offered for eager starts by its own registration
\* only, not after initiate_shutdown, and removes nobody else's.
THEOREM RegistrationsApart == Spec => OwnRegistrationOnly
<1>1. Init => RegistryInv
  BY RegistryInit
<1>2. RegistryInv /\ [Next]_vars => RegistryInv' /\ KeepsOthers
  BY RegistryStep
<1>3. RegistryInv => WorkerOffered
  BY DEF RegistryInv
<1> QED
  BY <1>1, <1>2, <1>3, PTL DEF Spec, OwnRegistrationOnly, WorkerOffered, KeepsOthers
-----------------------------------------------------------------------------
(* What shutdown waits for.  Each part has an invariant that says what is over  *)
(* for good when its wait is over.                                              *)

BuffersShaped(bs) ==
  DOMAIN bs = Buffers /\ \A b \in Buffers : DOMAIN bs[b] = {"items", "started"}

Shape ==
  /\ BuffersShaped(bufs)
  /\ \A p \in DOMAIN pollers : {"at"} \subseteq DOMAIN pollers[p]
  /\ DOMAIN wfs = {"st", "input", "polled", "told", "error", "out"}
  /\ DOMAIN nexus = {"polled", "told", "map", "cancels", "source", "grace", "waiting"}
  /\ DOMAIN acts = {"localDone", "remoteDone", "poll", "lock", "saw", "rcvs", "held", "wfdown",
                    "complete", "remote", "toldRemote", "told"}

(* Workflows that are down have no task, and nothing reaches their buffers      *)
WorkflowsInv ==
  wfs.st = "down" => wfs.out = <<>> /\ \A b \in WftBuffers : bufs[b].items = <<>>

(* Before lang polls for Nexus tasks no poller starts, and the stream ends when *)
(* all pollers are done                                                         *)
NoNexusPoll == \A p \in DOMAIN pollers : p[1] = "nexus" => pollers[p].at \in {"start", "done"}

NoNexus == bufs["nexus"].items = <<>> /\ NoNexusPoll /\ DOMAIN nexus.map = {}

NexusInv ==
  /\ ~nexus.polled => NoNexus /\ nexus.source = "open" /\ ~bufs["nexus"].started
  /\ nexus.source # "open" => Dead("nexus")
  /\ nexus.source = "ended" => DOMAIN nexus.map = {}
  /\ nexus.told => nexus.source = "ended"

(* A poll for activities that began before the remote ones were done is over    *)
(* when they are                                                                *)
ActsInv ==
  /\ acts.poll = "called" => acts.saw.r = acts.remoteDone
  /\ acts.remoteDone => acts.remote = 0
  /\ acts.toldRemote \/ ~plan.remote => acts.remoteDone

ClosingInv ==
  /\ closing # "no" => shut
  /\ closing \in {"act", "nexus", "permits", "returned", "late"} => wfs.st = "down"
  /\ closing \in {"nexus", "permits", "returned", "late"} => acts.remoteDone
  /\ closing \in {"permits", "returned", "late"} => NoNexus

LeftInv ==
  /\ PlanShape /\ Shape
  /\ WorkflowsInv /\ NexusInv /\ ActsInv /\ ClosingInv

\* Nothing is outstanding to begin with.
LEMMA LeftInit == Init => LeftInv
<1> SUFFICES ASSUME Init PROVE LeftInv
  OBVIOUS
<1>1. PlanShape
  BY Zenon, WorkerAssumption DEF Init, PlanShape
<1>2. Shape
  BY Zenon DEF Init, Shape, BuffersShaped, NewPoller, NewNexusManager
<1>3. WorkflowsInv
  BY Zenon DEF Init, WorkflowsInv
<1>4. NexusInv
  BY DEF Init, NexusInv, NoNexus, NoNexusPoll, NewNexusManager, NewPoller, Buffers
<1>5. ActsInv /\ ClosingInv
  BY ZenonT(40) DEF Init, ActsInv, ClosingInv
<1> QED
  BY <1>1, <1>2, <1>3, <1>4, <1>5 DEF LeftInv

\* Answers are put into a buffer and taken from it, and nothing else changes.
LEMMA ItemsChange ==
    ASSUME BuffersShaped(bufs), NEW b, NEW x, bufs' = [bufs EXCEPT ![b].items = x]
    PROVE  /\ BuffersShaped(bufs')
           /\ \A c \in Buffers : bufs'[c].started = bufs[c].started /\ (c # b => bufs'[c] = bufs[c])
<1>1. DOMAIN bufs' = Buffers
  BY DEF BuffersShaped
<1>2. ASSUME NEW c \in Buffers
      PROVE  /\ DOMAIN bufs'[c] = {"items", "started"} /\ bufs'[c].started = bufs[c].started
             /\ c # b => bufs'[c] = bufs[c]
  <2>1. CASE c = b
    <3>1. bufs'[c] = [bufs[c] EXCEPT !.items = x]
      BY <2>1 DEF BuffersShaped
    <3> QED
      BY <2>1, <3>1 DEF BuffersShaped
  <2>2. CASE c # b
    BY <2>2 DEF BuffersShaped
  <2> QED
    BY <2>1, <2>2
<1> QED
  BY <1>1, <1>2 DEF BuffersShaped

\* A poller that is done stays done, and only a poller that polls fills a buffer.
LEMMA PollerLeft ==
    ASSUME LeftInv, NEW p \in DOMAIN pollers, PollerStep(p)
    PROVE  LeftInv'
<1> USE DEF LeftInv
<1>1. PlanShape' /\ plan'.remote = plan.remote
  BY PollerFrame DEF RegistryFrame
<1>2. UNCHANGED <<shut, wfs, nexus, acts, closing>>
  BY Zenon DEF PollerStep, PollerStarts, PollerBelowMax, PollerReserves, PollerStops, PollAnswered,
         PollFails, PollAMinute, PollElse
<1>3. /\ DOMAIN pollers' = DOMAIN pollers
      /\ \A q \in DOMAIN pollers : q # p => pollers'[q] = pollers[q]
      /\ {"at"} \subseteq DOMAIN pollers'[p]
      /\ pollers[p].at = "done" => pollers'[p].at = "done"
      /\ pollers[p].at = "start" /\ (shut \/ ~bufs[p[1]].started) => pollers'[p].at \in {"start", "done"}
  <2>1. CASE PollerStarts(p) \/ PollerBelowMax(p)
    BY <2>1 DEF Shape, PollerStarts, PollerBelowMax, PollerTo
  <2>2. CASE PollerReserves(p) \/ PollerStops(p)
    BY <2>2 DEF Shape, PollerReserves, PollerStops, NewPoller
  <2>3. ASSUME NEW res, PollAnswered(p, res) PROVE <1>3!:
    BY <2>3 DEF Shape, PollAnswered, LoopedPoller, NewPoller
  <2>4. ASSUME NEW code, PollFails(p, code) PROVE <1>3!:
    BY <2>4 DEF Shape, PollFails, LoopedPoller, NewPoller
  <2>5. CASE PollAMinute(p)
    BY <2>5 DEF Shape, PollAMinute
  <2> QED
    BY Zenon, <2>1, <2>2, <2>3, <2>4, <2>5 DEF PollerStep
<1>4. \/ bufs' = bufs
      \/ /\ pollers[p].at = "poll" /\ Received(p[1])
         /\ \E x : bufs' = [bufs EXCEPT ![p[1]].items = x]
  BY Zenon DEF PollerStep, PollerStarts, PollerBelowMax, PollerReserves, PollerStops, PollAnswered,
         PollFails, PollAMinute
<1>5. /\ BuffersShaped(bufs')
      /\ \A b \in Buffers :
           /\ bufs'[b].started = bufs[b].started
           /\ bufs'[b] = bufs[b] \/ (b = p[1] /\ pollers[p].at = "poll" /\ Received(b))
  <2>1. CASE bufs' = bufs
    BY <2>1 DEF Shape
  <2>2. CASE bufs' # bufs
    <3>1. PICK x : bufs' = [bufs EXCEPT ![p[1]].items = x]
      BY Zenon, <1>4, <2>2
    <3>2. BuffersShaped(bufs)
      BY DEF Shape
    <3>3. /\ BuffersShaped(bufs')
          /\ \A b \in Buffers :
               bufs'[b].started = bufs[b].started /\ (b # p[1] => bufs'[b] = bufs[b])
      BY ZenonT(40), <3>1, <3>2, ItemsChange
    <3> QED
      BY <1>4, <2>2, <3>3
  <2> QED
    BY <2>1, <2>2
<1>6. Shape'
  BY <1>2, <1>3, <1>5 DEF Shape
<1>7. \A b \in Buffers : bufs'[b].items = bufs[b].items
                          \/ (b = p[1] /\ pollers[p].at = "poll" /\ Received(b))
  BY <1>5
<1>8. WorkflowsInv'
  BY <1>2, <1>7 DEF WorkflowsInv, Received, Buffers, WftBuffers
<1>9. NoNexus /\ (shut \/ ~bufs["nexus"].started) => NoNexus'
  BY <1>2, <1>3, <1>7 DEF NoNexus, NoNexusPoll, Buffers
<1>10. Dead("nexus") => Dead("nexus")'
  BY <1>3, <1>7 DEF Dead, Finished, Buffers
<1>11. NexusInv'
  BY <1>2, <1>5, <1>9, <1>10 DEF NexusInv, Buffers
<1>12. ActsInv'
  BY <1>1, <1>2 DEF ActsInv
<1>13. ClosingInv'
  BY <1>2, <1>9 DEF ClosingInv
<1> QED
  BY <1>1, <1>6, <1>8, <1>11, <1>12, <1>13

(* What the steps that handle workflow tasks do to the rest                     *)
WftKeeps ==
  /\ UNCHANGED <<pollers, nexus, closing>> /\ (shut => shut')
  /\ PlanShape' /\ plan'.remote = plan.remote
  /\ DOMAIN acts' = DOMAIN acts
  /\ UNCHANGED <<acts.poll, acts.saw, acts.remoteDone, acts.remote, acts.toldRemote>>
  /\ DOMAIN wfs' = DOMAIN wfs

WftBufs ==
  /\ BuffersShaped(bufs') /\ bufs'["nexus"].items = bufs["nexus"].items
  /\ ~bufs["nexus"].started => ~bufs'["nexus"].started
  /\ wfs.st = "down" => wfs'.st = "down"
  /\ wfs'.st = "down" => wfs'.out = <<>> /\ \A b \in WftBuffers : bufs'[b].items = <<>>

\* Each of them keeps what the other parts rely on.
LEMMA WftEffect ==
    ASSUME PlanShape, Shape, WorkflowsInv, WftStep
    PROVE  WftKeeps /\ WftBufs
<1> USE DEF Shape, PlanShape
<1>1. CASE LangPollsWf
  <2>1. WftKeeps
    BY <1>1 DEF LangPollsWf, WftKeeps
  <2>2. /\ DOMAIN bufs' = Buffers
        /\ \A b \in Buffers : bufs'[b] =
             [bufs[b] EXCEPT !.started = @ \/ (b \in WftBuffers /\ wfs.st = "run")]
    BY <1>1 DEF LangPollsWf
  <2>3. \A b \in Buffers : DOMAIN bufs'[b] = {"items", "started"} /\ bufs'[b].items = bufs[b].items
    BY <2>2 DEF BuffersShaped
  <2>4. ~bufs["nexus"].started => ~bufs'["nexus"].started
    BY Zenon, <2>2 DEF BuffersShaped, Buffers, WftBuffers
  <2>5. wfs'.st = wfs.st /\ wfs'.out = wfs.out
    BY <1>1 DEF LangPollsWf
  <2> QED
    BY <2>1, <2>2, <2>3, <2>4, <2>5 DEF WftBufs, BuffersShaped, WorkflowsInv, Buffers
<1>2. CASE EagerTaken
  BY <1>2 DEF EagerTaken, WftKeeps, WftBufs
<1>3. CASE WftInputClosed \/ WorkflowsEnd
  <2>1. WftKeeps
    BY <1>3 DEF WftInputClosed, WorkflowsEnd, WftKeeps
  <2>2. DOMAIN bufs' = Buffers /\ bufs'["nexus"] = bufs["nexus"]
    BY <1>3 DEF WftInputClosed, WorkflowsEnd, EmptiedBuffers, Buffers, WftBuffers
  <2>3. \A b \in WftBuffers : bufs'[b] = [bufs[b] EXCEPT !.items = <<>>]
    BY <1>3 DEF WftInputClosed, WorkflowsEnd, EmptiedBuffers, Buffers
  <2>4. \A b \in WftBuffers : DOMAIN bufs'[b] = {"items", "started"} /\ bufs'[b].items = <<>>
    BY <2>3, ZenonT(40) DEF BuffersShaped, Buffers
  <2>5. wfs.st # "down" /\ (wfs'.st = "down" => wfs'.out = <<>>)
    BY <1>3 DEF WftInputClosed, WorkflowsEnd, WorkflowsIdle
  <2> QED
    BY <2>1, <2>2, <2>4, <2>5 DEF WftBufs, BuffersShaped, Buffers
<1>4. CASE LangToldError \/ LangToldWfShutDown
  <2>1. UNCHANGED <<plan, pollers, nexus, closing, bufs>> /\ shut'
    BY <1>4 DEF LangToldError, LangToldWfShutDown, InitiateShutdown
  <2>2. /\ DOMAIN acts' = DOMAIN acts
        /\ UNCHANGED <<acts.poll, acts.saw, acts.remoteDone, acts.remote, acts.toldRemote>>
    BY ZenonT(40), <1>4 DEF LangToldError, LangToldWfShutDown, ShutActs, LamReady
  <2>3. DOMAIN wfs' = DOMAIN wfs /\ wfs'.st = wfs.st /\ wfs'.out = wfs.out
    BY Zenon, <1>4 DEF LangToldError, LangToldWfShutDown
  <2> QED
    BY <2>1, <2>2, <2>3 DEF WftKeeps, WftBufs, WorkflowsInv
<1>5. ASSUME NEW b \in WftBuffers, WftTaken(b) PROVE WftKeeps /\ WftBufs
  <2>1. WftKeeps
    BY <1>5 DEF WftTaken, WftKeeps
  <2>2. BuffersShaped(bufs') /\ bufs'["nexus"] = bufs["nexus"]
    BY ZenonT(40), <1>5, ItemsChange DEF WftTaken, WftBuffers, Buffers
  <2>3. wfs.st = "run" /\ wfs'.st = wfs.st
    BY <1>5 DEF WftTaken
  <2> QED
    BY <2>1, <2>2, <2>3 DEF WftBufs
<1>6. ASSUME NEW b \in WftBuffers, WftInputEnds(b) PROVE WftKeeps /\ WftBufs
  BY <1>6 DEF WftInputEnds, WftKeeps, WftBufs
<1>7. ASSUME NEW i \in DOMAIN wfs.out, WftStartsLa(i) \/ WftDone(i) PROVE WftKeeps /\ WftBufs
  <2>1. WftKeeps
    BY <1>7 DEF WftStartsLa, WftDone, WftKeeps, Spent
  <2>2. bufs' = bufs /\ wfs'.st = wfs.st
    BY <1>7 DEF WftStartsLa, WftDone
  <2>3. wfs.st # "down"
    BY <1>7 DEF WorkflowsInv
  <2> QED
    BY <2>1, <2>2, <2>3 DEF WftBufs
<1> QED
  BY <1>1, <1>2, <1>3, <1>4, <1>5, <1>6, <1>7 DEF WftStep

\* Workflow tasks are taken while workflows run, and all are done when they end.
LEMMA WftLeft ==
    ASSUME LeftInv, WftStep
    PROVE  LeftInv'
<1> USE DEF LeftInv
<1>1. WftKeeps /\ WftBufs
  BY WftEffect
<1>2. Shape' /\ WorkflowsInv'
  BY <1>1 DEF WftKeeps, WftBufs, Shape, WorkflowsInv
<1>3. NoNexus' = NoNexus /\ Dead("nexus")' = Dead("nexus")
  BY <1>1 DEF WftKeeps, WftBufs, NoNexus, NoNexusPoll, Dead, Finished
<1>4. NexusInv'
  BY <1>1, <1>3 DEF WftKeeps, WftBufs, NexusInv
<1>5. ActsInv' /\ ClosingInv'
  BY <1>1, <1>3 DEF WftKeeps, WftBufs, ActsInv, ClosingInv
<1> QED
  BY <1>1, <1>2, <1>4, <1>5 DEF WftKeeps

\* Eager starts touch no buffer.
LEMMA EagerLeft ==
    ASSUME LeftInv, NEW c \in DOMAIN eager.calls, EagerStep(c)
    PROVE  LeftInv'
<1>1. PlanShape' /\ plan'.remote = plan.remote /\ shut' = shut
  BY EagerFrame DEF RegistryFrame, LeftInv
<1>2. UNCHANGED <<bufs, pollers, wfs, nexus, acts, closing>>
  BY Zenon DEF EagerStep, EagerCalled, EagerAnswered, EagerFails, EagerTooLong
<1> QED
  BY <1>1, <1>2 DEF LeftInv, Shape, BuffersShaped, WorkflowsInv, NexusInv, NoNexus, NoNexusPoll,
                    Dead, Finished, ActsInv, ClosingInv

\* A poll for activities began before the remote ones were done or knows it, and
\* workflows that are down ask for no local activity.
LEMMA ActsLeft ==
    ASSUME LeftInv, ActStep
    PROVE  LeftInv'
<1> USE DEF LeftInv
<1> DEFINE Keeps == /\ UNCHANGED <<pollers, bufs, nexus, closing>> /\ (shut => shut')
                    /\ PlanShape' /\ plan'.remote = plan.remote
                    /\ DOMAIN acts' = DOMAIN acts /\ ActsInv' /\ (acts.remoteDone => acts'.remoteDone)
                    /\ wfs' = wfs \/ (wfs.st # "down" /\ wfs'.st = wfs.st /\ DOMAIN wfs' = DOMAIN wfs)
<1>1. ASSUME Keeps PROVE LeftInv'
  <2> USE <1>1
  <2>1. Shape' /\ WorkflowsInv'
    BY DEF Shape, WorkflowsInv
  <2>2. NoNexus' = NoNexus /\ Dead("nexus")' = Dead("nexus")
    BY DEF NoNexus, NoNexusPoll, Dead, Finished
  <2>3. NexusInv' /\ ClosingInv'
    BY <2>2 DEF NexusInv, ClosingInv
  <2> QED
    BY <2>1, <2>3
<1> USE DEF ActElse, ActsInv, Shape, PlanShape, Polled
<1>2. CASE LangPollsActs
  <2>1. Keeps
    BY <1>2 DEF LangPollsActs
  <2> QED
    BY <1>1, <2>1
<1>3. CASE ReceiversLocked \/ LocalNone \/ RemoteShutDown \/ RemoteCompleted
  <2>1. CASE ReceiversLocked
    BY <1>1, <2>1 DEF ReceiversLocked
  <2>2. CASE LocalNone
    BY <1>1, <2>2 DEF LocalNone
  <2>3. CASE RemoteShutDown
    BY <1>1, <2>3 DEF RemoteShutDown
  <2>4. CASE RemoteCompleted
    <3>1. ~acts.remoteDone
      BY <2>4 DEF RemoteCompleted
    <3> QED
      BY <1>1, <2>4, <3>1 DEF RemoteCompleted
  <2> QED
    BY <1>3, <2>1, <2>2, <2>3, <2>4
<1>4. CASE RemoteGiven
  BY <1>1, <1>4 DEF RemoteGiven, RemoteFirst, Spent
<1>5. CASE RemoteFails
  <2>1. UNCHANGED <<pollers, bufs, nexus, closing, wfs>> /\ shut' /\ PlanShape'
        /\ plan'.remote = plan.remote
    BY <1>5 DEF RemoteFails, Spent, InitiateShutdown
  <2>2. /\ DOMAIN acts' = DOMAIN acts /\ acts'.poll = "no"
        /\ UNCHANGED <<acts.remoteDone, acts.remote, acts.toldRemote>>
    BY <1>5 DEF RemoteFails, ShutActs, LamReady
  <2> QED
    BY <1>1, <2>1, <2>2
<1>6. ASSUME NEW i \in DOMAIN wfs.out, LocalDispatched(i) \/ LocalCompleted(i) PROVE LeftInv'
  <2>1. wfs.st # "down"
    BY <1>6 DEF WorkflowsInv
  <2> QED
    BY Zenon, <1>1, <1>6, <2>1 DEF LocalDispatched, LocalCompleted, LamReady
<1> QED
  BY Zenon, <1>2, <1>3, <1>4, <1>5, <1>6 DEF ActStep

\* The Nexus stream gives tasks to lang until the pollers are done, and ends when
\* all of them are completed.
LEMMA NexusLeft ==
    ASSUME LeftInv, NexusStep
    PROVE  LeftInv'
<1> USE DEF LeftInv
<1>1. UNCHANGED <<shut, pollers, wfs, acts, closing>> /\ PlanShape' /\ plan'.remote = plan.remote
  <2>1. UNCHANGED <<shut, pollers, wfs, acts, closing>>
    BY Zenon DEF NexusStep, LangPollsNexus, NexusCancelled, NexusSourceComplete, NexusChecks,
           NexusGracePasses, LangToldNexusShutDown, NexusTaken, NexusTimesOut, NexusCompleted,
           NexusReported, NexusElse
  <2> QED
    BY <2>1, NexusFrame DEF RegistryFrame
<1> DEFINE Keeps == /\ BuffersShaped(bufs') /\ DOMAIN nexus' = DOMAIN nexus
                    /\ \A b \in WftBuffers : bufs'[b] = bufs[b]
                    /\ bufs["nexus"].items = <<>> => bufs'["nexus"].items = <<>>
                    /\ NoNexus => DOMAIN nexus'.map = {}
                    /\ NexusInv'
<1>2. ASSUME Keeps PROVE LeftInv'
  <2> USE <1>1, <1>2
  <2>1. Shape' /\ WorkflowsInv' /\ ActsInv'
    BY Zenon DEF Shape, WorkflowsInv, ActsInv
  <2>2. NoNexus => NoNexus'
    BY DEF NoNexus, NoNexusPoll
  <2>3. ClosingInv'
    BY <2>2 DEF ClosingInv
  <2> QED
    BY <2>1, <2>3
<1> USE DEF Shape
<1>3. CASE LangPollsNexus
  <2>1. /\ BuffersShaped(bufs') /\ \A b \in WftBuffers : bufs'[b] = bufs[b]
        /\ bufs'["nexus"].items = bufs["nexus"].items
    BY <1>3 DEF LangPollsNexus, BuffersShaped, Buffers, WftBuffers
  <2>2. /\ DOMAIN nexus' = DOMAIN nexus /\ nexus'.polled
        /\ UNCHANGED <<nexus.map, nexus.source, nexus.told>>
    BY <1>3 DEF LangPollsNexus
  <2>3. NexusInv'
    BY <1>1, <2>1, <2>2 DEF NexusInv, NoNexus, Dead, Finished
  <2> QED
    BY <1>2, <2>1, <2>2, <2>3 DEF NoNexus
<1>4. CASE NexusCancelled \/ NexusSourceComplete \/ NexusChecks \/ NexusGracePasses
            \/ LangToldNexusShutDown \/ (\E t \in DOMAIN nexus.map : NexusTimesOut(t))
  <2>1. bufs' = bufs
    BY <1>4 DEF NexusCancelled, NexusSourceComplete, NexusChecks, NexusGracePasses,
                LangToldNexusShutDown, NexusTimesOut
  <2>2. /\ DOMAIN nexus' = DOMAIN nexus /\ nexus'.polled = nexus.polled
        /\ DOMAIN nexus'.map = DOMAIN nexus.map
    <3>1. CASE NexusCancelled \/ NexusSourceComplete
      BY Zenon, <3>1 DEF NexusCancelled, NexusSourceComplete, CancelGiven, SourceComplete
    <3>2. CASE NexusChecks
      BY <3>2 DEF NexusChecks, CheckOutstanding
    <3>3. CASE NexusGracePasses \/ LangToldNexusShutDown
      BY Zenon, <3>3 DEF NexusGracePasses, LangToldNexusShutDown, GracePassed
    <3>4. ASSUME NEW t \in DOMAIN nexus.map, NexusTimesOut(t)
          PROVE  /\ DOMAIN nexus' = DOMAIN nexus /\ nexus'.polled = nexus.polled
                 /\ DOMAIN nexus'.map = DOMAIN nexus.map
      BY <3>4 DEF NexusTimesOut, TimedOut
    <3> QED
      BY <1>4, <3>1, <3>2, <3>3, <3>4
  <2>3. \/ nexus'.source = nexus.source /\ (nexus'.told => nexus.told \/ nexus.source = "ended")
        \/ /\ nexus'.told = nexus.told /\ nexus.source = "open" /\ nexus.polled
           /\ nexus'.source = "done" /\ Dead("nexus")
        \/ /\ nexus'.told = nexus.told /\ nexus.source = "done" /\ nexus.polled
           /\ nexus'.source = "ended" /\ DOMAIN nexus.map = {}
    <3>1. CASE NexusCancelled \/ NexusSourceComplete
      BY ZenonT(40), <3>1 DEF NexusCancelled, NexusSourceComplete, CancelGiven, SourceComplete, NexusStreams
    <3>2. CASE NexusChecks
      BY <3>2 DEF NexusChecks, CheckOutstanding, Outstanding, NexusStreams
    <3>3. CASE NexusGracePasses \/ LangToldNexusShutDown
      BY Zenon, <3>3 DEF NexusGracePasses, LangToldNexusShutDown, GracePassed
    <3>4. ASSUME NEW t \in DOMAIN nexus.map, NexusTimesOut(t)
          PROVE  nexus'.source = nexus.source /\ nexus'.told = nexus.told
      BY <3>4 DEF NexusTimesOut, TimedOut
    <3> QED
      BY <1>4, <3>1, <3>2, <3>3, <3>4
  <2>4. Dead("nexus")' = Dead("nexus") /\ (NoNexus => NoNexus')
    BY <1>1, <2>1, <2>2 DEF Dead, Finished, NoNexus, NoNexusPoll
  <2>5. NexusInv'
    BY <1>1, <2>1, <2>2, <2>3, <2>4 DEF NexusInv
  <2> QED
    BY <1>2, <2>1, <2>2, <2>5 DEF NoNexus
<1>5. ASSUME NEW kind, NEW timer, NexusTaken(kind, timer) PROVE LeftInv'
  <2>1. /\ BuffersShaped(bufs') /\ (\A b \in WftBuffers : bufs'[b] = bufs[b])
        /\ bufs'["nexus"].started = bufs["nexus"].started
    <3>1. bufs' = [bufs EXCEPT !["nexus"].items = Tail(bufs["nexus"].items)]
      BY <1>5 DEF NexusTaken
    <3>2. /\ BuffersShaped(bufs')
          /\ \A b \in Buffers :
               bufs'[b].started = bufs[b].started /\ (b # "nexus" => bufs'[b] = bufs[b])
      BY Zenon, <3>1, ItemsChange
    <3> QED
      BY <3>2 DEF Buffers, WftBuffers
  <2>2. nexus.polled /\ nexus.source = "open" /\ bufs["nexus"].items # <<>>
    BY <1>5 DEF NexusTaken, NexusStreams
  <2>3. DOMAIN nexus' = DOMAIN nexus /\ UNCHANGED <<nexus.polled, nexus.source, nexus.told>>
    BY <1>5 DEF NexusTaken, Track
  <2>4. NexusInv'
    BY <2>2, <2>3 DEF NexusInv
  <2> QED
    BY <1>2, <2>1, <2>2, <2>3, <2>4 DEF NoNexus
<1>6. ASSUME NEW t, (\E status : NexusCompleted(t, status)) \/ NexusReported(t) PROVE LeftInv'
  <2>1. bufs' = bufs /\ nexus' \in {Untrack(nexus, t), Notified(nexus)}
    BY <1>6 DEF NexusCompleted, NexusReported
  <2>2. /\ DOMAIN nexus' = DOMAIN nexus /\ UNCHANGED <<nexus.polled, nexus.source, nexus.told>>
        /\ DOMAIN nexus'.map \subseteq DOMAIN nexus.map
    BY <2>1 DEF Untrack, Notified
  <2>3. Dead("nexus")' = Dead("nexus") /\ (NoNexus => NoNexus')
    BY <1>1, <2>1, <2>2 DEF Dead, Finished, NoNexus, NoNexusPoll
  <2>4. NexusInv'
    BY <2>1, <2>2, <2>3 DEF NexusInv
  <2> QED
    BY <1>2, <2>1, <2>2, <2>4 DEF NoNexus
<1> QED
  BY Zenon, <1>3, <1>4, <1>5, <1>6 DEF NexusStep

\* Each wait of shutdown is over when what it waited for is over for good.
LEMMA ShutdownLeft ==
    ASSUME LeftInv, ShutdownGoesOn \/ ShutdownGivesUp
    PROVE  LeftInv'
<1> USE DEF LeftInv
<1>1. UNCHANGED <<plan, shut, pollers, bufs, wfs, nexus>>
  BY DEF ShutdownGoesOn, ShutdownGivesUp, CloseElse
<1>2. /\ DOMAIN acts' = DOMAIN acts
      /\ UNCHANGED <<acts.poll, acts.saw, acts.remoteDone, acts.remote, acts.toldRemote>>
  BY Zenon DEF ShutdownGoesOn, ShutdownGivesUp, LamReady, Shape
<1>3. PlanShape' /\ Shape' /\ WorkflowsInv' /\ ActsInv'
  BY <1>1, <1>2 DEF PlanShape, Shape, WorkflowsInv, ActsInv
<1>4. NoNexus' = NoNexus /\ Dead("nexus")' = Dead("nexus") /\ NexusInv'
  BY <1>1 DEF NoNexus, NoNexusPoll, Dead, Finished, NexusInv
<1>5. ClosingInv'
  <2>1. CASE ShutdownGivesUp
    BY <1>1, <1>2, <1>4, <2>1 DEF ShutdownGivesUp, ClosingInv
  <2>2. CASE ShutdownGoesOn
    <3>1. CASE closing \in {"sticky", "la", "rcvs"}
      <4>1. closing' \in {"la", "rcvs", "wf"}
        BY <2>2, <3>1 DEF ShutdownGoesOn, Waits
      <4> QED
        BY <1>1, <3>1, <4>1 DEF ClosingInv
    <3>2. CASE closing = "wf"
      <4>1. closing' = "act" /\ wfs.st = "down"
        BY Zenon, <2>2, <3>2 DEF ShutdownGoesOn, Waits
      <4> QED
        BY <1>1, <3>2, <4>1 DEF ClosingInv
    <3>3. CASE closing = "act"
      <4>1. closing' = "nexus" /\ (plan.remote => acts.toldRemote)
        BY Zenon, <2>2, <3>3 DEF ShutdownGoesOn, Waits
      <4>2. acts'.remoteDone
        BY <1>2, <4>1 DEF ActsInv
      <4> QED
        BY <1>1, <3>3, <4>1, <4>2 DEF ClosingInv
    <3>4. CASE closing = "nexus"
      <4>1. closing' = "permits" /\ (nexus.polled => nexus.told)
        BY Zenon, <2>2, <3>4 DEF ShutdownGoesOn, Waits
      <4>2. NoNexus
        BY <4>1 DEF NexusInv, NoNexus, NoNexusPoll, Dead, Finished
      <4> QED
        BY <1>1, <1>2, <1>4, <3>4, <4>1, <4>2 DEF ClosingInv
    <3>5. CASE closing = "permits"
      <4>1. closing' = "returned"
        BY <2>2, <3>5 DEF ShutdownGoesOn, Waits
      <4> QED
        BY <1>1, <1>2, <1>4, <3>5, <4>1 DEF ClosingInv
    <3> QED
      BY <2>2, <3>1, <3>2, <3>3, <3>4, <3>5 DEF ShutdownGoesOn, Waits
  <2> QED
    BY <2>1, <2>2
<1> QED
  BY <1>3, <1>4, <1>5

\* Initiating shutdown, the load and other workers touch no task.
LEMMA EnvironmentLeft ==
    ASSUME LeftInv, Environment
    PROVE  LeftInv'
<1> USE DEF LeftInv
<1>1. UNCHANGED <<pollers, bufs, wfs, nexus>> /\ (shut => shut')
  BY DEF Environment, LoadChanges, Initiate, ShutdownCalled, RampPasses, ReplaceClient,
         OtherWorkerStarts, OtherWorkerStops, CloseElse, PollElse, InitiateShutdown
<1>2. /\ DOMAIN acts' = DOMAIN acts
      /\ UNCHANGED <<acts.poll, acts.saw, acts.remoteDone, acts.remote, acts.toldRemote>>
  BY Zenon DEF Environment, LoadChanges, Initiate, ShutdownCalled, RampPasses, ReplaceClient,
         OtherWorkerStarts, OtherWorkerStops, CloseElse, PollElse, ShutActs, LamReady, Shape
<1>3. PlanShape' /\ plan'.remote = plan.remote
  BY DEF Environment, LoadChanges, Initiate, ShutdownCalled, RampPasses, ReplaceClient,
         OtherWorkerStarts, OtherWorkerStops, CloseElse, PlanShape, Spend, Spent
<1>4. closing' = closing \/ (closing' \in {"sticky", "la"} /\ shut')
  BY DEF Environment, LoadChanges, Initiate, ShutdownCalled, RampPasses, ReplaceClient,
         OtherWorkerStarts, OtherWorkerStops, CloseElse, PollElse, InitiateShutdown
<1>5. Shape' /\ WorkflowsInv' /\ ActsInv'
  BY <1>1, <1>2, <1>3 DEF Shape, WorkflowsInv, ActsInv
<1>6. NoNexus' = NoNexus /\ Dead("nexus")' = Dead("nexus") /\ NexusInv'
  BY <1>1 DEF NoNexus, NoNexusPoll, Dead, Finished, NexusInv
<1>7. ClosingInv'
  BY <1>1, <1>2, <1>4, <1>6 DEF ClosingInv
<1> QED
  BY <1>3, <1>5, <1>6, <1>7

\* For every configuration of pollers, slots and tasks, when shutdown has returned
\* no task is left with lang or in a buffer, and lang is told that there are no
\* more Nexus tasks only when there are none.
THEOREM ShutdownLeavesNothing == Spec => []NothingLeftOver
<1>1. Init => LeftInv
  BY LeftInit
<1>2. LeftInv /\ [Next]_vars => LeftInv'
  <2> SUFFICES ASSUME LeftInv, [Next]_vars PROVE LeftInv'
    OBVIOUS
  <2>1. CASE UNCHANGED vars
    BY Zenon, <2>1 DEF vars, LeftInv, PlanShape, Shape, BuffersShaped, WorkflowsInv, NexusInv, NoNexus,
                NoNexusPoll, Dead, Finished, ActsInv, ClosingInv
  <2>2. CASE Next
    BY <2>2, PollerLeft, EagerLeft, WftLeft, ActsLeft, NexusLeft, ShutdownLeft, EnvironmentLeft
       DEF Next
  <2> QED
    BY <2>1, <2>2
<1>3. LeftInv => NothingLeftOver
  BY Zenon DEF LeftInv, NothingLeftOver, WorkflowsInv, NexusInv, NoNexus, ActsInv, ClosingInv,
         Outstanding, Buffers
<1> QED
  BY <1>1, <1>2, <1>3, PTL DEF Spec
===============================================================================
