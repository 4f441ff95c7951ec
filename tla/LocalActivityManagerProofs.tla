---------------------- MODULE LocalActivityManagerProofs ----------------------
(***************************************************************************)
(* For any number of local activities, slots and retries: an LA is queued, *)
(* backing off or with lang, and in one of these places only; it is never  *)
(* tried more often than its policy says; and it is resolved once.         *)
(***************************************************************************)
EXTENDS LocalActivityManager, TLAPS

(* Time for the leaves with the larger records *)
USE SMTT(30)

\* The types the argument needs.  Cancels and timeouts may say anything.
Types ==
    /\ token \in [LA -> Nat] /\ handle \subseteq LA /\ nextTok \in Nat
    /\ outstanding \subseteq Attempt /\ sleeping \subseteq Request
    /\ requests \in Seq(Request)
    /\ worker \in [token : BOOLEAN, phase : Phase, localDone : BOOLEAN, tokDone : BOOLEAN,
                   notify : BOOLEAN, backoffBug : BOOLEAN, entryBug : BOOLEAN]

\* OneAttempt without the assertions, which concern the step just taken.
OnePlace ==
    /\ \A i, j \in DOMAIN requests : requests[i].la = requests[j].la => i = j
    /\ \A a, b \in outstanding : a.la = b.la => a = b
    /\ \A a, b \in sleeping : a.la = b.la => a = b
    /\ \A i \in DOMAIN requests :
         /\ token[requests[i].la] # 0
         /\ \A b \in sleeping : b.la # requests[i].la
         /\ \A a \in outstanding : a.la # requests[i].la
    /\ \A b \in sleeping : token[b.la] # 0 /\ \A a \in outstanding : a.la # b.la
    /\ \A a \in outstanding : a.tok = token[a.la] /\ a.tok # 0 /\ a.la \notin handle

\* The attempt that is next for an LA, wherever it is, is one the policy allows.
Allowed(n) == Policy.attempts = 0 \/ n <= Policy.attempts
Within ==
    /\ \A i \in DOMAIN requests : Allowed(requests[i].attempt)
    /\ \A b \in sleeping : Allowed(b.attempt)
    /\ \A a \in outstanding : Allowed(a.attempt)

Assertions == worker.backoffBug = FALSE /\ worker.entryBug = FALSE

Inv == Types /\ OnePlace /\ Within /\ Assertions

\* What the argument is about, of the state of the manager.
places == <<token, handle, nextTok, outstanding, sleeping, requests>>

-----------------------------------------------------------------------------
\* The shutdown's and the polls' own state does not touch the two assertions.
LEMMA WorkerSteps ==
    ASSUME NEW w, NEW out, NEW down,
           w \in [token : BOOLEAN, phase : Phase, localDone : BOOLEAN, tokDone : BOOLEAN,
                  notify : BOOLEAN, backoffBug : BOOLEAN, entryBug : BOOLEAN]
    PROVE  \A v \in {Returned(w), ReturnedNone(w), ShutdownComplete(w, out, down)} :
             /\ v \in [token : BOOLEAN, phase : Phase, localDone : BOOLEAN, tokDone : BOOLEAN,
                       notify : BOOLEAN, backoffBug : BOOLEAN, entryBug : BOOLEAN]
             /\ v.backoffBug = w.backoffBug /\ v.entryBug = w.entryBug
<1>1. Returned(w) \in [token : BOOLEAN, phase : Phase, localDone : BOOLEAN, tokDone : BOOLEAN,
                       notify : BOOLEAN, backoffBug : BOOLEAN, entryBug : BOOLEAN]
      /\ Returned(w).backoffBug = w.backoffBug /\ Returned(w).entryBug = w.entryBug
      /\ Returned(w).localDone = w.localDone
  BY DEF Returned, Phase
<1>2. (w.localDone \/ w.token) \in BOOLEAN
  OBVIOUS
<1>3. ReturnedNone(w) \in [token : BOOLEAN, phase : Phase, localDone : BOOLEAN, tokDone : BOOLEAN,
                       notify : BOOLEAN, backoffBug : BOOLEAN, entryBug : BOOLEAN]
      /\ ReturnedNone(w).backoffBug = w.backoffBug /\ ReturnedNone(w).entryBug = w.entryBug
  BY <1>1, <1>2 DEF ReturnedNone
<1>4. (w.tokDone \/ (out = {} /\ down)) \in BOOLEAN
  OBVIOUS
<1>5. ShutdownComplete(w, out, down) \in [token : BOOLEAN, phase : Phase, localDone : BOOLEAN,
                       tokDone : BOOLEAN, notify : BOOLEAN, backoffBug : BOOLEAN, entryBug : BOOLEAN]
      /\ ShutdownComplete(w, out, down).backoffBug = w.backoffBug
      /\ ShutdownComplete(w, out, down).entryBug = w.entryBug
  BY Zenon, <1>4 DEF ShutdownComplete
<1> QED
  BY <1>1, <1>3, <1>5

-----------------------------------------------------------------------------
\* Whatever is queued, sleeping or with lang is an attempt of some LA.
LEMMA OfAnLA ==
    ASSUME Types
    PROVE  /\ \A i \in DOMAIN requests : requests[i] \in Request /\ requests[i].la \in LA
           /\ \A b \in sleeping : b.la \in LA
           /\ \A a \in outstanding : a.la \in LA
<1>1. \A i \in DOMAIN requests : requests[i] \in Request
  BY DEF Types
<1> QED
  BY <1>1 DEF Types, Request, Attempt

\* A step that moves no LA.
LEMMA NothingMoves ==
    ASSUME Inv, UNCHANGED places,
           worker' \in [token : BOOLEAN, phase : Phase, localDone : BOOLEAN, tokDone : BOOLEAN,
                        notify : BOOLEAN, backoffBug : BOOLEAN, entryBug : BOOLEAN],
           worker'.backoffBug = worker.backoffBug, worker'.entryBug = worker.entryBug
    PROVE  Inv'
BY DEF Inv, Types, OnePlace, Within, Assertions, Allowed, places

\* enqueue queues an LA that has no entry.
LEMMA RequestSafe ==
    ASSUME Inv, NEW la \in LA, NEW timedOut \in BOOLEAN, RequestLA(la, timedOut)
    PROVE  Inv'
<1> DEFINE r == [la |-> la, attempt |-> 1]
<1>1. /\ nextTok' = nextTok + 1 /\ nextTok' \in Nat \ {0}
      /\ UNCHANGED <<handle, outstanding, sleeping, worker>>
  BY DEF Inv, Types, RequestLA, entries
<1>2. Types /\ OnePlace /\ Within /\ Assertions
  BY DEF Inv
<1>3. CASE Known(la)
  <2>1. UNCHANGED <<token, requests>>
    BY <1>3 DEF RequestLA, entries
  <2> QED
    BY <1>1, <1>2, <2>1 DEF Inv, Types, OnePlace, Within, Assertions, Allowed
<1>4. CASE ~ Known(la)
  <2>1. token' = [token EXCEPT ![la] = nextTok']
    BY <1>4 DEF RequestLA
  <2>2. token[la] = 0
    BY <1>4 DEF Known
  <2>3. \A l \in LA : token[l] # 0 => token'[l] = token[l]
    BY <1>2, <2>1, <2>2 DEF Types
  <2>4. requests' = requests \/ requests' = Append(requests, r)
    BY <1>4 DEF RequestLA
  <2>5. /\ token' \in [LA -> Nat] /\ token'[la] # 0
    BY <1>1, <1>2, <2>1 DEF Types
  <2>6. CASE requests' = requests
    <3>1. Types'
      BY <1>1, <1>2, <2>5, <2>6 DEF Types
    <3>2. OnePlace'
      BY <1>1, <1>2, <2>3, <2>6, OfAnLA DEF OnePlace
    <3>3. Within' /\ Assertions'
      BY <1>1, <1>2, <2>6 DEF Within, Assertions
    <3> QED
      BY <3>1, <3>2, <3>3 DEF Inv
  <2>7. CASE requests' = Append(requests, r)
    <3>1. r \in Request /\ r.la = la /\ r.attempt = 1
      BY DEF Request
    <3> HIDE DEF r
    <3>2. /\ requests' \in Seq(Request)
          /\ DOMAIN requests = 1 .. Len(requests) /\ Len(requests) \in Nat
          /\ DOMAIN requests' = 1 .. Len(requests) + 1
          /\ \A i \in 1 .. Len(requests) : requests'[i] = requests[i] /\ requests[i] \in Request
          /\ requests'[Len(requests) + 1] = r
      BY <1>2, <2>7, <3>1 DEF Types
    <3>3. Types'
      BY <1>1, <1>2, <2>5, <3>2 DEF Types
    <3>4. /\ \A i \in 1 .. Len(requests) : requests[i].la # la /\ requests[i].la \in LA
          /\ \A b \in sleeping : b.la # la /\ b.la \in LA
          /\ \A a \in outstanding : a.la # la /\ a.la \in LA
      BY <1>2, <2>2, <3>2, OfAnLA DEF OnePlace
    <3>5. OnePlace'
      <4>1. \A i, j \in DOMAIN requests' : requests'[i].la = requests'[j].la => i = j
        BY <1>2, <3>1, <3>2, <3>4 DEF OnePlace
      <4>2. \A i \in DOMAIN requests' :
              /\ token'[requests'[i].la] # 0
              /\ \A b \in sleeping' : b.la # requests'[i].la
              /\ \A a \in outstanding' : a.la # requests'[i].la
        <5> SUFFICES ASSUME NEW i \in DOMAIN requests'
                     PROVE  /\ token'[requests'[i].la] # 0
                            /\ \A b \in sleeping : b.la # requests'[i].la
                            /\ \A a \in outstanding : a.la # requests'[i].la
          BY <1>1
        <5>1. CASE i = Len(requests) + 1
          BY <2>5, <3>1, <3>2, <3>4, <5>1
        <5>2. CASE i \in 1 .. Len(requests)
          BY <1>2, <2>3, <3>2, <3>4, <5>2 DEF OnePlace
        <5> QED
          BY <3>2, <5>1, <5>2
      <4> QED
        BY <1>1, <1>2, <2>3, <3>4, <4>1, <4>2 DEF OnePlace
    <3>6. Allowed(1)
      BY PolicyAssumption DEF Allowed
    <3>7. Within'
      BY <1>1, <1>2, <3>1, <3>2, <3>6 DEF Within, Allowed
    <3> QED
      BY <1>1, <1>2, <3>3, <3>5, <3>7 DEF Inv, Assertions
  <2> QED
    BY <2>4, <2>6, <2>7
<1> QED
  BY <1>3, <1>4

\* Cancels end backoffs and send messages.
LEMMA CancelSafe ==
    ASSUME Inv, NEW rn, NEW las \in SUBSET LA, CancelEntries(rn, las)
    PROVE  Inv'
<1>1. /\ handle' = handle \ (las \cap handle) /\ sleeping' \subseteq sleeping
      /\ UNCHANGED <<token, outstanding, nextTok, requests, worker>>
  BY DEF CancelEntries, Abort
<1> QED
  BY <1>1 DEF Inv, Types, OnePlace, Within, Assertions, Allowed

\* An attempt ends: it backs off, or its entry goes.
LEMMA CompleteSafe ==
    ASSUME Inv, NEW a \in outstanding, NEW status, NEW w,
           w \in [token : BOOLEAN, phase : Phase, localDone : BOOLEAN, tokDone : BOOLEAN,
                  notify : BOOLEAN, backoffBug : BOOLEAN, entryBug : BOOLEAN],
           w.backoffBug = FALSE, w.entryBug = FALSE,
           Complete(a, status, w), UNCHANGED requests
    PROVE  Inv'
<1> DEFINE delay == ShouldRetry(a.attempt, status)
           retried == Retryable(status) /\ delay # NoRetry /\ delay <= Threshold
           done == ShutdownComplete(w, outstanding', run.down)
<1>0. Types /\ OnePlace /\ Within /\ Assertions
  BY DEF Inv
<1>1. /\ outstanding' = outstanding \ {a}
      /\ worker' = [done EXCEPT !.notify = @ \/ ~ Retryable(status),
                                !.backoffBug = @ \/ a.la \in handle]
      /\ IF retried THEN BackOff(a) ELSE RemoveEntry(a.la)
  BY DEF Complete, Report
<1>2. a \in Attempt /\ a.la \in LA /\ a.attempt \in Nat /\ a.la \notin handle
  BY <1>0 DEF Types, OnePlace, Attempt
<1>3. /\ \A i \in DOMAIN requests : requests[i].la # a.la
      /\ \A b \in sleeping : b.la # a.la
      /\ \A b \in outstanding' : b.la # a.la
  BY <1>0, <1>1 DEF OnePlace
<1>4. /\ worker' \in [token : BOOLEAN, phase : Phase, localDone : BOOLEAN, tokDone : BOOLEAN,
                       notify : BOOLEAN, backoffBug : BOOLEAN, entryBug : BOOLEAN]
      /\ worker'.backoffBug = FALSE /\ worker'.entryBug = FALSE
  <2>1. /\ done \in [token : BOOLEAN, phase : Phase, localDone : BOOLEAN, tokDone : BOOLEAN,
                       notify : BOOLEAN, backoffBug : BOOLEAN, entryBug : BOOLEAN]
        /\ done.backoffBug = FALSE /\ done.entryBug = FALSE
    BY WorkerSteps
  <2> HIDE DEF done
  <2>2. (done.notify \/ ~ Retryable(status)) \in BOOLEAN /\ (done.backoffBug \/ a.la \in handle) = FALSE
    BY <1>2, <2>1
  <2> QED
    BY Zenon, <1>1, <2>1, <2>2
<1>5. CASE retried
  <2> DEFINE b == [la |-> a.la, attempt |-> a.attempt + 1]
  <2>1. /\ nextTok' = nextTok + 1 /\ nextTok' \in Nat \ {0}
        /\ token' = [token EXCEPT ![a.la] = nextTok']
        /\ handle' = handle \cup {a.la}
        /\ sleeping' = sleeping \cup {b}
    BY <1>0, <1>1, <1>5 DEF BackOff, Types
  <2>2. b \in Request /\ b.la = a.la /\ b.attempt = a.attempt + 1
    BY <1>2 DEF Request
  <2>3. Allowed(b.attempt)
    BY <1>2, <1>5, <2>2, PolicyAssumption DEF Allowed, ShouldRetry, AttemptsLeft
  <2> HIDE DEF b
  <2>4. /\ token' \in [LA -> Nat] /\ token'[a.la] # 0
        /\ \A l \in LA : l # a.la => token'[l] = token[l]
    BY <1>0, <1>2, <2>1 DEF Types
  <2>5. Types'
    BY <1>0, <1>1, <1>2, <1>4, <2>1, <2>2, <2>4 DEF Types
  <2>6. /\ \A i \in DOMAIN requests : requests[i].la \in LA
        /\ \A c \in sleeping : c.la \in LA
        /\ \A c \in outstanding : c.la \in LA
    BY <1>0, OfAnLA
  <2>7. OnePlace'
    BY <1>0, <1>1, <1>2, <1>3, <2>1, <2>2, <2>4, <2>6 DEF OnePlace
  <2>8. Within'
    BY <1>0, <1>1, <2>1, <2>3 DEF Within, Allowed
  <2> QED
    BY <1>4, <2>5, <2>7, <2>8 DEF Inv, Assertions
<1>6. CASE ~ retried
  <2>1. /\ token' = [token EXCEPT ![a.la] = 0]
        /\ handle' = handle \ {a.la}
        /\ UNCHANGED <<nextTok, sleeping>>
    BY <1>1, <1>6 DEF RemoveEntry
  <2>2. /\ token' \in [LA -> Nat]
        /\ \A l \in LA : l # a.la => token'[l] = token[l]
    BY <1>0, <1>2, <2>1 DEF Types
  <2>3. Types'
    BY <1>0, <1>1, <1>4, <2>1, <2>2 DEF Types
  <2>4. /\ \A i \in DOMAIN requests : requests[i].la \in LA
        /\ \A c \in sleeping : c.la \in LA
        /\ \A c \in outstanding : c.la \in LA
    BY <1>0, OfAnLA
  <2>5. OnePlace'
    BY <1>0, <1>1, <1>3, <2>1, <2>2, <2>4 DEF OnePlace
  <2>6. Within'
    BY <1>0, <1>1, <2>1 DEF Within, Allowed
  <2> QED
    BY <1>4, <2>3, <2>5, <2>6 DEF Inv, Assertions
<1> QED
  BY <1>5, <1>6

\* A poll takes a queued LA: it goes to lang, or is resolved for being too late.
LEMMA TakeSafe ==
    ASSUME Inv, NEW tooLate \in BOOLEAN, TakeRequest(tooLate)
    PROVE  Inv'
<1> DEFINE la == Head(requests).la
           a == [tok |-> token[la], la |-> la, attempt |-> Head(requests).attempt]
<1>0. Types /\ OnePlace /\ Within /\ Assertions
  BY DEF Inv
<1>1. /\ requests # <<>> /\ requests' = Tail(requests) /\ handle' = handle \ {la}
      /\ UNCHANGED <<token, nextTok, sleeping>>
  BY DEF TakeRequest
<1>2. /\ requests' \in Seq(Request)
      /\ Len(requests) \in Nat \ {0} /\ DOMAIN requests = 1 .. Len(requests)
      /\ DOMAIN requests' = 1 .. Len(requests) - 1
      /\ \A i \in DOMAIN requests' : i + 1 \in DOMAIN requests /\ requests'[i] = requests[i + 1]
      /\ 1 \in DOMAIN requests /\ Head(requests) = requests[1]
  BY <1>0, <1>1 DEF Types
<1>3. /\ requests[1] \in Request /\ la \in LA /\ Head(requests).attempt \in Nat
      /\ token[la] \in Nat \ {0} /\ Allowed(Head(requests).attempt)
      /\ \A b \in sleeping : b.la # la
      /\ \A b \in outstanding : b.la # la
  <2>1. requests[1] \in Request /\ la \in LA /\ la = requests[1].la
    BY <1>0, <1>2, OfAnLA
  <2>2. Head(requests).attempt \in Nat /\ token[la] \in Nat
    BY <1>0, <1>2, <2>1 DEF Types, Request
  <2> QED
    BY <1>0, <1>2, <2>1, <2>2 DEF OnePlace, Within
<1>4. \A i, j \in DOMAIN requests' : requests'[i].la = requests'[j].la => i = j
  <2> SUFFICES ASSUME NEW i \in DOMAIN requests', NEW j \in DOMAIN requests',
                      requests'[i].la = requests'[j].la
               PROVE  i = j
    OBVIOUS
  <2>1. i + 1 = j + 1
    BY <1>0, <1>2 DEF OnePlace
  <2> QED
    BY <1>2, <2>1
<1>5. \A i \in DOMAIN requests' : requests'[i].la # la
  <2> SUFFICES ASSUME NEW i \in DOMAIN requests', requests'[i].la = la PROVE FALSE
    OBVIOUS
  <2>1. i + 1 = 1
    BY <1>0, <1>2 DEF OnePlace
  <2> QED
    BY <1>2, <2>1
<1>6. CASE tooLate
  <2>1. outstanding' = outstanding /\ worker' = Returned(worker)
    BY <1>6 DEF TakeRequest
  <2>2. Types' /\ Assertions'
    BY <1>0, <1>1, <1>2, <2>1, WorkerSteps DEF Types, Assertions
  <2>3. OnePlace'
    BY <1>0, <1>1, <1>2, <1>4, <2>1 DEF OnePlace
  <2>4. Within'
    BY <1>0, <1>1, <1>2, <2>1 DEF Within
  <2> QED
    BY <2>2, <2>3, <2>4 DEF Inv
<1>7. CASE ~ tooLate
  <2>1. /\ outstanding' = outstanding \cup {a}
        /\ worker' = [Returned(worker) EXCEPT !.entryBug = @ \/ token[la] = 0]
    BY <1>7 DEF TakeRequest
  <2>2. a \in Attempt /\ a.la = la /\ a.tok = token[la] /\ a.attempt = Head(requests).attempt
    BY <1>3 DEF Attempt
  <2> HIDE DEF a
  <2>3. Types' /\ Assertions'
    <3>1. /\ Returned(worker) \in [token : BOOLEAN, phase : Phase, localDone : BOOLEAN,
                 tokDone : BOOLEAN, notify : BOOLEAN, backoffBug : BOOLEAN, entryBug : BOOLEAN]
          /\ Returned(worker).backoffBug = FALSE /\ Returned(worker).entryBug = FALSE
      BY <1>0, WorkerSteps DEF Types, Assertions
    <3>2. (Returned(worker).entryBug \/ token[la] = 0) = FALSE
      BY <1>3, <3>1
    <3>3. /\ worker' \in [token : BOOLEAN, phase : Phase, localDone : BOOLEAN,
                 tokDone : BOOLEAN, notify : BOOLEAN, backoffBug : BOOLEAN, entryBug : BOOLEAN]
          /\ worker'.backoffBug = FALSE /\ worker'.entryBug = FALSE
      BY <2>1, <3>1, <3>2
    <3> QED
      BY <1>0, <1>1, <1>2, <2>1, <2>2, <3>3 DEF Types, Assertions
  <2>4. OnePlace'
    <3> HIDE DEF la
    <3>1. \A b, c \in outstanding' : b.la = c.la => b = c
      BY <1>0, <1>3, <2>1, <2>2 DEF OnePlace
    <3>2. \A b \in outstanding' : b.tok = token'[b.la] /\ b.tok # 0 /\ b.la \notin handle'
      BY <1>0, <1>1, <1>3, <2>1, <2>2 DEF OnePlace
    <3>3. \A i \in DOMAIN requests' :
            /\ token'[requests'[i].la] # 0
            /\ \A b \in sleeping' : b.la # requests'[i].la
            /\ \A b \in outstanding' : b.la # requests'[i].la
      BY <1>0, <1>1, <1>2, <1>5, <2>1, <2>2 DEF OnePlace
    <3>4. \A b \in sleeping' : token'[b.la] # 0 /\ \A c \in outstanding' : c.la # b.la
      BY <1>0, <1>1, <1>3, <2>1, <2>2 DEF OnePlace
    <3> QED
      BY <1>0, <1>1, <1>4, <3>1, <3>2, <3>3, <3>4 DEF OnePlace
  <2>5. Within'
    BY <1>0, <1>1, <1>2, <1>3, <2>1, <2>2 DEF Within
  <2> QED
    BY <2>3, <2>4, <2>5 DEF Inv
<1> QED
  BY <1>6, <1>7

\* A backoff ends and its retry is queued.
LEMMA RetrySafe ==
    ASSUME Inv, NEW b \in sleeping, BackoffElapses(b)
    PROVE  Inv'
<1>0. Types /\ OnePlace /\ Within /\ Assertions
  BY DEF Inv
<1>1. /\ sleeping' = sleeping \ {b} /\ requests' = Append(requests, b)
      /\ UNCHANGED <<token, handle, nextTok, outstanding, worker>>
  BY DEF BackoffElapses, entries
<1>2. b \in Request /\ b.la \in LA
  BY <1>0, OfAnLA DEF Types
<1>3. /\ requests' \in Seq(Request)
      /\ DOMAIN requests = 1 .. Len(requests) /\ Len(requests) \in Nat
      /\ DOMAIN requests' = 1 .. Len(requests) + 1
      /\ \A i \in 1 .. Len(requests) : requests'[i] = requests[i]
      /\ requests'[Len(requests) + 1] = b
  BY <1>0, <1>1, <1>2 DEF Types
<1>4. /\ token[b.la] # 0
      /\ \A i \in 1 .. Len(requests) : requests[i].la # b.la
      /\ \A c \in sleeping' : c.la # b.la
      /\ \A a \in outstanding : a.la # b.la
  BY <1>0, <1>1, <1>3 DEF OnePlace
<1>5. OnePlace'
  <2>1. \A i, j \in DOMAIN requests' : requests'[i].la = requests'[j].la => i = j
    BY <1>0, <1>3, <1>4 DEF OnePlace
  <2>2. \A i \in DOMAIN requests' :
          /\ token'[requests'[i].la] # 0
          /\ \A c \in sleeping' : c.la # requests'[i].la
          /\ \A a \in outstanding' : a.la # requests'[i].la
    <3> SUFFICES ASSUME NEW i \in DOMAIN requests'
                 PROVE  /\ token[requests'[i].la] # 0
                        /\ \A c \in sleeping' : c.la # requests'[i].la
                        /\ \A a \in outstanding : a.la # requests'[i].la
      BY <1>1
    <3>1. CASE i = Len(requests) + 1
      BY <1>3, <1>4, <3>1
    <3>2. CASE i \in 1 .. Len(requests)
      BY <1>0, <1>1, <1>3, <3>2 DEF OnePlace
    <3> QED
      BY <1>3, <3>1, <3>2
  <2> QED
    BY <1>0, <1>1, <2>1, <2>2 DEF OnePlace
<1>6. Types' /\ Assertions'
  BY <1>0, <1>1, <1>3 DEF Types, Assertions
<1>7. Within'
  BY <1>0, <1>1, <1>3 DEF Within
<1> QED
  BY <1>5, <1>6, <1>7 DEF Inv

\* The end of wait_all_outstanding_tasks_finished: the queue is lost.
LEMMA DropSafe ==
    ASSUME Inv, DropReceivers
    PROVE  Inv'
<1>1. /\ requests' = <<>> /\ worker' = [worker EXCEPT !.phase = "workflows"]
      /\ UNCHANGED <<token, handle, nextTok, outstanding, sleeping>>
  BY DEF DropReceivers, entries, timers
<1>2. Types' /\ Assertions'
  BY <1>1 DEF Inv, Types, Assertions, Phase
<1>3. OnePlace' /\ Within'
  BY <1>1 DEF Inv, OnePlace, Within
<1> QED
  BY <1>2, <1>3 DEF Inv

\* A timeout completes the attempt of its LA, if that is with lang.
LEMMA TimeoutSafe ==
    ASSUME Inv, TakeTimeout
    PROVE  Inv'
<1> DEFINE m == Head(cancels)
           current == {a \in outstanding : token[m.la] # 0 /\ a.tok = token[m.la]}
<1>1. \/ /\ worker' \in {Returned(worker), ReturnedNone(worker)}
         /\ UNCHANGED places
      \/ \E a \in outstanding : Complete(a, m.kind, Returned(worker)) /\ UNCHANGED requests
  BY DEF TakeTimeout, places, entries, timers
<1>2. CASE /\ worker' \in {Returned(worker), ReturnedNone(worker)}
           /\ UNCHANGED places
  BY <1>2, WorkerSteps, NothingMoves DEF Inv, Types
<1>3. CASE \E a \in outstanding : Complete(a, m.kind, Returned(worker)) /\ UNCHANGED requests
  <2> PICK a \in outstanding : Complete(a, m.kind, Returned(worker)) /\ UNCHANGED requests
    BY <1>3
  <2>1. /\ Returned(worker) \in [token : BOOLEAN, phase : Phase, localDone : BOOLEAN,
               tokDone : BOOLEAN, notify : BOOLEAN, backoffBug : BOOLEAN, entryBug : BOOLEAN]
        /\ Returned(worker).backoffBug = FALSE /\ Returned(worker).entryBug = FALSE
    BY Zenon, WorkerSteps DEF Inv, Types, Assertions
  <2> QED
    BY Zenon, <2>1, CompleteSafe
<1> QED
  BY <1>1, <1>2, <1>3

-----------------------------------------------------------------------------
\* The invariant holds at the start.
LEMMA InitSafe == Init => Inv
<1> SUFFICES ASSUME Init PROVE Inv
  OBVIOUS
<1>1. Types /\ Assertions
  BY DEF Init, Types, Assertions, Phase
<1>2. OnePlace /\ Within
  BY DEF Init, OnePlace, Within
<1> QED
  BY <1>1, <1>2 DEF Inv

\* Every step keeps the invariant.
LEMMA NextSafe == Inv /\ [Next]_vars => Inv'
<1> SUFFICES ASSUME Inv, [Next]_vars PROVE Inv'
  OBVIOUS
<1>0. worker \in [token : BOOLEAN, phase : Phase, localDone : BOOLEAN, tokDone : BOOLEAN,
                  notify : BOOLEAN, backoffBug : BOOLEAN, entryBug : BOOLEAN]
  BY DEF Inv, Types
<1>1. CASE Workflows
  <2>1. CASE PollWorkflows \/ EvictRun
    <3>1. UNCHANGED <<places, worker>>
      BY <2>1 DEF PollWorkflows, EvictRun, places, entries, channels, timers
    <3> QED
      BY <1>0, <3>1, NothingMoves
  <2>2. CASE CancelAllInRun
    <3>1. Entries \in SUBSET LA
      BY DEF Entries
    <3> QED
      BY <2>2, <3>1, CancelSafe DEF CancelAllInRun
  <2>3. CASE \E la \in LA : CancelLA(la)
    <3> PICK la \in LA : CancelLA(la)
      BY <2>3
    <3>1. ({la} \cap Entries) \in SUBSET LA
      BY DEF Entries
    <3> QED
      BY <3>1, CancelSafe DEF CancelLA
  <2>4. CASE \E la \in LA : \E timedOut \in BOOLEAN : RequestLA(la, timedOut)
    BY <2>4, RequestSafe
  <2> QED
    BY <1>1, <2>1, <2>2, <2>3, <2>4 DEF Workflows
<1>2. CASE Poll
  <2>1. CASE EndOfStream \/ TakeCancel
    <3>1. UNCHANGED places /\ worker' \in {Returned(worker), ReturnedNone(worker)}
      BY <2>1 DEF EndOfStream, TakeCancel, places, entries, channels, timers
    <3> QED
      BY <1>0, <3>1, WorkerSteps, NothingMoves
  <2> QED
    BY <1>2, <2>1, TimeoutSafe, TakeSafe DEF Poll
<1>3. CASE RemoteActivityFirst
  <2>1. UNCHANGED places /\ worker' = Returned(worker)
    BY <1>3 DEF RemoteActivityFirst, places, entries, channels, timers
  <2> QED
    BY <1>0, <2>1, WorkerSteps, NothingMoves
<1>4. CASE Lang
  <2> PICK a \in outstanding, status \in {"completed", "cancelled", "failed", "delayed", "nonretryable"} :
             LangCompletes(a, status)
    BY <1>4 DEF Lang
  <2>1. Complete(a, status, worker) /\ UNCHANGED requests
    BY DEF LangCompletes, channels
  <2> QED
    BY Zenon, <1>0, <2>1, CompleteSafe DEF Inv, Assertions
<1>5. CASE Timeouts
  <2>1. UNCHANGED <<places, worker>>
    BY Zenon, <1>5 DEF Timeouts, ScheduleToCloseElapses, StartToCloseElapses, places, entries
  <2> QED
    BY <1>0, <2>1, NothingMoves
<1>6. CASE Backoffs
  BY <1>6, RetrySafe DEF Backoffs
<1>7. CASE \E phase \in {"up", "check"} : InitiateShutdown(phase)
  <2> PICK phase \in {"up", "check"} : InitiateShutdown(phase)
    BY <1>7
  <2> DEFINE w == [worker EXCEPT !.token = TRUE, !.phase = phase]
  <2>1. /\ w \in [token : BOOLEAN, phase : Phase, localDone : BOOLEAN, tokDone : BOOLEAN,
                   notify : BOOLEAN, backoffBug : BOOLEAN, entryBug : BOOLEAN]
        /\ w.backoffBug = worker.backoffBug /\ w.entryBug = worker.entryBug
    BY Zenon, <1>0 DEF Phase
  <2>2. UNCHANGED places /\ worker' = ShutdownComplete(w, outstanding, run'.down)
    BY DEF InitiateShutdown, places, entries, channels, timers
  <2> HIDE DEF w
  <2> QED
    BY <2>1, <2>2, WorkerSteps, NothingMoves
<1>8. CASE WorkflowsEnd
  <2>1. UNCHANGED places /\ worker' = ShutdownComplete(worker, outstanding, run'.down)
    BY <1>8 DEF WorkflowsEnd, places, entries, channels, timers
  <2> QED
    BY <1>0, <2>1, WorkerSteps, NothingMoves
<1>9. CASE Shutdown
  <2>1. CASE CheckOutstanding
    <3> DEFINE w == ShutdownComplete(worker, outstanding, run.down)
    <3>1. /\ w \in [token : BOOLEAN, phase : Phase, localDone : BOOLEAN, tokDone : BOOLEAN,
                     notify : BOOLEAN, backoffBug : BOOLEAN, entryBug : BOOLEAN]
          /\ w.backoffBug = worker.backoffBug /\ w.entryBug = worker.entryBug
      BY <1>0, WorkerSteps
    <3>2. UNCHANGED places /\ \E phase \in Phase : worker' = [w EXCEPT !.phase = phase]
      BY <2>1 DEF CheckOutstanding, places, entries, channels, timers, Phase
    <3> HIDE DEF w
    <3> QED
      BY <3>1, <3>2, NothingMoves
  <2>2. CASE Notified \/ JoinWorkflows
    <3>1. UNCHANGED places
      BY <2>2 DEF Notified, JoinWorkflows, places, entries, channels, timers
    <3>2. /\ worker' \in [token : BOOLEAN, phase : Phase, localDone : BOOLEAN, tokDone : BOOLEAN,
                           notify : BOOLEAN, backoffBug : BOOLEAN, entryBug : BOOLEAN]
          /\ worker'.backoffBug = worker.backoffBug /\ worker'.entryBug = worker.entryBug
      BY Zenon, <1>0, <2>2 DEF Notified, JoinWorkflows, Phase
    <3> QED
      BY <3>1, <3>2, NothingMoves
  <2> QED
    BY <1>9, <2>1, <2>2, DropSafe DEF Shutdown
<1>10. CASE UNCHANGED vars
  <2>1. UNCHANGED <<places, worker>>
    BY <1>10 DEF vars, places, entries, channels, timers
  <2> QED
    BY <1>0, <2>1, NothingMoves
<1> QED
  BY <1>1, <1>2, <1>3, <1>4, <1>5, <1>6, <1>7, <1>8, <1>9, <1>10 DEF Next

\* enqueue, next_pending and complete keep every LA in one place with an entry,
\* and neither of their assertions fails, for any number of LAs and slots.
THEOREM OneAttemptHolds == Spec => []OneAttempt
<1>1. Inv => OneAttempt
  BY DEF Inv, OnePlace, Types, Assertions, OneAttempt, Queued, BackingOff, WithLang
<1> QED
  BY <1>1, InitSafe, NextSafe, PTL DEF Spec

\* complete never starts an attempt beyond the policy's maximum, whatever the
\* policy is and however cancels, timeouts and evictions fall.
THEOREM AttemptsHold == Spec => []AttemptsWithinPolicy
<1>1. Inv => AttemptsWithinPolicy
  BY PolicyAssumption DEF Inv, Within, Allowed, AttemptsWithinPolicy
<1> QED
  BY <1>1, InitSafe, NextSafe, PTL DEF Spec
-----------------------------------------------------------------------------
(* Resolutions.                                                            *)

RunType ==
    [plan : Plans, scheduled : SUBSET LA, asked : SUBSET LA, skipped : SUBSET LA,
     late : SUBSET LA, results : [LA -> 0..2], evicting : BOOLEAN, polled : BOOLEAN,
     requested : Nat, down : BOOLEAN, panicked : BOOLEAN]

\* The manager still has something that may resolve the LA.
Pending(la) == la \in handle \/ Queued(la) \/ BackingOff(la) \/ WithLang(la)

\* An LA that was resolved is not pending any more, unless its retry was on its way
\* when it was cancelled.
Told(la) ==
    run.results[la] > 0 =>
        la \in run.scheduled /\ (la \in run.late \/ (run.results[la] = 1 /\ ~ Pending(la)))

Resolutions ==
    /\ run \in RunType
    /\ \A la \in handle : token[la] # 0
    /\ \A la \in LA : Told(la)

\* What a resolution does to the run: only results of las, each at most once.
LEMMA ResolveFields ==
    ASSUME NEW rn \in RunType, NEW las \in SUBSET LA
    PROVE  /\ Resolve(rn, las) \in RunType
           /\ Resolve(rn, las).scheduled = rn.scheduled /\ Resolve(rn, las).late = rn.late
           /\ \A la \in LA :
                 /\ la \notin las => Resolve(rn, las).results[la] = rn.results[la]
                 /\ la \notin rn.scheduled => Resolve(rn, las).results[la] = rn.results[la]
                 /\ rn.results[la] = 0 => Resolve(rn, las).results[la] <= 1
<1> DEFINE f == [la \in LA |->
                   IF la \in las \cap rn.scheduled THEN MinOf(rn.results[la] + 1, 2)
                   ELSE rn.results[la]]
<1>1. rn.results \in [LA -> 0..2]
  BY DEF RunType
<1>2. /\ f \in [LA -> 0..2]
      /\ \A la \in LA : /\ la \notin las => f[la] = rn.results[la]
                        /\ la \notin rn.scheduled => f[la] = rn.results[la]
                        /\ rn.results[la] = 0 => f[la] <= 1
  BY <1>1 DEF MinOf
<1>3. Resolve(rn, las) = [rn EXCEPT !.results = f]
  BY DEF Resolve
<1> HIDE DEF f
<1> QED
  BY <1>2, <1>3 DEF RunType

\* Steps that neither resolve an LA nor bring one back.
LEMMA TellsNobody ==
    ASSUME Resolutions, run' \in RunType, run'.results = run.results,
           run.scheduled \subseteq run'.scheduled, run.late \subseteq run'.late,
           \A la \in LA : Pending(la)' => Pending(la) \/ run.results[la] = 0 \/ la \in run.late,
           \A la \in handle' : token'[la] # 0
    PROVE  Resolutions'
<1>1. run.results \in [LA -> 0..2]
  BY DEF Resolutions, RunType
<1> QED
  BY <1>1 DEF Resolutions, Told

\* Steps that resolve one LA, which then is not pending.
LEMMA TellsOne ==
    ASSUME Resolutions, NEW la \in LA, NEW rn \in RunType,
           rn.results = run.results, run.scheduled \subseteq rn.scheduled, rn.late = run.late,
           run' = Resolve(rn, {la}), Pending(la) \/ run.results[la] = 0, ~ Pending(la)',
           \A l \in LA : l # la => (Pending(l)' => Pending(l)),
           \A l \in handle' : token'[l] # 0
    PROVE  Resolutions'
<1>1. /\ run' \in RunType /\ run'.scheduled = rn.scheduled /\ run'.late = rn.late
      /\ \A l \in LA : /\ l # la => run'.results[l] = run.results[l]
                       /\ l \notin rn.scheduled => run'.results[l] = run.results[l]
                       /\ run.results[l] = 0 => run'.results[l] <= 1
  BY ResolveFields
<1>2. run.results \in [LA -> 0..2] /\ run'.results \in [LA -> 0..2]
  BY Zenon, <1>1 DEF Resolutions, RunType
<1>3. \A l \in LA : l # la => Told(l)'
  BY Zenon, <1>1, <1>2 DEF Resolutions, Told
<1>4. Told(la)'
  <2>1. CASE run.results[la] = 0
    BY <1>1, <1>2, <2>1 DEF Told
  <2>2. CASE run.results[la] # 0
    BY <1>1, <1>2, <2>2 DEF Resolutions, Told
  <2> QED
    BY <2>1, <2>2
<1> QED
  BY <1>1, <1>3, <1>4 DEF Resolutions

\* A run asks for a local activity, or asks again.
LEMMA RequestTells ==
    ASSUME Inv, Resolutions, NEW la \in LA, NEW timedOut \in BOOLEAN, RequestLA(la, timedOut)
    PROVE  Resolutions'
<1> DEFINE a == [run EXCEPT !.scheduled = @ \cup {la}]
           rn == [a EXCEPT !.requested = run.requested + 1]
           r == [la |-> la, attempt |-> 1]
<1>1. run \in RunType /\ la \notin run.scheduled /\ run.results[la] = 0
  BY DEF Resolutions, RequestLA, Told, RunType
<1>2. /\ a \in RunType /\ a.scheduled = run.scheduled \cup {la} /\ a.late = run.late
      /\ a.results = run.results
  BY <1>1 DEF RunType
<1>3. /\ UNCHANGED <<handle, outstanding, sleeping>>
      /\ \/ Known(la) /\ run' = [rn EXCEPT !.skipped = @ \cup {la}] /\ UNCHANGED <<token, requests>>
         \/ /\ ~ Known(la) /\ token' = [token EXCEPT ![la] = nextTok'] /\ requests' = requests
            /\ run' = Resolve(rn, {la})
         \/ /\ ~ Known(la) /\ token' = [token EXCEPT ![la] = nextTok']
            /\ requests' = (IF Open THEN Append(requests, r) ELSE requests)
            /\ run' = [rn EXCEPT !.panicked = ~ Open]
  BY DEF RequestLA, entries
<1> HIDE DEF a
<1>4. /\ rn \in RunType /\ rn.scheduled = run.scheduled \cup {la} /\ rn.late = run.late
      /\ rn.results = run.results
  BY <1>1, <1>2 DEF RunType
<1> HIDE DEF rn
<1>5. nextTok' = nextTok + 1 /\ nextTok' \in Nat \ {0} /\ token \in [LA -> Nat]
  BY DEF RequestLA, Inv, Types
<1>6. CASE Known(la)
  <2>1. UNCHANGED <<token, requests, handle, outstanding, sleeping>>
        /\ run' = [rn EXCEPT !.skipped = @ \cup {la}]
    BY <1>3, <1>6
  <2>2. run' \in RunType /\ run'.results = run.results /\ run'.late = run.late
        /\ run.scheduled \subseteq run'.scheduled
    BY <1>4, <2>1 DEF RunType
  <2>3. \A l \in LA : Pending(l)' <=> Pending(l)
    BY <2>1 DEF Pending, Queued, BackingOff, WithLang
  <2> QED
    BY <2>1, <2>2, <2>3, TellsNobody DEF Resolutions
<1>7. CASE ~ Known(la)
  <2>1. token[la] = 0 /\ token' = [token EXCEPT ![la] = nextTok']
    BY <1>3, <1>7 DEF Known
  <2>2. \A l \in handle' : token'[l] # 0
    BY <1>3, <1>5, <2>1 DEF Resolutions
  <2>3. ~ Pending(la)
    BY <2>1 DEF Pending, Queued, BackingOff, WithLang, Inv, OnePlace, Resolutions
  <2>4. CASE requests' = requests /\ run' = Resolve(rn, {la})
    <3>1. \A l \in LA : Pending(l)' <=> Pending(l)
      BY <1>3, <2>4 DEF Pending, Queued, BackingOff, WithLang
    <3> QED
      BY <1>1, <1>4, <2>2, <2>3, <2>4, <3>1, TellsOne
  <2>5. CASE /\ requests' = (IF Open THEN Append(requests, r) ELSE requests)
             /\ run' = [rn EXCEPT !.panicked = ~ Open]
    <3>1. run' \in RunType /\ run'.results = run.results /\ run'.late = run.late
          /\ run.scheduled \subseteq run'.scheduled
      BY Zenon, <1>4, <2>5 DEF RunType
    <3>2. r \in Request /\ r.la = la /\ requests \in Seq(Request)
      BY DEF Request, Inv, Types
    <3> HIDE DEF r
    <3>3. \A l \in LA : Queued(l)' => Queued(l) \/ l = la
      BY <2>5, <3>2 DEF Queued
    <3>4. \A l \in LA : Pending(l)' => Pending(l) \/ l = la
      BY <1>3, <3>3 DEF Pending, BackingOff, WithLang
    <3> QED
      BY <1>1, <2>2, <3>1, <3>4, TellsNobody
  <2> QED
    BY <1>3, <1>7, <2>4, <2>5
<1> QED
  BY <1>6, <1>7

\* A run cancels local activities, those that back off among them.
LEMMA CancelTells ==
    ASSUME Inv, Resolutions, NEW rn \in RunType, NEW las \in SUBSET LA,
           rn.results = run.results, rn.scheduled = run.scheduled, rn.late = run.late,
           CancelEntries(rn, las)
    PROVE  Resolutions'
<1> DEFINE backing == las \cap handle
           sent == {[kind |-> "cancel", tok |-> token[la]] : la \in las \ handle}
           a == Resolve(rn, backing)
           l == {la \in backing : Queued(la)}
           b == [a EXCEPT !.late = @ \cup l]
           p == (~ Open /\ sent # {})
<1>1. /\ handle' = handle \ backing /\ sleeping' = {x \in sleeping : x.la \notin backing}
      /\ UNCHANGED <<token, outstanding, requests>>
      /\ run' = [b EXCEPT !.panicked = p]
  BY DEF CancelEntries, Abort
<1> HIDE DEF p, l, a, sent
<1>2. backing \subseteq LA /\ l \subseteq LA /\ p \in BOOLEAN
  BY DEF l, p
<1>3. /\ a \in RunType /\ a.scheduled = run.scheduled /\ a.late = run.late
      /\ \A la \in LA :
            /\ la \notin backing => a.results[la] = run.results[la]
            /\ la \notin run.scheduled => a.results[la] = run.results[la]
            /\ run.results[la] = 0 => a.results[la] <= 1
  BY <1>2, ResolveFields DEF a
<1>4. b \in RunType /\ b.scheduled = run.scheduled /\ b.late = run.late \cup l /\ b.results = a.results
  BY <1>2, <1>3 DEF RunType
<1> HIDE DEF b
<1>5. run' \in RunType /\ run'.scheduled = run.scheduled /\ run'.late = run.late \cup l
      /\ run'.results = a.results
  BY <1>1, <1>2, <1>4 DEF RunType
<1>6. run.results \in [LA -> 0..2] /\ run'.results \in [LA -> 0..2]
  BY <1>5 DEF Resolutions, RunType
<1>7. \A la \in LA : la \notin backing => Told(la)'
  <2>1. \A la \in LA : Pending(la)' => Pending(la)
    BY <1>1 DEF Pending, Queued, BackingOff, WithLang
  <2> QED
    BY <1>3, <1>5, <1>6, <2>1 DEF Resolutions, Told
<1>8. \A la \in backing : Told(la)'
  <2> SUFFICES ASSUME NEW la \in backing PROVE Told(la)'
    OBVIOUS
  <2>1. la \in LA /\ Pending(la) /\ ~ WithLang(la)
    BY DEF Pending, Inv, OnePlace, WithLang
  <2>2. run.results[la] > 0 => la \in run.scheduled /\ la \in run.late
    BY <2>1 DEF Resolutions, Told
  <2>3. ~ Queued(la) => ~ Pending(la)'
    BY <1>1, <2>1 DEF Pending, Queued, BackingOff, WithLang
  <2>4. Queued(la) => la \in run'.late
    BY <1>5 DEF l
  <2>5. run'.results[la] > 0 => la \in run.scheduled
    BY <1>3, <1>5, <1>6, <2>1, <2>2
  <2>6. run'.results[la] <= 1 \/ la \in run.late
    BY <1>3, <1>5, <1>6, <2>1, <2>2
  <2> QED
    BY <1>5, <1>6, <2>1, <2>3, <2>4, <2>5, <2>6 DEF Told
<1> QED
  BY <1>1, <1>5, <1>7, <1>8 DEF Resolutions

\* A local activity completes.
LEMMA CompleteTells ==
    ASSUME Inv, Resolutions, NEW a \in outstanding, NEW status, NEW w,
           Complete(a, status, w), UNCHANGED requests
    PROVE  Resolutions'
<1>1. /\ outstanding' = outstanding \ {a}
      /\ (BackOff(a) /\ run' = run) \/ Report(a)
  BY DEF Complete
<1>2. a.la \in LA /\ token \in [LA -> Nat] /\ nextTok \in Nat /\ WithLang(a.la)
  BY OfAnLA DEF Inv, Types, WithLang
<1>3. /\ \A i \in DOMAIN requests : requests[i].la # a.la
      /\ \A b \in sleeping : b.la # a.la
      /\ \A b \in outstanding' : b.la # a.la
  BY <1>1 DEF Inv, OnePlace
<1>4. CASE BackOff(a) /\ run' = run
  <2> DEFINE b == [la |-> a.la, attempt |-> a.attempt + 1]
  <2>1. /\ token' = [token EXCEPT ![a.la] = nextTok + 1] /\ handle' = handle \cup {a.la}
        /\ sleeping' = sleeping \cup {b} /\ b.la = a.la
    BY <1>4 DEF BackOff
  <2> HIDE DEF b
  <2>2. \A l \in handle' : token'[l] # 0
    BY <1>2, <2>1 DEF Resolutions
  <2>3. \A l \in LA : Pending(l)' => Pending(l)
    BY <1>1, <1>2, <2>1 DEF Pending, Queued, BackingOff, WithLang
  <2> QED
    BY <1>4, <2>2, <2>3, TellsNobody DEF Resolutions
<1>5. CASE Report(a)
  <2>1. /\ token' = [token EXCEPT ![a.la] = 0] /\ handle' = handle \ {a.la}
        /\ sleeping' = sleeping /\ run' = Resolve(run, {a.la})
    BY <1>5 DEF Report, RemoveEntry
  <2>2. \A l \in handle' : token'[l] # 0
    BY <1>2, <2>1 DEF Resolutions, Inv, Types
  <2>3. ~ Pending(a.la)'
    BY <1>3, <2>1 DEF Pending, Queued, BackingOff, WithLang
  <2>4. \A l \in LA : l # a.la => (Pending(l)' => Pending(l))
    BY <1>1, <2>1 DEF Pending, Queued, BackingOff, WithLang
  <2> QED
    BY Zenon, <1>2, <2>1, <2>2, <2>3, <2>4, TellsOne DEF Resolutions, Pending
<1> QED
  BY <1>1, <1>4, <1>5

\* The poll takes a request from the channel.
LEMMA TakeTells ==
    ASSUME Inv, Resolutions, NEW tooLate \in BOOLEAN, TakeRequest(tooLate)
    PROVE  Resolutions'
<1>1. requests # <<>> /\ requests \in Seq(Request)
  BY DEF TakeRequest, Inv, Types
<1>2. PICK la \in LA : la = Head(requests).la
  <2>1. Head(requests) \in Request
    BY <1>1
  <2> QED
    BY <2>1 DEF Request
<1>3. /\ requests' = Tail(requests) /\ handle' = handle \ {la}
      /\ UNCHANGED <<token, sleeping>>
  BY <1>2 DEF TakeRequest
<1>4. /\ Len(requests) \in Nat \ {0} /\ DOMAIN requests = 1 .. Len(requests)
      /\ DOMAIN requests' = 1 .. Len(requests) - 1
      /\ \A i \in DOMAIN requests' : i \in Int /\ i + 1 \in DOMAIN requests
                                     /\ requests'[i] = requests[i + 1]
      /\ 1 \in DOMAIN requests /\ la = requests[1].la
  BY <1>1, <1>2, <1>3
<1>5. /\ Queued(la)
      /\ \A b \in sleeping : b.la # la
      /\ \A b \in outstanding : b.la # la
  BY <1>4 DEF Queued, Inv, OnePlace
<1>6. \A l \in LA : Queued(l)' => Queued(l) /\ l # la
  <2> SUFFICES ASSUME NEW i \in DOMAIN requests' PROVE requests'[i].la # la /\ Queued(requests'[i].la)
    BY DEF Queued
  <2>1. i + 1 \in DOMAIN requests /\ i + 1 # 1 /\ requests'[i] = requests[i + 1]
    BY <1>4
  <2> QED
    BY <1>4, <2>1 DEF Inv, OnePlace, Queued
<1>7. \A l \in handle' : token'[l] # 0
  BY <1>3 DEF Resolutions
<1>8. CASE tooLate
  <2>1. run' = Resolve(run, {la}) /\ outstanding' = outstanding
    BY <1>2, <1>8 DEF TakeRequest
  <2>2. ~ Pending(la)'
    BY <1>3, <1>5, <1>6, <2>1 DEF Pending, BackingOff, WithLang
  <2>3. \A l \in LA : Pending(l)' => Pending(l)
    BY <1>3, <1>6, <2>1 DEF Pending, BackingOff, WithLang
  <2>4. Pending(la)
    BY <1>5 DEF Pending
  <2> QED
    BY <1>7, <2>1, <2>2, <2>3, <2>4, TellsOne DEF Resolutions
<1>9. CASE ~ tooLate
  <2>1. PICK a : outstanding' = outstanding \cup {a} /\ a.la = la /\ run' = run
    <3> DEFINE x == [tok |-> token[la], la |-> la, attempt |-> Head(requests).attempt]
    <3>1. outstanding' = outstanding \cup {x} /\ run' = run /\ x.la = la
      BY <1>2, <1>9 DEF TakeRequest
    <3> QED
      BY Zenon, <3>1
  <2>2. \A l \in LA : Pending(l)' => Pending(l)
    BY <1>3, <1>5, <1>6, <2>1 DEF Pending, BackingOff, WithLang
  <2> QED
    BY <1>7, <2>1, <2>2, TellsNobody DEF Resolutions
<1> QED
  BY <1>8, <1>9

\* Every step keeps the local activities resolved at most once.
LEMMA NextTells == Inv /\ Resolutions /\ [Next]_vars => Resolutions'
<1> SUFFICES ASSUME Inv, Resolutions, [Next]_vars PROVE Resolutions'
  OBVIOUS
<1>0. run \in RunType
  BY DEF Resolutions
<1>1. ASSUME UNCHANGED places, run' \in RunType, run'.results = run.results,
             run'.scheduled = run.scheduled, run'.late = run.late
      PROVE  Resolutions'
  <2>1. \A la \in LA : Pending(la)' <=> Pending(la)
    BY <1>1 DEF Pending, Queued, BackingOff, WithLang, places
  <2> QED
    BY <1>1, <2>1, TellsNobody DEF Resolutions, places
<1>2. CASE Workflows
  <2>1. CASE PollWorkflows
    <3>1. UNCHANGED places
      BY <2>1 DEF PollWorkflows, places, entries, channels, timers
    <3>2. run' \in RunType /\ run'.results = run.results /\ run'.scheduled = run.scheduled
          /\ run'.late = run.late
      BY Zenon, <1>0, <2>1 DEF PollWorkflows, RunType
    <3> QED
      BY <1>1, <3>1, <3>2
  <2>2. CASE EvictRun
    <3> DEFINE f == [la \in LA |-> 0]
               a == [run EXCEPT !.evicting = FALSE]
               b == [a EXCEPT !.scheduled = {}]
               c == [b EXCEPT !.asked = {}]
               d == [c EXCEPT !.skipped = {}]
               e == [d EXCEPT !.late = {}]
    <3>1. run' = [e EXCEPT !.results = f] /\ UNCHANGED <<handle, token>>
      BY <2>2 DEF EvictRun, entries
    <3>2. f \in [LA -> 0..2]
      OBVIOUS
    <3>3. a \in RunType
      BY Zenon, <1>0 DEF RunType
    <3> HIDE DEF a
    <3>4. b \in RunType
      BY <3>3 DEF RunType
    <3> HIDE DEF b
    <3>5. c \in RunType
      BY <3>4 DEF RunType
    <3> HIDE DEF c
    <3>6. d \in RunType
      BY <3>5 DEF RunType
    <3> HIDE DEF d
    <3>7. e \in RunType
      BY <3>6 DEF RunType
    <3> HIDE DEF e
    <3>8. run' \in RunType /\ run'.results = f
      BY <3>1, <3>2, <3>7 DEF RunType
    <3> QED
      BY <3>1, <3>8 DEF Resolutions, Told
  <2>3. CASE CancelAllInRun
    <3> DEFINE rn == [run EXCEPT !.evicting = TRUE]
    <3>1. rn \in RunType /\ rn.results = run.results /\ rn.scheduled = run.scheduled
          /\ rn.late = run.late
      BY Zenon, <1>0 DEF RunType
    <3>2. Entries \in SUBSET LA /\ CancelEntries(rn, Entries)
      BY <2>3 DEF Entries, CancelAllInRun
    <3> HIDE DEF rn
    <3> QED
      BY <3>1, <3>2, CancelTells
  <2>4. ASSUME NEW la \in LA, CancelLA(la)
        PROVE  Resolutions'
    <3> DEFINE rn == [run EXCEPT !.asked = @ \cup {la}]
    <3>1. rn \in RunType /\ rn.results = run.results /\ rn.scheduled = run.scheduled
          /\ rn.late = run.late
      BY <1>0 DEF RunType
    <3>2. ({la} \cap Entries) \in SUBSET LA /\ CancelEntries(rn, {la} \cap Entries)
      BY <2>4 DEF Entries, CancelLA
    <3> HIDE DEF rn
    <3> QED
      BY <3>1, <3>2, CancelTells
  <2> QED
    BY <1>2, <2>1, <2>2, <2>3, <2>4, RequestTells DEF Workflows
<1>3. CASE TakeTimeout
  <2>1. \/ UNCHANGED <<places, run>>
        \/ \E a \in outstanding :
              Complete(a, Head(cancels).kind, Returned(worker)) /\ UNCHANGED requests
    BY Zenon, <1>3 DEF TakeTimeout, places, entries, timers
  <2>2. CASE UNCHANGED <<places, run>>
    BY <1>0, <1>1, <2>2
  <2> QED
    BY <2>1, <2>2, CompleteTells
<1>4. CASE Lang
  <2>1. \E a \in outstanding : \E status : Complete(a, status, worker) /\ UNCHANGED requests
    BY <1>4 DEF Lang, LangCompletes, channels
  <2> QED
    BY <2>1, CompleteTells
<1>5. CASE Backoffs
  <2>1. PICK b \in sleeping : BackoffElapses(b)
    BY <1>5 DEF Backoffs
  <2>2. /\ sleeping' = sleeping \ {b} /\ requests' = Append(requests, b)
        /\ UNCHANGED <<token, handle, outstanding, run>>
    BY <2>1 DEF BackoffElapses, entries
  <2>3. b \in Request /\ requests \in Seq(Request)
    BY DEF Inv, Types
  <2>4. \A la \in LA : Queued(la)' => Queued(la) \/ b.la = la
    BY <2>2, <2>3 DEF Queued
  <2>5. \A la \in LA : Pending(la)' => Pending(la)
    BY <2>2, <2>4 DEF Pending, BackingOff, WithLang
  <2> QED
    BY ZenonT(40), <2>2, <2>5, TellsNobody DEF Resolutions
<1>6. CASE \/ \E phase \in {"up", "check"} : InitiateShutdown(phase)
           \/ WorkflowsEnd
  <2>1. UNCHANGED places
    BY <1>6 DEF InitiateShutdown, WorkflowsEnd, places, entries, channels, timers
  <2>2. run' = [run EXCEPT !.down = @ \/ ~ run.polled] \/ run' = [run EXCEPT !.down = TRUE]
    BY <1>6 DEF InitiateShutdown, WorkflowsEnd
  <2>3. run' \in RunType /\ run'.results = run.results /\ run'.scheduled = run.scheduled
        /\ run'.late = run.late
    <3>1. (run.down \/ ~ run.polled) \in BOOLEAN
      OBVIOUS
    <3> QED
      BY Zenon, <1>0, <2>2, <3>1 DEF RunType
  <2> QED
    BY <1>1, <2>1, <2>3
<1>7. CASE DropReceivers
  <2>1. requests' = <<>> /\ UNCHANGED <<token, handle, outstanding, sleeping, run>>
    BY <1>7 DEF DropReceivers, entries, timers
  <2>2. \A la \in LA : Pending(la)' => Pending(la)
    BY <2>1 DEF Pending, Queued, BackingOff, WithLang
  <2> QED
    BY <2>1, <2>2, TellsNobody DEF Resolutions
<1>8. CASE \/ EndOfStream \/ TakeCancel \/ RemoteActivityFirst \/ Timeouts \/ CheckOutstanding
           \/ Notified \/ JoinWorkflows \/ UNCHANGED vars
  <2>1. UNCHANGED <<places, run>>
    BY Zenon, <1>8 DEF EndOfStream, TakeCancel, RemoteActivityFirst, Timeouts, ScheduleToCloseElapses,
                StartToCloseElapses, CheckOutstanding, Notified, JoinWorkflows, vars,
                places, entries, channels, timers
  <2> QED
    BY <1>0, <1>1, <2>1
<1> QED
  BY <1>2, <1>3, <1>4, <1>5, <1>6, <1>7, <1>8, TakeTells DEF Next, Poll, Shutdown

\* Initially nothing is resolved.
LEMMA InitTells == Init => Resolutions
<1> SUFFICES ASSUME Init PROVE Resolutions
  OBVIOUS
<1> DEFINE f == [la \in LA |-> 0]
<1>1. f \in [LA -> 0..2] /\ \A la \in LA : f[la] = 0
  OBVIOUS
<1>2. run \in [plan : Plans, scheduled : {{}}, asked : {{}}, skipped : {{}}, late : {{}},
              results : {f}, evicting : {FALSE}, polled : {FALSE}, requested : {0},
              down : {FALSE}, panicked : {FALSE}] /\ handle = {}
  BY Zenon DEF Init
<1> HIDE DEF f
<1>3. run \in RunType /\ run.results = f
  <2>1. PICK p \in Plans :
          run = [plan |-> p, scheduled |-> {}, asked |-> {}, skipped |-> {}, late |-> {},
                 results |-> f, evicting |-> FALSE, polled |-> FALSE, requested |-> 0,
                 down |-> FALSE, panicked |-> FALSE]
    BY Zenon, <1>2
  <2> QED
    BY Zenon, <1>1, <2>1 DEF RunType
<1>4. \A la \in LA : Told(la)
  BY <1>1, <1>3 DEF Told
<1> QED
  BY <1>2, <1>3, <1>4 DEF Resolutions

\* complete and the immediate resolutions of enqueue tell a workflow of the end of an
\* LA once, however cancels, retries, timeouts and evictions fall, but for the cancel
\* of an LA whose retry waits in the queue.
THEOREM ResolvedOnceHolds == Spec => []ResolvedOnce
<1>1. Resolutions => ResolvedOnce
  <2> SUFFICES ASSUME Resolutions, NEW la \in LA, run.results[la] > 1 PROVE la \in run.late
    BY DEF ResolvedOnce
  <2>1. run.results[la] \in 0..2 /\ Told(la)
    BY DEF Resolutions, RunType
  <2> QED
    BY <2>1 DEF Told
<1> QED
  BY <1>1, InitSafe, NextSafe, InitTells, NextTells, PTL DEF Spec

===============================================================================
