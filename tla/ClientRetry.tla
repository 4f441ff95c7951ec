---------------------------- MODULE ClientRetry ----------------------------
(* The retries of the client: RetryClient makes a call again when its          *)
(* TonicErrorHandler says so.  Operators on records; Worker holds the state.   *)
(* Time is abstracted to whether two moments have passed since the call began: *)
(* the maximum elapsed time of its retry policy, and the minute in which a     *)
(* poll is not failed by a fatal error.  How long a retry waits is left out.   *)
EXTENDS Naturals

(* Codes of errors: the ones that are always retried, cancelled and deadline,  *)
(* which only polls for tasks retry, goaway (a cancelled call whose connection *)
(* was closed), and the fatal ones                                             *)
RetryableCodes == {"unavailable", "exhausted"}
Codes == RetryableCodes \cup {"cancelled", "deadline", "goaway", "fatal"}

(* The policies: max_retries 0 is without limit                                *)
DefaultRetry(n) == [retries |-> n, limited |-> TRUE]
TaskPollRetry == [retries |-> 0, limited |-> FALSE]

(* A call: its type, its attempt, whether a goaway was retried, and what time  *)
(* has passed                                                                  *)
NewCall(type, n) ==
  [type |-> type, cfg |-> IF type = "task" THEN TaskPollRetry ELSE DefaultRetry(n),
   attempt |-> 1, goaway |-> FALSE, elapsed |-> FALSE, fatal |-> FALSE]

RetriesLeft(call) == call.cfg.retries = 0 \/ call.attempt < call.cfg.retries

GoawayRetried(call, code) == code = "goaway" /\ ~call.goaway

Retryable(call, code) ==
  \/ code \in RetryableCodes
  \/ call.type = "task" /\ code \in {"cancelled", "deadline", "goaway"}
  \/ GoawayRetried(call, code)

(* Whether the handler retries the call that failed with code                  *)
WillRetry(call, code) ==
  /\ RetriesLeft(call)
  /\ IF Retryable(call, code) THEN call.cfg.limited => ~call.elapsed
                              ELSE call.type = "task" /\ ~call.fatal

NextAttempt(call, code) ==
  [call EXCEPT !.attempt = IF call.cfg.retries = 0 THEN @ ELSE @ + 1,
               !.goaway = @ \/ code = "goaway"]
=============================================================================
