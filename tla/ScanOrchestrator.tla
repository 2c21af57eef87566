-------------------------- MODULE ScanOrchestrator --------------------------
(***************************************************************************)
(* ScanOrchestrator.run: the calling thread submits one future per target  *)
(* to a ThreadPoolExecutor of Concurrency threads, collects outcomes as    *)
(* futures finish, refills, and on cancellation withdraws what has not     *)
(* started.  Pool threads run execute(index), whose worker is the one      *)
(* AuditService passes (run_live or run_offline).  The operator may set    *)
(* the cancellation event between any two steps.                           *)
(*                                                                         *)
(* The event queue is kept by target (feed) and for progress, which is all *)
(* its consumer and the properties tell apart: QUEUED is already in it.    *)
(***************************************************************************)
EXTENDS Naturals, Sequences, FiniteSets

CONSTANTS N,               \* number of targets; target i is index i - 1
          Concurrency,     \* pool size, MIN_CONCURRENCY..MAX_CONCURRENCY
          CollectionErrors \* what _connection_failure_status may classify

ASSUME ScanAssumption ==
  /\ N \in Nat
  /\ Concurrency \in 1..20
  /\ CollectionErrors \subseteq {"AUTH_FAILED", "CONNECT_FAILED", "COLLECTION_FAILED"}

VARIABLES pc,        \* where run() is
          armed,     \* a submission loop has passed its test, not submitted yet
          next,      \* next_index: how many targets were submitted
          pending,   \* the futures run() still waits for
          worklist,  \* what is left of the done set or of the sweep
          future,    \* state of the future and of the worker behind it
          outcome,   \* outcomes_by_index, "none" where absent
          cancel,    \* the cancellation event
          late,      \* history: targets not past execute's check at cancellation
          feed,      \* DEVICE_STATUS events of each target, in queue order
          progress,  \* the completed counts of the PROGRESS events
          runStatus  \* the last RUN_STATUS

mainVars   == <<pc, armed, next, pending, worklist, outcome, progress, runStatus>>
cancelVars == <<cancel, late>>
vars == <<mainVars, future, feed, cancelVars>>

Targets  == 1..N
Failures == CollectionErrors \cup {"EVALUATION_FAILED"}
Terminal == Failures \cup {"COMPLETE", "CANCELLED"}
Stages   == {"CONNECTING", "COLLECTING", "PARSING", "EVALUATING"}

\* A submitted future that has no result and was not withdrawn.
Live == {"queued", "picked", "admitted"} \cup Stages
Busy == {i \in Targets : future[i] \in Live \ {"queued"}}

Having(s) == {i \in Targets : outcome[i] = s}
Decided   == {i \in Targets : outcome[i] # "none"}

Init ==
  /\ pc = "fill" /\ armed = FALSE /\ next = 0
  /\ pending = {} /\ worklist = {}
  /\ future = [i \in Targets |-> "unsubmitted"]
  /\ outcome = [i \in Targets |-> "none"]
  /\ cancel = FALSE /\ late = {}
  /\ feed = [i \in Targets |-> <<"QUEUED">>]
  /\ progress = <<>>
  /\ runStatus = "RUNNING"
-----------------------------------------------------------------------------
(***************************************************************************)
(* The calling thread.                                                     *)
(***************************************************************************)
\* Faults: one target too many; one future too many; stop at the first failure.
RoomPastTotal == next <= N /\ Cardinality(pending) < Concurrency /\ ~cancel
RoomPastPool  == next < N /\ Cardinality(pending) <= Concurrency /\ ~cancel
RoomNoFailure == next < N /\ Cardinality(pending) < Concurrency /\ ~cancel
                 /\ \A i \in Targets : outcome[i] \notin Failures

RoomToSubmit == next < N /\ Cardinality(pending) < Concurrency /\ ~cancel

\* The loop condition holds; cancellation may still be set before the submit.
TestRoom ==
  /\ pc \in {"fill", "refill"} /\ ~armed
  /\ RoomToSubmit
  /\ armed' = TRUE
  /\ UNCHANGED <<pc, next, pending, worklist, outcome, progress, runStatus>>
  /\ UNCHANGED <<future, feed, cancelVars>>

Submit ==
  /\ armed
  /\ armed' = FALSE
  /\ next' = next + 1
  /\ pending' = pending \cup {next + 1}
  /\ future' = [future EXCEPT ![next + 1] = "queued"]
  /\ UNCHANGED <<pc, worklist, outcome, progress, runStatus, feed, cancelVars>>

LeaveLoop ==
  /\ pc \in {"fill", "refill"} /\ ~armed
  /\ ~RoomToSubmit
  /\ pc' = IF pc = "fill" THEN "wait" ELSE "sweepTest"
  /\ UNCHANGED <<armed, next, pending, worklist, outcome, progress, runStatus>>
  /\ UNCHANGED <<future, feed, cancelVars>>

\* wait(..., FIRST_COMPLETED) returns every future that has finished by then.
WaitFirst ==
  /\ pc = "wait"
  /\ worklist' = {i \in pending : future[i] \in Terminal}
  /\ worklist' # {}
  /\ pc' = "deliver"
  /\ UNCHANGED <<armed, next, pending, outcome, progress, runStatus>>
  /\ UNCHANGED <<future, feed, cancelVars>>

\* Fault: the completed count is taken from what is not pending any more.
DeliverCountingQueue(i) ==
  /\ pc = "deliver" /\ i \in worklist
  /\ pending' = pending \ {i}
  /\ worklist' = worklist \ {i}
  /\ outcome' = [outcome EXCEPT ![i] = future[i]]
  /\ feed' = [feed EXCEPT ![i] = Append(@, future[i])]
  /\ progress' = Append(progress, N - Cardinality(pending'))
  /\ pc' = IF worklist = {i} THEN "refill" ELSE "deliver"
  /\ UNCHANGED <<armed, next, runStatus, future, cancelVars>>

Deliver(i) ==
  /\ pc = "deliver" /\ i \in worklist
  /\ pending' = pending \ {i}
  /\ worklist' = worklist \ {i}
  /\ outcome' = [outcome EXCEPT ![i] = future[i]]
  /\ feed' = [feed EXCEPT ![i] = Append(@, future[i])]
  /\ progress' = Append(progress, Cardinality(Decided) + 1)
  /\ pc' = IF worklist = {i} THEN "refill" ELSE "deliver"
  /\ UNCHANGED <<armed, next, runStatus, future, cancelVars>>

SweepTest ==
  /\ pc = "sweepTest"
  /\ pc' = IF cancel THEN "sweep" ELSE "wait"
  /\ worklist' = IF cancel THEN pending ELSE {}
  /\ UNCHANGED <<armed, next, pending, outcome, progress, runStatus>>
  /\ UNCHANGED <<future, feed, cancelVars>>

\* Fault: a running worker is reported cancelled without asking its future.
WithdrawRunning(i) ==
  /\ pc = "sweep" /\ i \in worklist
  /\ worklist' = worklist \ {i}
  /\ pending' = pending \ {i}
  /\ outcome' = [outcome EXCEPT ![i] = "CANCELLED"]
  /\ feed' = [feed EXCEPT ![i] = Append(@, "CANCELLED")]
  /\ UNCHANGED <<pc, armed, next, future, progress, runStatus, cancelVars>>

\* future.cancel() succeeds only while no pool thread has taken the future.
Withdraw(i) ==
  /\ pc = "sweep" /\ i \in worklist
  /\ future[i] = "queued"
  /\ worklist' = worklist \ {i}
  /\ pending' = pending \ {i}
  /\ future' = [future EXCEPT ![i] = "withdrawn"]
  /\ outcome' = [outcome EXCEPT ![i] = "CANCELLED"]
  /\ UNCHANGED <<pc, armed, next, progress, runStatus, feed, cancelVars>>

LeaveRunning(i) ==
  /\ pc = "sweep" /\ i \in worklist
  /\ future[i] # "queued"
  /\ worklist' = worklist \ {i}
  /\ UNCHANGED <<pc, armed, next, pending, outcome, progress, runStatus>>
  /\ UNCHANGED <<future, feed, cancelVars>>

\* Fault: the sweep repeats until every future could be withdrawn.
SweepAgain ==
  /\ pc = "sweep" /\ worklist = {}
  /\ pc' = "sweepTest"
  /\ UNCHANGED <<armed, next, pending, worklist, outcome, progress, runStatus>>
  /\ UNCHANGED <<future, feed, cancelVars>>

EndSweep ==
  /\ pc = "sweep" /\ worklist = {}
  /\ pc' = "wait"
  /\ UNCHANGED <<armed, next, pending, worklist, outcome, progress, runStatus>>
  /\ UNCHANGED <<future, feed, cancelVars>>

\* `while pending` ends, and with it the executor's context manager.
Drained ==
  /\ pc = "wait" /\ pending = {}
  /\ pc' = "remainder"
  /\ UNCHANGED <<armed, next, pending, worklist, outcome, progress, runStatus>>
  /\ UNCHANGED <<future, feed, cancelVars>>

CancelRemainder ==
  /\ pc = "remainder"
  /\ outcome' = [i \in Targets |-> IF i > next THEN "CANCELLED" ELSE outcome[i]]
  /\ feed' = [i \in Targets |->
                IF i > next THEN Append(feed[i], "CANCELLED") ELSE feed[i]]
  /\ pc' = "report"
  /\ UNCHANGED <<armed, next, pending, worklist, progress, runStatus>>
  /\ UNCHANGED <<future, cancelVars>>

\* Fault: a partial run is recognised before a complete one.
PartialFirst ==
  IF Having("COMPLETE") # {} THEN "PARTIAL"
  ELSE IF Having("CANCELLED") = Targets THEN "CANCELLED" ELSE "FAILED"

\* _run_status, for the outcomes of all targets.
RunStatus ==
  LET successes == Having("COMPLETE")
      failures  == Targets \ (successes \cup Having("CANCELLED"))
  IN  IF N = 0 THEN (IF cancel THEN "CANCELLED" ELSE "COMPLETE")
      ELSE IF cancel /\ successes = {} /\ failures = {} THEN "CANCELLED"
      ELSE IF successes = Targets THEN "COMPLETE"
      ELSE IF successes # {} THEN "PARTIAL"
      ELSE IF Having("CANCELLED") = Targets THEN "CANCELLED"
      ELSE "FAILED"

Report ==
  /\ pc = "report"
  /\ runStatus' = RunStatus
  /\ pc' = "done"
  /\ UNCHANGED <<armed, next, pending, worklist, outcome, progress>>
  /\ UNCHANGED <<future, feed, cancelVars>>

Main ==
  \/ TestRoom \/ Submit \/ LeaveLoop \/ WaitFirst
  \/ \E i \in Targets : Deliver(i)
  \/ SweepTest
  \/ \E i \in Targets : Withdraw(i) \/ LeaveRunning(i)
  \/ EndSweep \/ Drained \/ CancelRemainder \/ Report
-----------------------------------------------------------------------------
(***************************************************************************)
(* The pool threads: execute(index) around AuditService's worker.          *)
(***************************************************************************)
PickUp(i) ==
  /\ future[i] = "queued"
  /\ Cardinality(Busy) < Concurrency
  /\ future' = [future EXCEPT ![i] = "picked"]
  /\ UNCHANGED <<mainVars, feed, cancelVars>>

\* Fault: execute relies on the submission loops alone.
AdmitAlways(i) ==
  /\ future[i] = "picked"
  /\ future' = [future EXCEPT ![i] = "admitted"]
  /\ UNCHANGED <<mainVars, feed, cancelVars>>

\* execute's own look at the cancellation event.
Admit(i) ==
  /\ future[i] = "picked"
  /\ future' = [future EXCEPT ![i] = IF cancel THEN "CANCELLED" ELSE "admitted"]
  /\ UNCHANGED <<mainVars, feed, cancelVars>>

\* report(stage): the worker's statuses come in this order.
StageAfter(s) ==
  CASE s = "admitted"   -> "CONNECTING"
    [] s = "CONNECTING" -> "COLLECTING"
    [] s = "COLLECTING" -> "PARSING"
    [] s = "PARSING"    -> "EVALUATING"

Advance(i) ==
  /\ future[i] \in {"admitted", "CONNECTING", "COLLECTING", "PARSING"}
  /\ future' = [future EXCEPT ![i] = StageAfter(future[i])]
  /\ feed' = [feed EXCEPT ![i] = Append(@, StageAfter(future[i]))]
  /\ UNCHANGED <<mainVars, cancelVars>>

\* The outcomes the worker can return, or execute build from its exception.
Returns(i) ==
  CASE future[i] = "EVALUATING" -> {"COMPLETE", "EVALUATION_FAILED"}
    [] future[i] = "PARSING"    -> {"EVALUATION_FAILED"}
    [] future[i] = "COLLECTING" ->
         Failures \cup (IF cancel THEN {"CANCELLED"} ELSE {})
    [] future[i] = "CONNECTING" ->
         {"EVALUATION_FAILED"} \cup (IF cancel THEN {"CANCELLED"} ELSE {})
    [] OTHER -> {}

Return(i) ==
  /\ \E s \in Returns(i) : future' = [future EXCEPT ![i] = s]
  /\ UNCHANGED <<mainVars, feed, cancelVars>>

Thread(i) == PickUp(i) \/ Admit(i) \/ Advance(i) \/ Return(i)
-----------------------------------------------------------------------------
RequestCancel ==
  /\ ~cancel /\ pc # "done"
  /\ cancel' = TRUE
  /\ late' = {i \in Targets : future[i] \in {"unsubmitted", "queued", "picked"}}
  /\ UNCHANGED <<mainVars, future, feed>>

\* run() has returned its summary.
Returned == pc = "done" /\ UNCHANGED vars

Next ==
  \/ Main
  \/ \E i \in Targets : Thread(i)
  \/ RequestCancel
  \/ Returned

\* Threads are scheduled and every blocking call of a worker has a timeout;
\* nobody owes the scan a cancellation.
Fairness == WF_vars(Main) /\ \A i \in Targets : WF_vars(Thread(i))

Spec     == Init /\ [][Next]_vars
FairSpec == Spec /\ Fairness
-----------------------------------------------------------------------------
(***************************************************************************)
(* Properties.                                                             *)
(***************************************************************************)
\* Variables keep their types; no index passes the number of targets.
TypeOK ==
  /\ pc \in {"fill", "refill", "wait", "deliver", "sweepTest", "sweep",
             "remainder", "report", "done"}
  /\ armed \in BOOLEAN
  /\ next \in 0..N
  /\ pending \subseteq Targets
  /\ worklist \subseteq Targets
  /\ future \in [Targets -> {"unsubmitted", "withdrawn"} \cup Live \cup Terminal]
  /\ outcome \in [Targets -> {"none"} \cup Terminal]
  /\ cancel \in BOOLEAN
  /\ late \subseteq Targets
  /\ feed \in [Targets -> Seq({"QUEUED"} \cup Stages \cup Terminal)]
  /\ progress \in Seq(Nat)
  /\ runStatus \in {"RUNNING", "COMPLETE", "PARTIAL", "FAILED", "CANCELLED"}

\* No more futures are outstanding than the pool has threads, and a future that
\* may still be working is one run() waits for: so when run() returns, and the
\* caller finalizes the evidence of the run, no device worker is left running.
NoStraggler ==
  /\ Cardinality(pending) <= Concurrency
  /\ \A i \in Targets : future[i] \in Live => i \in pending
  /\ pc \in {"remainder", "report", "done"} => pending = {}

\* A target's terminal event is its last one, and says what its outcome says:
\* no late progress report of a worker follows it in the queue.
TerminalEventLast ==
  \A i \in Targets : \A k \in 1..Len(feed[i]) :
    feed[i][k] \in Terminal => k = Len(feed[i]) /\ outcome[i] = feed[i][k]

\* The completed count of the PROGRESS events grows and never passes the number
\* of targets decided, although withdrawn futures are decided without one.
ProgressGrows ==
  /\ \A k \in 1..Len(progress) : progress[k] <= Cardinality(Decided)
  /\ \A k \in 2..Len(progress) : progress[k - 1] < progress[k]

\* A target that had not passed execute's check when cancellation was requested
\* is never connected to, however the submission raced the request.
LateNeverConnects ==
  \A i \in late :
    /\ \A k \in 1..Len(feed[i]) : feed[i][k] \in {"QUEUED", "CANCELLED"}
    /\ outcome[i] \in {"none", "CANCELLED"}

\* Failure isolation: without cancellation, every target is attempted, whatever
\* became of the others.
AllAttempted ==
  pc = "done" /\ ~cancel =>
    \A i \in Targets : \E k \in 1..Len(feed[i]) : feed[i][k] = "CONNECTING"

\* What the window is told is true: a device's last event is final, the count
\* only grows, a late cancellation reaches no device, and without cancellation
\* no device is skipped because of another.
FeedTellsTruth == TerminalEventLast /\ ProgressGrows /\ LateNeverConnects /\ AllAttempted

\* run() returns, under any schedule and any cancellation.
Termination == <>(pc = "done")

\* run() implements the contract of a scan.
Contract == INSTANCE ScanContract WITH status <- runStatus
ContractHolds == Contract!ContractSpec

\* The docstring of run(): all remaining targets receive a CANCELLED
\* outcome/event, so the last event of every target is its outcome.
EveryOutcomeAnnounced ==
  pc = "done" => \A i \in Targets : feed[i][Len(feed[i])] = outcome[i]
=============================================================================
