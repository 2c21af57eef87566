----------------------- MODULE ScanOrchestratorProofs -----------------------
(***************************************************************************)
(* Proofs about ScanOrchestrator for every number of targets, every pool   *)
(* size and every classification of connection errors.                     *)
(***************************************************************************)
EXTENDS ScanOrchestrator, FiniteSetTheorems, TLAPS

\* Where run() is, against the bookkeeping of its loops.
Flow ==
  /\ armed => pc \in {"fill", "refill"} /\ next < N /\ Cardinality(pending) < Concurrency
  /\ Cardinality(pending) <= Concurrency
  /\ pending \subseteq 1..next
  /\ worklist \subseteq pending
  /\ pc = "deliver" => worklist # {}
  /\ pc = "deliver" => \A i \in worklist : future[i] \in Terminal
  /\ pc = "sweep" => cancel
  /\ pc \in {"remainder", "report", "done"} => pending = {}
  /\ pc \in {"wait", "sweepTest"} => next = N \/ cancel \/ pending # {}
  /\ pc = "remainder" => next = N \/ cancel
  /\ pc # "done" => runStatus = "RUNNING"

\* Each target, against its future and its outcome.
Books ==
  \A i \in Targets :
    /\ future[i] = "unsubmitted" <=> i > next
    /\ future[i] \in Live => i \in pending
    /\ outcome[i] = "none" => i > next \/ i \in pending
    /\ outcome[i] = "none" => pc \notin {"report", "done"}
    /\ pc \notin {"report", "done"} => (i > next \/ i \in pending => outcome[i] = "none")
    /\ future[i] = "CANCELLED" => cancel
    /\ outcome[i] = "CANCELLED" => cancel

IInv == TypeOK /\ Flow /\ Books
-----------------------------------------------------------------------------
LEMMA SubsetsOfTargets ==
  ASSUME NEW S \in SUBSET Targets
  PROVE  IsFiniteSet(S) /\ Cardinality(S) \in Nat
<1>1. IsFiniteSet(Targets)
  BY ScanAssumption, FS_Interval DEF Targets
<1> QED
  BY <1>1, FS_Subset, FS_CardinalityType

LEMMA AppendAt ==
  ASSUME NEW E, NEW T, NEW f \in [T -> Seq(E)], NEW i \in T, NEW e \in E
  PROVE  [f EXCEPT ![i] = Append(@, e)] \in [T -> Seq(E)]
<1>1. f[i] \in Seq(E)
  OBVIOUS
<1>2. Append(f[i], e) \in Seq(E)
  BY <1>1
<1> QED
  BY <1>2

LEMMA Statuses ==
  /\ Failures \subseteq {"AUTH_FAILED", "CONNECT_FAILED", "COLLECTION_FAILED", "EVALUATION_FAILED"}
  /\ "EVALUATION_FAILED" \in Terminal /\ "COMPLETE" \in Terminal /\ "CANCELLED" \in Terminal
  /\ Failures \subseteq Terminal
  /\ Terminal \cap Live = {}
  /\ "none" \notin Terminal /\ "unsubmitted" \notin Terminal /\ "withdrawn" \notin Terminal
  /\ "queued" \notin Terminal
  /\ "unsubmitted" \notin Live /\ "withdrawn" \notin Live
  /\ Live = {"queued", "picked", "admitted", "CONNECTING", "COLLECTING", "PARSING", "EVALUATING"}
  BY ScanAssumption DEF Failures, Terminal, Live, Stages

LEMMA InitIInv == Init => IInv
<1> SUFFICES ASSUME Init PROVE IInv
  OBVIOUS
<1>1. Cardinality({}) = 0
  BY FS_EmptySet
<1>2. TypeOK
  <2>1. <<"QUEUED">> \in Seq({"QUEUED"} \cup Stages \cup Terminal)
    OBVIOUS
  <2>2. feed \in [Targets -> Seq({"QUEUED"} \cup Stages \cup Terminal)]
    BY <2>1 DEF Init
  <2>3. progress \in Seq(Nat) /\ next \in 0..N
    BY ScanAssumption DEF Init
  <2>4. future \in [Targets -> {"unsubmitted", "withdrawn"} \cup Live \cup Terminal]
    BY DEF Init
  <2>5. outcome \in [Targets -> {"none"} \cup Terminal]
    BY DEF Init
  <2> QED
    BY <2>2, <2>3, <2>4, <2>5 DEF Init, TypeOK
<1>3. Flow
  BY <1>1, ScanAssumption DEF Init, Flow
<1>4. Books
  BY Statuses, ScanAssumption DEF Init, Books, Targets
<1> QED
  BY <1>2, <1>3, <1>4 DEF IInv

-----------------------------------------------------------------------------
(***************************************************************************)
(* The steps of the calling thread.                                        *)
(***************************************************************************)
LEMMA MainStep == IInv /\ Main => IInv'
<1> SUFFICES ASSUME IInv, Main PROVE IInv'
  OBVIOUS
<1> USE ScanAssumption, Statuses
<1>0. TypeOK /\ Flow /\ Books /\ IsFiniteSet(pending) /\ Cardinality(pending) \in Nat
  BY SubsetsOfTargets DEF IInv, TypeOK
<1>1. CASE TestRoom
  <2>1. TypeOK'
    BY <1>0, <1>1 DEF TestRoom, TypeOK, cancelVars
  <2>2. Flow'
    BY <1>0, <1>1 DEF TestRoom, RoomToSubmit, TypeOK, Flow, cancelVars
  <2>3. Books'
    BY <1>0, <1>1 DEF TestRoom, Books, cancelVars
  <2> QED BY <2>1, <2>2, <2>3 DEF IInv
<1>2. CASE Submit
  <2>1. next + 1 \in Targets /\ next + 1 \notin pending
    BY <1>0, <1>2 DEF Submit, TypeOK, Flow, Targets
  <2>2. TypeOK'
    <3>1. future' \in [Targets -> {"unsubmitted", "withdrawn"} \cup Live \cup Terminal]
      BY <1>0, <1>2 DEF Submit, TypeOK
    <3>2. next' \in 0..N /\ pending' \subseteq Targets
      BY <1>0, <1>2, <2>1 DEF Submit, TypeOK, Targets
    <3> QED BY <1>0, <1>2, <3>1, <3>2 DEF Submit, TypeOK, cancelVars
  <2>3. Cardinality(pending') = Cardinality(pending) + 1
    BY <1>0, <1>2, <2>1, FS_AddElement DEF Submit
  <2>4. Flow'
    BY <1>0, <1>2, <2>1, <2>3 DEF Submit, TypeOK, Flow, cancelVars
  <2>5. Books'
    BY <1>0, <1>2, <2>1 DEF Submit, TypeOK, Flow, Books, Targets, cancelVars
  <2> QED BY <2>2, <2>4, <2>5 DEF IInv
<1>3. CASE LeaveLoop
  <2>1. TypeOK'
    BY <1>0, <1>3 DEF LeaveLoop, TypeOK, cancelVars
  <2>2. next = N \/ cancel \/ pending # {}
    BY <1>0, <1>3, FS_EmptySet DEF LeaveLoop, RoomToSubmit, TypeOK, Flow
  <2>3. Flow'
    BY <1>0, <1>3, <2>2 DEF LeaveLoop, TypeOK, Flow, cancelVars
  <2>4. Books'
    BY <1>0, <1>3 DEF LeaveLoop, Books, cancelVars
  <2> QED BY <2>1, <2>3, <2>4 DEF IInv
<1>4. CASE WaitFirst
  <2>1. TypeOK'
    BY <1>0, <1>4 DEF WaitFirst, TypeOK, cancelVars
  <2>2. Flow'
    BY <1>0, <1>4 DEF WaitFirst, TypeOK, Flow, cancelVars
  <2>3. Books'
    BY <1>0, <1>4 DEF WaitFirst, Books, cancelVars
  <2> QED BY <2>1, <2>2, <2>3 DEF IInv
<1>5. ASSUME NEW i \in Targets, Deliver(i) PROVE IInv'
  <2>1. i \in pending /\ future[i] \in Terminal /\ i <= next
    BY <1>0, <1>5 DEF Deliver, Flow, TypeOK, Targets
  <2>2. Cardinality(Decided) + 1 \in Nat
    BY SubsetsOfTargets DEF Decided
  <2>3. TypeOK'
    <3>1. feed' \in [Targets -> Seq({"QUEUED"} \cup Stages \cup Terminal)]
      BY <1>0, <1>5, <2>1, AppendAt DEF Deliver, TypeOK
    <3>2. progress' \in Seq(Nat)
      BY <1>0, <1>5, <2>2 DEF Deliver, TypeOK
    <3> QED BY <1>0, <1>5, <2>1, <3>1, <3>2 DEF Deliver, TypeOK, cancelVars
  <2>4. Cardinality(pending') = Cardinality(pending) - 1
    BY <1>0, <1>5, <2>1, FS_RemoveElement DEF Deliver
  <2>5. Flow'
    BY <1>0, <1>5, <2>4 DEF Deliver, TypeOK, Flow, cancelVars
  <2>6. Books'
    BY <1>0, <1>5, <2>1 DEF Deliver, TypeOK, Flow, Books, Targets, cancelVars
  <2> QED BY <2>3, <2>5, <2>6 DEF IInv
<1>6. CASE SweepTest
  <2>1. TypeOK'
    BY <1>0, <1>6 DEF SweepTest, TypeOK, cancelVars
  <2>2. Flow'
    BY <1>0, <1>6 DEF SweepTest, TypeOK, Flow, cancelVars
  <2>3. Books'
    BY <1>0, <1>6 DEF SweepTest, Books, cancelVars
  <2> QED BY <2>1, <2>2, <2>3 DEF IInv
<1>7. ASSUME NEW i \in Targets, Withdraw(i) PROVE IInv'
  <2>1. i \in pending /\ i <= next /\ cancel
    BY <1>0, <1>7 DEF Withdraw, Flow, TypeOK, Targets
  <2>2. TypeOK'
    BY <1>0, <1>7 DEF Withdraw, TypeOK, cancelVars
  <2>3. Cardinality(pending') = Cardinality(pending) - 1
    BY <1>0, <1>7, <2>1, FS_RemoveElement DEF Withdraw
  <2>4. Flow'
    BY <1>0, <1>7, <2>3 DEF Withdraw, TypeOK, Flow, cancelVars
  <2>5. Books'
    BY <1>0, <1>7, <2>1 DEF Withdraw, TypeOK, Flow, Books, Targets, cancelVars
  <2> QED BY <2>2, <2>4, <2>5 DEF IInv
<1>8. ASSUME NEW i \in Targets, LeaveRunning(i) PROVE IInv'
  <2>1. TypeOK'
    BY <1>0, <1>8 DEF LeaveRunning, TypeOK, cancelVars
  <2>2. Flow'
    BY <1>0, <1>8 DEF LeaveRunning, TypeOK, Flow, cancelVars
  <2>3. Books'
    BY <1>0, <1>8 DEF LeaveRunning, Books, cancelVars
  <2> QED BY <2>1, <2>2, <2>3 DEF IInv
<1>9. CASE EndSweep
  <2>1. TypeOK'
    BY <1>0, <1>9 DEF EndSweep, TypeOK, cancelVars
  <2>2. Flow'
    BY <1>0, <1>9 DEF EndSweep, TypeOK, Flow, cancelVars
  <2>3. Books'
    BY <1>0, <1>9 DEF EndSweep, Books, cancelVars
  <2> QED BY <2>1, <2>2, <2>3 DEF IInv
<1>10. CASE Drained
  <2>1. TypeOK'
    BY <1>0, <1>10 DEF Drained, TypeOK, cancelVars
  <2>2. Flow'
    BY <1>0, <1>10 DEF Drained, TypeOK, Flow, cancelVars
  <2>3. Books'
    BY <1>0, <1>10 DEF Drained, Books, cancelVars
  <2> QED BY <2>1, <2>2, <2>3 DEF IInv
<1>11. CASE CancelRemainder
  <2>1. TypeOK'
    BY <1>0, <1>11 DEF CancelRemainder, TypeOK, cancelVars
  <2>2. Flow'
    BY <1>0, <1>11 DEF CancelRemainder, TypeOK, Flow, cancelVars
  <2>3. Books'
    BY <1>0, <1>11 DEF CancelRemainder, TypeOK, Flow, Books, Targets, cancelVars
  <2> QED BY <2>1, <2>2, <2>3 DEF IInv
<1>12. CASE Report
  <2>1. TypeOK'
    BY <1>0, <1>12 DEF Report, RunStatus, TypeOK, cancelVars
  <2>2. Flow'
    BY <1>0, <1>12 DEF Report, TypeOK, Flow, cancelVars
  <2>3. Books'
    BY <1>0, <1>12 DEF Report, Books, cancelVars
  <2> QED BY <2>1, <2>2, <2>3 DEF IInv
<1> QED
  BY <1>1, <1>2, <1>3, <1>4, <1>5, <1>6, <1>7, <1>8, <1>9, <1>10, <1>11, <1>12 DEF Main

(***************************************************************************)
(* The steps of the pool threads.                                          *)
(***************************************************************************)
LEMMA ThreadStep ==
  ASSUME IInv, NEW i \in Targets, Thread(i)
  PROVE  IInv'
<1> USE ScanAssumption, Statuses
<1>0. TypeOK /\ Flow /\ Books
  BY DEF IInv
<1>1. PICK s \in Live \cup Terminal :
        /\ future[i] \in Live
        /\ future' = [future EXCEPT ![i] = s]
        /\ s = "CANCELLED" => cancel
        /\ feed' \in [Targets -> Seq({"QUEUED"} \cup Stages \cup Terminal)]
  <2>1. CASE PickUp(i)
    BY <1>0, <2>1 DEF PickUp, TypeOK
  <2>2. CASE Admit(i)
    BY <1>0, <2>2 DEF Admit, TypeOK
  <2>3. CASE Advance(i)
    <3>1. StageAfter(future[i]) \in Stages
      BY <2>3 DEF Advance, StageAfter, Stages
    <3>2. feed' \in [Targets -> Seq({"QUEUED"} \cup Stages \cup Terminal)]
      BY <1>0, <2>3, <3>1, AppendAt DEF Advance, TypeOK
    <3>3. StageAfter(future[i]) \in Live /\ StageAfter(future[i]) # "CANCELLED"
      BY <3>1 DEF Live, Stages
    <3> QED BY <1>0, <2>3, <3>2, <3>3 DEF Advance
  <2>4. CASE Return(i)
    <3>1. PICK s \in Returns(i) : future' = [future EXCEPT ![i] = s]
      BY <2>4 DEF Return
    <3>2. future[i] \in {"EVALUATING", "PARSING", "COLLECTING", "CONNECTING"}
      BY <3>1 DEF Returns
    <3>3. s \in Terminal /\ (s = "CANCELLED" => cancel)
      BY <3>1, <3>2 DEF Returns
    <3> QED BY <1>0, <2>4, <3>1, <3>2, <3>3 DEF Return, TypeOK
  <2> QED BY <2>1, <2>2, <2>3, <2>4 DEF Thread
<1>2. UNCHANGED <<mainVars, cancelVars>>
  BY DEF Thread, PickUp, Admit, Advance, Return
<1>3. TypeOK'
  BY <1>0, <1>1, <1>2 DEF TypeOK, mainVars, cancelVars
<1>4. Flow'
  BY <1>0, <1>1, <1>2 DEF TypeOK, Flow, mainVars, cancelVars
<1>5. Books'
  BY <1>0, <1>1, <1>2 DEF TypeOK, Books, mainVars, cancelVars
<1> QED
  BY <1>3, <1>4, <1>5 DEF IInv

LEMMA StepIInv == IInv /\ [Next]_vars => IInv'
<1> SUFFICES ASSUME IInv, [Next]_vars PROVE IInv'
  OBVIOUS
<1>1. CASE Main
  BY <1>1, MainStep
<1>2. ASSUME NEW i \in Targets, Thread(i) PROVE IInv'
  BY <1>2, ThreadStep
<1>3. CASE RequestCancel
  BY <1>3 DEF RequestCancel, IInv, TypeOK, Flow, Books, mainVars, Targets
<1>4. CASE UNCHANGED vars
  BY <1>4 DEF vars, mainVars, cancelVars, IInv, TypeOK, Flow, Books
<1> QED
  BY <1>1, <1>2, <1>3, <1>4 DEF Next, Returned

\* The bookkeeping of run() and of its threads is an invariant of every scan.
THEOREM Bookkeeping == Spec => []IInv
  BY InitIInv, StepIInv, PTL DEF Spec

\* Type correctness.
THEOREM TypeCorrect == Spec => []TypeOK
<1>1. IInv => TypeOK
  BY DEF IInv
<1> QED
  BY Bookkeeping, <1>1, PTL

\* No worker outlives run(), and no more futures than threads are outstanding,
\* for every pool size and number of targets.
THEOREM NoStragglerHolds == Spec => []NoStraggler
<1>1. IInv => NoStraggler
  BY DEF IInv, Flow, Books, NoStraggler
<1> QED
  BY Bookkeeping, <1>1, PTL
-----------------------------------------------------------------------------
(***************************************************************************)
(* run() implements the contract: deliveries, withdrawals and the          *)
(* cancelled remainder decide targets, Report closes the run, and every    *)
(* other step of the pool or of run() stutters.                            *)
(***************************************************************************)
LEMMA DecideOne ==
  ASSUME IInv, NEW i \in Targets, outcome[i] = "none",
         NEW s \in Terminal, s = "CANCELLED" => cancel,
         outcome' = [outcome EXCEPT ![i] = s],
         UNCHANGED <<cancel, runStatus>>
  PROVE  Contract!ContractNext
<1>1. outcome \in [Targets -> {"none"} \cup Terminal]
  BY DEF IInv, TypeOK
<1>2. {i} \subseteq Contract!Undecided /\ Contract!Targets = Targets /\ Contract!Terminal = Terminal
  BY DEF Contract!Undecided, Contract!Targets, Targets, Contract!Terminal, Terminal,
         Contract!Failures, Failures
<1>3. DEFINE f == [j \in {i} |-> s]
<1>4. f \in [{i} -> Terminal] /\ \A j \in {i} : f[j] = "CANCELLED" => cancel
  OBVIOUS
<1>5. outcome' = [j \in Targets |-> IF j \in {i} THEN f[j] ELSE outcome[j]]
  BY <1>1
<1> HIDE DEF f
<1>6. Contract!Decide({i})
  BY <1>2, <1>4, <1>5 DEF Contract!Decide
<1>7. {i} \in SUBSET Contract!Targets /\ {i} # {}
  BY <1>2
<1> QED
  BY <1>6, <1>7 DEF Contract!ContractNext

LEMMA RemainderDecides ==
  ASSUME IInv, CancelRemainder
  PROVE  Contract!ContractNext \/ UNCHANGED Contract!contractVars
<1> DEFINE T == {i \in Targets : i > next}
           f == [j \in T |-> "CANCELLED"]
<1>1. outcome \in [Targets -> {"none"} \cup Terminal] /\ next \in 0..N
  BY DEF IInv, TypeOK
<1>2. outcome' = [i \in Targets |-> IF i \in T THEN "CANCELLED" ELSE outcome[i]]
  BY DEF CancelRemainder
<1>3. UNCHANGED <<cancel, runStatus>>
  BY DEF CancelRemainder, cancelVars
<1>4. CASE T = {}
  <2>1. outcome' = outcome
    BY <1>1, <1>2, <1>4
  <2> QED BY <2>1, <1>3 DEF Contract!contractVars
<1>5. CASE T # {}
  <2>1. cancel
    BY <1>1, <1>5, ScanAssumption DEF CancelRemainder, IInv, Flow, Targets
  <2>2. T \subseteq Contract!Undecided /\ Contract!Targets = Targets /\ Contract!Terminal = Terminal
    BY DEF IInv, Books, CancelRemainder, Contract!Undecided, Contract!Targets, Targets,
           Contract!Terminal, Terminal, Contract!Failures, Failures
  <2>3. f \in [T -> Terminal]
    BY Statuses
  <2>4. outcome' = [i \in Targets |-> IF i \in T THEN f[i] ELSE outcome[i]]
    BY <1>2
  <2>5. T \in SUBSET Contract!Targets /\ T # {}
    BY <1>5, <2>2
  <2> HIDE DEF f, T
  <2>6. Contract!Decide(T)
    BY <1>3, <2>1, <2>2, <2>3, <2>4 DEF Contract!Decide
  <2> QED BY <2>5, <2>6 DEF Contract!ContractNext
<1> QED
  BY <1>4, <1>5

LEMMA ReportCloses ==
  ASSUME IInv, Report
  PROVE  Contract!Close
<1> USE Statuses
<1>1. /\ outcome \in [Targets -> {"none"} \cup Terminal]
      /\ runStatus = "RUNNING"
      /\ \A i \in Targets : outcome[i] # "none" /\ (outcome[i] = "CANCELLED" => cancel)
  BY DEF IInv, TypeOK, Flow, Books, Report
<1>2. /\ Contract!Targets = Targets
      /\ Contract!Failures = Failures
      /\ Contract!Having("COMPLETE") = Having("COMPLETE")
      /\ Contract!Failed = {i \in Targets : outcome[i] \in Failures}
      /\ Contract!Undecided = {}
  BY <1>1 DEF Contract!Targets, Targets, Contract!Failures, Failures, Contract!Having, Having,
              Contract!Failed, Contract!Undecided
<1>3. \A i \in Targets : outcome[i] \in Failures \cup {"COMPLETE", "CANCELLED"}
  BY <1>1 DEF Terminal
<1>4. RunStatus \in {"COMPLETE", "PARTIAL", "FAILED", "CANCELLED"}
  BY DEF RunStatus
<1>5. N = 0 => Targets = {}
  BY DEF Targets
<1>5a. N # 0 => Targets # {}
  BY ScanAssumption DEF Targets
<1>6. Contract!DocumentedStatus(RunStatus)
  <2>1. CASE N = 0
    BY <1>2, <1>5, <2>1 DEF RunStatus, Having, Contract!DocumentedStatus
  <2>2. CASE N # 0 /\ Having("COMPLETE") # {}
    BY <1>2, <2>2 DEF RunStatus, Contract!DocumentedStatus
  <2>3. CASE N # 0 /\ Having("COMPLETE") = {} /\ Having("CANCELLED") = Targets
    <3>1. cancel
      BY <1>1, <1>5a, <2>3 DEF Having
    <3>2. Contract!Failed = {}
      BY <1>2, <2>3 DEF Having
    <3>3. RunStatus = "CANCELLED"
      BY <1>5a, <2>3 DEF RunStatus
    <3> QED BY <1>2, <2>3, <3>1, <3>2, <3>3 DEF Contract!DocumentedStatus
  <2>4. CASE N # 0 /\ Having("COMPLETE") = {} /\ Having("CANCELLED") # Targets
    <3>1. PICK i \in Targets : outcome[i] # "CANCELLED"
      BY <2>4 DEF Having
    <3>2. outcome[i] \in Failures
      BY <1>3, <2>4, <3>1 DEF Having
    <3>3. Contract!Failed # {}
      BY <1>2, <3>2
    <3>4. Targets \ (Having("COMPLETE") \cup Having("CANCELLED")) # {}
      BY <2>4, <3>1 DEF Having
    <3>5. RunStatus = "FAILED"
      BY <1>5a, <2>4, <3>4 DEF RunStatus
    <3> QED BY <1>2, <2>4, <3>3, <3>5 DEF Contract!DocumentedStatus
  <2> QED BY <2>1, <2>2, <2>3, <2>4
<1> QED
  BY <1>1, <1>2, <1>4, <1>6 DEF Report, cancelVars, Contract!Close

LEMMA StepContract ==
  IInv /\ [Next]_vars => [Contract!ContractNext]_(Contract!contractVars)
<1> SUFFICES ASSUME IInv, [Next]_vars
             PROVE  Contract!ContractNext \/ UNCHANGED Contract!contractVars
  OBVIOUS
<1>1. CASE TestRoom \/ Submit \/ LeaveLoop \/ WaitFirst \/ SweepTest \/ EndSweep \/ Drained
  BY <1>1 DEF TestRoom, Submit, LeaveLoop, WaitFirst, SweepTest, EndSweep, Drained,
              cancelVars, Contract!contractVars
<1>2. ASSUME NEW i \in Targets, Deliver(i) PROVE Contract!ContractNext
  <2>1. outcome[i] = "none" /\ future[i] \in Terminal /\ (future[i] = "CANCELLED" => cancel)
    BY <1>2 DEF Deliver, IInv, TypeOK, Flow, Books
  <2> QED BY <1>2, <2>1, DecideOne DEF Deliver, cancelVars
<1>3. ASSUME NEW i \in Targets, Withdraw(i) PROVE Contract!ContractNext
  <2>1. outcome[i] = "none" /\ cancel
    BY <1>3 DEF Withdraw, IInv, TypeOK, Flow, Books
  <2> QED BY <1>3, <2>1, DecideOne, Statuses DEF Withdraw, cancelVars
<1>4. ASSUME NEW i \in Targets, LeaveRunning(i) PROVE UNCHANGED Contract!contractVars
  BY <1>4 DEF LeaveRunning, cancelVars, Contract!contractVars
<1>5. CASE CancelRemainder
  BY <1>5, RemainderDecides
<1>6. CASE Report
  BY <1>6, ReportCloses DEF Contract!ContractNext
<1>7. ASSUME NEW i \in Targets, Thread(i) PROVE UNCHANGED Contract!contractVars
  BY <1>7 DEF Thread, PickUp, Admit, Advance, Return, mainVars, cancelVars, Contract!contractVars
<1>8. CASE RequestCancel
  BY <1>8 DEF RequestCancel, mainVars, Contract!RequestCancellation, Contract!ContractNext
<1>9. CASE UNCHANGED vars
  BY <1>9 DEF vars, mainVars, cancelVars, Contract!contractVars
<1> QED
  BY <1>1, <1>2, <1>3, <1>4, <1>5, <1>6, <1>7, <1>8, <1>9 DEF Next, Main, Returned

\* The orchestrator, with its threads, pool and cancellation races, implements
\* the scan contract: every target decided once, CANCELLED only on request, and
\* the run status the documentation defines.
THEOREM ImplementsContract == Spec => ContractHolds
<1>1. Init => Contract!ContractInit
  BY DEF Init, Contract!ContractInit, Targets, Contract!Targets
<1> QED
  BY <1>1, StepContract, Bookkeeping, PTL DEF Spec, ContractHolds, Contract!ContractSpec
-----------------------------------------------------------------------------
(***************************************************************************)
(* What the consumer of the queue is told.  Beside the parts of            *)
(* FeedTellsTruth themselves, the invariant says what the stage of a       *)
(* target's future means for its events.                                   *)
(***************************************************************************)
NotAdmitted == {"unsubmitted", "queued", "picked"}

\* A target that no worker was admitted for has been announced, at most
\* cancelled, and nothing else.
Untouched ==
  \A i \in Targets : future[i] \in NotAdmitted =>
    /\ \A k \in 1..Len(feed[i]) : feed[i][k] \in {"QUEUED", "CANCELLED"}
    /\ outcome[i] \in {"none", "CANCELLED"}

\* Where the future of a late target can get to.
LateStays ==
  \A i \in late : cancel /\ future[i] \in NotAdmitted \cup {"withdrawn", "CANCELLED"}

\* Without cancellation every target is submitted, and a worker that reached a
\* stage or an outcome has connected first.
Attempted ==
  /\ pc \in {"report", "done"} => next = N \/ cancel
  /\ \A i \in Targets : ~cancel =>
       /\ future[i] # "withdrawn"
       /\ future[i] \in Stages \cup Terminal =>
            \E k \in 1..Len(feed[i]) : feed[i][k] = "CONNECTING"

Told == TerminalEventLast /\ ProgressGrows /\ LateNeverConnects
        /\ Untouched /\ LateStays /\ Attempted
-----------------------------------------------------------------------------
\* A step of run() that decides nothing and tells nothing.
LEMMA Silent ==
  ASSUME Told, UNCHANGED <<future, outcome, feed, progress, cancel, late>>,
         next' = next, pc' \in {"report", "done"} => pc \in {"report", "done"}
  PROVE  Told'
<1>1. TerminalEventLast' /\ ProgressGrows' /\ LateNeverConnects'
  BY DEF Told, TerminalEventLast, ProgressGrows, LateNeverConnects, Decided
<1>2. Untouched' /\ LateStays' /\ Attempted'
  BY DEF Told, Untouched, LateStays, Attempted
<1> QED
  BY <1>1, <1>2 DEF Told

\* What an event adds to a target's feed: nothing before it is disturbed.
LEMMA OneMore ==
  ASSUME TypeOK, NEW i \in Targets, NEW e \in {"QUEUED"} \cup Stages \cup Terminal
  PROVE  LET t == [feed EXCEPT ![i] = Append(@, e)] IN
         /\ Len(feed[i]) \in Nat
         /\ Len(t[i]) = Len(feed[i]) + 1
         /\ t[i][Len(feed[i]) + 1] = e
         /\ \A k \in 1..Len(feed[i]) : t[i][k] = feed[i][k]
         /\ \A j \in Targets : j # i => t[j] = feed[j]
<1>1. feed[i] \in Seq({"QUEUED"} \cup Stages \cup Terminal) /\ DOMAIN feed = Targets
  BY DEF TypeOK
<1> QED
  BY <1>1

\* One more decided target is one more in the count.
LEMMA DecidedGrows ==
  ASSUME IInv, NEW i \in Targets, outcome[i] = "none", NEW s \in Terminal,
         outcome' = [outcome EXCEPT ![i] = s]
  PROVE  Cardinality(Decided) \in Nat /\ Cardinality(Decided') = Cardinality(Decided) + 1
<1>1. Decided' = Decided \cup {i} /\ i \notin Decided
  BY Statuses DEF IInv, TypeOK, Decided
<1>2. IsFiniteSet(Decided) /\ Cardinality(Decided) \in Nat
  BY SubsetsOfTargets DEF Decided
<1> QED
  BY <1>1, <1>2, FS_AddElement

LEMMA InitTold == Init => Told
<1> SUFFICES ASSUME Init PROVE Told
  OBVIOUS
<1>1. \A i \in Targets : Len(feed[i]) = 1 /\ feed[i][1] = "QUEUED"
  BY DEF Init
<1>2. "QUEUED" \notin Terminal
  BY ScanAssumption DEF Terminal, Failures
<1>3. TerminalEventLast
  BY <1>1, <1>2 DEF TerminalEventLast
<1>4. ProgressGrows /\ LateNeverConnects /\ LateStays
  BY DEF Init, ProgressGrows, LateNeverConnects, LateStays
<1>5. Untouched
  BY <1>1 DEF Init, Untouched
<1>6. Attempted
  BY Statuses DEF Init, Attempted, Stages
<1> QED
  BY <1>3, <1>4, <1>5, <1>6 DEF Told

LEMMA SubmitTold == IInv /\ Told /\ Submit => Told'
<1> SUFFICES ASSUME IInv, Told, Submit PROVE Told'
  OBVIOUS
<1>1. next + 1 \in Targets /\ future[next + 1] = "unsubmitted" /\ pc \notin {"report", "done"}
  <2>1. next + 1 \in Targets /\ next + 1 > next /\ pc \notin {"report", "done"}
    BY ScanAssumption DEF IInv, TypeOK, Flow, Submit, Targets
  <2> QED BY <2>1 DEF IInv, Books
<1>2. future \in [Targets -> {"unsubmitted", "withdrawn"} \cup Live \cup Terminal]
  BY DEF IInv, TypeOK
<1>3. TerminalEventLast' /\ ProgressGrows' /\ LateNeverConnects'
  BY DEF Told, Submit, cancelVars, TerminalEventLast, ProgressGrows, LateNeverConnects, Decided
<1>4. Untouched'
  BY <1>1, <1>2 DEF Told, Submit, Untouched, NotAdmitted
<1>5. LateStays'
  BY <1>1, <1>2 DEF Told, Submit, cancelVars, LateStays, NotAdmitted, LateNeverConnects
<1>6. Attempted'
  BY <1>1, <1>2, Statuses DEF Told, Submit, cancelVars, Attempted, Stages
<1> QED
  BY <1>3, <1>4, <1>5, <1>6 DEF Told

LEMMA DeliverTold ==
  ASSUME IInv, Told, NEW i \in Targets, Deliver(i)
  PROVE  Told'
<1> DEFINE s == future[i]
<1>1. /\ outcome[i] = "none" /\ s \in Terminal
      /\ outcome \in [Targets -> {"none"} \cup Terminal]
      /\ outcome' = [outcome EXCEPT ![i] = s]
      /\ UNCHANGED <<future, cancel, late, next>>
      /\ pc \notin {"report", "done"} /\ pc' \notin {"report", "done"}
  BY DEF Deliver, cancelVars, IInv, TypeOK, Flow, Books
<1>2. /\ Len(feed[i]) \in Nat
      /\ Len(feed'[i]) = Len(feed[i]) + 1
      /\ feed'[i][Len(feed[i]) + 1] = s
      /\ \A k \in 1..Len(feed[i]) : feed'[i][k] = feed[i][k]
      /\ \A j \in Targets : j # i => feed'[j] = feed[j]
  <2>1. TypeOK /\ s \in {"QUEUED"} \cup Stages \cup Terminal
    BY <1>1 DEF IInv
  <2>2. feed' = [feed EXCEPT ![i] = Append(@, s)]
    BY DEF Deliver
  <2> HIDE DEF s
  <2> QED BY <2>1, <2>2, OneMore
<1>3. s \notin NotAdmitted
  BY <1>1, ScanAssumption DEF NotAdmitted, Terminal, Failures
<1> HIDE DEF s
<1>4. TerminalEventLast'
  <2>1. \A k \in 1..Len(feed[i]) : feed[i][k] \notin Terminal
    BY <1>1, Statuses DEF Told, TerminalEventLast
  <2>2. outcome'[i] = s /\ \A j \in Targets : j # i => outcome'[j] = outcome[j]
    BY <1>1
  <2>3. \A k \in 1..Len(feed'[i]) : feed'[i][k] \in Terminal => k = Len(feed'[i]) /\ outcome'[i] = feed'[i][k]
    BY <1>2, <2>1, <2>2
  <2> QED BY <1>2, <2>2, <2>3 DEF Told, TerminalEventLast
<1>5. ProgressGrows'
  <2>1. progress' = Append(progress, Cardinality(Decided) + 1)
    BY DEF Deliver
  <2>2. Cardinality(Decided) \in Nat /\ Cardinality(Decided') = Cardinality(Decided) + 1
    BY <1>1, DecidedGrows
  <2>3. progress \in Seq(Nat)
    BY DEF IInv, TypeOK
  <2> QED BY <2>1, <2>2, <2>3 DEF Told, ProgressGrows
<1>6. LateNeverConnects'
  <2>1. i \in late => s = "CANCELLED"
    BY <1>1, <1>3, Statuses DEF Told, LateStays, s
  <2>2. \A j \in Targets : outcome'[j] = IF j = i THEN s ELSE outcome[j]
    BY <1>1
  <2>3. late' = late /\ late \subseteq Targets
    BY <1>1 DEF IInv, TypeOK
  <2> QED BY <1>2, <2>1, <2>2, <2>3 DEF Told, LateNeverConnects
<1>7. Untouched'
  <2>1. \A j \in Targets : j # i => outcome'[j] = outcome[j]
    BY <1>1
  <2> QED BY <1>1, <1>2, <1>3, <2>1 DEF Told, Untouched, s
<1>8. LateStays'
  BY <1>1 DEF Told, LateStays
<1>9. Attempted'
  <2>1. \A k \in 1..Len(feed[i]) : k \in 1..Len(feed'[i])
    BY <1>2
  <2> QED BY <1>1, <1>2, <2>1 DEF Told, Attempted
<1> QED
  BY <1>4, <1>5, <1>6, <1>7, <1>8, <1>9 DEF Told

LEMMA WithdrawTold ==
  ASSUME IInv, Told, NEW i \in Targets, Withdraw(i)
  PROVE  Told'
<1>1. /\ outcome[i] = "none" /\ future[i] = "queued" /\ cancel
      /\ outcome \in [Targets -> {"none"} \cup Terminal]
      /\ future \in [Targets -> {"unsubmitted", "withdrawn"} \cup Live \cup Terminal]
      /\ late \subseteq Targets
      /\ outcome' = [outcome EXCEPT ![i] = "CANCELLED"]
      /\ future' = [future EXCEPT ![i] = "withdrawn"]
      /\ UNCHANGED <<feed, progress, cancel, late, next>>
      /\ pc \notin {"report", "done"} /\ pc' \notin {"report", "done"}
  BY DEF Withdraw, cancelVars, IInv, TypeOK, Flow, Books
<1>2. TerminalEventLast'
  BY <1>1, Statuses DEF Told, TerminalEventLast
<1>3. ProgressGrows'
  <2>1. Cardinality(Decided) \in Nat /\ Cardinality(Decided') = Cardinality(Decided) + 1
    BY <1>1, DecidedGrows, Statuses
  <2>2. progress \in Seq(Nat) /\ progress' = progress
    BY <1>1 DEF IInv, TypeOK
  <2> QED BY <2>1, <2>2 DEF Told, ProgressGrows
<1>4. LateNeverConnects'
  BY <1>1 DEF Told, LateNeverConnects
<1>5. Untouched'
  BY <1>1 DEF Told, Untouched, NotAdmitted
<1>6. LateStays'
  BY <1>1 DEF Told, LateStays
<1>7. Attempted'
  BY <1>1 DEF Told, Attempted
<1> QED
  BY <1>2, <1>3, <1>4, <1>5, <1>6, <1>7 DEF Told

LEMMA RemainderTold == IInv /\ Told /\ CancelRemainder => Told'
<1> SUFFICES ASSUME IInv, Told, CancelRemainder PROVE Told'
  OBVIOUS
<1>1. /\ next = N \/ cancel
      /\ \A i \in Targets : i > next => outcome[i] = "none" /\ future[i] = "unsubmitted"
      /\ outcome' = [i \in Targets |-> IF i > next THEN "CANCELLED" ELSE outcome[i]]
      /\ UNCHANGED <<future, progress, cancel, late, next>>
      /\ late \subseteq Targets /\ progress \in Seq(Nat)
  BY DEF CancelRemainder, cancelVars, IInv, TypeOK, Flow, Books
<1>2. \A i \in Targets :
        /\ ~ i > next => feed'[i] = feed[i]
        /\ i > next => /\ Len(feed[i]) \in Nat
                       /\ Len(feed'[i]) = Len(feed[i]) + 1
                       /\ feed'[i][Len(feed[i]) + 1] = "CANCELLED"
                       /\ \A k \in 1..Len(feed[i]) : feed'[i][k] = feed[i][k]
  <2> SUFFICES ASSUME NEW i \in Targets
               PROVE  /\ ~ i > next => feed'[i] = feed[i]
                      /\ i > next => /\ Len(feed[i]) \in Nat
                                     /\ Len(feed'[i]) = Len(feed[i]) + 1
                                     /\ feed'[i][Len(feed[i]) + 1] = "CANCELLED"
                                     /\ \A k \in 1..Len(feed[i]) : feed'[i][k] = feed[i][k]
    OBVIOUS
  <2>1. feed'[i] = IF i > next THEN Append(feed[i], "CANCELLED") ELSE feed[i]
    BY DEF CancelRemainder
  <2>2. feed[i] \in Seq({"QUEUED"} \cup Stages \cup Terminal) /\ "CANCELLED" \in Terminal
    BY Statuses DEF IInv, TypeOK
  <2>3. CASE i > next
    <3>1. feed'[i] = Append(feed[i], "CANCELLED")
      BY <2>1, <2>3
    <3> QED BY <2>2, <2>3, <3>1
  <2> QED BY <2>1, <2>3
<1>3. TerminalEventLast'
  <2> SUFFICES ASSUME NEW i \in Targets, NEW k \in 1..Len(feed'[i]), feed'[i][k] \in Terminal
               PROVE  k = Len(feed'[i]) /\ outcome'[i] = feed'[i][k]
    BY DEF TerminalEventLast
  <2>1. CASE i > next
    <3>1. \A m \in 1..Len(feed[i]) : feed[i][m] \notin Terminal
      BY <1>1, <2>1, Statuses DEF Told, TerminalEventLast
    <3>2. k = Len(feed[i]) + 1
      BY <1>2, <2>1, <3>1
    <3> QED BY <1>1, <1>2, <2>1, <3>2
  <2>2. CASE ~ i > next
    BY <1>1, <1>2, <2>2 DEF Told, TerminalEventLast
  <2> QED BY <2>1, <2>2
<1>4. ProgressGrows'
  <2>1. Decided \subseteq Decided'
    BY <1>1 DEF Decided
  <2>2. Cardinality(Decided) <= Cardinality(Decided') /\ Cardinality(Decided) \in Nat
        /\ Cardinality(Decided') \in Nat
    <3>1. Decided \in SUBSET Targets /\ Decided' \in SUBSET Targets
      BY DEF Decided
    <3> QED BY <2>1, <3>1, SubsetsOfTargets, FS_Subset
  <2> QED BY <1>1, <2>2 DEF Told, ProgressGrows
<1>5. LateNeverConnects'
  <2> SUFFICES ASSUME NEW i \in late
               PROVE  /\ \A k \in 1..Len(feed'[i]) : feed'[i][k] \in {"QUEUED", "CANCELLED"}
                      /\ outcome'[i] \in {"none", "CANCELLED"}
    BY <1>1 DEF LateNeverConnects
  <2>1. i \in Targets
    BY <1>1
  <2>2. CASE i > next
    <3>1. outcome'[i] = "CANCELLED"
      BY <1>1, <2>1, <2>2
    <3>2. \A k \in 1..Len(feed[i]) : feed[i][k] \in {"QUEUED", "CANCELLED"}
      BY DEF Told, LateNeverConnects
    <3>3. \A k \in 1..Len(feed'[i]) : k \in 1..Len(feed[i]) \/ k = Len(feed[i]) + 1
      BY <1>2, <2>1, <2>2
    <3> QED BY <1>2, <2>1, <2>2, <3>1, <3>2, <3>3
  <2>3. CASE ~ i > next
    BY <1>1, <1>2, <2>1, <2>3 DEF Told, LateNeverConnects
  <2> QED BY <2>2, <2>3
<1>6. Untouched'
  <2> SUFFICES ASSUME NEW i \in Targets, future'[i] \in NotAdmitted
               PROVE  /\ \A k \in 1..Len(feed'[i]) : feed'[i][k] \in {"QUEUED", "CANCELLED"}
                      /\ outcome'[i] \in {"none", "CANCELLED"}
    BY DEF Untouched
  <2>1. CASE i > next
    <3>1. outcome'[i] = "CANCELLED"
      BY <1>1, <2>1
    <3>2. \A k \in 1..Len(feed[i]) : feed[i][k] \in {"QUEUED", "CANCELLED"}
      BY <1>1 DEF Told, Untouched
    <3>3. \A k \in 1..Len(feed'[i]) : k \in 1..Len(feed[i]) \/ k = Len(feed[i]) + 1
      BY <1>2, <2>1
    <3> QED BY <1>2, <2>1, <3>1, <3>2, <3>3
  <2>2. CASE ~ i > next
    BY <1>1, <1>2, <2>2 DEF Told, Untouched
  <2> QED BY <2>1, <2>2
<1>7. LateStays'
  BY <1>1 DEF Told, LateStays
<1>8. Attempted'
  <2>1. next' = N \/ cancel'
    BY <1>1
  <2> SUFFICES ASSUME NEW i \in Targets, ~cancel'
               PROVE  /\ future'[i] # "withdrawn"
                      /\ future'[i] \in Stages \cup Terminal =>
                           \E k \in 1..Len(feed'[i]) : feed'[i][k] = "CONNECTING"
    BY <2>1 DEF Attempted
  <2>2. ~ i > next
    BY <1>1, <2>1 DEF Targets, IInv, TypeOK
  <2> QED BY <1>1, <1>2, <2>2 DEF Told, Attempted
<1> QED
  BY <1>3, <1>4, <1>5, <1>6, <1>7, <1>8 DEF Told

LEMMA MainTold == IInv /\ Told /\ Main => Told'
<1> SUFFICES ASSUME IInv, Told, Main PROVE Told'
  OBVIOUS
<1>1. CASE TestRoom \/ LeaveLoop \/ WaitFirst \/ SweepTest \/ EndSweep
  BY <1>1, Silent DEF TestRoom, LeaveLoop, WaitFirst, SweepTest, EndSweep, cancelVars
<1>2. CASE Drained
  BY <1>2, Silent DEF Drained, cancelVars
<1>3. CASE Report
  BY <1>3, Silent DEF Report, cancelVars
<1>4. ASSUME NEW i \in Targets, LeaveRunning(i) PROVE Told'
  BY <1>4, Silent DEF LeaveRunning, cancelVars
<1> QED
  BY <1>1, <1>2, <1>3, <1>4, SubmitTold, DeliverTold, WithdrawTold, RemainderTold DEF Main

\* A thread that takes a future, or is refused admission, tells nothing.
LEMMA AdmissionTold ==
  ASSUME IInv, Told, NEW i \in Targets, PickUp(i) \/ Admit(i)
  PROVE  Told'
<1>1. PICK s \in {"picked", "admitted", "CANCELLED"} :
        /\ future[i] \in NotAdmitted
        /\ future' = [future EXCEPT ![i] = s]
        /\ s = "CANCELLED" => cancel
        /\ s = "admitted" => ~cancel
  BY DEF PickUp, Admit, NotAdmitted
<1>2. UNCHANGED <<pc, next, outcome, progress, feed, cancel, late>>
  BY DEF PickUp, Admit, mainVars, cancelVars
<1>3. future \in [Targets -> {"unsubmitted", "withdrawn"} \cup Live \cup Terminal]
      /\ late \subseteq Targets
  BY DEF IInv, TypeOK
<1>4. TerminalEventLast' /\ ProgressGrows' /\ LateNeverConnects'
  BY <1>2 DEF Told, TerminalEventLast, ProgressGrows, LateNeverConnects, Decided
<1>5. Untouched'
  BY <1>1, <1>2, <1>3 DEF Told, Untouched
<1>6. LateStays'
  BY <1>1, <1>2, <1>3 DEF Told, LateStays, NotAdmitted
<1>7. Attempted'
  <2>1. s \notin Stages /\ s # "withdrawn" /\ (s \in Terminal => s = "CANCELLED")
    BY <1>1, ScanAssumption DEF Stages, Terminal, Failures
  <2> QED BY <1>1, <1>2, <1>3, <2>1 DEF Told, Attempted
<1> QED
  BY <1>4, <1>5, <1>6, <1>7 DEF Told

\* report(stage) of a worker that is still waited for.
LEMMA AdvanceTold ==
  ASSUME IInv, Told, NEW i \in Targets, Advance(i)
  PROVE  Told'
<1> DEFINE s == StageAfter(future[i])
<1>1. /\ future[i] \in Live /\ future[i] \notin NotAdmitted
      /\ s \in Stages
      /\ future[i] = "admitted" => s = "CONNECTING"
      /\ future[i] # "admitted" => future[i] \in Stages
  BY DEF Advance, StageAfter, Stages, Live, NotAdmitted
<1>2. future' = [future EXCEPT ![i] = s] /\ feed' = [feed EXCEPT ![i] = Append(@, s)]
  BY DEF Advance
<1>3. UNCHANGED <<pc, next, outcome, progress, cancel, late>>
  BY DEF Advance, mainVars, cancelVars
<1>4. future \in [Targets -> {"unsubmitted", "withdrawn"} \cup Live \cup Terminal]
      /\ late \subseteq Targets
  BY DEF IInv, TypeOK
<1> HIDE DEF s
<1>5. s \notin Terminal /\ s \notin NotAdmitted /\ s # "withdrawn"
  BY <1>1, ScanAssumption DEF Stages, Terminal, Failures, NotAdmitted
<1>6. /\ Len(feed[i]) \in Nat
      /\ Len(feed'[i]) = Len(feed[i]) + 1
      /\ feed'[i][Len(feed[i]) + 1] = s
      /\ \A k \in 1..Len(feed[i]) : feed'[i][k] = feed[i][k]
      /\ \A j \in Targets : j # i => feed'[j] = feed[j]
  BY <1>1, <1>2, OneMore DEF IInv
\* Its target is pending, so undecided, and was not among the late ones.
<1>7. i \in pending /\ outcome[i] = "none"
  BY <1>1, Statuses DEF IInv, TypeOK, Flow, Books
<1>8. i \notin late
  BY <1>1, Statuses DEF Told, LateStays
<1>9. TerminalEventLast'
  <2>1. \A k \in 1..Len(feed[i]) : feed[i][k] \notin Terminal
    BY <1>7, Statuses DEF Told, TerminalEventLast
  <2>2. \A k \in 1..Len(feed'[i]) : feed'[i][k] \notin Terminal
    BY <1>5, <1>6, <2>1
  <2> QED BY <1>3, <1>6, <2>2 DEF Told, TerminalEventLast
<1>10. ProgressGrows' 
  BY <1>3 DEF Told, ProgressGrows, Decided
<1>11. LateNeverConnects'
  BY <1>3, <1>4, <1>6, <1>8 DEF Told, LateNeverConnects
<1>12. Untouched'
  BY <1>2, <1>3, <1>4, <1>5, <1>6 DEF Told, Untouched
<1>13. LateStays'
  BY <1>2, <1>3, <1>4, <1>8 DEF Told, LateStays
<1>14. Attempted'
  <2>1. ~cancel => \E k \in 1..Len(feed'[i]) : feed'[i][k] = "CONNECTING"
    <3>1. CASE future[i] = "admitted"
      <4>1. Len(feed[i]) + 1 \in 1..Len(feed'[i])
        BY <1>6
      <4> QED BY <1>1, <1>6, <3>1, <4>1
    <3>2. CASE future[i] \in Stages
      <4>1. \A k \in 1..Len(feed[i]) : k \in 1..Len(feed'[i])
        BY <1>6
      <4> QED BY <1>6, <3>2, <4>1 DEF Told, Attempted
    <3> QED BY <1>1, <3>1, <3>2
  <2> QED BY <1>2, <1>3, <1>4, <1>5, <1>6, <2>1 DEF Told, Attempted
<1> QED
  BY <1>9, <1>10, <1>11, <1>12, <1>13, <1>14 DEF Told

LEMMA ReturnTold ==
  ASSUME IInv, Told, NEW i \in Targets, Return(i)
  PROVE  Told'
<1>1. PICK s \in Returns(i) : future' = [future EXCEPT ![i] = s]
  BY DEF Return
<1>2. future[i] \in Stages
  BY <1>1 DEF Returns, Stages
<1>3. s \in Terminal
  BY <1>1, <1>2, Statuses DEF Returns, Stages
<1>4. UNCHANGED <<pc, next, outcome, progress, feed, cancel, late>>
  BY DEF Return, mainVars, cancelVars
<1>5. future \in [Targets -> {"unsubmitted", "withdrawn"} \cup Live \cup Terminal]
      /\ late \subseteq Targets
  BY DEF IInv, TypeOK
<1>6. s \notin NotAdmitted /\ s # "withdrawn"
  BY <1>3, ScanAssumption DEF Terminal, Failures, NotAdmitted
<1>7. i \notin late
  BY <1>2, ScanAssumption DEF Told, LateStays, Stages, NotAdmitted
<1>8. TerminalEventLast' /\ ProgressGrows' /\ LateNeverConnects'
  BY <1>4 DEF Told, TerminalEventLast, ProgressGrows, LateNeverConnects, Decided
<1>9. Untouched'
  BY <1>1, <1>4, <1>5, <1>6 DEF Told, Untouched
<1>10. LateStays'
  BY <1>1, <1>4, <1>5, <1>7 DEF Told, LateStays
<1>11. Attempted'
  BY <1>1, <1>2, <1>4, <1>5, <1>6 DEF Told, Attempted
<1> QED
  BY <1>8, <1>9, <1>10, <1>11 DEF Told

LEMMA RequestTold == IInv /\ Told /\ RequestCancel => Told'
<1> SUFFICES ASSUME IInv, Told, RequestCancel PROVE Told'
  OBVIOUS
<1>1. /\ cancel' = TRUE /\ late' = {i \in Targets : future[i] \in NotAdmitted}
      /\ UNCHANGED <<pc, next, future, outcome, feed, progress>>
  BY DEF RequestCancel, mainVars, NotAdmitted
<1>2. TerminalEventLast' /\ ProgressGrows'
  BY <1>1 DEF Told, TerminalEventLast, ProgressGrows, Decided
<1>3. LateNeverConnects'
  BY <1>1 DEF Told, LateNeverConnects, Untouched
<1>4. Untouched'
  BY <1>1 DEF Told, Untouched
<1>5. LateStays' /\ Attempted'
  BY <1>1 DEF LateStays, Attempted
<1> QED
  BY <1>2, <1>3, <1>4, <1>5 DEF Told

LEMMA StepTold == IInv /\ Told /\ [Next]_vars => Told'
<1> SUFFICES ASSUME IInv, Told, [Next]_vars PROVE Told'
  OBVIOUS
<1>1. ASSUME NEW i \in Targets, Thread(i) PROVE Told'
  BY <1>1, AdmissionTold, AdvanceTold, ReturnTold DEF Thread
<1>2. CASE UNCHANGED vars
  BY <1>2, Silent DEF vars, mainVars, cancelVars
<1> QED
  BY <1>1, <1>2, MainTold, RequestTold DEF Next, Returned

LEMMA ToldTruth == IInv /\ Told => FeedTellsTruth
<1> SUFFICES ASSUME IInv, Told PROVE FeedTellsTruth
  OBVIOUS
<1>1. AllAttempted
  <2> SUFFICES ASSUME pc = "done", ~cancel, NEW i \in Targets
               PROVE  \E k \in 1..Len(feed[i]) : feed[i][k] = "CONNECTING"
    BY DEF AllAttempted
  <2>1. pending = {} /\ next = N
    BY DEF IInv, Flow, Told, Attempted
  <2>2. future[i] # "unsubmitted"
    BY <2>1, ScanAssumption DEF IInv, Books, Targets
  <2>3. future[i] \notin Live /\ future[i] # "withdrawn"
    BY <2>1 DEF IInv, Books, Told, Attempted
  <2>4. future[i] \in Terminal
    BY <2>2, <2>3 DEF IInv, TypeOK
  <2> QED BY <2>4 DEF Told, Attempted
<1> QED
  BY <1>1 DEF Told, FeedTellsTruth

\* What the window is told is true, for every number of targets, every pool
\* size and every cancellation: a device's last event is its outcome, the
\* completed count only grows and never passes the decided targets, a target
\* not yet admitted when cancellation is requested is never connected to, and
\* without cancellation no target is skipped because of another.
THEOREM FeedIsTrue == Spec => []FeedTellsTruth
<1>1. Init => IInv /\ Told
  BY InitIInv, InitTold
<1>2. IInv /\ Told /\ [Next]_vars => IInv' /\ Told'
  BY StepIInv, StepTold
<1> QED
  BY <1>1, <1>2, ToldTruth, PTL DEF Spec
=============================================================================
