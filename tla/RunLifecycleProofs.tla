------------------------- MODULE RunLifecycleProofs -------------------------
(***************************************************************************)
(* Proofs about the durable life of a run, for any number of devices and   *)
(* of exceptions, and for a run deleted while it is active.                *)
(***************************************************************************)
EXTENDS RunLifecycle, FiniteSetTheorems, TLAPS

Before  == {"createRun"} \cup Beginning \cup Cleaning
Closers == {"abortList", "abortDevice", "abortCount", "abortClose"}
Success == {"COMPLETE", "PARTIAL"}

\* A removal of the files can make the first abort necessary without a fault.
Slack == IF Unguarded THEN 1 ELSE 0

AllFinal == \A d \in Targets : device[d] \in FinalDevice

\* The record is closed, and sealed when it reports a success.
Settled ==
  /\ Recorded => run \in FinalRun /\ AllFinal /\ counts = Tally
  /\ run \in Success /\ bundle => manifest = run

\* Before begin_run has returned nothing is collected, stored or removed, and
\* what it made is undone unless a second step raises.
Starting ==
  ~begun =>
    /\ pc \in Before \cup {"ended"}
    /\ rows = {} /\ evidence = {} /\ results = {} /\ manifest = "none" /\ removal = "none"
    /\ aborts = 0
    /\ \A d \in Targets : work[d] = "waiting" /\ outcome[d] = "none"
    /\ pc = "createRun" => run = "absent" /\ ~bundle
    /\ pc \in Beginning \ {"createBundle"} => bundle
    /\ pc \in Beginning => Recorded
    /\ pc \in Cleaning => faults >= 1
    /\ pc = "cleanBundle" => run = "absent"
    /\ pc = "ended" => faults >= 2 \/ (run = "absent" /\ ~bundle)
    /\ pc \in {"addDevice", "prepareDevice"} => \A d \in Targets \ left : device[d] # "absent"
    /\ pc \in {"setRunning", "started"} => \A d \in Targets : device[d] # "absent"

\* After it, the devices are recorded as long as the run is; the files are
\* removed before the record, and neither before the end unless unguarded.
Begun ==
  begun =>
    /\ pc \notin Before
    /\ Recorded => \A d \in Targets : device[d] # "absent"
    /\ ~Unguarded /\ pc # "ended" => bundle /\ Recorded
Removing == removal # "none" => ~bundle

\* Only a scan has workers at work, and what they store precedes its row.
Workers ==
  /\ pc # "scan" => \A d \in Targets : work[d] \in {"waiting", "returned"}
  /\ bundle => \A d \in Targets :
       /\ work[d] = "row" => d \in evidence
       /\ work[d] = "stored" \/ outcome[d] = "COMPLETE" => d \in rows \cap evidence
  /\ ~bundle => manifest = "none"

\* Results are persisted device by device, and sealed last.
Kept(d) == device[d] = outcome[d] /\ d \in findings /\ d \in results
Backed  == (\A d \in Targets : Kept(d)) /\ counts = Tally

Persisted ==
  /\ pc \in Persisting => scan \in FinalRun /\ \A d \in Targets : outcome[d] # "none"
  /\ pc \in ({"scan"} \cup Persisting) \ {"completed"} => manifest = "none"
  /\ pc \in {"persistFindings", "persistFile"} => at \in Targets
  /\ bundle =>
       /\ pc = "persistStatus" => \A d \in Targets \ left : Kept(d)
       /\ pc \in {"persistFindings", "persistFile"} =>
            device[at] = outcome[at] /\ \A d \in Targets \ (left \cup {at}) : Kept(d)
       /\ pc = "persistFile" => at \in findings
       /\ pc = "count" => \A d \in Targets : Kept(d)
       /\ pc \in {"close", "finalize"} => Backed
  /\ pc = "finalize" /\ Recorded => run = scan
  /\ pc = "completed" => Settled
  /\ manifest \in Success => Backed /\ \A d \in Targets : outcome[d] # "none"

\* An abort closes what is open; one that does not costs a fault.
Aborted ==
  /\ pc \in {"scan"} \cup Persisting => aborts = 0
  /\ pc = "abort" => aborts < Aborts /\ (Settled \/ faults + Slack >= aborts + 1)
  /\ pc \in Closers => Settled \/ faults + Slack >= aborts
  /\ pc = "abortDevice" =>
       /\ \A d \in left : device[d] \notin FinalDevice
       /\ Recorded => \A d \in Targets \ left : device[d] \in FinalDevice
  /\ pc \in {"abortCount", "abortClose"} => (Recorded => AllFinal)
  /\ pc = "abortClose" => (Recorded => counts = Tally)
  /\ pc \in {"abortFinalize", "abortLog"} => Settled
  /\ pc = "ended" /\ begun => Settled \/ faults + Slack >= Aborts + 1

IInv ==
  TypeOK /\ Starting /\ Begun /\ Removing /\ Workers /\ RowsBacked /\ Persisted /\ Aborted
-----------------------------------------------------------------------------
(***************************************************************************)
(* Types of what the steps compute.                                        *)
(***************************************************************************)
LEMMA TallyType ==
  /\ Tally \in [success : 0..N, failure : 0..N, cancelled : 0..N]
<1>1. ASSUME NEW S PROVE DevicesIn(S) \in 0..N
  <2> DEFINE T == {d \in Targets : device[d] \in S}
  <2>1. N \in Nat
    BY LifecycleAssumption
  <2>2. IsFiniteSet(1..N) /\ Cardinality(1..N) = N
    BY <2>1, FS_Interval
  <2>3. T \in SUBSET (1..N)
    BY DEF Targets
  <2> HIDE DEF T
  <2>4. IsFiniteSet(T) /\ Cardinality(T) <= N
    BY <2>2, <2>3, FS_Subset
  <2>5. Cardinality(T) \in Nat
    BY <2>4, FS_CardinalityType
  <2>6. Cardinality(T) \in 0..N
    BY <2>1, <2>4, <2>5
  <2> QED
    BY <2>6 DEF DevicesIn, T
<1>2. DevicesIn({"COMPLETE"}) \in 0..N /\ DevicesIn({"CANCELLED"}) \in 0..N
      /\ DevicesIn(FinalDevice \ {"COMPLETE", "CANCELLED"}) \in 0..N
  BY <1>1
<1> QED
  BY <1>2 DEF Tally

\* What a scan decides is a final status of a device.
LEMMA TerminalIsFinal == Contract!Terminal \subseteq FinalDevice /\ "none" \notin FinalDevice
  BY LifecycleAssumption DEF Contract!Terminal, Contract!Failures, FinalDevice

\* A worker that returns decides its device and no other.
LEMMA Decided ==
  ASSUME TypeOK, NEW d \in Targets, NEW s, Returns(d, s)
  PROVE  /\ outcome[d] = "none" /\ s \in Contract!Terminal /\ outcome'[d] = s
         /\ \A e \in Targets : e # d => outcome'[e] = outcome[e]
         /\ outcome' \in [Targets -> {"none"} \cup Contract!Terminal]
         /\ work' = [work EXCEPT ![d] = "returned"]
         /\ UNCHANGED <<cancel, scan>>
<1>1. /\ work' = [work EXCEPT ![d] = "returned"]
      /\ Contract!Decide({d}) /\ outcome'[d] = s
  BY DEF Returns
<1>2. Contract!Targets = Targets
  BY DEF Contract!Targets, Targets
<1>3. outcome[d] = "none" /\ UNCHANGED <<cancel, scan>>
  BY <1>1 DEF Contract!Decide, Contract!Undecided
<1>4. PICK f \in [{d} -> Contract!Terminal] :
        outcome' = [i \in Targets |-> IF i \in {d} THEN f[i] ELSE outcome[i]]
  BY <1>1, <1>2 DEF Contract!Decide
<1>5. f[d] \in Contract!Terminal
  BY <1>4
<1>6. s \in Contract!Terminal /\ \A e \in Targets : e # d => outcome'[e] = outcome[e]
  BY <1>1, <1>4, <1>5
<1>7. outcome' \in [Targets -> {"none"} \cup Contract!Terminal]
  BY <1>4, <1>5 DEF TypeOK
<1> QED
  BY <1>1, <1>3, <1>6, <1>7-----------------------------------------------------------------------------
(***************************************************************************)
(* The device workers.                                                     *)
(***************************************************************************)
WorkType == [Targets -> {"waiting", "stored", "returned"} \cup InSink]

\* What a worker may change while the scan runs.
LEMMA WorkerFrame ==
  ASSUME IInv, pc = "scan",
         UNCHANGED <<pc, left, at, begun, label, aborts, removal, run, counts, findings,
                     bundle, results, manifest, cancel, scan>>,
         faults' \in 0..MaxFaults, work' \in WorkType,
         outcome' \in [Targets -> {"none"} \cup Contract!Terminal],
         \/ UNCHANGED device
         \/ Recorded /\ \E d \in Targets : device' = [device EXCEPT ![d] = "COLLECTING"],
         rows' \subseteq Targets, evidence' \subseteq Targets, Workers', RowsBacked'
  PROVE  IInv'
<1> USE DEF IInv
<1>1. begun /\ manifest = "none" /\ aborts = 0
  BY DEF Starting, Before, Beginning, Cleaning, Persisted, Aborted
<1>2. /\ device' \in [Targets -> {"absent", "QUEUED", "COLLECTING"} \cup FinalDevice]
      /\ Recorded /\ (\A d \in Targets : device[d] # "absent")
           => \A d \in Targets : device'[d] # "absent"
  BY DEF TypeOK
<1>3. TypeOK'
  BY <1>2 DEF TypeOK, WorkType
<1>4. Starting' /\ Removing'
  BY <1>1 DEF Starting, Removing
<1>5. Begun'
  BY <1>1, <1>2 DEF Begun, Recorded
<1>6. Persisted'
  BY <1>1 DEF Persisted, Persisting, Success
<1>7. Aborted'
  BY <1>1 DEF Aborted, Persisting, Closers
<1> QED
  BY <1>3, <1>4, <1>5, <1>6, <1>7

LEMMA ReturnEarlyStep ==
  ASSUME IInv, NEW d \in Targets, ReturnEarly(d)
  PROVE  IInv'
<1> USE DEF IInv
<1>1. /\ pc = "scan" /\ work[d] = "waiting"
      /\ UNCHANGED <<pc, left, at, begun, label, aborts, removal, recordVars, fileVars, faults>>
  BY DEF ReturnEarly, WorkerOnly
<1>2. PICK s \in Contract!Failures \cup {"CANCELLED"} : Returns(d, s)
  BY DEF ReturnEarly
<1>3. s # "COMPLETE"
  BY LifecycleAssumption DEF Contract!Failures
<1>4. /\ outcome'[d] = s /\ \A e \in Targets : e # d => outcome'[e] = outcome[e]
      /\ outcome' \in [Targets -> {"none"} \cup Contract!Terminal]
      /\ work' = [work EXCEPT ![d] = "returned"] /\ UNCHANGED <<cancel, scan>>
  BY <1>2, Decided
<1>5. work' \in WorkType /\ work'[d] = "returned" /\ \A e \in Targets : e # d => work'[e] = work[e]
  BY <1>4 DEF TypeOK, WorkType
<1>6. Workers' /\ RowsBacked'
  BY <1>1, <1>3, <1>4, <1>5 DEF Workers, RowsBacked, recordVars, fileVars
<1> QED
  BY <1>1, <1>4, <1>5, <1>6, WorkerFrame DEF TypeOK, recordVars, fileVars

LEMMA EvaluateStep ==
  ASSUME IInv, NEW d \in Targets, Evaluate(d)
  PROVE  IInv'
<1> USE DEF IInv
<1>1. /\ work[d] = "stored"
      /\ UNCHANGED <<pc, left, at, begun, label, aborts, removal, recordVars, fileVars, faults>>
  BY DEF Evaluate, WorkerOnly
<1>2. pc = "scan"
  BY <1>1 DEF Workers
<1>3. PICK s \in {"COMPLETE", "EVALUATION_FAILED"} : Returns(d, s)
  BY DEF Evaluate
<1>4. /\ outcome'[d] = s /\ \A e \in Targets : e # d => outcome'[e] = outcome[e]
      /\ outcome' \in [Targets -> {"none"} \cup Contract!Terminal]
      /\ work' = [work EXCEPT ![d] = "returned"] /\ UNCHANGED <<cancel, scan>>
  BY <1>3, Decided
<1>5. work' \in WorkType /\ work'[d] = "returned" /\ \A e \in Targets : e # d => work'[e] = work[e]
  BY <1>4 DEF TypeOK, WorkType
<1>6. Workers' /\ RowsBacked'
  BY <1>1, <1>2, <1>4, <1>5 DEF Workers, RowsBacked, recordVars, fileVars
<1> QED
  BY <1>1, <1>2, <1>4, <1>5, <1>6, WorkerFrame DEF TypeOK, recordVars, fileVars

\* A worker goes on to another part of its sink.
LEMMA SinkMoves ==
  ASSUME TypeOK, NEW d \in Targets, NEW w \in {"stored"} \cup InSink, work' = [work EXCEPT ![d] = w]
  PROVE  /\ work' \in WorkType /\ work'[d] = w
         /\ \A e \in Targets : e # d => work'[e] = work[e]
  BY DEF TypeOK, WorkType

LEMMA SinkStep ==
  ASSUME IInv, NEW d \in Targets,
         EnterSink(d) \/ SinkUpdate(d) \/ SinkCheck(d) \/ SinkStore(d) \/ SinkRow(d)
  PROVE  IInv'
<1> USE DEF IInv
<1>1. /\ UNCHANGED <<pc, left, at, begun, label, aborts, removal, scanVars, faults>>
      /\ UNCHANGED <<run, counts, findings, bundle, results, manifest>>
  BY DEF EnterSink, SinkUpdate, SinkCheck, SinkStore, SinkRow, WorkerOnly, recordVars, fileVars
<1>2. pc = "scan"
  BY DEF EnterSink, SinkUpdate, SinkCheck, SinkStore, SinkRow, Workers
<1>3. PICK w \in {"stored"} \cup InSink : work' = [work EXCEPT ![d] = w]
  BY DEF EnterSink, SinkUpdate, SinkCheck, SinkStore, SinkRow, InSink
<1>4. /\ work' \in WorkType /\ work'[d] = w
      /\ \A e \in Targets : e # d => work'[e] = work[e]
  BY <1>3, SinkMoves
<1>5. CASE EnterSink(d) \/ SinkUpdate(d) \/ SinkCheck(d)
  <2>1. w \notin {"row", "stored"} /\ UNCHANGED <<evidence, rows>>
    BY <1>4, <1>5 DEF EnterSink, SinkUpdate, SinkCheck, recordVars, fileVars, TypeOK
  <2>2. Workers' /\ RowsBacked'
    BY <1>1, <1>2, <1>4, <2>1 DEF Workers, RowsBacked, scanVars
  <2>3. \/ UNCHANGED device
        \/ Recorded /\ \E e \in Targets : device' = [device EXCEPT ![e] = "COLLECTING"]
    BY <1>5 DEF EnterSink, SinkUpdate, SinkCheck, recordVars
  <2> QED
    BY <1>1, <1>2, <1>4, <2>1, <2>2, <2>3, WorkerFrame DEF TypeOK, scanVars
<1>6. CASE SinkStore(d)
  <2>1. w = "row" /\ evidence' = evidence \cup {d} /\ UNCHANGED <<rows, device>>
    BY <1>4, <1>6 DEF SinkStore, recordVars, TypeOK
  <2>2. Workers' /\ RowsBacked'
    BY <1>1, <1>2, <1>4, <2>1 DEF Workers, RowsBacked, scanVars
  <2> QED
    BY <1>1, <1>2, <1>4, <2>1, <2>2, WorkerFrame DEF TypeOK, scanVars
<1>7. CASE SinkRow(d)
  <2>1. w = "stored" /\ work[d] = "row" /\ rows' = rows \cup {d} /\ UNCHANGED <<evidence, device>>
    BY <1>4, <1>7 DEF SinkRow, fileVars, TypeOK
  <2>2. Workers' /\ RowsBacked'
    BY <1>1, <1>2, <1>4, <2>1 DEF Workers, RowsBacked, scanVars
  <2> QED
    BY <1>1, <1>2, <1>4, <2>1, <2>2, WorkerFrame DEF TypeOK, scanVars
<1> QED
  BY <1>5, <1>6, <1>7

LEMMA SinkRaisesStep ==
  ASSUME IInv, NEW d \in Targets, SinkRaises(d)
  PROVE  IInv'
<1> USE DEF IInv
<1>1. /\ work[d] \in InSink /\ Returns(d, "EVALUATION_FAILED")
      /\ UNCHANGED <<pc, left, at, begun, label, aborts, removal>>
      /\ UNCHANGED <<run, counts, findings, bundle, results, manifest>>
  BY DEF SinkRaises, WorkerOnly
<1>2. pc = "scan"
  BY <1>1 DEF Workers, InSink
<1>3. /\ outcome'[d] = "EVALUATION_FAILED" /\ \A e \in Targets : e # d => outcome'[e] = outcome[e]
      /\ outcome' \in [Targets -> {"none"} \cup Contract!Terminal]
      /\ work' = [work EXCEPT ![d] = "returned"] /\ UNCHANGED <<cancel, scan>>
  BY <1>1, Decided
<1>4. work' \in WorkType /\ work'[d] = "returned" /\ \A e \in Targets : e # d => work'[e] = work[e]
  BY <1>3 DEF TypeOK, WorkType
<1>5. faults' \in 0..MaxFaults
  BY LifecycleAssumption DEF TypeOK, SinkRaises
<1>6. \/ UNCHANGED device
      \/ Recorded /\ \E e \in Targets : device' = [device EXCEPT ![e] = "COLLECTING"]
  BY DEF SinkRaises
<1>7. /\ evidence' = evidence \/ evidence' = evidence \cup {d}
      /\ rows' = rows \/ (work[d] = "row" /\ rows' = rows \cup {d})
  BY DEF SinkRaises
<1>8. Workers' /\ RowsBacked'
  BY <1>1, <1>2, <1>3, <1>4, <1>7 DEF Workers, RowsBacked
<1> QED
  BY <1>1, <1>2, <1>3, <1>4, <1>5, <1>6, <1>7, <1>8, WorkerFrame DEF TypeOK-----------------------------------------------------------------------------
(***************************************************************************)
(* Cancellation and deletion.                                              *)
(***************************************************************************)
LEMMA Numbers ==
  /\ Slack \in {0, 1} /\ Aborts \in {1, 2} /\ MaxFaults \in Nat
  /\ TypeOK => faults \in Nat /\ aborts \in Nat /\ aborts <= Aborts /\ faults <= MaxFaults
  BY LifecycleAssumption DEF Slack, TypeOK

\* More faults excuse no less.
LEMMA FaultsGrow ==
  ASSUME TypeOK, faults' \in {faults, faults + 1}
  PROVE  \A k \in Nat : faults + Slack >= k => faults' + Slack >= k
<1>1. faults \in Nat /\ Slack \in Nat
  BY Numbers
<1>2. faults' \in Nat /\ faults' >= faults
  BY <1>1
<1>3. \A i, j, n, k \in Nat : j >= i /\ i + n >= k => j + n >= k
  OBVIOUS
<1> QED
  BY <1>1, <1>2, <1>3

\* A removal excuses one abort.
LEMMA SlackExcuses ==
  ASSUME TypeOK, faults' \in {faults, faults + 1}, Unguarded
  PROVE  faults' + Slack >= 0 + 1
<1>1. faults \in Nat /\ Slack = 1
  BY Numbers DEF Slack
<1>2. faults' \in Nat
  BY <1>1
<1>3. \A i \in Nat : i + 1 >= 0 + 1
  OBVIOUS
<1> QED
  BY <1>1, <1>2, <1>3

LEMMA SameTally == UNCHANGED device => Tally' = Tally
  BY DEF Tally, DevicesIn

LEMMA CancelStep ==
  ASSUME IInv, RequestCancel
  PROVE  IInv'
<1> USE DEF IInv
<1>1. /\ cancel' = TRUE
      /\ UNCHANGED <<outcome, scan, localVars, recordVars, fileVars, removal, faults>>
  BY DEF RequestCancel, Contract!RequestCancellation
<1> USE <1>1 DEF localVars, recordVars, fileVars
<1>2. TypeOK'
  BY DEF TypeOK
<1>3. Starting' /\ Begun' /\ Removing' /\ Workers' /\ RowsBacked'
  BY DEF Starting, Begun, Removing, Workers, RowsBacked, Recorded
<1>4. Tally' = Tally
  BY SameTally
<1>5. Persisted' /\ Aborted'
  BY <1>4 DEF Persisted, Aborted, Settled, Backed, Kept, AllFinal, Recorded
<1> QED
  BY <1>2, <1>3, <1>5

LEMMA RemoveFilesStep ==
  ASSUME IInv, RemoveFiles
  PROVE  IInv'
<1> USE DEF IInv
<1>1. /\ removal = "none" /\ begun /\ (pc = "ended" \/ Unguarded) /\ removal' = "record"
      /\ bundle' = FALSE /\ evidence' = {} /\ results' = {} /\ manifest' = "none"
      /\ UNCHANGED <<scanVars, localVars, faults, recordVars>>
  BY DEF RemoveFiles, NoBundle, OperatorOnly
<1> USE <1>1 DEF scanVars, localVars, recordVars
<1>2. TypeOK'
  BY DEF TypeOK
<1>3. Starting' /\ Begun' /\ Removing' /\ Workers' /\ RowsBacked'
  BY DEF Starting, Begun, Removing, Workers, RowsBacked, Recorded
<1>4. Tally' = Tally
  BY SameTally
<1>5. Settled => Settled'
  BY <1>4 DEF Settled, AllFinal, Recorded
<1>6. Persisted'
  BY <1>5 DEF Persisted, Success, Recorded
<1>7. Aborted'
  BY <1>4, <1>5 DEF Aborted, AllFinal, Recorded
<1> QED
  BY <1>2, <1>3, <1>6, <1>7

LEMMA RemoveRecordStep ==
  ASSUME IInv, RemoveRecord
  PROVE  IInv'
<1> USE DEF IInv
<1>1. /\ removal = "record" /\ removal' = "log"
      /\ run' = "absent" /\ device' = [d \in Targets |-> "absent"]
      /\ counts' = [success |-> 0, failure |-> 0, cancelled |-> 0]
      /\ rows' = {} /\ findings' = {}
      /\ UNCHANGED <<scanVars, localVars, faults, fileVars>>
  BY DEF RemoveRecord, NoRecord, OperatorOnly
<1>2. ~bundle /\ begun /\ manifest = "none"
  BY <1>1 DEF Removing, Starting, Workers
<1> USE <1>1 DEF scanVars, localVars, fileVars
<1>3. TypeOK'
  <2>1. counts' \in [success : 0..N, failure : 0..N, cancelled : 0..N]
    BY LifecycleAssumption
  <2>2. device' \in [Targets -> {"absent", "QUEUED", "COLLECTING"} \cup FinalDevice]
    OBVIOUS
  <2> QED
    BY <2>1, <2>2 DEF TypeOK
<1>4. ~Recorded'
  BY DEF Recorded
<1>5. Starting' /\ Begun' /\ Removing' /\ Workers' /\ RowsBacked'
  BY <1>2, <1>4 DEF Starting, Begun, Removing, Workers, RowsBacked, Recorded
<1>6. Settled'
  BY <1>4 DEF Settled, Success
<1>7. Persisted'
  BY <1>2, <1>4, <1>6 DEF Persisted, Success
<1>8. Aborted'
  <2>1. \A d \in left : device'[d] \notin FinalDevice
    BY DEF TypeOK, FinalDevice
  <2> QED
    BY <1>4, <1>6, <2>1 DEF Aborted
<1> QED
  BY <1>3, <1>5, <1>7, <1>8

LEMMA RemovalEndsStep ==
  ASSUME IInv, LogRemoval \/ RemovalRaises
  PROVE  IInv'
<1> USE DEF IInv
<1>1. /\ removal # "none" /\ removal' = "none"
      /\ faults' \in {faults, faults + 1} /\ faults' \in 0..MaxFaults
      /\ UNCHANGED <<scanVars, localVars, recordVars, fileVars>>
  BY LifecycleAssumption DEF LogRemoval, RemovalRaises, OperatorOnly, TypeOK
<1>2. begun
  BY <1>1 DEF Starting
<1> USE <1>1 DEF scanVars, localVars, recordVars, fileVars
<1>3. TypeOK'
  BY DEF TypeOK
<1>4. Starting' /\ Begun' /\ Removing' /\ Workers' /\ RowsBacked'
  BY <1>2 DEF Starting, Begun, Removing, Workers, RowsBacked, Recorded
<1>5. Tally' = Tally
  BY SameTally
<1>6. Settled' = Settled /\ Persisted'
  BY <1>5 DEF Persisted, Settled, Backed, Kept, AllFinal, Recorded
<1>7. \A k \in {aborts, aborts + 1, Aborts + 1} : faults + Slack >= k => faults' + Slack >= k
  <2>1. aborts \in Nat /\ Aborts \in Nat
    BY Numbers
  <2> QED
    BY <1>1, <2>1, FaultsGrow
<1>8. Aborted'
  BY <1>5, <1>6, <1>7 DEF Aborted, AllFinal, Recorded
<1> QED
  BY <1>3, <1>4, <1>6, <1>8-----------------------------------------------------------------------------
(***************************************************************************)
(* begin_run.                                                              *)
(***************************************************************************)
\* What a step of the owner needs.
LEMMA Needs ==
  /\ \A p \in {"addDevice", "setRunning", "persistStatus", "persistFindings", "count", "close",
               "abortDevice", "abortCount", "abortClose"} : Possible(p) <=> Recorded
  /\ \A p \in {"prepareDevice", "persistFile", "finalize", "abortFinalize"} :
       Possible(p) <=> Writable
  /\ \A p \in {"createRun", "createBundle", "started", "scan", "abortList", "completed",
               "abortLog", "cleanRecord", "cleanBundle"} : Possible(p)
  BY DEF Possible

\* As long as begin_run has not returned, the rest follows.
LEMMA NotBegun ==
  ASSUME TypeOK', Starting', ~begun'
  PROVE  IInv'
<1>1. Begun' /\ Removing' /\ RowsBacked'
  BY DEF Starting, Begun, Removing, RowsBacked
<1>2. Workers'
  BY DEF Starting, Workers
<1>3. Persisted'
  BY DEF Starting, Persisted, Before, Beginning, Cleaning, Persisting, Success
<1>4. Aborted'
  BY DEF Starting, Aborted, Before, Beginning, Cleaning, Persisting, Closers
<1> QED
  BY <1>1, <1>2, <1>3, <1>4 DEF IInv

LEMMA BeginStep ==
  ASSUME IInv,
         CreateRun \/ CreateBundle \/ PrepareDevice \/ SetRunning
           \/ (\E d \in Targets : AddDevice(d)) \/ CleanRecord \/ CleanBundle
  PROVE  IInv'
<1> USE DEF IInv
<1>1. pc \in Before \ {"started"} /\ UNCHANGED <<scanVars, work, label, aborts, removal, faults, begun>>
  BY DEF CreateRun, CreateBundle, PrepareDevice, SetRunning, AddDevice, CleanRecord, CleanBundle,
         Step, Before, Beginning, Cleaning
<1>2. ~begun
  BY <1>1 DEF Begun
<1> USE <1>1, <1>2 DEF scanVars
<1>3. CASE CreateRun
  <2>1. pc = "createRun" /\ pc' = "createBundle" /\ run' = "CREATED"
        /\ UNCHANGED <<left, at, begun, device, counts, rows, findings, fileVars>>
    BY <1>3 DEF CreateRun, Step
  <2>2. TypeOK'
    BY <2>1 DEF TypeOK, fileVars, Beginning
  <2>3. Starting'
    BY <2>1 DEF Starting, fileVars, Before, Beginning, Cleaning, Recorded
  <2> QED
    BY <2>2, <2>3, NotBegun
<1>4. CASE CreateBundle
  <2>1. /\ pc = "createBundle" /\ pc' = IF N = 0 THEN "setRunning" ELSE "addDevice"
        /\ bundle' = TRUE /\ left' = Targets
        /\ UNCHANGED <<at, begun, recordVars, evidence, results, manifest>>
    BY <1>4 DEF CreateBundle, Step
  <2>2. TypeOK'
    BY <2>1 DEF TypeOK, recordVars, Beginning
  <2>3. N = 0 => Targets = {}
    BY DEF Targets
  <2>4. Starting'
    BY <2>1, <2>3 DEF Starting, recordVars, Before, Beginning, Cleaning, Recorded
  <2> QED
    BY <2>2, <2>4, NotBegun
<1>5. CASE PrepareDevice
  <2>1. /\ pc = "prepareDevice" /\ pc' = Loop("addDevice", "setRunning")
        /\ UNCHANGED <<left, at, begun, recordVars, fileVars>>
    BY <1>5 DEF PrepareDevice, Step
  <2>2. TypeOK'
    BY <2>1 DEF TypeOK, recordVars, fileVars, Beginning, Loop
  <2>3. Starting'
    BY <2>1 DEF Starting, recordVars, fileVars, Before, Beginning, Cleaning, Recorded, Loop
  <2> QED
    BY <2>2, <2>3, NotBegun
<1>6. CASE SetRunning
  <2>1. /\ pc = "setRunning" /\ pc' = "started" /\ run' = "RUNNING"
        /\ UNCHANGED <<left, at, begun, device, counts, rows, findings, fileVars>>
    BY <1>6 DEF SetRunning, Step
  <2>2. TypeOK'
    BY <2>1 DEF TypeOK, fileVars, Beginning
  <2>3. Starting'
    BY <2>1 DEF Starting, fileVars, Before, Beginning, Cleaning, Recorded
  <2> QED
    BY <2>2, <2>3, NotBegun
<1>7. ASSUME NEW d \in Targets, AddDevice(d) PROVE IInv'
  <2>1. /\ pc = "addDevice" /\ pc' = "prepareDevice" /\ left' = left \ {d}
        /\ device' = [device EXCEPT ![d] = "QUEUED"]
        /\ UNCHANGED <<at, begun, run, counts, rows, findings, fileVars>>
    BY <1>7 DEF AddDevice, Step
  <2>2. /\ device' \in [Targets -> {"absent", "QUEUED", "COLLECTING"} \cup FinalDevice]
        /\ device'[d] = "QUEUED" /\ \A e \in Targets : e # d => device'[e] = device[e]
    BY <2>1 DEF TypeOK
  <2>3. TypeOK'
    BY <2>1, <2>2 DEF TypeOK, fileVars, Beginning
  <2>4. Starting'
    BY <2>1, <2>2 DEF Starting, fileVars, Before, Beginning, Cleaning, Recorded
  <2> QED
    BY <2>3, <2>4, NotBegun
<1>8. CASE CleanRecord
  <2>1. /\ pc = "cleanRecord" /\ pc' = "cleanBundle" /\ run' = "absent"
        /\ device' = [d \in Targets |-> "absent"]
        /\ counts' = [success |-> 0, failure |-> 0, cancelled |-> 0]
        /\ rows' = {} /\ findings' = {}
        /\ UNCHANGED <<left, at, begun, fileVars>>
    BY <1>8 DEF CleanRecord, Step, NoRecord
  <2>2. TypeOK'
    <3>1. counts' \in [success : 0..N, failure : 0..N, cancelled : 0..N]
      BY <2>1, LifecycleAssumption
    <3>2. device' \in [Targets -> {"absent", "QUEUED", "COLLECTING"} \cup FinalDevice]
      BY <2>1
    <3> QED
      BY <2>1, <3>1, <3>2 DEF TypeOK, fileVars, Cleaning
  <2>3. Starting'
    BY <2>1 DEF Starting, fileVars, Before, Beginning, Cleaning
  <2> QED
    BY <2>2, <2>3, NotBegun
<1>9. CASE CleanBundle
  <2>1. /\ pc = "cleanBundle" /\ pc' = "ended"
        /\ bundle' = FALSE /\ evidence' = {} /\ results' = {} /\ manifest' = "none"
        /\ UNCHANGED <<left, at, begun, recordVars>>
    BY <1>9 DEF CleanBundle, Step, NoBundle
  <2>2. TypeOK'
    BY <2>1 DEF TypeOK, recordVars, Cleaning
  <2>3. Starting'
    BY <2>1 DEF Starting, recordVars, Before, Beginning, Cleaning
  <2> QED
    BY <2>2, <2>3, NotBegun
<1> QED
  BY <1>3, <1>4, <1>5, <1>6, <1>7, <1>8, <1>9

LEMMA StartedStep ==
  ASSUME IInv, Started
  PROVE  IInv'
<1> USE DEF IInv
<1>1. /\ pc = "started" /\ pc' = "scan" /\ begun' = TRUE
      /\ UNCHANGED <<scanVars, work, label, aborts, removal, faults, left, at, recordVars, fileVars>>
  BY DEF Started, Step
<1>2. ~begun
  BY <1>1 DEF Begun, Before, Beginning
<1> USE <1>1 DEF scanVars, recordVars, fileVars
<1>3. bundle /\ Recorded /\ manifest = "none" /\ removal = "none" /\ rows = {}
      /\ \A d \in Targets : work[d] = "waiting" /\ outcome[d] = "none" /\ device[d] # "absent"
  BY <1>2 DEF Starting, Beginning
<1>4. TypeOK'
  BY DEF TypeOK
<1>5. Starting' /\ Begun' /\ Removing' /\ RowsBacked' /\ Workers'
  BY <1>3 DEF Starting, Begun, Before, Beginning, Cleaning, Removing, RowsBacked, Workers, Recorded
<1>6. Persisted'
  BY <1>3 DEF Persisted, Persisting, Success
<1>7. Aborted'
  BY <1>2 DEF Starting, Aborted, Persisting, Closers
<1> QED
  BY <1>4, <1>5, <1>6, <1>7-----------------------------------------------------------------------------
(***************************************************************************)
(* The scan returns, and its result is persisted.                          *)
(***************************************************************************)
LEMMA ScanReturnsStep ==
  ASSUME IInv, ScanReturns
  PROVE  IInv'
<1> USE DEF IInv
<1>1. /\ pc = "scan" /\ AllReturned /\ pc' = (IF N = 0 THEN "count" ELSE "persistStatus")
      /\ left' = Targets /\ scan' \in FinalRun /\ UNCHANGED <<outcome, cancel>>
      /\ \A d \in Targets : outcome[d] # "none"
      /\ UNCHANGED <<work, at, begun, label, aborts, recordVars, fileVars, removal, faults>>
  BY DEF ScanReturns, Contract!Close, Contract!Undecided, Contract!Targets, Targets, FinalRun
<1> USE <1>1 DEF recordVars, fileVars
<1>2. begun /\ manifest = "none" /\ aborts = 0
  BY DEF Starting, Before, Beginning, Cleaning, Persisted, Aborted
<1>3. TypeOK'
  BY DEF TypeOK, Persisting
<1>4. Starting' /\ Begun' /\ Removing' /\ RowsBacked' /\ Workers'
  BY <1>2 DEF Starting, Begun, Before, Beginning, Cleaning, Removing, RowsBacked, Workers, Recorded,
              AllReturned
<1>5. N = 0 => Targets = {}
  BY DEF Targets
<1>6. Persisted'
  BY <1>2, <1>5 DEF Persisted, Persisting, Success, Kept
<1>7. Aborted'
  BY <1>2 DEF Aborted, Persisting, Closers
<1> QED
  BY <1>3, <1>4, <1>6, <1>7

\* What the steps of persist_result have in common.
LEMMA PersistFrame ==
  ASSUME IInv, pc \in Persisting \ {"completed"}, pc' \in Persisting,
         UNCHANGED <<scanVars, work, label, aborts, removal, faults, begun, rows, bundle, evidence>>,
         Recorded' <=> Recorded,
         Recorded => \A d \in Targets : device[d] # "absent" => device'[d] # "absent",
         manifest' = "none" \/ bundle
  PROVE  /\ begun /\ manifest = "none" /\ aborts = 0
         /\ scan \in FinalRun /\ \A d \in Targets : outcome[d] \in FinalDevice
         /\ Starting' /\ Begun' /\ Removing' /\ RowsBacked' /\ Workers' /\ Aborted'
<1> USE DEF IInv, scanVars
<1>1. begun /\ manifest = "none" /\ aborts = 0
  BY DEF Starting, Before, Beginning, Cleaning, Persisted, Persisting, Aborted
<1>2. scan \in FinalRun /\ \A d \in Targets : outcome[d] \in FinalDevice
  BY TerminalIsFinal DEF Persisted, TypeOK
<1>3. Starting' /\ Removing' /\ RowsBacked'
  BY <1>1 DEF Starting, Removing, RowsBacked
<1>4. Begun'
  BY <1>1 DEF Begun, Before, Beginning, Cleaning, Persisting
<1>5. Workers'
  BY DEF Workers, Persisting
<1>6. Aborted'
  BY <1>1 DEF Aborted, Persisting, Closers
<1> QED
  BY <1>1, <1>2, <1>3, <1>4, <1>5, <1>6

LEMMA PersistDeviceStep ==
  ASSUME IInv, (\E d \in Targets : PersistStatus(d)) \/ PersistFindings \/ PersistFile
  PROVE  IInv'
<1> USE DEF IInv
<1>1. UNCHANGED <<scanVars, work, label, aborts, removal, faults, begun, rows, run, counts,
                  bundle, evidence, manifest>>
  BY DEF PersistStatus, PersistFindings, PersistFile, Step, fileVars, recordVars
<1>2. ASSUME NEW d \in Targets, PersistStatus(d) PROVE IInv'
  <2>1. /\ d \in left /\ pc = "persistStatus" /\ pc' = "persistFindings"
        /\ at' = d /\ left' = left \ {d} /\ device' = [device EXCEPT ![d] = outcome[d]]
        /\ UNCHANGED <<findings, results>> /\ Recorded
    BY <1>2, Needs DEF PersistStatus, Step, fileVars
  <2>2. outcome[d] \in FinalDevice
    BY <2>1, TerminalIsFinal DEF Persisted, Persisting, TypeOK
  <2>3. /\ device' \in [Targets -> {"absent", "QUEUED", "COLLECTING"} \cup FinalDevice]
        /\ device'[d] = outcome[d] /\ \A e \in Targets : e # d => device'[e] = device[e]
    BY <2>1, <2>2 DEF TypeOK
  <2>4. TypeOK'
    BY <1>1, <2>1, <2>3 DEF TypeOK, scanVars, Persisting, Targets
  <2>5. /\ begun /\ manifest = "none" /\ scan \in FinalRun
        /\ \A e \in Targets : outcome[e] \in FinalDevice
        /\ Starting' /\ Begun' /\ Removing' /\ RowsBacked' /\ Workers' /\ Aborted'
    <3>1. "absent" \notin FinalDevice
      BY DEF FinalDevice
    <3>2. Recorded' = Recorded
      BY <1>1 DEF Recorded
    <3>3. \A e \in Targets : device[e] # "absent" => device'[e] # "absent"
      BY <2>2, <2>3, <3>1
    <3>4. manifest = "none"
      BY <2>1 DEF Persisted, Persisting
    <3> QED
      BY <1>1, <2>1, <3>2, <3>3, <3>4, PersistFrame DEF Persisting
  <2>6. Persisted'
    BY <1>1, <2>1, <2>3, <2>5, TerminalIsFinal DEF Persisted, Persisting, Kept, Success, scanVars
  <2> QED
    BY <2>4, <2>5, <2>6
<1>3. CASE PersistFindings
  <2>1. /\ pc = "persistFindings" /\ pc' = "persistFile" /\ findings' = findings \cup {at}
        /\ UNCHANGED <<left, at, device, results>>
    BY <1>3 DEF PersistFindings, Step, fileVars
  <2>2. at \in Targets /\ Recorded' = Recorded /\ manifest = "none"
    BY <1>1, <2>1 DEF Persisted, Recorded, Persisting
  <2>3. TypeOK'
    BY <1>1, <2>1, <2>2 DEF TypeOK, scanVars, Persisting
  <2>4. /\ begun /\ scan \in FinalRun /\ \A e \in Targets : outcome[e] \in FinalDevice
        /\ Starting' /\ Begun' /\ Removing' /\ RowsBacked' /\ Workers' /\ Aborted'
    BY <1>1, <2>1, <2>2, PersistFrame DEF Persisting
  <2>5. Persisted'
    BY <1>1, <2>1, <2>2, <2>4, TerminalIsFinal DEF Persisted, Persisting, Kept, Success, scanVars
  <2> QED
    BY <2>3, <2>4, <2>5
<1>4. CASE PersistFile
  <2>1. /\ pc = "persistFile" /\ pc' = Loop("persistStatus", "count") /\ results' = results \cup {at}
        /\ UNCHANGED <<left, at, device, findings>>
    BY <1>4 DEF PersistFile, Step, recordVars
  <2>2. at \in Targets /\ Recorded' = Recorded /\ manifest = "none"
    BY <1>1, <2>1 DEF Persisted, Recorded, Persisting
  <2>3. TypeOK'
    BY <1>1, <2>1, <2>2 DEF TypeOK, scanVars, Persisting, Loop
  <2>4. /\ begun /\ scan \in FinalRun /\ \A e \in Targets : outcome[e] \in FinalDevice
        /\ Starting' /\ Begun' /\ Removing' /\ RowsBacked' /\ Workers' /\ Aborted'
    BY <1>1, <2>1, <2>2, PersistFrame DEF Persisting, Loop
  <2>5. Persisted'
    <3>1. bundle => \A e \in Targets \ left : Kept(e)'
      BY <1>1, <2>1 DEF Persisted, Kept, scanVars
    <3> QED
      BY <1>1, <2>1, <2>2, <2>4, <3>1, TerminalIsFinal DEF Persisted, Persisting, Success, scanVars, Loop
  <2> QED
    BY <2>3, <2>4, <2>5
<1> QED
  BY <1>2, <1>3, <1>4
\* The counts are refreshed, the record closed, the bundle sealed.
LEMMA PersistRunStep ==
  ASSUME IInv,
         Count("count", "close") \/ Close("close", "finalize", scan)
           \/ Finalize("finalize", "completed", scan)
  PROVE  IInv'
<1> USE DEF IInv
<1>1. /\ UNCHANGED <<scanVars, work, label, aborts, removal, faults, begun, left, at, rows, device,
                     findings, bundle, evidence, results>>
      /\ pc \in Persisting \ {"completed"} /\ pc' \in Persisting
  BY DEF Count, Close, Finalize, Step, fileVars, recordVars, Persisting
<1>2. Tally' = Tally
  BY <1>1, SameTally
<1>3. manifest = "none"
  BY <1>1 DEF Persisted
<1>4. CASE Count("count", "close")
  <2>1. /\ pc = "count" /\ pc' = "close" /\ counts' = Tally /\ UNCHANGED <<run, manifest>>
    BY <1>4 DEF Count, Step, fileVars
  <2>2. TypeOK'
    BY <1>1, <2>1, TallyType DEF TypeOK, scanVars
  <2>3. Recorded' <=> Recorded
    BY <2>1 DEF Recorded
  <2>4. /\ begun /\ scan \in FinalRun
        /\ Starting' /\ Begun' /\ Removing' /\ RowsBacked' /\ Workers' /\ Aborted'
    BY <1>1, <1>3, <2>1, <2>3, PersistFrame
  <2>5. Persisted'
    BY <1>1, <1>2, <1>3, <2>1, <2>4 DEF Persisted, Persisting, Backed, Kept, Success, scanVars
  <2> QED
    BY <2>2, <2>4, <2>5
<1>5. CASE Close("close", "finalize", scan)
  <2>1. /\ pc = "close" /\ pc' = "finalize" /\ run' = scan /\ Recorded /\ UNCHANGED <<counts, manifest>>
    BY <1>5, Needs DEF Close, Step, fileVars
  <2>2. scan \in FinalRun
    BY <2>1 DEF Persisted, Persisting
  <2>3. TypeOK'
    BY <1>1, <2>1, <2>2 DEF TypeOK, scanVars
  <2>4. Recorded' <=> Recorded
    BY <2>1, <2>2 DEF Recorded, FinalRun
  <2>5. /\ begun /\ Starting' /\ Begun' /\ Removing' /\ RowsBacked' /\ Workers' /\ Aborted'
    BY <1>1, <1>3, <2>1, <2>4, PersistFrame
  <2>6. Persisted'
    BY <1>1, <1>2, <1>3, <2>1, <2>2 DEF Persisted, Persisting, Backed, Kept, Success, scanVars
  <2> QED
    BY <2>3, <2>5, <2>6
<1>6. CASE Finalize("finalize", "completed", scan)
  <2>1. /\ pc = "finalize" /\ pc' = "completed" /\ manifest' = scan /\ bundle
        /\ UNCHANGED <<run, counts>>
    BY <1>6, Needs DEF Finalize, Step, recordVars, Writable
  <2>2. scan \in FinalRun
    BY <2>1 DEF Persisted, Persisting
  <2>3. TypeOK'
    BY <1>1, <2>1, <2>2 DEF TypeOK, scanVars
  <2>4. Recorded' <=> Recorded
    BY <2>1 DEF Recorded
  <2>5. /\ begun /\ (\A e \in Targets : outcome[e] \in FinalDevice)
        /\ Starting' /\ Begun' /\ Removing' /\ RowsBacked' /\ Workers' /\ Aborted'
    BY <1>1, <1>3, <2>1, <2>4, PersistFrame
  <2>6. Backed /\ Backed' /\ (Recorded => run = scan)
    BY <1>1, <1>2, <2>1 DEF Persisted, Backed, Kept, scanVars
  <2>7. Settled'
    <3>1. AllFinal'
      BY <1>1, <2>5, <2>6 DEF Backed, Kept, AllFinal
    <3> QED
      BY <1>1, <1>2, <2>1, <2>2, <2>4, <2>6, <3>1 DEF Settled, Backed, Recorded, Success
  <2>8. Persisted'
    BY <1>1, <2>1, <2>2, <2>5, <2>6, <2>7 DEF Persisted, Persisting, Success, scanVars
  <2> QED
    BY <2>3, <2>5, <2>8
<1> QED
  BY <1>4, <1>5, <1>6

LEMMA CompletedStep ==
  ASSUME IInv, Log("completed", "ended")
  PROVE  IInv'
<1> USE DEF IInv
<1>1. /\ pc = "completed" /\ pc' = "ended"
      /\ UNCHANGED <<scanVars, work, label, aborts, removal, faults, begun, left, at, recordVars, fileVars>>
  BY DEF Log, Step
<1> USE <1>1 DEF scanVars, recordVars, fileVars
<1>2. Tally' = Tally
  BY SameTally
<1>3. begun /\ Settled
  BY DEF Starting, Before, Beginning, Cleaning, Persisted
<1>4. Settled'
  BY <1>2, <1>3 DEF Settled, AllFinal, Recorded
<1>5. TypeOK'
  BY DEF TypeOK
<1>6. Starting' /\ Begun' /\ Removing' /\ RowsBacked' /\ Workers'
  BY <1>3 DEF Starting, Begun, Before, Beginning, Cleaning, Removing, RowsBacked, Workers, Recorded
<1>7. Persisted'
  BY <1>2 DEF Persisted, Persisting, Backed, Kept
<1>8. Aborted'
  BY <1>4 DEF Aborted, Persisting, Closers
<1> QED
  BY <1>5, <1>6, <1>7, <1>8-----------------------------------------------------------------------------
(***************************************************************************)
(* abort_run.                                                              *)
(***************************************************************************)
InAbort == {"abort", "abortFinalize"} \cup Aborting

\* What the steps of abort_run have in common.
LEMMA AbortFrame ==
  ASSUME IInv, pc \in InAbort, pc' \in InAbort \cup {"ended"},
         UNCHANGED <<scanVars, work, removal, begun, rows, findings, bundle, evidence, results>>,
         Recorded' <=> Recorded,
         Recorded => \A d \in Targets : device[d] # "absent" => device'[d] # "absent",
         manifest' = manifest \/ bundle
  PROVE  begun /\ Starting' /\ Begun' /\ Removing' /\ RowsBacked' /\ Workers'
<1> USE DEF IInv, scanVars
<1>1. begun
  BY DEF Starting, InAbort, Aborting, Before, Beginning, Cleaning
<1>2. Starting' /\ Removing' /\ RowsBacked'
  BY <1>1 DEF Starting, Removing, RowsBacked
<1>3. Begun'
  BY <1>1 DEF Begun, InAbort, Aborting, Before, Beginning, Cleaning
<1>4. Workers'
  BY DEF Workers, InAbort, Aborting
<1> QED
  BY <1>1, <1>2, <1>3, <1>4

\* A manifest that reports a success is of devices that are all closed.
LEMMA SealedIsFinal ==
  ASSUME IInv, manifest \in Success
  PROVE  AllFinal /\ counts = Tally /\ \A d \in Targets : Kept(d)
<1>1. \A d \in Targets : outcome[d] # "none" /\ Kept(d)
  BY DEF IInv, Persisted, Backed
<1>2. \A d \in Targets : outcome[d] \in FinalDevice
  BY <1>1, TerminalIsFinal DEF IInv, TypeOK
<1>3. AllFinal
  BY <1>1, <1>2 DEF AllFinal, Kept
<1> QED
  BY <1>1, <1>3 DEF IInv, Persisted, Backed

LEMMA EnterAbortStep ==
  ASSUME IInv, EnterAbort
  PROVE  IInv'
<1> USE DEF IInv
<1>1. /\ pc = "abort" /\ pc' = "abortList" /\ aborts' = aborts + 1 /\ label' \in {"FAILED", "CANCELLED"}
      /\ UNCHANGED <<scanVars, work, left, at, begun, recordVars, fileVars, removal, faults>>
  BY DEF EnterAbort
<1> USE <1>1 DEF scanVars, recordVars, fileVars
<1>2. aborts + 1 \in 0..Aborts
  <2>1. aborts \in Nat /\ Aborts \in Nat /\ aborts < Aborts
    BY Numbers DEF Aborted
  <2> QED
    BY <2>1
<1>3. TypeOK'
  BY <1>2 DEF TypeOK, Aborting
<1>4. begun /\ Starting' /\ Begun' /\ Removing' /\ RowsBacked' /\ Workers'
  BY AbortFrame DEF InAbort, Aborting, Recorded
<1>5. Tally' = Tally
  BY SameTally
<1>6. Settled' = Settled
  BY <1>5 DEF Settled, AllFinal, Recorded
<1>7. Persisted'
  BY <1>5 DEF Persisted, Persisting, Backed, Kept
<1>8. Aborted'
  BY <1>6 DEF Aborted, Persisting, Closers
<1> QED
  BY <1>3, <1>4, <1>7, <1>8

LEMMA AbortListStep ==
  ASSUME IInv, AbortList
  PROVE  IInv'
<1> USE DEF IInv
<1>1. /\ pc = "abortList" /\ pc' = (IF left' = {} THEN "abortCount" ELSE "abortDevice")
      /\ left' = {d \in Targets : device[d] \notin FinalDevice \cup {"absent"}}
      /\ UNCHANGED <<scanVars, work, label, aborts, at, begun, recordVars, fileVars, removal, faults>>
  BY DEF AbortList, Step
<1>2. left' \subseteq Targets
  BY <1>1
<1>3. begun
  BY <1>1 DEF Starting, Before, Beginning, Cleaning
<1>4. Recorded => \A d \in Targets \ left' : device[d] \in FinalDevice
  BY <1>1, <1>3 DEF Begun
<1>5. \A d \in left' : device[d] \notin FinalDevice
  BY <1>1
<1>6. /\ pc = "abortList" /\ pc' \in {"abortCount", "abortDevice"}
      /\ pc' = "abortCount" => left' = {}
      /\ UNCHANGED <<scanVars, work, label, aborts, at, begun, recordVars, fileVars, removal, faults>>
  BY <1>1
<1> USE <1>6 DEF scanVars, recordVars, fileVars
<1>7. TypeOK'
  BY <1>2 DEF TypeOK, Aborting
<1>8. Starting' /\ Begun' /\ Removing' /\ RowsBacked' /\ Workers'
  BY AbortFrame DEF InAbort, Aborting, Recorded
<1>9. Tally' = Tally
  BY SameTally
<1>10. Settled' = Settled
  BY <1>9 DEF Settled, AllFinal, Recorded
<1>11. Persisted'
  BY <1>9 DEF Persisted, Persisting, Backed, Kept
<1>12. Aborted'
  BY <1>4, <1>5, <1>10 DEF Aborted, Persisting, Closers, AllFinal, Recorded
<1> QED
  BY <1>7, <1>8, <1>11, <1>12

LEMMA AbortDeviceStep ==
  ASSUME IInv, NEW d \in Targets, AbortDevice(d)
  PROVE  IInv'
<1> USE DEF IInv
<1> DEFINE s == IF label = "CANCELLED" THEN "CANCELLED" ELSE "EVALUATION_FAILED"
<1>1. /\ pc = "abortDevice" /\ pc' = (IF left' = {} THEN "abortCount" ELSE "abortDevice")
      /\ d \in left /\ left' = left \ {d} /\ Recorded /\ device' = [device EXCEPT ![d] = s]
      /\ UNCHANGED <<scanVars, work, label, aborts, at, begun, run, counts, rows, findings, fileVars,
                     removal, faults>>
  BY Needs DEF AbortDevice, Step
<1>2. s \in FinalDevice /\ "absent" \notin FinalDevice
  BY DEF FinalDevice
<1>3. /\ device' \in [Targets -> {"absent", "QUEUED", "COLLECTING"} \cup FinalDevice]
      /\ device'[d] \in FinalDevice /\ \A e \in Targets : e # d => device'[e] = device[e]
  BY <1>1, <1>2 DEF TypeOK
<1>4. ~AllFinal
  BY <1>1 DEF AllFinal, Aborted
<1>5. ~Settled /\ manifest \notin Success
  BY <1>1, <1>4, SealedIsFinal DEF Settled
<1> HIDE DEF s
<1>6. /\ pc = "abortDevice" /\ pc' \in {"abortCount", "abortDevice"}
      /\ pc' = "abortCount" => left' = {}
      /\ UNCHANGED <<scanVars, work, label, aborts, at, begun, run, counts, rows, findings, fileVars,
                     removal, faults>>
  BY <1>1
<1> USE <1>6 DEF scanVars, fileVars
<1>7. TypeOK'
  BY <1>1, <1>3 DEF TypeOK, Aborting
<1>8. Starting' /\ Begun' /\ Removing' /\ RowsBacked' /\ Workers'
  BY <1>2, <1>3, AbortFrame DEF InAbort, Aborting, Recorded
<1>9. Persisted'
  BY <1>5 DEF Persisted, Persisting
<1>10. Aborted'
  BY <1>1, <1>3, <1>5 DEF Aborted, Persisting, Closers, AllFinal, Recorded
<1> QED
  BY <1>7, <1>8, <1>9, <1>10

LEMMA AbortRunStep ==
  ASSUME IInv,
         Count("abortCount", "abortClose") \/ Close("abortClose", "abortFinalize", label)
           \/ Finalize("abortFinalize", "abortLog", label) \/ Log("abortLog", AfterAbort)
  PROVE  IInv'
<1> USE DEF IInv
<1>1. /\ UNCHANGED <<scanVars, work, label, aborts, removal, faults, begun, left, at, rows, device,
                     findings, bundle, evidence, results>>
      /\ pc \in Aborting \cup {"abortFinalize"}
  BY DEF Count, Close, Finalize, Log, Step, fileVars, recordVars, Aborting
<1>2. Tally' = Tally
  BY <1>1, SameTally
<1>3. label \in {"FAILED", "CANCELLED"} /\ label \notin Success /\ label \in FinalRun
  BY DEF TypeOK, Success, FinalRun
<1> USE <1>1 DEF scanVars
<1>4. CASE Count("abortCount", "abortClose")
  <2>1. /\ pc = "abortCount" /\ pc' = "abortClose" /\ counts' = Tally /\ UNCHANGED <<run, manifest>>
    BY <1>4 DEF Count, Step, fileVars
  <2>2. TypeOK'
    BY <2>1, TallyType DEF TypeOK, Aborting
  <2>3. Starting' /\ Begun' /\ Removing' /\ RowsBacked' /\ Workers'
    BY <2>1, AbortFrame DEF InAbort, Aborting, Recorded
  <2>4. Settled => Settled'
    BY <1>2, <2>1 DEF Settled, AllFinal, Recorded
  <2>5. Persisted'
    BY <1>2, <2>1 DEF Persisted, Persisting, Backed, Kept, Recorded
  <2>6. Aborted'
    BY <1>2, <2>1, <2>4 DEF Aborted, Persisting, Closers, AllFinal, Recorded
  <2> QED
    BY <2>2, <2>3, <2>5, <2>6
<1>5. CASE Close("abortClose", "abortFinalize", label)
  <2>1. /\ pc = "abortClose" /\ pc' = "abortFinalize" /\ run' = label /\ Recorded
        /\ UNCHANGED <<counts, manifest>>
    BY <1>5, Needs DEF Close, Step, fileVars
  <2>2. Recorded'
    BY <1>3, <2>1 DEF Recorded
  <2>3. TypeOK'
    BY <1>3, <2>1 DEF TypeOK
  <2>4. Starting' /\ Begun' /\ Removing' /\ RowsBacked' /\ Workers'
    BY <2>1, <2>2, AbortFrame DEF InAbort, Aborting
  <2>5. Settled'
    BY <1>2, <1>3, <2>1 DEF Settled, Aborted, AllFinal
  <2>6. Persisted'
    BY <1>2, <2>1 DEF Persisted, Persisting, Backed, Kept
  <2>7. Aborted'
    BY <2>1, <2>5 DEF Aborted, Persisting, Closers
  <2> QED
    BY <2>3, <2>4, <2>6, <2>7
<1>6. CASE Finalize("abortFinalize", "abortLog", label)
  <2>1. /\ pc = "abortFinalize" /\ pc' = "abortLog" /\ manifest' = label /\ bundle
        /\ manifest = "none" /\ UNCHANGED <<run, counts>>
    BY <1>6, Needs DEF Finalize, Step, recordVars, Writable
  <2>2. TypeOK'
    BY <1>3, <2>1 DEF TypeOK, Aborting
  <2>3. Starting' /\ Begun' /\ Removing' /\ RowsBacked' /\ Workers'
    BY <2>1, AbortFrame DEF InAbort, Aborting, Recorded
  <2>4. run \notin Success
    BY <2>1 DEF Aborted, Settled, Success
  <2>5. Settled'
    BY <1>2, <2>1, <2>4 DEF Aborted, Settled, AllFinal, Recorded
  <2>6. Persisted'
    BY <1>3, <2>1 DEF Persisted, Persisting
  <2>7. Aborted'
    BY <2>1, <2>5 DEF Aborted, Persisting, Closers
  <2> QED
    BY <2>2, <2>3, <2>6, <2>7
<1>7. CASE Log("abortLog", AfterAbort)
  <2>1. /\ pc = "abortLog" /\ UNCHANGED <<run, counts, manifest>>
        /\ \/ pc' = "abort" /\ aborts < Aborts
           \/ pc' = "ended"
    BY <1>7 DEF Log, Step, AfterAbort, recordVars, fileVars
  <2>2. TypeOK'
    BY <2>1 DEF TypeOK
  <2>3. Starting' /\ Begun' /\ Removing' /\ RowsBacked' /\ Workers'
    BY <2>1, AbortFrame DEF InAbort, Aborting, Recorded
  <2>4. Settled'
    BY <1>2, <2>1 DEF Aborted, Settled, AllFinal, Recorded
  <2>5. Persisted'
    BY <1>2, <2>1 DEF Persisted, Persisting, Backed, Kept
  <2>6. Aborted'
    BY <2>1, <2>4 DEF Aborted, Persisting, Closers
  <2> QED
    BY <2>2, <2>3, <2>5, <2>6
<1> QED
  BY <1>4, <1>5, <1>6, <1>7-----------------------------------------------------------------------------
(***************************************************************************)
(* The owner's step raises.                                                *)
(***************************************************************************)
\* Where the handlers take it.
LEMMA Handled ==
  /\ \A p \in Beginning : Handler(p) = "cleanRecord"
  /\ \A p \in {"scan"} \cup Persisting : Handler(p) = "abort"
  /\ Handler("abortFinalize") = "abortLog"
  /\ \A p \in Aborting : Handler(p) = AfterAbort
  /\ \A p \in {"createRun"} \cup Cleaning : Handler(p) = "ended"
  BY DEF Handler, Beginning, Persisting, Aborting, Cleaning

LEMMA RaiseFacts ==
  ASSUME IInv, Raise
  PROVE  /\ pc \in ({"createRun", "scan", "abortFinalize"} \cup Beginning \cup Persisting \cup Cleaning
                     \cup Aborting)
         /\ pc' = Handler(pc)
         /\ \/ ~Possible(pc) /\ faults' = faults
            \/ faults' = faults + 1
         /\ faults' \in 0..MaxFaults /\ faults' \in {faults, faults + 1}
         /\ UNCHANGED <<scanVars, work, left, at, begun, label, aborts, recordVars, fileVars, removal>>
<1>1. /\ pc \notin {"abort", "ended"} /\ pc' = Handler(pc)
      /\ \/ ~Possible(pc) /\ faults' = faults
         \/ faults < MaxFaults /\ faults' = faults + 1
      /\ UNCHANGED <<scanVars, work, left, at, begun, label, aborts, recordVars, fileVars, removal>>
  BY DEF Raise
<1>2. faults' \in 0..MaxFaults /\ faults' \in {faults, faults + 1}
  BY <1>1, LifecycleAssumption DEF IInv, TypeOK
<1>3. pc \in {"createRun", "scan", "abort", "abortFinalize", "ended"}
              \cup Beginning \cup Persisting \cup Cleaning \cup Aborting
  BY DEF IInv, TypeOK
<1> QED
  BY <1>1, <1>2, <1>3

\* What raises in begin_run is cleaned up, unless that raises as well.
LEMMA RaiseBefore ==
  ASSUME IInv, Raise, pc \in Before
  PROVE  IInv'
<1> USE DEF IInv
<1>1. /\ pc' = Handler(pc) /\ faults' \in 0..MaxFaults
      /\ UNCHANGED <<scanVars, work, left, at, begun, label, aborts, recordVars, fileVars, removal>>
  BY RaiseFacts
<1>2. ~begun
  BY DEF Begun
<1> USE <1>1, <1>2 DEF scanVars, recordVars, fileVars
<1>3. Possible(pc)
  BY Needs DEF Starting, Before, Beginning, Cleaning, Writable
<1>4. faults \in Nat /\ faults' = faults + 1
  BY <1>3, RaiseFacts, Numbers
<1>5. pc' = (IF pc \in Beginning THEN "cleanRecord" ELSE "ended")
  BY Handled DEF Before, Beginning, Cleaning
<1>6. TypeOK'
  BY <1>5 DEF TypeOK, Cleaning
<1>7. Starting'
  <2>1. CASE pc \in Beginning
    <3>1. pc' = "cleanRecord" /\ faults' >= 1
      BY <2>1, <1>4, <1>5
    <3> QED
      BY <3>1 DEF Starting, Before, Beginning, Cleaning
  <2>2. CASE pc = "createRun"
    BY <2>2, <1>5 DEF Starting, Before, Beginning, Cleaning
  <2>3. CASE pc \in Cleaning
    <3>1. faults >= 1
      BY <2>3 DEF Starting
    <3>2. pc' = "ended" /\ faults' >= 2
      BY <2>3, <3>1, <1>4, <1>5 DEF Beginning, Cleaning
    <3> QED
      BY <3>2 DEF Starting, Before, Beginning, Cleaning
  <2> QED
    BY <2>1, <2>2, <2>3 DEF Before
<1> QED
  BY <1>6, <1>7, NotBegun

\* What raises after it is aborted, at the price of a fault or of the removal.
LEMMA RaiseAfter ==
  ASSUME IInv, Raise, pc \notin Before
  PROVE  IInv'
<1> USE DEF IInv
<1>1. /\ pc' = Handler(pc) /\ faults' \in 0..MaxFaults /\ faults' \in {faults, faults + 1}
      /\ UNCHANGED <<scanVars, work, left, at, begun, label, aborts, recordVars, fileVars, removal>>
  BY RaiseFacts
<1>2. pc \in {"scan", "abortFinalize"} \cup Persisting \cup Aborting
  BY RaiseFacts DEF Before
<1>3. begun
  BY <1>2 DEF Starting, Before, Beginning, Cleaning, Persisting, Aborting
<1> USE <1>1, <1>3 DEF scanVars, recordVars, fileVars
<1>4. Tally' = Tally
  BY SameTally
<1>5. Settled' = Settled
  BY <1>4 DEF Settled, AllFinal, Recorded
<1>6. aborts \in Nat /\ Aborts \in {1, 2} /\ aborts <= Aborts
  BY Numbers
<1>7. \/ ~Possible(pc)
      \/ \A k \in Nat : faults + Slack >= k => faults' + Slack >= k + 1
  <2>1. faults \in Nat /\ Slack \in Nat
    BY Numbers
  <2>2. \A i, j, n, k \in Nat : j = i + 1 /\ i + n >= k => j + n >= k + 1
    OBVIOUS
  <2>3. faults' = faults + 1 => \A k \in Nat : faults + Slack >= k => faults' + Slack >= k + 1
    BY <2>1, <2>2
  <2> QED
    BY <2>3, RaiseFacts
<1>8. faults + Slack >= 0
  <2>1. faults \in Nat /\ Slack \in Nat
    BY Numbers
  <2> QED
    BY <2>1
<1>9. CASE pc \in {"scan"} \cup Persisting
  <2>1. pc' = "abort" /\ aborts = 0 /\ (pc # "completed" => manifest = "none")
    BY <1>9, Handled DEF Persisted, Aborted
  <2>2. Settled \/ faults' + Slack >= aborts + 1
    <3>1. CASE Possible(pc)
      <4>1. faults' + Slack >= 0 + 1
        BY <3>1, <1>7, <1>8
      <4> QED
        BY <4>1, <2>1
    <3>2. CASE ~Possible(pc)
      <4>1. ~Recorded \/ ~bundle
        BY <3>2, <2>1, <1>9, Needs DEF Persisting, Writable
      <4>2. CASE ~Unguarded
        BY <4>1, <4>2, <1>9 DEF Begun, Persisting
      <4>3. CASE Unguarded
        <5>1. faults' + Slack >= 0 + 1
          BY <4>3, SlackExcuses
        <5> QED
          BY <5>1, <2>1
      <4> QED
        BY <4>2, <4>3
    <3> QED
      BY <3>1, <3>2
  <2>3. aborts < Aborts
    BY <2>1, <1>6
  <2>4. TypeOK'
    BY <2>1 DEF TypeOK
  <2>5. Starting' /\ Begun' /\ Removing' /\ RowsBacked'
    BY <2>1, <1>9 DEF Starting, Begun, Removing, RowsBacked, Before, Beginning, Cleaning, Recorded, Persisting
  <2>6. Workers'
    BY <2>1, <1>9 DEF Workers, Raise, AllReturned, NoneStarted
  <2>7. Persisted'
    BY <2>1, <1>4 DEF Persisted, Persisting, Backed, Kept
  <2>8. Aborted'
    BY <2>1, <2>2, <2>3, <1>5 DEF Aborted, Persisting, Closers
  <2> QED
    BY <2>4, <2>5, <2>6, <2>7, <2>8
<1>10. CASE pc = "abortFinalize"
  <2>1. pc' = "abortLog"
    BY <1>10, Handled
  <2>2. TypeOK'
    BY <2>1 DEF TypeOK, Aborting
  <2>3. Starting' /\ Begun' /\ Removing' /\ RowsBacked' /\ Workers'
    BY <2>1, <1>10, AbortFrame DEF InAbort, Aborting, Recorded
  <2>4. Persisted'
    BY <2>1, <1>4 DEF Persisted, Persisting, Backed, Kept
  <2>5. Aborted'
    BY <2>1, <1>5, <1>10 DEF Aborted, Persisting, Closers
  <2> QED
    BY <2>2, <2>3, <2>4, <2>5
<1>11. CASE pc \in Aborting
  <2>1. pc' = AfterAbort
    BY <1>11, Handled
  <2>2. \/ pc' = "abort" /\ aborts < Aborts
        \/ pc' = "ended" /\ aborts = Aborts
    BY <2>1, <1>6 DEF AfterAbort
  <2>3. Settled \/ faults' + Slack >= aborts + 1
    <3>1. CASE pc = "abortLog"
      BY <3>1 DEF Aborted
    <3>2. CASE pc \in Closers
      <4>1. Settled \/ faults + Slack >= aborts
        BY <3>2 DEF Aborted
      <4>2. CASE Possible(pc)
        BY <4>1, <4>2, <1>6, <1>7
      <4>3. CASE ~Possible(pc)
        <5>1. ~Recorded
          BY <4>3, <3>2, Needs DEF Closers
        <5> QED
          BY <5>1 DEF Settled, Recorded, Success
      <4> QED
        BY <4>2, <4>3
    <3> QED
      BY <3>1, <3>2, <1>11 DEF Aborting, Closers
  <2>4. TypeOK'
    BY <2>2 DEF TypeOK
  <2>5. Starting' /\ Begun' /\ Removing' /\ RowsBacked' /\ Workers'
    BY <2>2, <1>11, AbortFrame DEF InAbort, Aborting, Recorded
  <2>6. Persisted'
    BY <2>2, <1>4 DEF Persisted, Persisting, Backed, Kept
  <2>7. Aborted'
    BY <2>2, <2>3, <1>5 DEF Aborted, Persisting, Closers
  <2> QED
    BY <2>4, <2>5, <2>6, <2>7
<1> QED
  BY <1>2, <1>9, <1>10, <1>11-----------------------------------------------------------------------------
(***************************************************************************)
(* The inductive invariant, and what follows from it.                      *)
(***************************************************************************)
LEMMA InitIInv == Init => IInv
<1> SUFFICES ASSUME Init PROVE IInv
  OBVIOUS
<1>1. /\ outcome = [d \in Targets |-> "none"] /\ cancel = FALSE /\ scan = "RUNNING"
      /\ work = [d \in Targets |-> "waiting"]
      /\ pc = "createRun" /\ left = {} /\ at = 0 /\ begun = FALSE /\ label = "FAILED" /\ aborts = 0
      /\ run = "absent" /\ device = [d \in Targets |-> "absent"]
      /\ counts = [success |-> 0, failure |-> 0, cancelled |-> 0]
      /\ rows = {} /\ findings = {}
      /\ bundle = FALSE /\ evidence = {} /\ results = {} /\ manifest = "none"
      /\ removal = "none" /\ faults = 0
  BY DEF Init, Contract!ContractInit, Contract!Targets, Targets
<1>2. TypeOK
  <2>1. /\ 0 \in 0..N /\ 0 \in 0..Aborts /\ 0 \in 0..MaxFaults
        /\ counts \in [success : 0..N, failure : 0..N, cancelled : 0..N]
    BY <1>1, LifecycleAssumption
  <2>2. /\ outcome \in [Targets -> {"none"} \cup Contract!Terminal]
        /\ work \in [Targets -> {"waiting", "stored", "returned"} \cup InSink]
        /\ device \in [Targets -> {"absent", "QUEUED", "COLLECTING"} \cup FinalDevice]
    BY <1>1
  <2> QED
    BY <1>1, <2>1, <2>2 DEF TypeOK
<1>3. Starting
  BY <1>1 DEF Starting, Before, Beginning, Cleaning
<1>4. Begun /\ Removing /\ RowsBacked
  BY <1>1 DEF Begun, Removing, RowsBacked
<1>5. Workers
  BY <1>1 DEF Workers
<1>6. Persisted
  BY <1>1 DEF Persisted, Persisting, Success
<1>7. Aborted
  BY <1>1 DEF Aborted, Persisting, Closers
<1> QED
  BY <1>2, <1>3, <1>4, <1>5, <1>6, <1>7 DEF IInv

LEMMA NextIInv == IInv /\ [Next]_vars => IInv'
<1> SUFFICES ASSUME IInv, [Next]_vars PROVE IInv'
  OBVIOUS
<1>1. CASE UNCHANGED vars
  <2> USE <1>1 DEF vars, scanVars, localVars, recordVars, fileVars
  <2>1. Tally' = Tally
    BY SameTally
  <2>2. Settled' = Settled
    BY <2>1 DEF Settled, AllFinal, Recorded
  <2>3. TypeOK' = TypeOK
    BY DEF TypeOK
  <2>4. /\ Starting' = Starting /\ Begun' = Begun /\ Removing' = Removing /\ Workers' = Workers
        /\ RowsBacked' = RowsBacked
    BY DEF Starting, Begun, Removing, Workers, RowsBacked, Recorded
  <2>5. Persisted' = Persisted /\ Aborted' = Aborted
    BY <2>1, <2>2 DEF Persisted, Aborted, Backed, Kept, AllFinal, Recorded
  <2> QED
    BY <2>3, <2>4, <2>5 DEF IInv
<1>2. ASSUME Owner PROVE IInv'
  <2>1. ASSUME PersistResult PROVE IInv'
    BY <2>1, PersistDeviceStep, PersistRunStep, CompletedStep DEF PersistResult
  <2>2. ASSUME AbortRun PROVE IInv'
    BY <2>2, EnterAbortStep, AbortListStep, AbortDeviceStep, AbortRunStep DEF AbortRun
  <2>3. ASSUME Raise PROVE IInv'
    BY <2>3, RaiseBefore, RaiseAfter
  <2> QED
    BY <1>2, <2>1, <2>2, <2>3, BeginStep, StartedStep, ScanReturnsStep DEF Owner
<1>3. ASSUME NEW d \in Targets, Worker(d) PROVE IInv'
  BY <1>3, ReturnEarlyStep, SinkStep, SinkRaisesStep, EvaluateStep DEF Worker
<1>4. ASSUME Delete PROVE IInv'
  BY <1>4, RemoveFilesStep, RemoveRecordStep, RemovalEndsStep DEF Delete
<1> QED
  BY <1>1, <1>2, <1>3, <1>4, CancelStep DEF Next, Ended

\* How far owner, workers and a deletion are determines what record and bundle
\* hold, however many steps raise.
THEOREM LifecycleInvariant == Spec => []IInv
<1> QED
  BY InitIInv, NextIInv, PTL DEF Spec

\* The records and the bundle hold what they should: a device record holds a
\* device status, never the status of a run.
THEOREM LifecycleTypes == Spec => []TypeOK
<1>1. IInv => TypeOK
  BY DEF IInv
<1> QED
  BY <1>1, LifecycleInvariant, PTL

\* However many steps raise, a manifest that reports a success is the last
\* thing written, and an artifact row points at evidence.
THEOREM SealedLast == Spec => [](ManifestLast /\ RowsBacked)
<1>1. IInv => ManifestLast
  <2> SUFFICES ASSUME IInv, manifest \in {"COMPLETE", "PARTIAL"}
               PROVE  /\ device = outcome /\ counts = Tally
                      /\ findings = Targets /\ results = Targets
                      /\ \A d \in Targets : outcome[d] = "COMPLETE" => d \in rows \cap evidence
    BY DEF ManifestLast
  <2>1. (\A d \in Targets : Kept(d)) /\ counts = Tally
    BY SealedIsFinal DEF Success
  <2>2. device = outcome
    BY <2>1 DEF Kept, IInv, TypeOK
  <2>3. findings = Targets /\ results = Targets
    BY <2>1 DEF Kept, IInv, TypeOK
  <2>4. \A d \in Targets : outcome[d] = "COMPLETE" => d \in rows \cap evidence
    BY DEF IInv, Workers
  <2> QED
    BY <2>1, <2>2, <2>3, <2>4
<1>2. IInv => RowsBacked
  BY DEF IInv
<1> QED
  BY <1>1, <1>2, LifecycleInvariant, PTL

\* The exceptions the handlers are made for: one step that raises, for which
\* there is an abort to spare even if the files are deleted meanwhile.
Tolerated == faults <= 1 /\ faults + Slack <= Aborts

\* As long as no more raises than the handlers are made for, what the owner
\* leaves is nothing, or a run that is closed, consistent and sealed.
THEOREM RunClosed == Spec => [](Tolerated => ClosedAndSealed)
<1>1. IInv /\ Tolerated => BeginIsAtomic
  <2>1. IInv /\ Tolerated => faults \in Nat /\ ~(faults >= 2)
    BY Numbers DEF IInv, Tolerated
  <2> QED
    BY <2>1 DEF IInv, Starting, BeginIsAtomic
<1>2. IInv /\ Tolerated /\ pc = "ended" /\ Recorded => Settled
  <2> SUFFICES ASSUME IInv, Tolerated, pc = "ended", Recorded PROVE Settled
    OBVIOUS
  <2>1. begun
    BY <1>1 DEF BeginIsAtomic, Recorded
  <2>2. ~(faults + Slack >= Aborts + 1)
    <3>1. faults \in Nat /\ Slack \in Nat /\ Aborts \in Nat
      BY Numbers DEF IInv
    <3>2. \A i, j, k \in Nat : i + j <= k => ~(i + j >= k + 1)
      OBVIOUS
    <3> QED
      BY <3>1, <3>2 DEF Tolerated
  <2> QED
    BY <2>1, <2>2 DEF IInv, Aborted
<1>3. IInv /\ Tolerated => NeverFalselyRunning /\ SuccessIsSealed
  BY <1>2 DEF NeverFalselyRunning, SuccessIsSealed, Settled, AllFinal, Recorded, Success
<1> QED
  BY <1>1, <1>3, LifecycleInvariant, SealedLast, PTL DEF ClosedAndSealed

\* A step leaves a sealed bundle alone or deletes it, and makes neither a
\* deleted record nor a deleted bundle again.
LEMMA FinalStep ==
  ASSUME IInv, [Next]_vars
  PROVE  /\ manifest # "none" => UNCHANGED fileVars \/ ~bundle'
         /\ begun => (bundle' => bundle) /\ (Recorded' => Recorded)
<1> USE DEF IInv
<1>1. CASE UNCHANGED vars
  BY <1>1 DEF vars, recordVars, fileVars, Recorded
<1>2. CASE Owner
  <2>1. CASE pc \in Before \ {"started"}
    <3>1. ~begun /\ manifest = "none"
      BY <2>1 DEF Begun, Starting
    <3> QED
      BY <3>1
  <2>2. CASE pc \notin Before \ {"started"}
    <3>1. /\ bundle' = bundle
          /\ \/ UNCHANGED fileVars
             \/ Writable /\ UNCHANGED <<bundle>>
      <4>1. CASE Started \/ ScanReturns \/ AbortRun \/ Raise \/ PersistResult
        BY <4>1, Needs DEF Started, ScanReturns, AbortRun, Raise, PersistResult, EnterAbort, AbortList,
           AbortDevice, PersistStatus, PersistFindings, PersistFile, Count, Close, Finalize, Log, Step,
           fileVars, recordVars, localVars
      <4> QED
        BY <1>2, <2>2, <4>1 DEF Owner, CreateRun, CreateBundle, PrepareDevice, SetRunning, AddDevice,
           CleanRecord, CleanBundle, Step, Before, Beginning, Cleaning
    <3>2. Recorded' => Recorded
      <4>1. CASE Started \/ ScanReturns \/ AbortRun \/ Raise \/ PersistResult
        BY <4>1, Needs DEF Started, ScanReturns, AbortRun, Raise, PersistResult, EnterAbort, AbortList,
           AbortDevice, PersistStatus, PersistFindings, PersistFile, Count, Close, Finalize, Log, Step,
           fileVars, recordVars, localVars, Recorded
      <4> QED
        BY <1>2, <2>2, <4>1 DEF Owner, CreateRun, CreateBundle, PrepareDevice, SetRunning, AddDevice,
           CleanRecord, CleanBundle, Step, Before, Beginning, Cleaning
    <3> QED
      BY <3>1, <3>2 DEF Writable
  <2> QED
    BY <2>1, <2>2
<1>3. ASSUME NEW d \in Targets, Worker(d)
      PROVE  UNCHANGED <<run, bundle>> /\ (manifest # "none" => UNCHANGED fileVars)
  <2>1. pc = "scan"
    BY <1>3 DEF Worker, ReturnEarly, EnterSink, SinkUpdate, SinkCheck, SinkStore, SinkRow, SinkRaises,
                Evaluate, Workers, InSink
  <2>2. manifest = "none"
    BY <2>1 DEF Persisted
  <2> QED
    BY <1>3, <2>2 DEF Worker, ReturnEarly, EnterSink, SinkUpdate, SinkCheck, SinkStore, SinkRow,
                      SinkRaises, Evaluate, recordVars, fileVars
<1>4. CASE RequestCancel
  BY <1>4 DEF RequestCancel, recordVars, fileVars, Recorded
<1>5. CASE Delete
  BY <1>5 DEF Delete, RemoveFiles, RemoveRecord, LogRemoval, RemovalRaises, NoBundle, NoRecord,
              OperatorOnly, recordVars, fileVars, Recorded
<1>6. CASE Ended
  BY <1>6 DEF Ended, vars, recordVars, fileVars, Recorded
<1> QED
  BY <1>1, <1>2, <1>3, <1>4, <1>5, <1>6 DEF Next, Recorded

\* What is final stays final: the sealed bundle until it is deleted, and what
\* the operator deleted, even of a run that was still active.
THEOREM FinalStays == Spec => FinalIsFinal
<1>1. IInv /\ [Next]_vars => [manifest # "none" => UNCHANGED fileVars \/ ~bundle']_vars
  BY FinalStep
<1>2. IInv /\ [Next]_vars => [begun => (bundle' => bundle) /\ (Recorded' => Recorded)]_vars
  BY FinalStep
<1> QED
  BY <1>1, <1>2, LifecycleInvariant, PTL DEF Spec, FinalIsFinal, SealedBundle, NoResurrection
=============================================================================
