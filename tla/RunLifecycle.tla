---------------------------- MODULE RunLifecycle ----------------------------
(***************************************************************************)
(* The durable life of one audit run: RunService.begin_run, the evidence   *)
(* sink its device workers call, persist_result, abort_run and delete_run, *)
(* as the scan thread of the GUI drives them.  A step is one database      *)
(* transaction or one operation of the evidence store; every step may      *)
(* raise, and an exception goes where the code's handlers take it.         *)
(*                                                                         *)
(* The scan itself is ScanContract, which ScanOrchestrator implements: its *)
(* outcomes are decided here by the workers, its status when all are done. *)
(***************************************************************************)
EXTENDS Naturals, FiniteSets

CONSTANTS N,                \* number of targets
          CollectionErrors, \* connection and collection errors considered
          MaxFaults,        \* bound: steps that raise although they could work
          Aborts,           \* abort_run calls after an exception: 1 for a live
                            \* scan, 2 for a checklist scan, which aborts inside
                            \* _run_service_targets and again in its caller
          Unguarded         \* may the run be deleted while it is active?

ASSUME LifecycleAssumption ==
  /\ N \in Nat
  /\ CollectionErrors \subseteq {"AUTH_FAILED", "CONNECT_FAILED", "COLLECTION_FAILED"}
  /\ MaxFaults \in Nat /\ Aborts \in {1, 2} /\ Unguarded \in BOOLEAN

VARIABLES outcome, cancel, scan, \* of the scan: outcomes, cancellation, status
          work,     \* what each device worker is doing
          pc,       \* the next step of the thread that owns the run
          left, at, \* devices its loop has still to visit, and the one it visits
          begun,    \* did begin_run return a context?
          label,    \* status the current abort_run closes the run with
          aborts,   \* abort_run calls entered
          run,      \* status of the audit_run record, "absent" without one
          device,   \* status of each run_device record
          counts,   \* success, failure and cancelled counts of the record
          rows,     \* devices with an evidence_artifact row
          findings, \* devices with check_result rows
          bundle,   \* does the run directory exist?
          evidence, \* devices whose raw evidence is in it
          results,  \* devices with a results.json
          manifest, \* status in manifest.json, "none" without one
          removal,  \* delete_run: the step it is at
          faults

scanVars   == <<outcome, cancel, scan>>
localVars  == <<work, pc, left, at, begun, label, aborts>>
recordVars == <<run, device, counts, rows, findings>>
fileVars   == <<bundle, evidence, results, manifest>>
vars == <<scanVars, localVars, recordVars, fileVars, removal, faults>>

Contract == INSTANCE ScanContract WITH status <- scan

Targets     == 1..N
FinalRun    == {"COMPLETE", "PARTIAL", "FAILED", "CANCELLED"}
FinalDevice == {"COMPLETE", "AUTH_FAILED", "CONNECT_FAILED", "COLLECTION_FAILED",
                "EVALUATION_FAILED", "CANCELLED"}

Init ==
  /\ Contract!ContractInit
  /\ work = [d \in Targets |-> "waiting"]
  /\ pc = "createRun" /\ left = {} /\ at = 0 /\ begun = FALSE /\ label = "FAILED" /\ aborts = 0
  /\ run = "absent" /\ device = [d \in Targets |-> "absent"]
  /\ counts = [success |-> 0, failure |-> 0, cancelled |-> 0]
  /\ rows = {} /\ findings = {}
  /\ bundle = FALSE /\ evidence = {} /\ results = {} /\ manifest = "none"
  /\ removal = "none" /\ faults = 0
-----------------------------------------------------------------------------
(***************************************************************************)
(* What a step needs of the database or the store, and where it goes when  *)
(* it raises.                                                              *)
(***************************************************************************)
Recorded == run # "absent"
Writable == bundle /\ manifest = "none"

Possible(p) ==
  CASE p \in {"createRun", "createBundle", "started", "scan", "abortList",
              "completed", "abortLog", "cleanRecord", "cleanBundle"} -> TRUE
    [] p \in {"prepareDevice", "persistFile", "finalize", "abortFinalize"} -> Writable
    [] OTHER -> Recorded

Beginning  == {"createBundle", "addDevice", "prepareDevice", "setRunning", "started"}
Persisting == {"persistStatus", "persistFindings", "persistFile", "count", "close",
               "finalize", "completed"}
Cleaning   == {"cleanRecord", "cleanBundle"}
Aborting   == {"abortList", "abortDevice", "abortCount", "abortClose", "abortLog"}

AfterAbort == IF aborts < Aborts THEN "abort" ELSE "ended"

\* Fault: what finalize_run raises is swallowed, as it is in abort_run.
HandlerSealingQuietly(p) ==
  CASE p \in Beginning                -> "cleanRecord"
    [] p = "finalize"                 -> "completed"
    [] p \in {"scan"} \cup Persisting -> "abort"
    [] p = "abortFinalize"            -> "abortLog"
    [] p \in Aborting                 -> AfterAbort
    [] OTHER                          -> "ended"

Handler(p) ==
  CASE p \in Beginning               -> "cleanRecord"
    [] p \in {"scan"} \cup Persisting -> "abort"
    [] p = "abortFinalize"           -> "abortLog"
    [] p \in Aborting                -> AfterAbort
    [] p \in {"createRun"} \cup Cleaning -> "ended"

\* Fault: the pool is not waited for.
NotAwaited == TRUE

AllReturned == \A d \in Targets : work[d] = "returned"
NoneStarted == \A d \in Targets : work[d] = "waiting"

\* The owner's step raises: by a fault, or because the run is gone or sealed.
\* The scan as a whole raises before its workers start or after they end.
Raise ==
  /\ pc \notin {"abort", "ended"}
  /\ pc = "scan" => AllReturned \/ NoneStarted
  /\ \/ ~Possible(pc) /\ UNCHANGED faults
     \/ faults < MaxFaults /\ faults' = faults + 1
  /\ pc' = Handler(pc)
  /\ UNCHANGED <<scanVars, work, left, at, begun, label, aborts, recordVars, fileVars, removal>>

\* The owner's step p succeeds and is followed by q.
Step(p, q) ==
  /\ pc = p /\ Possible(p) /\ pc' = q
  /\ UNCHANGED <<scanVars, work, label, aborts, removal, faults>>

\* Fault: the loop of persist_result does not notice that it is done.
LoopOn(p, q) == IF p = "addDevice" /\ left = {} THEN q ELSE p

\* A loop over the devices returns to p, or goes on to q when none is left.
Loop(p, q) == IF left = {} THEN q ELSE p
-----------------------------------------------------------------------------
(***************************************************************************)
(* begin_run.                                                              *)
(***************************************************************************)
CreateRun ==
  /\ Step("createRun", "createBundle")
  /\ run' = "CREATED"
  /\ UNCHANGED <<left, at, begun, device, counts, rows, findings, fileVars>>

CreateBundle ==
  /\ Step("createBundle", IF N = 0 THEN "setRunning" ELSE "addDevice")
  /\ bundle' = TRUE
  /\ left' = Targets
  /\ UNCHANGED <<at, begun, recordVars, evidence, results, manifest>>

AddDevice(d) ==
  /\ d \in left /\ device[d] = "absent"
  /\ Step("addDevice", "prepareDevice")
  /\ device' = [device EXCEPT ![d] = "QUEUED"]
  /\ left' = left \ {d}
  /\ UNCHANGED <<at, begun, run, counts, rows, findings, fileVars>>

\* device.json of the device just added.
PrepareDevice ==
  /\ Step("prepareDevice", Loop("addDevice", "setRunning"))
  /\ UNCHANGED <<left, at, begun, recordVars, fileVars>>

SetRunning ==
  /\ Step("setRunning", "started")
  /\ run' = "RUNNING"
  /\ UNCHANGED <<left, at, begun, device, counts, rows, findings, fileVars>>

\* AUDIT_STARTED is logged and the context returned.
Started ==
  /\ Step("started", "scan")
  /\ begun' = TRUE
  /\ UNCHANGED <<left, at, recordVars, fileVars>>

NoRecord ==
  /\ run' = "absent" /\ device' = [d \in Targets |-> "absent"]
  /\ counts' = [success |-> 0, failure |-> 0, cancelled |-> 0]
  /\ rows' = {} /\ findings' = {}

NoBundle == bundle' = FALSE /\ evidence' = {} /\ results' = {} /\ manifest' = "none"

\* Fault: only the record is cleaned up.
CleanRecordOnly ==
  /\ Step("cleanRecord", "ended")
  /\ NoRecord
  /\ UNCHANGED <<left, at, begun, fileVars>>

CleanRecord ==
  /\ Step("cleanRecord", "cleanBundle")
  /\ NoRecord
  /\ UNCHANGED <<left, at, begun, fileVars>>

CleanBundle ==
  /\ Step("cleanBundle", "ended")
  /\ NoBundle
  /\ UNCHANGED <<left, at, begun, recordVars>>
-----------------------------------------------------------------------------
(***************************************************************************)
(* The device workers and their evidence sink.                             *)
(***************************************************************************)
InSink == {"update", "store", "storing", "row"}

\* The worker ends with outcome s.
Returns(d, s) ==
  /\ work' = [work EXCEPT ![d] = "returned"]
  /\ Contract!Decide({d}) /\ outcome'[d] = s

WorkerOnly == UNCHANGED <<pc, left, at, begun, label, aborts, removal>>

\* Collection failed, or cancellation was seen before the sink.
ReturnEarly(d) ==
  /\ pc = "scan" /\ work[d] = "waiting"
  /\ \E s \in Contract!Failures \cup {"CANCELLED"} : Returns(d, s)
  /\ WorkerOnly /\ UNCHANGED <<recordVars, fileVars, faults>>

\* The sink's lock is the context's: one device at a time.
EnterSink(d) ==
  /\ pc = "scan" /\ work[d] = "waiting"
  /\ \A e \in Targets : work[e] \notin InSink
  /\ work' = [work EXCEPT ![d] = "update"]
  /\ WorkerOnly /\ UNCHANGED <<scanVars, recordVars, fileVars, faults>>

SinkUpdate(d) ==
  /\ work[d] = "update" /\ Recorded /\ Writable
  /\ work' = [work EXCEPT ![d] = "store"]
  /\ device' = [device EXCEPT ![d] = "COLLECTING"]
  /\ WorkerOnly /\ UNCHANGED <<scanVars, run, counts, rows, findings, fileVars, faults>>

\* write_evidence asks _writable_run before it takes the store's lock.
SinkCheck(d) ==
  /\ work[d] = "store" /\ Writable
  /\ work' = [work EXCEPT ![d] = "storing"]
  /\ WorkerOnly /\ UNCHANGED <<scanVars, recordVars, fileVars, faults>>

\* Fault: the directories of an artifact are made when they are missing.
SinkStoreMaking(d) ==
  /\ work[d] = "storing"
  /\ work' = [work EXCEPT ![d] = "row"]
  /\ evidence' = evidence \cup {d} /\ bundle' = TRUE
  /\ WorkerOnly /\ UNCHANGED <<scanVars, recordVars, results, manifest, faults>>

\* Fault: the row goes first.
SinkRowFirst(d) ==
  /\ work[d] = "storing" /\ Recorded
  /\ work' = [work EXCEPT ![d] = "row"]
  /\ rows' = rows \cup {d}
  /\ WorkerOnly /\ UNCHANGED <<scanVars, run, device, counts, findings, fileVars, faults>>

SinkStore(d) ==
  /\ work[d] = "storing" /\ bundle
  /\ work' = [work EXCEPT ![d] = "row"]
  /\ evidence' = evidence \cup {d}
  /\ WorkerOnly /\ UNCHANGED <<scanVars, recordVars, bundle, results, manifest, faults>>

SinkRow(d) ==
  /\ work[d] = "row" /\ Recorded
  /\ work' = [work EXCEPT ![d] = "stored"]
  /\ rows' = rows \cup {d}
  /\ WorkerOnly /\ UNCHANGED <<scanVars, run, device, counts, findings, fileVars, faults>>

\* _evaluate_device turns what the sink raises into an outcome.  The part of
\* the step that came before the exception is durable.
SinkRaises(d) ==
  /\ work[d] \in InSink
  /\ \/ ~(Recorded /\ Writable) /\ UNCHANGED faults
     \/ faults < MaxFaults /\ faults' = faults + 1
  /\ Returns(d, "EVALUATION_FAILED")
  /\ \/ UNCHANGED <<device, evidence, rows>>
     \/ /\ work[d] = "update" /\ Recorded
        /\ device' = [device EXCEPT ![d] = "COLLECTING"]
        /\ UNCHANGED <<evidence, rows>>
     \/ /\ work[d] = "storing" /\ bundle
        /\ evidence' = evidence \cup {d}
        /\ UNCHANGED <<device, rows>>
     \/ /\ work[d] = "row" /\ Recorded
        /\ rows' = rows \cup {d}
        /\ UNCHANGED <<device, evidence>>
  /\ WorkerOnly /\ UNCHANGED <<run, counts, findings, bundle, results, manifest>>

\* Parsing and evaluation.
Evaluate(d) ==
  /\ work[d] = "stored"
  /\ \E s \in {"COMPLETE", "EVALUATION_FAILED"} : Returns(d, s)
  /\ WorkerOnly /\ UNCHANGED <<recordVars, fileVars, faults>>

Worker(d) ==
  \/ ReturnEarly(d) \/ EnterSink(d) \/ SinkUpdate(d) \/ SinkCheck(d) \/ SinkStore(d)
  \/ SinkRow(d) \/ SinkRaises(d) \/ Evaluate(d)

RequestCancel ==
  /\ begun /\ pc # "ended"
  /\ Contract!RequestCancellation
  /\ UNCHANGED <<localVars, recordVars, fileVars, removal, faults>>
-----------------------------------------------------------------------------
(***************************************************************************)
(* run_live returns, persist_result.                                       *)
(***************************************************************************)
ScanReturns ==
  /\ pc = "scan" /\ AllReturned
  /\ Contract!Close
  /\ pc' = IF N = 0 THEN "count" ELSE "persistStatus"
  /\ left' = Targets
  /\ UNCHANGED <<work, at, begun, label, aborts, recordVars, fileVars, removal, faults>>

PersistStatus(d) ==
  /\ d \in left
  /\ Step("persistStatus", "persistFindings")
  /\ at' = d /\ left' = left \ {d}
  /\ device' = [device EXCEPT ![d] = outcome[d]]
  /\ UNCHANGED <<begun, run, counts, rows, findings, fileVars>>

\* A device that failed has a DEVICE-SCAN result, so every device has results.
PersistFindings ==
  /\ Step("persistFindings", "persistFile")
  /\ findings' = findings \cup {at}
  /\ UNCHANGED <<left, at, begun, run, device, counts, rows, fileVars>>

PersistFile ==
  /\ Step("persistFile", Loop("persistStatus", "count"))
  /\ results' = results \cup {at}
  /\ UNCHANGED <<left, at, begun, recordVars, bundle, evidence, manifest>>

DevicesIn(S) == Cardinality({d \in Targets : device[d] \in S})
Tally == [success   |-> DevicesIn({"COMPLETE"}),
          failure   |-> DevicesIn(FinalDevice \ {"COMPLETE", "CANCELLED"}),
          cancelled |-> DevicesIn({"CANCELLED"})]

\* refresh_run_counts.
Count(p, q) ==
  /\ Step(p, q)
  /\ counts' = Tally
  /\ UNCHANGED <<left, at, begun, run, device, rows, findings, fileVars>>

\* update_run to the final status s.
Close(p, q, s) ==
  /\ Step(p, q)
  /\ run' = s
  /\ UNCHANGED <<left, at, begun, device, counts, rows, findings, fileVars>>

\* finalize_run.
Finalize(p, q, s) ==
  /\ Step(p, q)
  /\ manifest' = s
  /\ UNCHANGED <<left, at, begun, recordVars, bundle, evidence, results>>

\* The activity log gets its entry.
Log(p, q) == Step(p, q) /\ UNCHANGED <<left, at, begun, recordVars, fileVars>>

\* Fault: the bundle is sealed before the counts are refreshed.
SealBeforeCount ==
  \/ \E d \in Targets : PersistStatus(d)
  \/ PersistFindings \/ PersistFile
  \/ Finalize("count", "close", scan)
  \/ Close("close", "finalize", scan)
  \/ Count("finalize", "completed")
  \/ Log("completed", "ended")

PersistResult ==
  \/ \E d \in Targets : PersistStatus(d)
  \/ PersistFindings \/ PersistFile
  \/ Count("count", "close")
  \/ Close("close", "finalize", scan)
  \/ Finalize("finalize", "completed", scan)
  \/ Log("completed", "ended")
-----------------------------------------------------------------------------
(***************************************************************************)
(* abort_run, with what it raises swallowed by _abort_persistent_run.      *)
(***************************************************************************)
EnterAbort ==
  /\ pc = "abort"
  /\ aborts' = aborts + 1
  /\ label' = IF cancel THEN "CANCELLED" ELSE "FAILED"
  /\ pc' = "abortList"
  /\ UNCHANGED <<scanVars, work, left, at, begun, recordVars, fileVars, removal, faults>>

\* Fault: only devices whose collection had not begun are closed.
AbortListQueued ==
  /\ left' = {d \in Targets : device[d] = "QUEUED"}
  /\ Step("abortList", IF left' = {} THEN "abortCount" ELSE "abortDevice")
  /\ UNCHANGED <<at, begun, recordVars, fileVars>>

AbortList ==
  /\ left' = {d \in Targets : device[d] \notin FinalDevice \cup {"absent"}}
  /\ Step("abortList", IF left' = {} THEN "abortCount" ELSE "abortDevice")
  /\ UNCHANGED <<at, begun, recordVars, fileVars>>

\* Fault: a device gets the status of the run.
AbortDeviceAsRun(d) ==
  /\ d \in left
  /\ left' = left \ {d}
  /\ Step("abortDevice", IF left' = {} THEN "abortCount" ELSE "abortDevice")
  /\ device' = [device EXCEPT ![d] = label]
  /\ UNCHANGED <<at, begun, run, counts, rows, findings, fileVars>>

AbortDevice(d) ==
  /\ d \in left
  /\ left' = left \ {d}
  /\ Step("abortDevice", IF left' = {} THEN "abortCount" ELSE "abortDevice")
  /\ device' = [device EXCEPT ![d] = IF label = "CANCELLED" THEN "CANCELLED"
                                                           ELSE "EVALUATION_FAILED"]
  /\ UNCHANGED <<at, begun, run, counts, rows, findings, fileVars>>

AbortRun ==
  \/ EnterAbort \/ AbortList
  \/ \E d \in Targets : AbortDevice(d)
  \/ Count("abortCount", "abortClose")
  \/ Close("abortClose", "abortFinalize", label)
  \/ Finalize("abortFinalize", "abortLog", label)
  \/ Log("abortLog", AfterAbort)
-----------------------------------------------------------------------------
(***************************************************************************)
(* delete_run, from the history: files, then record, then the log entry.   *)
(***************************************************************************)
OperatorOnly == UNCHANGED <<scanVars, localVars, faults>>

RemoveFiles ==
  /\ removal = "none" /\ begun /\ (pc = "ended" \/ Unguarded)
  /\ bundle \/ Recorded
  /\ \A d \in Targets : work[d] # "row"  \* write_evidence holds the store's lock
  /\ removal' = "record"
  /\ NoBundle
  /\ OperatorOnly /\ UNCHANGED recordVars

RemoveRecord ==
  /\ removal = "record"
  /\ removal' = "log"
  /\ NoRecord
  /\ OperatorOnly /\ UNCHANGED fileVars

LogRemoval ==
  /\ removal = "log"
  /\ removal' = "none"
  /\ OperatorOnly /\ UNCHANGED <<recordVars, fileVars>>

\* An error is shown, and the operator may delete the run again.
RemovalRaises ==
  /\ removal # "none" /\ faults < MaxFaults
  /\ removal' = "none" /\ faults' = faults + 1
  /\ UNCHANGED <<scanVars, localVars, recordVars, fileVars>>

Delete == RemoveFiles \/ RemoveRecord \/ LogRemoval \/ RemovalRaises
-----------------------------------------------------------------------------
Owner ==
  \/ CreateRun \/ CreateBundle \/ PrepareDevice \/ SetRunning \/ Started
  \/ \E d \in Targets : AddDevice(d)
  \/ CleanRecord \/ CleanBundle
  \/ ScanReturns \/ PersistResult \/ AbortRun \/ Raise

\* The owner is done, and no removal is under way.
Ended == pc = "ended" /\ removal = "none" /\ UNCHANGED vars

Next ==
  \/ Owner
  \/ \E d \in Targets : Worker(d)
  \/ RequestCancel \/ Delete \/ Ended

\* Every call of the owner and of the workers returns or raises.
Fairness == WF_vars(Owner) /\ \A d \in Targets : WF_vars(Worker(d))

Spec     == Init /\ [][Next]_vars
FairSpec == Spec /\ Fairness
-----------------------------------------------------------------------------
(***************************************************************************)
(* Properties.                                                             *)
(***************************************************************************)
\* Variables keep their types; a device record holds a device status only.
TypeOK ==
  /\ outcome \in [Targets -> {"none"} \cup Contract!Terminal]
  /\ cancel \in BOOLEAN /\ scan \in {"RUNNING"} \cup FinalRun
  /\ work \in [Targets -> {"waiting", "stored", "returned"} \cup InSink]
  /\ pc \in {"createRun", "scan", "abort", "abortFinalize", "ended"}
              \cup Beginning \cup Persisting \cup Cleaning \cup Aborting
  /\ left \subseteq Targets /\ at \in 0..N
  /\ begun \in BOOLEAN /\ label \in {"FAILED", "CANCELLED"} /\ aborts \in 0..Aborts
  /\ run \in {"absent", "CREATED", "RUNNING"} \cup FinalRun
  /\ device \in [Targets -> {"absent", "QUEUED", "COLLECTING"} \cup FinalDevice]
  /\ counts \in [success : 0..N, failure : 0..N, cancelled : 0..N]
  /\ rows \subseteq Targets /\ findings \subseteq Targets
  /\ bundle \in BOOLEAN /\ evidence \subseteq Targets /\ results \subseteq Targets
  /\ manifest \in {"none"} \cup FinalRun
  /\ removal \in {"none", "record", "log"} /\ faults \in 0..MaxFaults

\* A run that cannot begin leaves nothing behind: neither record nor bundle.
BeginIsAtomic == pc = "ended" /\ ~begun => run = "absent" /\ ~bundle

\* History never remains falsely RUNNING.  Once the owning thread is done, the
\* record (if not deleted) is closed, its devices are, and its counts are those
\* of its devices.
NeverFalselyRunning ==
  pc = "ended" /\ Recorded =>
    /\ run \in FinalRun
    /\ \A d \in Targets : device[d] \in FinalDevice
    /\ counts = Tally

\* The manifest comes last: one that reports a success or a partial success is
\* written when every outcome, result and count is already in the database and
\* the results in the bundle, so that a crash at any step never leaves a sealed
\* bundle that history does not back.
ManifestLast ==
  manifest \in {"COMPLETE", "PARTIAL"} /\ removal = "none" /\ Recorded =>
    /\ device = outcome /\ counts = Tally
    /\ findings = Targets /\ results = Targets
    /\ \A d \in Targets : outcome[d] = "COMPLETE" => d \in rows \cap evidence

\* A success the history reports is sealed: its manifest says the same.
SuccessIsSealed ==
  pc = "ended" /\ run \in {"COMPLETE", "PARTIAL"} /\ bundle => manifest = run

\* An artifact row points at evidence in the bundle.
RowsBacked == bundle => rows \subseteq evidence

\* Whatever raised, and however often the run was aborted, what the owner leaves
\* is all or nothing before the run began, and closed, consistent and sealed
\* last after it.
ClosedAndSealed ==
  BeginIsAtomic /\ NeverFalselyRunning /\ ManifestLast /\ SuccessIsSealed /\ RowsBacked

\* A sealed bundle does not change until it is deleted: no worker is still
\* writing when the owner finalizes, whether the run succeeded or was aborted.
SealedBundle == [][manifest # "none" => UNCHANGED fileVars \/ ~bundle']_vars

\* What the operator deleted stays deleted, even if the run was still active:
\* no step of its workers or owner makes the record or the bundle again.
NoResurrection == [][begun => (bundle' => bundle) /\ (Recorded' => Recorded)]_vars

\* What is final stays final: the sealed bundle, and the deletion.
FinalIsFinal == SealedBundle /\ NoResurrection

\* The owner finishes whatever raises.
Finishes == <>(pc = "ended")

\* SCAN_LIFECYCLE.md: a FAILED run has no device that completed.
FailedMeansNone ==
  pc = "ended" /\ run = "FAILED" => \A d \in Targets : device[d] # "COMPLETE"

\* main_window.py, beside the checklist scan: a completed and finalized
\* assessment is not relabelled as a failed collection.
NotRelabelled ==
  pc = "ended" /\ manifest \in {"COMPLETE", "PARTIAL"} => run # "FAILED"
=============================================================================
