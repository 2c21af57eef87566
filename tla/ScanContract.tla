---------------------------- MODULE ScanContract ----------------------------
(***************************************************************************)
(* What a multi-device scan promises its caller, without threads, queues   *)
(* or futures: every target is decided exactly once, nothing is reported   *)
(* CANCELLED unless cancellation was requested, and the run status is the  *)
(* one docs/architecture/SCAN_LIFECYCLE.md defines for the outcomes.       *)
(***************************************************************************)
EXTENDS Naturals, FiniteSets

CONSTANTS N,               \* number of targets of the scan
          CollectionErrors \* the connection and collection errors considered

VARIABLES outcome,   \* outcome[i]: terminal status of target i, or "none"
          cancel,    \* has the operator requested cancellation?
          status     \* status of the run

contractVars == <<outcome, cancel, status>>

Targets  == 1..N
Failures == CollectionErrors \cup {"EVALUATION_FAILED"}
Terminal == Failures \cup {"COMPLETE", "CANCELLED"}

Undecided == {i \in Targets : outcome[i] = "none"}
Having(s) == {i \in Targets : outcome[i] = s}
Failed    == {i \in Targets : outcome[i] \in Failures}

(***************************************************************************)
(* The documented meaning of the four final run statuses.                  *)
(***************************************************************************)
DocumentedStatus(s) ==
  \/ s = "COMPLETE"  /\ Having("COMPLETE") = Targets
  \/ s = "PARTIAL"   /\ Having("COMPLETE") \notin {{}, Targets}
  \/ s = "FAILED"    /\ Having("COMPLETE") = {} /\ Failed # {}
  \/ s = "CANCELLED" /\ cancel /\ Having("COMPLETE") = {} /\ Failed = {}

ContractInit ==
  /\ outcome = [i \in Targets |-> "none"]
  /\ cancel = FALSE
  /\ status = "RUNNING"

RequestCancellation ==
  /\ ~cancel
  /\ cancel' = TRUE
  /\ UNCHANGED <<outcome, status>>

\* Some undecided targets, possibly several at once, get their outcome.
Decide(T) ==
  /\ T \subseteq Undecided
  /\ \E f \in [T -> Terminal] :
       /\ \A i \in T : f[i] = "CANCELLED" => cancel
       /\ outcome' = [i \in Targets |-> IF i \in T THEN f[i] ELSE outcome[i]]
  /\ UNCHANGED <<cancel, status>>

Close ==
  /\ status = "RUNNING"
  /\ Undecided = {}
  /\ status' \in {"COMPLETE", "PARTIAL", "FAILED", "CANCELLED"}
  /\ DocumentedStatus(status')
  /\ UNCHANGED <<outcome, cancel>>

ContractNext ==
  \/ RequestCancellation
  \/ \E T \in SUBSET Targets : T # {} /\ Decide(T)
  \/ Close

ContractSpec == ContractInit /\ [][ContractNext]_contractVars
=============================================================================
