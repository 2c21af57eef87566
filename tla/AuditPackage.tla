---------------------------- MODULE AuditPackage ----------------------------
(***************************************************************************)
(* A finished audit run leaves an installation as a package and comes back *)
(* as history: AuditPackageService.export, verify and import_to, the       *)
(* import of RunService that rebuilds the database records, and what the   *)
(* operator does to the run before and after: manual decisions, purging,   *)
(* deleting.  The handlers of the window run one at a time on Tk's thread; *)
(* a step of the import is one transaction or one operation on files, each *)
(* may raise, and the process may die between two of them.                 *)
(*                                                                         *)
(* There is one run.  Its bundle is sealed, so that what RunLifecycle      *)
(* wrote is a constant of a behaviour; commands of one device differ.      *)
(***************************************************************************)
EXTENDS Naturals, FiniteSets

CONSTANTS Devices, Commands,
          MaxFaults           \* bound: steps that raise

ASSUME PackageAssumption ==
  IsFiniteSet(Devices) /\ IsFiniteSet(Commands) /\ MaxFaults \in Nat

VARIABLES sealed,   \* what the bundle says of the run: see Bundles
          run,      \* does the record exist?
          device,   \* status of each run_device record
          rows,     \* evidence_artifact rows of the run
          found,    \* check_result of each device: by the engine or by a reviewer
          links,    \* result_evidence: row ids linked to each device's result
          bundle,   \* does the run directory exist?
          raw,      \* raw outputs in it
          spoiled,  \* those whose bytes were changed after collection
          package,  \* the exported archive: {} or {what was copied}, with the
                    \* results History showed then, which are not in it
          damaged,  \* was it changed after its export?
          pc,       \* step of the handler at work
          left, at, todo, \* devices and device of the import's loop, its entries
          newId,    \* old_to_new_artifact
          was,      \* what could be seen when the handler started, until a mishap
          mishap,   \* a cleanup or a deletion raised, or the process died
          faults

recordVars == <<run, device, rows, found, links>>
fileVars   == <<bundle, raw, spoiled>>
packVars   == <<package, damaged>>
loopVars   == <<left, at, todo, newId>>
vars == <<sealed, recordVars, fileVars, packVars, pc, loopVars, was, mishap, faults>>

Entries == Devices \X Commands
Failed  == {"AUTH_FAILED", "EVALUATION_FAILED"}
Ids     == 2..(Cardinality(Entries) + 1)   \* another run has row 1

\* A run that persist_result closed has its devices' statuses in the manifest and
\* results of every device, if only the DEVICE-SCAN one that the window adds for a
\* failed device; one that abort_run closed has no statuses, and the results that
\* were written before.  Completed devices have all their evidence; of the others
\* only one that failed in evaluation has some.  Workers run in parallel, so rows
\* got their ids in any order; 0 is none.
Bundles ==
  { b \in [ closed : {"completed", "aborted"},
            status : [Devices -> {"COMPLETE"} \cup Failed],
            entries : SUBSET Entries,
            results : SUBSET Devices,
            id : [Entries -> Ids \cup {0}] ] :
      /\ \A d \in Devices : b.status[d] = "COMPLETE" => {d} \X Commands \subseteq b.entries
      /\ \A e \in b.entries : b.status[e[1]] # "AUTH_FAILED"
      /\ b.closed = "completed" => b.results = Devices
      /\ {b.id[e] : e \in b.entries} = 2..(Cardinality(b.entries) + 1)
      /\ \A e \in Entries : b.id[e] = 0 <=> e \notin b.entries }

EntriesOf(d) == {e \in sealed.entries : e[1] = d}
RowsOf(d)    == {r \in rows : r.of[1] = d}

Init ==
  /\ sealed \in Bundles
  /\ run = TRUE /\ device = sealed.status
  /\ rows = {[id |-> sealed.id[e], of |-> e] : e \in sealed.entries}
  /\ found = [d \in Devices |-> IF sealed.status[d] = "COMPLETE" \/ d \in sealed.results THEN "engine" ELSE "none"]
  /\ links = [d \in Devices |-> IF d \in sealed.results THEN {sealed.id[e] : e \in EntriesOf(d)}
                                                        ELSE {}]
  /\ bundle = TRUE /\ raw = sealed.entries /\ spoiled = {}
  /\ package = {} /\ damaged = FALSE
  /\ pc = "idle" /\ left = {} /\ at = {} /\ todo = {} /\ newId = {}
  /\ was = "after" /\ mishap = FALSE /\ faults = 0

MayFail == faults < MaxFaults /\ faults' = faults + 1
-----------------------------------------------------------------------------
(***************************************************************************)
(* What can be seen of the run.                                            *)
(***************************************************************************)
Whole ==
  /\ run /\ bundle
  /\ \A d \in Devices :
       /\ device[d] # "absent"
       /\ {r.of : r \in RowsOf(d)} = EntriesOf(d)
       /\ d \in sealed.results =>
            found[d] # "none" /\ links[d] = {r.id : r \in RowsOf(d)}

Nothing == ~run /\ ~bundle

Seen == IF Whole THEN "after" ELSE IF Nothing THEN "before" ELSE "mixed"
-----------------------------------------------------------------------------
(***************************************************************************)
(* The run before its export, and after its import.                        *)
(***************************************************************************)
Idle == pc = "idle"

\* save_manual_decision changes the record alone.
Review(d) ==
  /\ Idle /\ found[d] = "engine"
  /\ found' = [found EXCEPT ![d] = "reviewer"]
  /\ UNCHANGED <<sealed, run, device, rows, links, fileVars, packVars, pc, loopVars, was, mishap,
                 faults>>

Purge ==
  /\ Idle /\ bundle /\ raw # {}
  /\ raw' = {} /\ spoiled' = {}
  /\ UNCHANGED <<sealed, recordVars, bundle, packVars, pc, loopVars, was, mishap, faults>>

\* Somebody edits a raw output on the disk.
Spoil(e) ==
  /\ Idle /\ bundle /\ e \in raw /\ spoiled = {}
  /\ spoiled' = {e}
  /\ UNCHANGED <<sealed, recordVars, bundle, raw, packVars, pc, loopVars, was, mishap, faults>>

\* The window exports with evidence, purged or not, and replaces the archive
\* when it is complete; an export that raises leaves the old one.
Export ==
  /\ Idle /\ bundle
  /\ package' = {[raw |-> raw, spoiled |-> spoiled, showed |-> found]} /\ damaged' = FALSE
  /\ UNCHANGED <<sealed, recordVars, fileVars, pc, loopVars, was, mishap, faults>>

Damage ==
  /\ Idle /\ package # {} /\ ~damaged
  /\ damaged' = TRUE
  /\ UNCHANGED <<sealed, recordVars, fileVars, package, pc, loopVars, was, mishap, faults>>

\* delete_run: the bundle, then the record and what cascades from it.
DeleteFiles ==
  /\ Idle /\ (run \/ bundle)
  /\ was' = IF mishap THEN was ELSE Seen
  /\ bundle' = FALSE /\ raw' = {} /\ spoiled' = {}
  /\ pc' = "deleteRecord"
  /\ UNCHANGED <<sealed, recordVars, packVars, loopVars, mishap, faults>>

RecordGone ==
  /\ run' = FALSE /\ device' = [d \in Devices |-> "absent"] /\ rows' = {}
  /\ found' = [d \in Devices |-> "none"] /\ links' = [d \in Devices |-> {}]

DeleteRecord ==
  /\ pc = "deleteRecord" /\ RecordGone
  /\ pc' = "idle"
  /\ UNCHANGED <<sealed, fileVars, packVars, loopVars, was, mishap, faults>>
-----------------------------------------------------------------------------
(***************************************************************************)
(* The import.                                                             *)
(***************************************************************************)
Copied == CHOOSE p \in package : TRUE

\* verify: every entry of the archive has the digest its manifest gives.
Intact == ~damaged

\* What import_audit_package asks before it publishes anything: verify, the look
\* for a record, import_to's look for a directory.
Refused == ~Intact \/ run \/ bundle

\* import_to extracts beside the store and publishes by one rename; what raises
\* before that leaves nothing.
Install ==
  /\ Idle /\ package # {} /\ ~Refused
  /\ was' = IF mishap THEN was ELSE Seen
  /\ bundle' = TRUE /\ raw' = Copied.raw /\ spoiled' = Copied.spoiled
  /\ pc' = "verify"
  /\ UNCHANGED <<sealed, recordVars, packVars, loopVars, mishap, faults>>

\* Fault: a missing file is no problem, as the package is consistent.
VerifiesPresent == spoiled = {}

\* verify_evidence: every listed artifact is there with its digest.
Verifies == raw = sealed.entries /\ spoiled = {}

VerifyEvidence ==
  /\ pc = "verify"
  /\ pc' = IF Verifies THEN "createRun" ELSE "cleanRecord"
  /\ UNCHANGED <<sealed, recordVars, fileVars, packVars, loopVars, was, mishap, faults>>

CreateRun ==
  /\ pc = "createRun"
  /\ run' = TRUE /\ left' = Devices
  /\ pc' = "device"
  /\ UNCHANGED <<sealed, device, rows, found, links, fileVars, packVars, at, todo, newId, was, mishap,
                 faults>>

\* Fault: devices of a completed run, too, get the default.
StatusDefault(d) == "COMPLETE"

\* The status comes from a list in the manifest, which only persist_result writes;
\* device.json has none, and the default is COMPLETE.
ImportedStatus(d) == IF sealed.closed = "completed" THEN sealed.status[d] ELSE "COMPLETE"

AddDevice(d) ==
  /\ pc = "device" /\ d \in left
  /\ device' = [device EXCEPT ![d] = ImportedStatus(d)]
  /\ left' = left \ {d} /\ at' = {d} /\ todo' = EntriesOf(d) /\ newId' = {}
  /\ pc' = "artifact"
  /\ UNCHANGED <<sealed, run, rows, found, links, fileVars, packVars, was, mishap, faults>>

\* Fault: ids start again with each device.
FreshOfDevice == 1 + Cardinality(newId) + 1

\* SQLite gives the smallest id above all in use.
FreshId == 1 + Cardinality(rows) + 1

AddArtifact(e) ==
  /\ pc = "artifact" /\ e \in todo
  /\ rows' = rows \cup {[id |-> FreshId, of |-> e]}
  /\ newId' = newId \cup {<<sealed.id[e], FreshId>>}
  /\ todo' = todo \ {e}
  /\ UNCHANGED <<sealed, run, device, found, links, fileVars, packVars, pc, left, at, was, mishap,
                 faults>>

\* Fault: ids of the other installation are trusted.
MappedTrusting(d) == {sealed.id[e] : e \in EntriesOf(d)}

Mapped(d) == {m[2] : m \in {n \in newId : n[1] \in {sealed.id[e] : e \in EntriesOf(d)}}}

\* A result without a mapped id is linked to what its commands gave on the device.
Linked(d) == IF Mapped(d) # {} THEN Mapped(d) ELSE {m[2] : m \in newId}

AddResult(d) ==
  /\ pc = "artifact" /\ todo = {} /\ at = {d} /\ d \in sealed.results
  /\ found' = [found EXCEPT ![d] = "engine"]
  /\ pc' = "link"
  /\ UNCHANGED <<sealed, run, device, rows, links, fileVars, packVars, loopVars, was, mishap, faults>>

NextDevice == IF left = {} THEN "log" ELSE "device"

LinkResult(d) ==
  /\ pc = "link" /\ at = {d}
  /\ links' = [links EXCEPT ![d] = Linked(d)]
  /\ pc' = NextDevice
  /\ UNCHANGED <<sealed, run, device, rows, found, fileVars, packVars, loopVars, was, mishap, faults>>

NoResults(d) ==
  /\ pc = "artifact" /\ todo = {} /\ at = {d} /\ d \notin sealed.results
  /\ pc' = NextDevice
  /\ UNCHANGED <<sealed, recordVars, fileVars, packVars, loopVars, was, mishap, faults>>

\* The activity log is inside the try, too.
Finish ==
  /\ pc = "log"
  /\ pc' = "idle"
  /\ UNCHANGED <<sealed, recordVars, fileVars, packVars, loopVars, was, mishap, faults>>
-----------------------------------------------------------------------------
(***************************************************************************)
(* What goes wrong.                                                        *)
(***************************************************************************)
Rebuilding == {"verify", "createRun", "device", "artifact", "link", "log"}

\* Fault: only what the database did is undone.
CleanNothing == UNCHANGED <<bundle, raw, spoiled>>

CleanFiles == bundle' = FALSE /\ raw' = {} /\ spoiled' = {}

ImportRaises ==
  /\ pc \in Rebuilding /\ MayFail
  /\ pc' = "cleanRecord"
  /\ UNCHANGED <<sealed, recordVars, fileVars, packVars, loopVars, was, mishap>>

CleanRecord ==
  /\ pc = "cleanRecord" /\ RecordGone
  /\ pc' = "cleanFiles"
  /\ UNCHANGED <<sealed, fileVars, packVars, loopVars, was, mishap, faults>>

CleanBundle ==
  /\ pc = "cleanFiles" /\ CleanFiles
  /\ pc' = "idle"
  /\ UNCHANGED <<sealed, recordVars, packVars, loopVars, was, mishap, faults>>

\* A cleanup or the second half of a deletion raises; nothing comes after it.
CleanupRaises ==
  /\ pc \in {"cleanRecord", "cleanFiles", "deleteRecord"} /\ MayFail
  /\ pc' = "idle" /\ mishap' = TRUE
  /\ UNCHANGED <<sealed, recordVars, fileVars, packVars, loopVars, was>>

\* The process dies; at its next start nothing looks for half an import.
Crash ==
  /\ ~Idle /\ MayFail
  /\ pc' = "idle" /\ mishap' = TRUE
  /\ UNCHANGED <<sealed, recordVars, fileVars, packVars, loopVars, was>>

ImportStep ==
  \/ VerifyEvidence \/ CreateRun \/ Finish \/ CleanRecord \/ CleanBundle \/ DeleteRecord
  \/ \E d \in Devices : AddDevice(d) \/ AddResult(d) \/ LinkResult(d) \/ NoResults(d)
  \/ \E e \in Entries : AddArtifact(e)

Next ==
  \/ \E d \in Devices : Review(d)
  \/ \E e \in Entries : Spoil(e)
  \/ Purge \/ Export \/ Damage \/ DeleteFiles \/ Install
  \/ ImportStep
  \/ ImportRaises \/ CleanupRaises \/ Crash

Spec == Init /\ [][Next]_vars

\* A handler that has begun goes on.
FairSpec == Spec /\ WF_vars(ImportStep)
-----------------------------------------------------------------------------
(***************************************************************************)
(* Properties.                                                             *)
(***************************************************************************)
\* Variables keep their types; a row's id is its own.
TypeOK ==
  /\ sealed.closed \in {"completed", "aborted"} /\ sealed.status \in [Devices -> {"COMPLETE"} \cup Failed]
  /\ sealed.entries \subseteq Entries /\ sealed.results \subseteq Devices
  /\ run \in BOOLEAN /\ device \in [Devices -> {"absent", "COMPLETE"} \cup Failed]
  /\ rows \subseteq [id : Ids, of : sealed.entries]
  /\ \A r, s \in rows : r.id = s.id => r = s
  /\ found \in [Devices -> {"none", "engine", "reviewer"}] /\ links \in [Devices -> SUBSET Ids]
  /\ bundle \in BOOLEAN /\ raw \subseteq sealed.entries /\ spoiled \subseteq raw
  /\ damaged \in BOOLEAN /\ (package = {} => ~damaged)
  /\ left \subseteq Devices /\ at \subseteq Devices /\ todo \subseteq sealed.entries
  /\ was \in {"before", "after", "mixed"} /\ mishap \in BOOLEAN /\ faults \in 0..MaxFaults

Change == INSTANCE AtomicChange WITH
  busy  <- ~Idle \/ mishap,
  value <- IF Idle /\ ~mishap THEN Seen ELSE was

\* An import, and a deletion, is seen whole or not at all when its handler is
\* over, whatever step raised, with files and records of every device and every
\* link; unless the process died in it or its own cleanup raised.
ImportIsAtomic == Change!ChangeSpec

\* The evidence links of a result lead to artifacts of its own device, in the
\* original run and in the imported one, whose rows have other ids.
LinksStayHome ==
  \A d \in Devices : \A i \in links[d] : \E r \in RowsOf(d) : r.id = i

\* What a completed run says of its devices survives an import: no failed device
\* comes back as a completed one.
StatusKept ==
  sealed.closed = "completed" => \A d \in Devices : device[d] \in {"absent", sealed.status[d]}

\* What an import makes of a run is what was exported: its devices' statuses, and
\* for each result the evidence it was based on.
FoundAsSent == LinksStayHome /\ StatusKept

\* A run is imported with evidence only if every output is there as collected.
OnlyVerified == [][pc = "log" /\ pc' = "idle" => mishap' \/ (raw = sealed.entries /\ spoiled = {})]_vars

\* A package of intact evidence can be imported: once it is installed the run is
\* seen whole, unless something raised.
RoundTrip ==
  (pc = "verify" /\ raw = sealed.entries /\ spoiled = {}) ~> ((Idle /\ Seen = "after") \/ faults > 0)

\* A package is imported if, and only if, its evidence is intact.
IntactAndOnlyIntact == OnlyVerified /\ RoundTrip

\* "Portable audit-package export/import preserves results and evidence links"
\* (CURRENT_LIMITATIONS.md): the imported results are those that History showed
\* when the package was exported.
ResultsPreserved ==
  [][pc = "log" /\ pc' = "idle" /\ ~mishap' =>
       \A d \in sealed.results : found[d] = Copied.showed[d]]_vars
=============================================================================
