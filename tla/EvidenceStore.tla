---------------------------- MODULE EvidenceStore ----------------------------
(***************************************************************************)
(* The evidence bundle of one run (EvidenceStore), used by several threads *)
(* at once.  Every writing operation first asks _writable_run, OUTSIDE the *)
(* store's lock, and does its work in separate durable steps inside it;    *)
(* write_evidence goes file, device.json, database row, device.json again. *)
(*                                                                         *)
(* All writes are of one command, the case in which file names meet.  An   *)
(* output, and its SHA-256, is the number of the call that stores it.      *)
(***************************************************************************)
EXTENDS Naturals, Sequences, FiniteSets, SequencesExt

CONSTANTS Callers,    \* threads that use the store
          Devices,    \* device identities, the target IPs
          Dirs,       \* directory names below devices/
          DirOf,      \* _safe_name: the directory of each device
          MaxCalls,   \* bound: calls made in a behaviour
          MaxFaults,  \* bound: operations that fail half way
          Disciplined \* do callers finalize, purge and delete alone?

Nobody == "nobody"

ASSUME StoreAssumption ==
  /\ DirOf \in [Devices -> Dirs]
  /\ Nobody \notin Callers \cup Devices
  /\ MaxCalls \in Nat /\ MaxFaults \in Nat
  /\ Disciplined \in BOOLEAN

Names  == Dirs \X (1..MaxCalls)
Artifacts == [device : Devices, name : Names, digest : 1..MaxCalls]

VARIABLES dir,       \* the run directory: "new" (not made yet), "present", "deleted"
          snapshot,  \* the call that wrote the snapshots, 0 for none
          owner,     \* target_ip in each device.json, Nobody where there is none
          files,     \* the call whose output each raw file holds, 0 for no file
          listed,    \* evidence_artifacts of each device.json
          results,   \* the call whose results.json a directory holds, 0 for none
          sealed,    \* does manifest.json exist?
          manifest,  \* its evidence_artifacts
          rows,      \* evidence_artifact rows of the database
          lock,      \* holder of the store's lock
          op,        \* what each caller is doing
          calls, faults,
          returned,  \* history: artifacts whose write_evidence returned
          purged     \* history: was raw evidence purged?

bundle == <<dir, snapshot, owner, files, listed, results, sealed, manifest>>
vars   == <<bundle, rows, lock, op, calls, faults, returned, purged>>

NoOp == [kind |-> "idle", device |-> Nobody, step |-> "", call |-> 0, number |-> 0, seen |-> <<>>]

Init ==
  /\ dir = "new" /\ snapshot = 0
  /\ owner = [d \in Dirs |-> Nobody]
  /\ files = [n \in Names |-> 0]
  /\ listed = [d \in Dirs |-> <<>>]
  /\ results = [d \in Dirs |-> 0]
  /\ sealed = FALSE /\ manifest = {} /\ rows = {}
  /\ lock = Nobody
  /\ op = [c \in Callers |-> NoOp]
  /\ calls = 0 /\ faults = 0 /\ returned = {} /\ purged = FALSE

Idle(c)   == op[c] = NoOp
Alone(c)  == \A x \in Callers \ {c} : Idle(x)
DirFor(c) == DirOf[op[c].device]
-----------------------------------------------------------------------------
(***************************************************************************)
(* create_run, and the start of every other operation.                     *)
(***************************************************************************)
\* The snapshots are written with the directory when they are passed.
CreateRun(c) ==
  /\ dir = "new" /\ Idle(c) /\ calls < MaxCalls
  /\ dir' = "present"
  /\ calls' = calls + 1
  /\ snapshot' \in {0, calls + 1}
  /\ UNCHANGED <<owner, files, listed, results, sealed, manifest, rows, lock, op,
                 faults, returned, purged>>

Closing  == {"finalize", "purge", "delete"}
Writing  == {"snapshot", "prepare", "evidence", "results"}

\* What ScanOrchestrator and RunService see to: a run is finalized when its
\* workers are done, and purged or deleted when nothing works on it.
MayCall(c, kind) ==
  Disciplined =>
    /\ kind \in Closing => Alone(c)
    /\ \A x \in Callers : op[x].kind \notin Closing
    /\ kind = "purge" => sealed

\* Fault: _writable_run only looks for the directory.
PassesUnchecked(kind) == kind = "delete" \/ dir = "present"

\* _writable_run or, for purging, _existing_run; delete_run checks nothing.
Passes(kind) ==
  CASE kind = "delete" -> TRUE
    [] kind = "purge"  -> dir = "present"
    [] OTHER           -> dir = "present" /\ ~sealed

Call(c, kind, d) ==
  /\ Idle(c) /\ calls < MaxCalls /\ dir # "new"
  /\ MayCall(c, kind)
  /\ Passes(kind)
  /\ calls' = calls + 1
  /\ op' = [op EXCEPT ![c] = [NoOp EXCEPT !.kind = kind, !.device = d,
                                          !.step = "waiting", !.call = calls + 1]]
  /\ UNCHANGED <<bundle, rows, lock, faults, returned, purged>>

\* Fault: the operations do not exclude each other.
Unlocked(c) == TRUE

Free(c) == lock = Nobody

\* The caller takes the lock for an operation of this kind.
Enters(c, kind) == op[c].kind = kind /\ op[c].step = "waiting" /\ Free(c)

\* The operation ends, and with it the hold on the lock.
Leaves(c) == op' = [op EXCEPT ![c] = NoOp] /\ lock' = Nobody

Done(c) == Leaves(c) /\ UNCHANGED <<calls, faults>>
-----------------------------------------------------------------------------
(***************************************************************************)
(* Operations that are one durable step under the lock.                    *)
(***************************************************************************)
\* _find_device_dir finds the directory or iterates a directory that is gone.
Reachable(c) == dir = "present"

\* _atomic_write_new refuses an existing snapshot.
WriteSnapshot(c) ==
  /\ Enters(c, "snapshot") /\ Done(c)
  /\ snapshot' = IF dir = "present" /\ snapshot = 0 THEN op[c].call ELSE snapshot
  /\ UNCHANGED <<dir, owner, files, listed, results, sealed, manifest, rows, returned, purged>>

\* A caller's metadata may name the target again, as begin_run's does.
PrepareDevice(c) ==
  /\ Enters(c, "prepare") /\ Done(c)
  /\ IF Reachable(c)
     THEN \E o \in {op[c].device, owner[DirFor(c)]} \ {Nobody} :
            owner' = [owner EXCEPT ![DirFor(c)] = o]
     ELSE UNCHANGED owner
  /\ UNCHANGED <<dir, snapshot, files, listed, results, sealed, manifest, rows, returned, purged>>

\* The directory is made first when missing, which asks _writable_run again.
CanOpen(c) == Reachable(c) /\ (owner[DirFor(c)] = Nobody => ~sealed)
Opened(c)  == IF owner[DirFor(c)] = Nobody
              THEN [owner EXCEPT ![DirFor(c)] = op[c].device] ELSE owner

WriteResults(c) ==
  /\ Enters(c, "results") /\ Done(c)
  /\ IF CanOpen(c)
     THEN /\ owner' = Opened(c)
          /\ results' = [results EXCEPT ![DirFor(c)] = IF @ = 0 THEN op[c].call ELSE @]
     ELSE UNCHANGED <<owner, results>>
  /\ UNCHANGED <<dir, snapshot, files, listed, sealed, manifest, rows, returned, purged>>

AllListed == UNION {Range(listed[d]) : d \in Dirs}

FinalizeRun(c) ==
  /\ Enters(c, "finalize") /\ Done(c)
  /\ IF Reachable(c) /\ ~sealed
     THEN sealed' = TRUE /\ manifest' = AllListed
     ELSE UNCHANGED <<sealed, manifest>>
  /\ UNCHANGED <<dir, snapshot, owner, files, listed, results, rows, returned, purged>>

\* Fault: purging clears the records of the artifacts as well.
PurgeRecords(c) ==
  /\ Enters(c, "purge") /\ Done(c)
  /\ files' = [n \in Names |-> 0]
  /\ listed' = [d \in Dirs |-> <<>>]
  /\ purged' = (purged \/ dir = "present")
  /\ UNCHANGED <<dir, snapshot, owner, results, sealed, manifest, rows, returned>>

Purge(c) ==
  /\ Enters(c, "purge") /\ Done(c)
  /\ files' = [n \in Names |-> 0]
  /\ purged' = (purged \/ dir = "present")
  /\ UNCHANGED <<dir, snapshot, owner, listed, results, sealed, manifest, rows, returned>>

DeleteRun(c) ==
  /\ Enters(c, "delete") /\ Done(c)
  /\ dir' = "deleted" /\ snapshot' = 0
  /\ owner' = [d \in Dirs |-> Nobody]
  /\ files' = [n \in Names |-> 0]
  /\ listed' = [d \in Dirs |-> <<>>]
  /\ results' = [d \in Dirs |-> 0]
  /\ sealed' = FALSE /\ manifest' = {}
  /\ UNCHANGED <<rows, returned, purged>>
-----------------------------------------------------------------------------
(***************************************************************************)
(* write_evidence, step by step.                                           *)
(***************************************************************************)
Holds(c, step) == op[c].kind = "evidence" /\ op[c].step = step

Goto(c, step) == op' = [op EXCEPT ![c].step = step] /\ UNCHANGED <<calls, faults, lock>>

OpenDevice(c) ==
  /\ Enters(c, "evidence")
  /\ IF CanOpen(c)
     THEN /\ owner' = Opened(c)
          /\ lock' = c
          /\ op' = [op EXCEPT ![c].step = "file"]
     ELSE Leaves(c) /\ UNCHANGED owner
  /\ UNCHANGED <<dir, snapshot, files, listed, results, sealed, manifest, rows,
                 calls, faults, returned, purged>>

\* Fault: every output of a command goes to the same file.
FirstNumber(d) == 1

\* The first suffix no file has now.
FreeNumber(d) ==
  CHOOSE n \in 1..MaxCalls :
    files[<<d, n>>] = 0 /\ \A m \in 1..(n - 1) : files[<<d, m>>] # 0

WriteFile(c) ==
  /\ Holds(c, "file")
  /\ LET n == FreeNumber(DirFor(c))
     IN  /\ files' = [files EXCEPT ![<<DirFor(c), n>>] = op[c].call]
         /\ op' = [op EXCEPT ![c].step = "list", ![c].number = n]
  /\ UNCHANGED <<dir, snapshot, owner, listed, results, sealed, manifest, rows, lock,
                 calls, faults, returned, purged>>

\* Fault: the hash is taken before there is an output.
ArtifactUnhashed(c) == [device |-> op[c].device, name |-> <<DirFor(c), op[c].number>>,
                        digest |-> 0]

ArtifactOf(c) == [device |-> op[c].device, name |-> <<DirFor(c), op[c].number>>,
                  digest |-> op[c].call]

\* device.json is read, extended and replaced; the caller keeps what it wrote.
WriteListed(c) ==
  /\ Holds(c, "list")
  /\ LET entries == Append(listed[DirFor(c)], ArtifactOf(c))
     IN  /\ listed' = [listed EXCEPT ![DirFor(c)] = entries]
         /\ op' = [op EXCEPT ![c].step = "row", ![c].seen = entries]
  /\ UNCHANGED <<dir, snapshot, owner, files, results, sealed, manifest, rows, lock,
                 calls, faults, returned, purged>>

WriteRow(c) ==
  /\ Holds(c, "row") /\ Goto(c, "identify")
  /\ rows' = rows \cup {ArtifactOf(c)}
  /\ UNCHANGED <<bundle, returned, purged>>

\* device.json is replaced again, with the row's id, by the copy kept above.
Identify(c) ==
  /\ Holds(c, "identify") /\ Done(c)
  /\ listed' = [listed EXCEPT ![DirFor(c)] = op[c].seen]
  /\ returned' = returned \cup {ArtifactOf(c)}
  /\ UNCHANGED <<dir, snapshot, owner, files, results, sealed, manifest, rows, purged>>

\* The next file operation or the database raises: the lock is released, and
\* what was written stays.
Fault(c) ==
  /\ op[c].kind = "evidence" /\ op[c].step # "waiting"
  /\ faults < MaxFaults
  /\ faults' = faults + 1
  /\ Leaves(c)
  /\ UNCHANGED <<bundle, rows, calls, returned, purged>>

WriteEvidence(c) == OpenDevice(c) \/ WriteFile(c) \/ WriteListed(c) \/ WriteRow(c) \/ Identify(c)
-----------------------------------------------------------------------------
Operation(c) ==
  \/ WriteSnapshot(c) \/ PrepareDevice(c) \/ WriteResults(c) \/ FinalizeRun(c)
  \/ Purge(c) \/ DeleteRun(c) \/ WriteEvidence(c)

\* No caller asks for anything more.
Quiet == calls = MaxCalls /\ (\A c \in Callers : Idle(c)) /\ UNCHANGED vars

Next ==
  \/ \E c \in Callers : CreateRun(c) \/ Operation(c) \/ Fault(c)
  \/ \E c \in Callers, kind \in Writing \cup Closing, d \in Devices : Call(c, kind, d)
  \/ Quiet

Spec == Init /\ [][Next]_vars
-----------------------------------------------------------------------------
(***************************************************************************)
(* Properties.                                                             *)
(***************************************************************************)
OpType == [kind : {"idle"} \cup Writing \cup Closing, device : Devices \cup {Nobody},
           step : {"", "waiting", "file", "list", "row", "identify"},
           call : 0..MaxCalls, number : 0..MaxCalls, seen : Seq(Artifacts)]

\* Variables keep their types; every artifact carries the digest of an output.
TypeOK ==
  /\ dir \in {"new", "present", "deleted"}
  /\ snapshot \in 0..MaxCalls
  /\ owner \in [Dirs -> Devices \cup {Nobody}]
  /\ files \in [Names -> 0..MaxCalls]
  /\ listed \in [Dirs -> Seq(Artifacts)]
  /\ results \in [Dirs -> 0..MaxCalls]
  /\ sealed \in BOOLEAN
  /\ manifest \subseteq Artifacts /\ rows \subseteq Artifacts
  /\ lock \in Callers \cup {Nobody}
  /\ op \in [Callers -> OpType]
  /\ calls \in 0..MaxCalls /\ faults \in 0..MaxFaults
  /\ returned \subseteq Artifacts
  /\ purged \in BOOLEAN

\* Whatever a reader without the lock (verify_evidence) finds in a device.json
\* verifies: the file is there with the recorded digest, unless purged.
ListedVerifies ==
  ~purged => \A a \in AllListed : files[a.name] = a.digest

\* No artifact is lost: once write_evidence has returned, device.json lists the
\* artifact and the database has its row, whatever other writers do and however
\* other calls failed.
ReturnedIsRecorded ==
  dir = "present" => returned \subseteq AllListed \cap rows

\* The class docstring: after finalization all writes to the run fail closed, so
\* the manifest covers every artifact of every device.json, those of calls
\* that had passed their check when it was written included.
WritesFailClosed == sealed => AllListed \subseteq manifest

\* docs/assurance/EVIDENCE_HANDLING.md, step 3: an artifact is placed at a
\* previously unused path.
FreshPaths ==
  \A a, b \in returned : a.name = b.name => a.digest = b.digest

\* The bundle can be trusted at every moment: what it lists verifies, what a
\* writer was told is stored stays stored, at a path of its own, and what the
\* manifest does not cover is never added.
BundleVerifies == ListedVerifies /\ ReturnedIsRecorded /\ WritesFailClosed /\ FreshPaths

\* After finalization nothing of the bundle changes, except that raw evidence
\* may be purged and the whole bundle deleted.
Frozen ==
  \/ UNCHANGED <<dir, snapshot, owner, listed, results, sealed, manifest>>
     /\ \A n \in Names : files'[n] \in {0, files[n]}
  \/ dir' = "deleted"
SealedForGood == [][sealed => Frozen]_vars

\* docs/assurance/EVIDENCE_HANDLING.md, "per-device artifact paths": no two
\* devices keep evidence in one directory.
OwnDirectory ==
  \A a, b \in returned : a.name[1] = b.name[1] => a.device = b.device
=============================================================================
