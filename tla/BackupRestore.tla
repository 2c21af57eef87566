---------------------------- MODULE BackupRestore ----------------------------
(***************************************************************************)
(* BackupService: creating and inspecting an archive of the application's  *)
(* data, restoring it in place behind a safety backup with rollback, the   *)
(* window's handlers around it, and the start of the application that      *)
(* opens, and if need be migrates, whatever database is there afterwards.  *)
(*                                                                         *)
(* Nothing keeps a restore or a backup from running while a scan's thread  *)
(* writes to the database.  A step is one file operation; each may raise,  *)
(* and the process may die between two.  Data is a number that every write *)
(* changes, 0 where there is none; a directory is one datum.               *)
(***************************************************************************)
EXTENDS Naturals

CONSTANTS Sources,     \* number of data directories besides database and evidence
          MaxVersion,  \* bound: values of data
          MaxFaults    \* bound: steps that raise

ASSUME BackupAssumption == {Sources, MaxVersion, MaxFaults} \subseteq Nat /\ MaxVersion >= 2

VARIABLES live,      \* data at each place
          schema,    \* of the live database: version, activity log, title column
          archive,   \* {} or {the operator's backup}
          safety,    \* {} or {the safety backup of the latest restore}
          copy, hash, \* of the archive being built: data copied, data hashed
          prior,     \* data moved aside into the rollback directory
          replaced,  \* places whose data is the archive's
          pc, at,    \* step of the handler, and the place it is at
          scanning,  \* does a scan thread run?
          quiet,     \* it has not written since the handler started
          start,     \* data when the handler started
          told,      \* what the window said of the restore
          seen,      \* what was to be seen when the latest restore was over
          clock, mishap, faults

placeVars  == <<live, schema>>
zipVars    == <<archive, safety>>
buildVars  == <<copy, hash>>
swapVars   == <<prior, replaced>>
ghostVars  == <<start, told, seen, mishap>>
vars == <<placeVars, zipVars, buildVars, swapVars, pc, at, scanning, quiet, ghostVars, clock, faults>>

Places   == 1..(Sources + 2)
Db       == 1
Evidence == Sources + 2
Values   == 0..MaxVersion
None     == [i \in Places |-> 0]

\* Version 2 brought the activity log, version 3 the title column.
Current   == 3
Schema(v) == [version |-> v, log |-> v >= 2, title |-> v >= 3]

Archives == [copy : [Places -> Values], hash : [Places -> Values], evidence : BOOLEAN,
             schema : {Schema(v) : v \in 1..(Current + 1)}]

\* The archive, if any, is of an earlier day, maybe of another version.
Init ==
  /\ live = [i \in Places |-> 2] /\ schema = Schema(Current)
  /\ archive \in {{}} \cup
       {{[copy |-> f, hash |-> f, evidence |-> f[Evidence] # 0, schema |-> Schema(v)]} :
           f \in [Places -> {0, 1}], v \in 1..(Current + 1)}
  /\ safety = {} /\ copy = None /\ hash = None /\ prior = None /\ replaced = {}
  /\ pc = "idle" /\ at = 0 /\ scanning \in BOOLEAN /\ quiet = TRUE
  /\ start = live /\ told = "nothing" /\ seen = "before" /\ mishap = FALSE
  /\ clock = 2 /\ faults = 0

MayFail == faults < MaxFaults /\ faults' = faults + 1
The(S)  == CHOOSE a \in S : TRUE
-----------------------------------------------------------------------------
(***************************************************************************)
(* The scan thread.  While the database is moved aside SQLite makes an     *)
(* empty one, which is no data and which the next rename replaces.         *)
(***************************************************************************)
ScanWrites(i) ==
  /\ scanning /\ pc # "closed" /\ live[i] # 0 /\ clock < MaxVersion
  /\ clock' = clock + 1 /\ live' = [live EXCEPT ![i] = clock']
  /\ quiet' = FALSE
  /\ UNCHANGED <<schema, zipVars, buildVars, swapVars, pc, at, scanning, ghostVars, faults>>

ScanEnds ==
  /\ scanning /\ scanning' = FALSE
  /\ UNCHANGED <<placeVars, zipVars, buildVars, swapVars, pc, at, quiet, ghostVars, clock, faults>>
-----------------------------------------------------------------------------
(***************************************************************************)
(* create: each file is put in the archive, then read again for its hash.  *)
(***************************************************************************)
Included(evidence) == IF evidence THEN Places ELSE Places \ {Evidence}

BeginBackup ==
  /\ pc = "idle"
  /\ pc' = "copy" /\ at' = 1 /\ copy' = None /\ hash' = None
  /\ start' = live /\ quiet' = TRUE /\ told' = "nothing"
  /\ UNCHANGED <<placeVars, zipVars, swapVars, scanning, seen, mishap, clock, faults>>

\* pc is "copy" and "hash" in a backup of the operator, with a prefix in a safety
\* backup, which has the evidence if the archive to restore has it.
Operator == pc \in {"copy", "hash"}

\* Fault: evidence is never in a safety backup.
WantedSlim == Included(FALSE)

Wanted == Included(~Operator /\ The(archive).evidence)

CopyFile ==
  /\ pc \in {"copy", "safetyCopy"} /\ at \in Wanted
  /\ copy' = [copy EXCEPT ![at] = live[at]]
  /\ pc' = IF Operator THEN "hash" ELSE "safetyHash"
  /\ UNCHANGED <<placeVars, zipVars, hash, swapVars, at, scanning, quiet, ghostVars, clock, faults>>

HashFile ==
  /\ pc \in {"hash", "safetyHash"}
  /\ hash' = [hash EXCEPT ![at] = live[at]]
  /\ at' = at + 1
  /\ pc' = IF Operator THEN "copy" ELSE "safetyCopy"
  /\ UNCHANGED <<placeVars, zipVars, copy, swapVars, scanning, quiet, ghostVars, clock, faults>>

Built(evidence) == [copy |-> copy, hash |-> hash, evidence |-> evidence, schema |-> schema]

FinishBackup ==
  /\ pc = "copy" /\ at \notin Wanted
  /\ archive' = {Built(FALSE)} /\ pc' = "idle"
  /\ UNCHANGED <<placeVars, safety, buildVars, swapVars, at, scanning, quiet, ghostVars, clock, faults>>
-----------------------------------------------------------------------------
Publications == {i \in Places : The(archive).copy[i] # 0}

Missing == {i \in Places : start[i] # 0 /\ live[i] = 0}

\* Where the data at all places comes from.
Origin ==
  IF Missing = {} /\ replaced = {} THEN "before"
  ELSE IF Missing = {} /\ replaced = Publications THEN "after"
  ELSE "mixed"

Over == seen' = IF mishap THEN seen ELSE Origin
-----------------------------------------------------------------------------
(***************************************************************************)
(* restore_in_place.                                                       *)
(***************************************************************************)
\* inspect: contents match the hashes and there is a database.
Consistent(a) == a.copy = a.hash /\ a.copy[Db] # 0

BeginRestore ==
  /\ pc = "idle" /\ archive # {} /\ Consistent(The(archive))
  /\ pc' = "safetyCopy" /\ at' = 1 /\ copy' = None /\ hash' = None /\ safety' = {}
  /\ start' = live /\ quiet' = TRUE /\ told' = "nothing" /\ prior' = None /\ replaced' = {}
  /\ UNCHANGED <<placeVars, archive, scanning, seen, mishap, clock, faults>>

FinishSafety ==
  /\ pc = "safetyCopy" /\ at \notin Wanted
  /\ safety' = {Built(The(archive).evidence)} /\ pc' = "validate"
  /\ UNCHANGED <<placeVars, archive, buildVars, swapVars, at, scanning, quiet, ghostVars, clock, faults>>

\* Fault: any version will do.
AcceptsAny == TRUE

\* _validate_database: an application does not take a newer one's database.
Accepts == The(archive).schema.version <= Current

\* Extraction and validation, in a temporary directory.
Validate ==
  /\ pc = "validate"
  /\ IF Accepts
       THEN pc' = "aside" /\ at' = Db /\ UNCHANGED <<told, seen>>
       ELSE pc' = "closed" /\ told' = "failed" /\ Over /\ UNCHANGED at
  /\ UNCHANGED <<placeVars, zipVars, buildVars, swapVars, scanning, quiet, start, mishap,
                 clock, faults>>

MoveAside ==
  /\ pc = "aside" /\ at \in Publications
  /\ prior' = [prior EXCEPT ![at] = live[at]] /\ live' = [live EXCEPT ![at] = 0]
  /\ pc' = "publish"
  /\ UNCHANGED <<schema, zipVars, buildVars, replaced, at, scanning, quiet, ghostVars, clock, faults>>

NotThere ==
  /\ pc = "aside" /\ at \in Places \ Publications
  /\ at' = at + 1
  /\ UNCHANGED <<placeVars, zipVars, buildVars, swapVars, pc, scanning, quiet, ghostVars, clock, faults>>

SchemaWith(i, s) == IF i = Db THEN s ELSE schema

Publish ==
  /\ pc = "publish"
  /\ live' = [live EXCEPT ![at] = The(archive).copy[at]]
  /\ schema' = SchemaWith(at, The(archive).schema)
  /\ replaced' = replaced \cup {at} /\ at' = at + 1 /\ pc' = "aside"
  /\ UNCHANGED <<zipVars, buildVars, prior, scanning, quiet, ghostVars, clock, faults>>

\* The temporary directory goes, and with it all that was moved aside.
Published ==
  /\ pc = "aside" /\ at \notin Places
  /\ prior' = None /\ pc' = "log" /\ Over
  /\ UNCHANGED <<placeVars, zipVars, buildVars, replaced, at, scanning, quiet, start, told, mishap,
                 clock, faults>>

\* The window records the restore in the restored database, and closes; any
\* exception is shown as a restore that did not complete.
Announce ==
  /\ pc = "log"
  /\ \/ schema.log /\ told' = "complete" /\ UNCHANGED faults
     \/ ~schema.log /\ told' = "failed" /\ UNCHANGED faults
     \/ MayFail /\ told' = "failed"
  /\ pc' = "closed"
  /\ UNCHANGED <<placeVars, zipVars, buildVars, swapVars, at, scanning, quiet, start, seen, mishap,
                 clock>>
-----------------------------------------------------------------------------
Restoring == pc \in {"safetyCopy", "safetyHash", "validate", "aside", "publish", "undo"}
-----------------------------------------------------------------------------
(***************************************************************************)
(* Failures.                                                               *)
(***************************************************************************)
BackupRaises ==
  /\ pc \in {"copy", "hash", "safetyCopy", "safetyHash", "validate"} /\ MayFail
  /\ IF Operator THEN pc' = "idle" /\ UNCHANGED <<told, seen>>
                 ELSE pc' = "closed" /\ told' = "failed" /\ Over
  /\ UNCHANGED <<placeVars, zipVars, buildVars, swapVars, at, scanning, quiet, start, mishap, clock>>

MoveRaises ==
  /\ pc = "aside" /\ at \in Publications /\ MayFail
  /\ pc' = "undo"
  /\ UNCHANGED <<placeVars, zipVars, buildVars, swapVars, at, scanning, quiet, ghostVars, clock>>

\* Fault: what was moved aside stays there.
PutBackNothing == live

PutBack == IF prior[at] # 0 THEN [live EXCEPT ![at] = prior[at]] ELSE live

\* Then what was moved aside is put back; that may raise, too.
PublishRaises ==
  /\ pc = "publish" /\ MayFail
  /\ live' = PutBack /\ pc' = "undo"
  /\ UNCHANGED <<schema, zipVars, buildVars, swapVars, at, scanning, quiet, ghostVars, clock>>

PutBackRaises ==
  /\ pc = "publish" /\ faults + 1 < MaxFaults /\ faults' = faults + 2
  /\ pc' = "undo" /\ mishap' = TRUE
  /\ UNCHANGED <<placeVars, zipVars, buildVars, swapVars, at, scanning, quiet, start, seen, told,
                 clock>>

\* The rollback goes through the replaced places, the last one first.
Undo(i) ==
  /\ pc = "undo" /\ i \in replaced /\ \A j \in replaced : j <= i
  /\ live' = [live EXCEPT ![i] = prior[i]]
  /\ schema' = SchemaWith(i, Schema(Current))
  /\ replaced' = replaced \ {i}
  /\ UNCHANGED <<zipVars, buildVars, prior, pc, at, scanning, quiet, ghostVars, clock, faults>>

\* An exception in the rollback ends it; the directory with the rest is removed.
UndoRaises ==
  /\ pc = "undo" /\ replaced # {} /\ MayFail
  /\ prior' = None /\ pc' = "closed" /\ told' = "failed" /\ mishap' = TRUE
  /\ UNCHANGED <<placeVars, zipVars, buildVars, replaced, at, scanning, quiet, start, seen, clock>>

Undone ==
  /\ pc = "undo" /\ replaced = {}
  /\ prior' = None /\ pc' = "closed" /\ told' = "failed" /\ Over
  /\ UNCHANGED <<placeVars, zipVars, buildVars, replaced, at, scanning, quiet, start, mishap, clock,
                 faults>>

\* The process dies; nothing looks for the rollback directory later.
Crash ==
  /\ pc \notin {"idle", "closed"} /\ MayFail
  /\ pc' = "closed" /\ scanning' = FALSE /\ mishap' = (mishap \/ Restoring)
  /\ UNCHANGED <<placeVars, zipVars, buildVars, swapVars, at, quiet, start, seen, told, clock>>
-----------------------------------------------------------------------------
(***************************************************************************)
(* The next start: Database.__init__ and initialize_schema.                *)
(***************************************************************************)
Open ==
  /\ pc = "closed"
  /\ pc' = "createAll" /\ scanning' = FALSE
  /\ UNCHANGED <<placeVars, zipVars, buildVars, swapVars, at, quiet, ghostVars, clock, faults>>

\* create_all makes the tables that are missing, all of them in a new database.
CreateAll ==
  /\ pc = "createAll"
  /\ IF live[Db] = 0
       THEN /\ clock < MaxVersion /\ clock' = clock + 1 /\ live' = [live EXCEPT ![Db] = clock']
            /\ schema' = [version |-> 0, log |-> TRUE, title |-> TRUE]
       ELSE schema' = [schema EXCEPT !.log = TRUE] /\ UNCHANGED <<live, clock>>
  /\ pc' = "alter"
  /\ UNCHANGED <<zipVars, buildVars, swapVars, at, scanning, quiet, ghostVars, faults>>

\* Fault: only the version just below the current one is altered.
TitleMissingLate == schema.version = Current - 1

TitleMissing == schema.version \in 1..(Current - 1) /\ ~schema.title

Alter ==
  /\ pc = "alter"
  /\ schema' = [schema EXCEPT !.title = @ \/ TitleMissing]
  /\ pc' = "version"
  /\ UNCHANGED <<live, zipVars, buildVars, swapVars, at, scanning, quiet, ghostVars, clock, faults>>

SetVersion ==
  /\ pc = "version"
  /\ schema' = [schema EXCEPT !.version = Current]
  /\ pc' = "idle" /\ told' = "nothing"
  /\ UNCHANGED <<live, zipVars, buildVars, swapVars, at, scanning, quiet, start, seen, mishap, clock,
                 faults>>

Opening == pc \in {"createAll", "alter", "version"}
-----------------------------------------------------------------------------
Next ==
  \/ \E i \in {Db, Evidence} : ScanWrites(i)
  \/ ScanEnds
  \/ BeginBackup \/ CopyFile \/ HashFile \/ FinishBackup \/ BackupRaises
  \/ BeginRestore \/ FinishSafety \/ Validate \/ MoveAside \/ NotThere \/ Publish \/ Published
  \/ Announce
  \/ MoveRaises \/ PublishRaises \/ PutBackRaises \/ UndoRaises \/ Undone
  \/ \E i \in Places : Undo(i)
  \/ Crash
  \/ Open \/ CreateAll \/ Alter \/ SetVersion

Spec == Init /\ [][Next]_vars
-----------------------------------------------------------------------------
(***************************************************************************)
(* Properties.                                                             *)
(***************************************************************************)
\* Variables keep their types; no database is ever newer than the application.
TypeOK ==
  /\ live \in [Places -> Values] /\ start \in [Places -> Values] /\ prior \in [Places -> Values]
  /\ copy \in [Places -> Values] /\ hash \in [Places -> Values]
  /\ schema \in [version : 0..Current, log : BOOLEAN, title : BOOLEAN]
  /\ archive \subseteq Archives /\ safety \subseteq Archives
  /\ replaced \subseteq Places /\ at \in 0..(Sources + 3)
  /\ scanning \in BOOLEAN /\ quiet \in BOOLEAN /\ mishap \in BOOLEAN
  /\ told \in {"nothing", "complete", "failed"}
  /\ clock \in Values /\ faults \in 0..MaxFaults

Change == INSTANCE AtomicChange WITH busy <- Restoring \/ mishap, value <- seen

\* A restore ends with everything the archive has in its place, or with nothing
\* of it, whatever step raises and whatever a scan writes meanwhile; unless the
\* process died or the rollback itself raised.
RestoreIsAtomic == Change!ChangeSpec

InSafety(i) == \E s \in safety : s.copy[i] = start[i] /\ s.hash[i] = start[i]

\* Nothing the installation had when the restore began is ever lost, by any
\* failure, of the rollback, too, or by the death of the process: it is in its
\* place, moved aside, or in a safety backup that can be restored.  A scan that
\* writes meanwhile is another matter.
NothingLost ==
  quiet => \A i \in Places : start[i] # 0 =>
    start[i] \in {live[i], prior[i]} \/ InSafety(i)

\* The database of an application that runs has all its schema says, also when a
\* migration was interrupted and taken up again, or a restored database is older.
MigratedWhole ==
  pc = "idle" => schema = Schema(Current)

\* The operator's data survives: all of it is somewhere, and the database that
\* the application runs on is complete.
DataIsWhole == NothingLost /\ MigratedWhole

\* "Current data was rolled back where necessary." (restore_application_data): a
\* restore reported as failed has left the data as it was.
ReportIsTrue == told = "failed" /\ ~mishap => replaced = {}
=============================================================================
