-------------------------- MODULE BackupRestoreProofs --------------------------
(***************************************************************************)
(* Proofs about BackupRestore for any number of data directories, of       *)
(* writes of a scan, and of steps that raise.                              *)
(***************************************************************************)
EXTENDS BackupRestore, TLAPS

\* An archive without evidence has none in it.
Honest == \A a \in archive : ~a.evidence => a.copy[Evidence] = 0

\* Where a handler can be.
Stage ==
  /\ pc \in {"idle", "copy", "hash", "safetyCopy", "safetyHash", "validate", "aside", "publish",
             "undo", "log", "closed", "createAll", "alter", "version"}
  /\ Restoring => archive # {}
  /\ pc \in {"copy", "safetyCopy", "aside"} => at \in 1..(Sources + 3)
  /\ pc \in {"hash", "safetyHash"} => at \in Wanted
  /\ pc \in {"copy", "hash"} => copy[Evidence] = 0
  /\ pc \in {"aside", "publish", "undo"} => Accepts
  /\ pc = "publish" => at \in Publications

\* What a schema lacks, the start adds, whatever was interrupted before.
Schemas ==
  /\ schema.version \in {0, Current} => schema.log /\ schema.title
  /\ pc \in {"idle", "copy", "hash", "safetyCopy", "safetyHash", "validate"} => schema = Schema(Current)
  /\ pc \in {"alter", "version"} => schema.log
  /\ pc = "version" => schema.title

\* While no scan writes: data is in its place until its copy in the safety
\* backup is complete, and what the archive has no data for is never touched.
Safe ==
  quiet =>
    /\ pc \in {"copy", "hash", "safetyCopy", "safetyHash", "validate"} => live = start
    /\ pc \in {"safetyCopy", "safetyHash"} =>
         \A j \in Wanted : j < at => copy[j] = start[j] /\ hash[j] = start[j]
    /\ pc = "safetyHash" => copy[at] = start[at]
    /\ pc = "validate" => \A j \in Wanted : InSafety(j)
    /\ pc \in {"aside", "publish", "undo"} =>
         \A i \in Places : IF i \in Publications THEN InSafety(i) ELSE live[i] = start[i]

Kept(i) == start[i] # 0 => live[i] # 0
Aside(i) == start[i] # 0 => prior[i] # 0

\* How far the exchange is: the places before the present one have the archive's
\* data and their own is set aside; the others, their own.
Swap ==
  /\ pc \in {"safetyCopy", "safetyHash", "validate"} => replaced = {} /\ \A i \in Places : Kept(i)
  /\ pc \in {"aside", "publish"} =>
       /\ replaced = {j \in Publications : j < at}
       /\ \A i \in replaced : live[i] # 0 /\ Aside(i)
       /\ \A i \in Places \ replaced : Kept(i) \/ (pc = "publish" /\ i = at)
  /\ pc = "publish" => Aside(at)
  /\ pc = "undo" =>
       /\ replaced \subseteq Publications /\ \A i \in replaced : Aside(i)
       /\ \A i \in Places \ replaced : Kept(i) \/ mishap

IInv == TypeOK /\ Honest /\ Stage /\ Schemas /\ Safe /\ NothingLost /\ Swap
-----------------------------------
\* The archive that is being restored.
LEMMA TheArchive ==
  ASSUME TypeOK, archive # {}
  PROVE  /\ The(archive) \in archive /\ The(archive) \in Archives
         /\ The(archive).copy \in [Places -> Values] /\ The(archive).evidence \in BOOLEAN
         /\ The(archive).hash \in [Places -> Values]
         /\ \E v \in 1..(Current + 1) : The(archive).schema = Schema(v)
<1>1. The(archive) \in archive
  BY DEF The
<1>2. The(archive) \in Archives
  BY <1>1 DEF TypeOK
<1>3. \E v \in 1..(Current + 1) : The(archive).schema = Schema(v)
  BY <1>2 DEF Archives
<1> QED
  BY <1>1, <1>2, <1>3 DEF Archives

\* What depends on the archive alone stays while the archive does.
LEMMA SameArchive ==
  ASSUME archive' = archive
  PROVE  /\ Publications' = Publications /\ The(archive)' = The(archive)
         /\ Accepts' = Accepts
         /\ Operator' = Operator => Wanted' = Wanted
<1>1. The(archive)' = The(archive)
  BY DEF The
<1> QED
  BY <1>1 DEF Publications, Accepts, Wanted, Included, Places, Evidence

LEMMA PlaceFacts ==
  /\ Db \in Places /\ Evidence \in Places /\ Db # Evidence
  /\ Places \subseteq Nat /\ Wanted \subseteq Places /\ Publications \subseteq Places
  /\ Values \subseteq Nat /\ 0 \in Values /\ None \in [Places -> Values]
  /\ \A i \in Places : i + 1 \in 1..(Sources + 3) /\ i \in 1..(Sources + 3)
  /\ \A i \in 1..(Sources + 3) : i \notin Places => \A j \in Places : j < i
  /\ \A i \in 1..(Sources + 3) : i \notin Wanted => \A j \in Wanted : j < i
BY BackupAssumption DEF Db, Evidence, Places, Values, None, Wanted, Included, Publications

\* A restore's safety backup has all that the archive will replace.
LEMMA Covered ==
  ASSUME TypeOK, Honest, archive # {}, ~Operator
  PROVE  Publications \subseteq Wanted
<1>1. ~The(archive).evidence => The(archive).copy[Evidence] = 0
  BY TheArchive DEF Honest
<1> QED
  BY <1>1 DEF Publications, Wanted, Included

LEMMA CurrentSchema ==
  /\ Schema(Current) = [version |-> 3, log |-> TRUE, title |-> TRUE]
  /\ \A v \in 1..(Current + 1) : Schema(v).version = v
  /\ \A v \in 1..Current : /\ Schema(v) \in [version : 0..Current, log : BOOLEAN, title : BOOLEAN]
                           /\ v = Current => Schema(v).log /\ Schema(v).title
<1>1. (3 >= 2) = TRUE /\ (3 >= 3) = TRUE
  OBVIOUS
<1>2. Schema(3) = [version |-> 3, log |-> 3 >= 2, title |-> 3 >= 3]
  BY Zenon DEF Schema
<1>3. Schema(3) = [version |-> 3, log |-> TRUE, title |-> TRUE]
  BY <1>1, <1>2, Zenon
<1>4. \A v \in 1..Current : Schema(v) \in [version : 0..Current, log : BOOLEAN, title : BOOLEAN]
  <2> SUFFICES ASSUME NEW v \in 1..Current
               PROVE Schema(v) \in [version : 0..Current, log : BOOLEAN, title : BOOLEAN]
    OBVIOUS
  <2>1. v \in 0..Current /\ (v >= 2) \in BOOLEAN /\ (v >= 3) \in BOOLEAN
    BY DEF Current
  <2> QED
    BY <2>1, Zenon DEF Schema
<1>5. \A v \in 1..(Current + 1) : Schema(v).version = v
  BY DEF Schema
<1> QED
  BY <1>3, <1>4, <1>5 DEF Current

LEMMA InitIInv == Init => IInv
<1> SUFFICES ASSUME Init PROVE IInv
  OBVIOUS
<1>1. live \in [Places -> Values] /\ None \in [Places -> Values]
  BY BackupAssumption DEF Init, None, Values
<1>2. Schema(Current) = [version |-> 3, log |-> TRUE, title |-> TRUE]
  BY CurrentSchema
<1>3. archive \subseteq Archives /\ Honest
  <2> SUFFICES ASSUME NEW a \in archive PROVE a \in Archives /\ (~a.evidence => a.copy[Evidence] = 0)
    BY DEF Honest
  <2>1. PICK f \in [Places -> {0, 1}], v \in 1..(Current + 1) :
          a = [copy |-> f, hash |-> f, evidence |-> f[Evidence] # 0, schema |-> Schema(v)]
    BY DEF Init
  <2>2. f \in [Places -> Values]
    BY BackupAssumption DEF Values
  <2> QED
    BY <2>1, <2>2 DEF Archives
<1>4. TypeOK
  <2>1. schema \in [version : 0..Current, log : BOOLEAN, title : BOOLEAN]
    <3>1. schema = Schema(Current)
      BY DEF Init
    <3>2. Current \in 1..Current
      BY DEF Current
    <3> QED
      BY <3>1, <3>2, CurrentSchema
  <2>2. clock \in Values /\ faults \in 0..MaxFaults /\ at \in 0..(Sources + 3)
    BY BackupAssumption DEF Init, Values
  <2>3. told \in {"nothing", "complete", "failed"}
    BY DEF Init
  <2>5. mishap = FALSE /\ quiet = TRUE /\ scanning \in BOOLEAN
    <3>1. mishap = FALSE
      BY DEF Init
    <3>2. quiet = TRUE
      BY DEF Init
    <3>3. scanning \in BOOLEAN
      BY DEF Init
    <3> QED
      BY <3>1, <3>2, <3>3
  <2>6. mishap \in BOOLEAN /\ quiet \in BOOLEAN /\ scanning \in BOOLEAN
    BY <2>5, Zenon
  <2>4. /\ live \in [Places -> Values] /\ start \in [Places -> Values] /\ prior \in [Places -> Values]
        /\ copy \in [Places -> Values] /\ hash \in [Places -> Values]
        /\ safety \subseteq Archives /\ replaced \subseteq Places
    BY <1>1 DEF Init
  <2> QED
    BY <1>3, <2>1, <2>2, <2>3, <2>4, <2>6, Zenon DEF TypeOK
<1>5. Stage /\ Schemas /\ Safe /\ NothingLost /\ Swap
  BY <1>1, <1>2 DEF Init, Stage, Restoring, Schemas, Safe, NothingLost, Swap, Current
<1> QED
  BY <1>3, <1>4, <1>5 DEF IInv

\* What the scan's thread and the operator's backup do.
LEMMA BackupSteps ==
  ASSUME IInv, ScanEnds \/ BeginBackup \/ CopyFile \/ HashFile \/ FinishBackup \/ BackupRaises
  PROVE  IInv'
<1>0. TypeOK /\ Honest /\ Stage /\ Schemas /\ Safe /\ NothingLost /\ Swap
  BY DEF IInv
<1>1. CASE ScanEnds
  <2>0. /\ Publications' = Publications /\ The(archive)' = The(archive) /\ Accepts' = Accepts
        /\ Wanted' = Wanted
        /\ \A i : InSafety(i)' <=> InSafety(i)
    BY <1>1, SameArchive DEF ScanEnds, zipVars, Operator, ghostVars, InSafety
  <2>1. TypeOK'
    BY <1>0, <1>1, PlaceFacts DEF ScanEnds, placeVars, zipVars, buildVars, swapVars, ghostVars,
      TypeOK
  <2>2. Honest' /\ Schemas'
    BY <1>0, <1>1 DEF ScanEnds, placeVars, zipVars, Honest, Schemas
  <2>3. Stage'
    BY <1>0, <1>1, <2>0, PlaceFacts DEF ScanEnds, zipVars, buildVars, Stage, Restoring
  <2>4. Safe' /\ NothingLost'
    BY <1>0, <1>1, <2>0 DEF ScanEnds, placeVars, buildVars, swapVars, ghostVars, Safe,
      NothingLost
  <2>5. Swap'
    BY <1>0, <1>1, <2>0, PlaceFacts DEF ScanEnds, placeVars, swapVars, ghostVars, Swap, Kept,
      Aside
  <2> QED
    BY <2>1, <2>2, <2>3, <2>4, <2>5 DEF IInv
<1>2. CASE BeginBackup
  <2>0. Publications' = Publications /\ The(archive)' = The(archive) /\ Accepts' = Accepts
    BY <1>2, SameArchive DEF BeginBackup, zipVars
  <2>1. TypeOK'
    <3>1. at' \in 0..(Sources + 3)
      BY <1>2, BackupAssumption DEF BeginBackup
    <3>2. told' \in {"nothing", "complete", "failed"} /\ quiet' \in BOOLEAN
      BY <1>2 DEF BeginBackup
    <3> QED
      BY <1>0, <1>2, PlaceFacts, <3>1, <3>2 DEF BeginBackup, placeVars, zipVars, swapVars, TypeOK
  <2>2. Honest' /\ Schemas'
    BY <1>0, <1>2 DEF BeginBackup, placeVars, zipVars, Honest, Schemas
  <2>3. Stage'
    BY <1>0, <1>2, PlaceFacts, BackupAssumption DEF BeginBackup, Stage, Restoring, None
  <2>4. Safe' /\ NothingLost'
    BY <1>0, <1>2, <2>0 DEF BeginBackup, placeVars, swapVars, Safe, NothingLost
  <2>5. Swap'
    BY <1>0, <1>2, <2>0, PlaceFacts DEF BeginBackup, placeVars, swapVars, Swap, Kept, Aside
  <2> QED
    BY <2>1, <2>2, <2>3, <2>4, <2>5 DEF IInv
<1>3. CASE CopyFile
  <2>0. /\ Publications' = Publications /\ The(archive)' = The(archive) /\ Accepts' = Accepts
        /\ Wanted' = Wanted
        /\ \A i : InSafety(i)' <=> InSafety(i)
    BY <1>3, SameArchive DEF CopyFile, zipVars, Operator, ghostVars, InSafety
  <2>1. TypeOK'
    BY <1>0, <1>3, PlaceFacts DEF CopyFile, placeVars, zipVars, swapVars, ghostVars, Operator,
      TypeOK
  <2>2. Honest' /\ Schemas'
    BY <1>0, <1>3 DEF CopyFile, placeVars, zipVars, Operator, Honest, Schemas
  <2>3. Stage'
    <3>1. at \in Places /\ copy' = [copy EXCEPT ![at] = live[at]]
      BY <1>3, PlaceFacts DEF CopyFile
    <3>2. Operator => at # Evidence
      BY <1>3 DEF CopyFile, Wanted, Included
    <3>3. Operator => copy'[Evidence] = 0
      BY <1>0, <1>3, <3>1, <3>2, PlaceFacts DEF CopyFile, Operator, Stage, TypeOK
    <3> QED
      BY <1>0, <1>3, <2>0, <3>3 DEF CopyFile, zipVars, Operator, Stage, Restoring
  <2>4. Safe'
    <3> SUFFICES ASSUME quiet', pc = "safetyCopy"
                 PROVE  /\ \A j \in Wanted : j < at => copy'[j] = start[j] /\ hash[j] = start[j]
                        /\ copy'[at] = start[at]
      BY <1>0, <1>3, <2>0 DEF CopyFile, placeVars, ghostVars, Operator, Safe
    <3>1. at \in Places /\ copy' = [copy EXCEPT ![at] = live[at]]
      BY <1>3, PlaceFacts DEF CopyFile
    <3>2. /\ live = start
          /\ \A j \in Wanted : j < at => copy[j] = start[j] /\ hash[j] = start[j]
      BY <1>0, <1>3 DEF CopyFile, Safe
    <3> QED
      BY <1>0, <3>1, <3>2, PlaceFacts DEF TypeOK
  <2>5. NothingLost'
    BY <1>0, <1>3, <2>0 DEF CopyFile, placeVars, swapVars, ghostVars, Operator, NothingLost
  <2>6. Swap'
    BY <1>0, <1>3 DEF CopyFile, placeVars, swapVars, ghostVars, Operator, Swap, Kept
  <2> QED
    BY <2>1, <2>2, <2>3, <2>4, <2>5, <2>6 DEF IInv
<1>4. CASE HashFile
  <2>0. /\ Publications' = Publications /\ The(archive)' = The(archive) /\ Accepts' = Accepts
        /\ Wanted' = Wanted
        /\ \A i : InSafety(i)' <=> InSafety(i)
    BY <1>4, SameArchive DEF HashFile, zipVars, Operator, ghostVars, InSafety
  <2>1. TypeOK'
    <3>1. at \in Places
      BY <1>0, <1>4, PlaceFacts DEF HashFile, Stage
    <3>2. at' \in 0..(Sources + 3) /\ hash' \in [Places -> Values]
      BY <1>0, <1>4, <3>1, PlaceFacts, BackupAssumption DEF HashFile, placeVars, TypeOK
    <3> QED
      BY <1>0, <1>4, <3>2 DEF HashFile, placeVars, zipVars, swapVars, ghostVars, Operator, TypeOK
  <2>2. Honest' /\ Schemas'
    BY <1>0, <1>4 DEF HashFile, placeVars, zipVars, Operator, Honest, Schemas
  <2>3. Stage'
    BY <1>0, <1>4, <2>0, PlaceFacts DEF HashFile, zipVars, Operator, Stage, Restoring
  <2>4. Safe'
    <3> SUFFICES ASSUME quiet', pc = "safetyHash"
                 PROVE  \A j \in Wanted : j < at + 1 => copy[j] = start[j] /\ hash'[j] = start[j]
      BY <1>0, <1>4, <2>0 DEF HashFile, placeVars, ghostVars, Operator, Safe
    <3>1. /\ live = start /\ copy[at] = start[at]
          /\ \A j \in Wanted : j < at => copy[j] = start[j] /\ hash[j] = start[j]
      BY <1>0, <1>4 DEF HashFile, Safe
    <3>2. at \in Places /\ hash' = [hash EXCEPT ![at] = live[at]]
      BY <1>0, <1>4, PlaceFacts DEF HashFile, Stage
    <3>3. \A j \in Wanted : j < at + 1 => j < at \/ j = at
      BY <3>2, PlaceFacts
    <3> QED
      BY <1>0, <3>1, <3>2, <3>3, PlaceFacts DEF TypeOK
  <2>5. NothingLost'
    BY <1>0, <1>4, <2>0 DEF HashFile, placeVars, swapVars, ghostVars, Operator, NothingLost
  <2>6. Swap'
    BY <1>0, <1>4 DEF HashFile, placeVars, swapVars, ghostVars, Operator, Swap, Kept
  <2> QED
    BY <2>1, <2>2, <2>3, <2>4, <2>5, <2>6 DEF IInv
<1>5. CASE FinishBackup
  <2>0. \A i : InSafety(i)' <=> InSafety(i)
    BY <1>5 DEF FinishBackup, ghostVars, InSafety
  <2>1. TypeOK'
    <3>1. Built(FALSE) \in Archives
      <4>1. schema = Schema(Current) /\ Current \in 1..(Current + 1)
        BY <1>0, <1>5 DEF FinishBackup, Schemas, Current
      <4>2. FALSE \in BOOLEAN
        OBVIOUS
      <4> QED
        BY <1>0, <4>1, <4>2 DEF Built, Archives, TypeOK
    <3> QED
      BY <1>0, <1>5, <3>1 DEF FinishBackup, placeVars, buildVars, swapVars, ghostVars, TypeOK
  <2>2. Honest'
    BY <1>0, <1>5 DEF FinishBackup, Built, Honest, Stage
  <2>3. Schemas'
    BY <1>0, <1>5 DEF FinishBackup, placeVars, Schemas
  <2>4. Stage'
    BY <1>0, <1>5, <2>0, PlaceFacts DEF FinishBackup, buildVars, Stage, Restoring
  <2>5. Safe' /\ NothingLost'
    BY <1>0, <1>5, <2>0 DEF FinishBackup, placeVars, buildVars, swapVars, ghostVars, Safe,
      NothingLost
  <2>6. Swap'
    BY <1>0, <1>5, <2>0, PlaceFacts DEF FinishBackup, placeVars, swapVars, ghostVars, Swap,
      Kept, Aside
  <2> QED
    BY <2>1, <2>2, <2>3, <2>4, <2>5, <2>6 DEF IInv
<1>6. CASE BackupRaises
  <2>0. /\ Publications' = Publications /\ The(archive)' = The(archive) /\ Accepts' = Accepts
        /\ \A i : InSafety(i)' <=> InSafety(i)
    BY <1>6, SameArchive DEF BackupRaises, zipVars, InSafety
  <2>1. TypeOK'
    BY <1>0, <1>6, PlaceFacts, BackupAssumption DEF BackupRaises, placeVars, zipVars, buildVars,
      swapVars, Operator, MayFail, TypeOK
  <2>2. Honest' /\ Schemas'
    BY <1>0, <1>6 DEF BackupRaises, placeVars, zipVars, Operator, Honest, Schemas
  <2>3. Stage'
    BY <1>0, <1>6, <2>0, PlaceFacts DEF BackupRaises, zipVars, buildVars, Operator, Stage,
      Restoring
  <2>4. Safe' /\ NothingLost'
    BY <1>0, <1>6, <2>0 DEF BackupRaises, placeVars, buildVars, swapVars, Operator, Safe,
      NothingLost
  <2>5. Swap'
    BY <1>0, <1>6, <2>0, PlaceFacts DEF BackupRaises, placeVars, swapVars, Swap, Kept, Aside
  <2> QED
    BY <2>1, <2>2, <2>3, <2>4, <2>5 DEF IInv
<1> QED
  BY <1>1, <1>2, <1>3, <1>4, <1>5, <1>6

\* A restore as long as nothing raises.
LEMMA RestoreSteps ==
  ASSUME IInv,
         \/ BeginRestore \/ FinishSafety \/ Validate \/ MoveAside \/ NotThere \/ Publish \/ Published
         \/ Announce
  PROVE  IInv'
<1>0. TypeOK /\ Honest /\ Stage /\ Schemas /\ Safe /\ NothingLost /\ Swap
  BY DEF IInv
<1>1. CASE BeginRestore
  <2>0. Publications' = Publications /\ The(archive)' = The(archive) /\ Accepts' = Accepts
    BY <1>1, SameArchive DEF BeginRestore
  <2>1. TypeOK'
    <3>1. at' \in 0..(Sources + 3)
      BY <1>1, BackupAssumption DEF BeginRestore
    <3>2. told' \in {"nothing", "complete", "failed"} /\ quiet' \in BOOLEAN
      BY <1>1 DEF BeginRestore
    <3> QED
      BY <1>0, <1>1, PlaceFacts, <3>1, <3>2 DEF BeginRestore, placeVars, TypeOK
  <2>2. Honest' /\ Schemas'
    BY <1>0, <1>1 DEF BeginRestore, placeVars, Honest, Schemas
  <2>3. Stage'
    BY <1>0, <1>1, <2>0, PlaceFacts, BackupAssumption DEF BeginRestore, Stage, Restoring
  <2>4. Safe'
    <3>1. \A j \in Wanted' : ~(j < 1)
      BY DEF Wanted, Included, Places
    <3>2. pc' = "safetyCopy" /\ at' = 1 /\ live' = start'
      BY <1>1 DEF BeginRestore, placeVars
    <3> QED
      BY <3>1, <3>2 DEF Safe
  <2>5. NothingLost'
    BY <1>0, <1>1, <2>0 DEF BeginRestore, placeVars, NothingLost
  <2>6. Swap'
    BY <1>0, <1>1, <2>0, PlaceFacts DEF BeginRestore, placeVars, Swap, Kept, Aside
  <2> QED
    BY <2>1, <2>2, <2>3, <2>4, <2>5, <2>6 DEF IInv
<1>2. CASE FinishSafety
  <2>0. /\ Publications' = Publications /\ The(archive)' = The(archive) /\ Accepts' = Accepts
        /\ Wanted' = Wanted
    BY <1>2, SameArchive DEF FinishSafety, Operator
  <2>1. TypeOK'
    <3>1. Built(The(archive).evidence) \in Archives
      <4>1. schema = Schema(Current) /\ Current \in 1..(Current + 1)
        BY <1>0, <1>2 DEF FinishSafety, Schemas, Current
      <4>2. The(archive).evidence \in BOOLEAN
        BY <1>0, <1>2, TheArchive DEF FinishSafety, Stage, Restoring
      <4> QED
        BY <1>0, <4>1, <4>2 DEF Built, Archives, TypeOK
    <3> QED
      BY <1>0, <1>2, <3>1 DEF FinishSafety, placeVars, buildVars, swapVars, ghostVars, TypeOK
  <2>2. Honest' /\ Schemas'
    BY <1>0, <1>2 DEF FinishSafety, placeVars, Honest, Schemas
  <2>3. Stage'
    BY <1>0, <1>2, <2>0, PlaceFacts DEF FinishSafety, buildVars, Stage, Restoring
  <2>4. Safe'
    <3> SUFFICES ASSUME quiet' PROVE live' = start' /\ \A j \in Wanted : InSafety(j)'
      BY <1>2, <2>0 DEF FinishSafety, Safe
    <3>1. /\ live = start
          /\ \A j \in Wanted : j < at => copy[j] = start[j] /\ hash[j] = start[j]
      BY <1>0, <1>2 DEF FinishSafety, Safe
    <3>2. \A j \in Wanted : j < at
      BY <1>0, <1>2, PlaceFacts DEF FinishSafety, Stage
    <3> QED
      BY <1>2, <3>1, <3>2 DEF FinishSafety, placeVars, ghostVars, Built, InSafety
  <2>5. NothingLost'
    BY <1>0, <1>2 DEF FinishSafety, placeVars, swapVars, ghostVars, NothingLost, Safe
  <2>6. Swap'
    BY <1>0, <1>2, <2>0, PlaceFacts DEF FinishSafety, placeVars, swapVars, ghostVars, Swap,
      Kept, Aside
  <2> QED
    BY <2>1, <2>2, <2>3, <2>4, <2>5, <2>6 DEF IInv
<1>3. CASE Validate
  <2>0. /\ Publications' = Publications /\ The(archive)' = The(archive) /\ Accepts' = Accepts
        /\ Wanted' = Wanted
        /\ \A i : InSafety(i)' <=> InSafety(i)
    BY <1>3, SameArchive DEF Validate, zipVars, Operator, InSafety
  <2>1. TypeOK'
    BY <1>0, <1>3, PlaceFacts DEF Validate, placeVars, zipVars, buildVars, swapVars, TypeOK
  <2>2. Honest' /\ Schemas'
    BY <1>0, <1>3 DEF Validate, placeVars, zipVars, Honest, Schemas
  <2>3. Stage'
    BY <1>0, <1>3, <2>0, PlaceFacts DEF Validate, zipVars, buildVars, Stage, Restoring
  <2>4. Safe'
    <3>0. Publications \subseteq Wanted
      BY <1>0, <1>3, Covered DEF Validate, Stage, Restoring, Operator
    <3> QED
      BY <1>0, <1>3, <2>0, PlaceFacts, <3>0 DEF Validate, placeVars, buildVars, Safe
  <2>5. NothingLost'
    BY <1>0, <1>3, <2>0 DEF Validate, placeVars, swapVars, NothingLost
  <2>6. Swap'
    <3>1. replaced = {} /\ \A i \in Places : Kept(i) /\ Kept(i)'
      BY <1>0, <1>3 DEF Validate, placeVars, Swap, Kept
    <3>2. {j \in Publications : j < 1} = {}
      <4>1. \A j \in Places : ~(j < 1)
        BY DEF Places
      <4> QED
        BY <4>1, PlaceFacts
    <3> QED
      BY <1>3, <2>0, <3>1, <3>2 DEF Validate, swapVars, Swap, Db
  <2> QED
    BY <2>1, <2>2, <2>3, <2>4, <2>5, <2>6 DEF IInv
<1>4. CASE MoveAside
  <2>0. /\ Publications' = Publications /\ The(archive)' = The(archive) /\ Accepts' = Accepts
        /\ Wanted' = Wanted
        /\ \A i : InSafety(i)' <=> InSafety(i)
    BY <1>4, SameArchive DEF MoveAside, zipVars, Operator, ghostVars, InSafety
  <2>1. TypeOK'
    BY <1>0, <1>4, PlaceFacts DEF MoveAside, zipVars, buildVars, ghostVars, TypeOK
  <2>2. Honest' /\ Schemas'
    BY <1>0, <1>4 DEF MoveAside, zipVars, Honest, Schemas
  <2>3. Stage'
    BY <1>0, <1>4, <2>0, PlaceFacts DEF MoveAside, zipVars, buildVars, Stage, Restoring
  <2>4. Safe'
    BY <1>0, <1>4, <2>0 DEF MoveAside, buildVars, ghostVars, Safe
  <2>5. NothingLost'
    <3> SUFFICES ASSUME NEW i \in Places, quiet', start'[i] # 0
                 PROVE  start'[i] \in {live'[i], prior'[i]} \/ InSafety(i)'
      BY DEF NothingLost
    <3>0. /\ at \in Publications /\ live'[at] = 0 /\ prior'[at] = live[at]
          /\ \A j \in Places : j # at => live'[j] = live[j] /\ prior'[j] = prior[j]
      BY <1>0, <1>4, PlaceFacts DEF MoveAside, TypeOK
    <3>1. IF i \in Publications THEN InSafety(i) ELSE live[i] = start[i]
      BY <1>0, <1>4 DEF MoveAside, ghostVars, Safe
    <3> QED
      BY <2>0, <1>4, <3>0, <3>1 DEF MoveAside, ghostVars
  <2>6. Swap'
    <3>0. /\ at \in Publications /\ live'[at] = 0 /\ prior'[at] = live[at]
          /\ \A j \in Places : j # at => live'[j] = live[j] /\ prior'[j] = prior[j]
      BY <1>0, <1>4, PlaceFacts DEF MoveAside, TypeOK
    <3>1. /\ replaced = {j \in Publications : j < at}
          /\ \A i \in replaced : live[i] # 0 /\ Aside(i)
          /\ \A i \in Places \ replaced : Kept(i)
      BY <1>0, <1>4 DEF MoveAside, Swap
    <3>2. at \in Places \ replaced /\ replaced \subseteq Places
      <4>1. at \in Nat /\ ~(at < at)
        BY <3>0, PlaceFacts
      <4> QED
        BY <3>0, <3>1, <4>1, PlaceFacts
    <3>3. \A i \in replaced : live'[i] # 0 /\ Aside(i)'
      BY <1>4, <3>0, <3>1, <3>2 DEF MoveAside, ghostVars, Aside
    <3>4. \A i \in Places \ replaced : Kept(i)' \/ i = at
      BY <1>4, <3>0, <3>1 DEF MoveAside, ghostVars, Kept
    <3>5. Aside(at)'
      BY <1>4, <3>0, <3>1, <3>2 DEF MoveAside, ghostVars, Aside, Kept
    <3> QED
      BY <1>4, <2>0, <3>1, <3>3, <3>4, <3>5 DEF MoveAside, Swap
  <2> QED
    BY <2>1, <2>2, <2>3, <2>4, <2>5, <2>6 DEF IInv
<1>5. CASE NotThere
  <2>0. /\ Publications' = Publications /\ The(archive)' = The(archive) /\ Accepts' = Accepts
        /\ Wanted' = Wanted
        /\ \A i : InSafety(i)' <=> InSafety(i)
    BY <1>5, SameArchive DEF NotThere, zipVars, Operator, ghostVars, InSafety
  <2>1. TypeOK'
    BY <1>0, <1>5, PlaceFacts DEF NotThere, placeVars, zipVars, buildVars, swapVars, ghostVars,
      TypeOK
  <2>2. Honest' /\ Schemas'
    BY <1>0, <1>5 DEF NotThere, placeVars, zipVars, Honest, Schemas
  <2>3. Stage'
    BY <1>0, <1>5, <2>0, PlaceFacts DEF NotThere, zipVars, buildVars, Stage, Restoring
  <2>4. Safe' /\ NothingLost'
    BY <1>0, <1>5, <2>0 DEF NotThere, placeVars, buildVars, swapVars, ghostVars, Safe,
      NothingLost
  <2>5. Swap'
    <3>1. /\ replaced = {j \in Publications : j < at}
          /\ \A i \in replaced : live[i] # 0 /\ Aside(i)
          /\ \A i \in Places \ replaced : Kept(i)
      BY <1>0, <1>5 DEF NotThere, Swap
    <3>2. at \in Nat \ Publications /\ Publications \subseteq Nat
      BY <1>0, <1>5, PlaceFacts DEF NotThere
    <3>3. \A j \in Publications : j < at + 1 <=> j < at
      BY <3>2
    <3>4. \A i \in Places : (Kept(i)' <=> Kept(i)) /\ (Aside(i)' <=> Aside(i)) /\ live'[i] = live[i]
      BY <1>5 DEF NotThere, placeVars, swapVars, ghostVars, Kept, Aside
    <3> QED
      BY <1>5, <2>0, <3>1, <3>3, <3>4, PlaceFacts DEF NotThere, swapVars, Swap
  <2> QED
    BY <2>1, <2>2, <2>3, <2>4, <2>5 DEF IInv
<1>6. CASE Publish
  <2>0. /\ Publications' = Publications /\ The(archive)' = The(archive) /\ Accepts' = Accepts
        /\ Wanted' = Wanted
        /\ \A i : InSafety(i)' <=> InSafety(i)
    BY <1>6, SameArchive DEF Publish, zipVars, Operator, ghostVars, InSafety
  <2>1. TypeOK'
    <3>0. /\ at \in Publications /\ The(archive).copy[at] \in Values /\ The(archive).copy[at] # 0
          /\ live' = [live EXCEPT ![at] = The(archive).copy[at]]
          /\ live'[at] # 0 /\ (\A j \in Places : j # at => live'[j] = live[j])
      <4>1. at \in Publications /\ archive # {}
        BY <1>0, <1>6 DEF Publish, Stage, Restoring
      <4>2. The(archive).copy[at] \in Values /\ The(archive).copy[at] # 0
        BY <1>0, <4>1, TheArchive, PlaceFacts DEF Publications
      <4> QED
        BY <1>0, <1>6, <4>1, <4>2, PlaceFacts DEF Publish, TypeOK
    <3>1. /\ schema' \in [version : 0..Current, log : BOOLEAN, title : BOOLEAN]
          /\ schema'.version \in {0, Current} => schema'.log /\ schema'.title
      <4>1. PICK v \in 1..(Current + 1) : The(archive).schema = Schema(v)
        BY <1>0, <1>6, TheArchive DEF Publish, Stage, Restoring
      <4>2. v \in 1..Current
        BY <1>0, <1>6, <4>1, CurrentSchema DEF Publish, Stage, Accepts, Current
      <4>3. /\ Schema(v) \in [version : 0..Current, log : BOOLEAN, title : BOOLEAN]
            /\ Schema(v).version \in {0, Current} => Schema(v).log /\ Schema(v).title
        BY <4>2, CurrentSchema DEF Current
      <4> QED
        BY <1>0, <1>6, <4>1, <4>3 DEF Publish, SchemaWith, TypeOK, Schemas
    <3>2. live' \in [Places -> Values] /\ at' \in 0..(Sources + 3) /\ replaced' \subseteq Places
      <4>1. at \in Places /\ at + 1 \in 0..(Sources + 3)
        BY <3>0, PlaceFacts, BackupAssumption
      <4> QED
        BY <1>0, <1>6, <3>0, <4>1 DEF Publish, TypeOK
    <3> QED
      BY <1>0, <1>6, <3>1, <3>2 DEF Publish, zipVars, buildVars, ghostVars, TypeOK
  <2>2. Honest'
    BY <1>0, <1>6 DEF Publish, zipVars, Honest
  <2>3. Schemas'
    <3>1. /\ schema' \in [version : 0..Current, log : BOOLEAN, title : BOOLEAN]
          /\ schema'.version \in {0, Current} => schema'.log /\ schema'.title
      <4>1. PICK v \in 1..(Current + 1) : The(archive).schema = Schema(v)
        BY <1>0, <1>6, TheArchive DEF Publish, Stage, Restoring
      <4>2. v \in 1..Current
        BY <1>0, <1>6, <4>1, CurrentSchema DEF Publish, Stage, Accepts, Current
      <4>3. /\ Schema(v) \in [version : 0..Current, log : BOOLEAN, title : BOOLEAN]
            /\ Schema(v).version \in {0, Current} => Schema(v).log /\ Schema(v).title
        BY <4>2, CurrentSchema DEF Current
      <4> QED
        BY <1>0, <1>6, <4>1, <4>3 DEF Publish, SchemaWith, TypeOK, Schemas
    <3> QED
      BY <1>6, <3>1 DEF Publish, Schemas
  <2>4. Stage'
    BY <1>0, <1>6, <2>0, PlaceFacts DEF Publish, zipVars, buildVars, Stage, Restoring
  <2>5. Safe'
    <3>0. /\ at \in Publications /\ The(archive).copy[at] \in Values /\ The(archive).copy[at] # 0
          /\ live' = [live EXCEPT ![at] = The(archive).copy[at]]
          /\ live'[at] # 0 /\ (\A j \in Places : j # at => live'[j] = live[j])
      <4>1. at \in Publications /\ archive # {}
        BY <1>0, <1>6 DEF Publish, Stage, Restoring
      <4>2. The(archive).copy[at] \in Values /\ The(archive).copy[at] # 0
        BY <1>0, <4>1, TheArchive, PlaceFacts DEF Publications
      <4> QED
        BY <1>0, <1>6, <4>1, <4>2, PlaceFacts DEF Publish, TypeOK
    <3> QED
      BY <1>0, <1>6, <2>0, PlaceFacts, <3>0 DEF Publish, ghostVars, Safe
  <2>6. NothingLost'
    <3> SUFFICES ASSUME NEW i \in Places, quiet', start'[i] # 0
                 PROVE  start'[i] \in {live'[i], prior'[i]} \/ InSafety(i)'
      BY DEF NothingLost
    <3>0. /\ at \in Publications /\ The(archive).copy[at] \in Values /\ The(archive).copy[at] # 0
          /\ live' = [live EXCEPT ![at] = The(archive).copy[at]]
          /\ live'[at] # 0 /\ (\A j \in Places : j # at => live'[j] = live[j])
      <4>1. at \in Publications /\ archive # {}
        BY <1>0, <1>6 DEF Publish, Stage, Restoring
      <4>2. The(archive).copy[at] \in Values /\ The(archive).copy[at] # 0
        BY <1>0, <4>1, TheArchive, PlaceFacts DEF Publications
      <4> QED
        BY <1>0, <1>6, <4>1, <4>2, PlaceFacts DEF Publish, TypeOK
    <3>1. IF i \in Publications THEN InSafety(i) ELSE live[i] = start[i]
      BY <1>0, <1>6 DEF Publish, ghostVars, Safe
    <3> QED
      BY <2>0, <1>6, <3>0, <3>1 DEF Publish, ghostVars
  <2>7. Swap'
    <3>0. /\ at \in Publications /\ The(archive).copy[at] \in Values /\ The(archive).copy[at] # 0
          /\ live' = [live EXCEPT ![at] = The(archive).copy[at]]
          /\ live'[at] # 0 /\ (\A j \in Places : j # at => live'[j] = live[j])
      <4>1. at \in Publications /\ archive # {}
        BY <1>0, <1>6 DEF Publish, Stage, Restoring
      <4>2. The(archive).copy[at] \in Values /\ The(archive).copy[at] # 0
        BY <1>0, <4>1, TheArchive, PlaceFacts DEF Publications
      <4> QED
        BY <1>0, <1>6, <4>1, <4>2, PlaceFacts DEF Publish, TypeOK
    <3>1. /\ replaced = {j \in Publications : j < at}
          /\ \A i \in replaced : live[i] # 0 /\ Aside(i)
          /\ \A i \in Places \ replaced : Kept(i) \/ i = at
          /\ Aside(at)
      BY <1>0, <1>6 DEF Publish, Swap
    <3>2. at \in Nat /\ Publications \subseteq Nat
      BY <3>0, PlaceFacts
    <3>3. replaced' = {j \in Publications : j < at'}
      <4>1. \A j \in Publications : j < at + 1 <=> j < at \/ j = at
        BY <3>2
      <4>2. at' = at + 1 /\ replaced' = replaced \cup {at}
        BY <1>6 DEF Publish
      <4> QED
        BY <3>0, <3>1, <4>1, <4>2
    <3>4. \A i \in replaced' : live'[i] # 0 /\ Aside(i)'
      BY <1>6, <3>0, <3>1, PlaceFacts DEF Publish, ghostVars, Aside
    <3>5. \A i \in Places \ replaced' : Kept(i)'
      BY <1>6, <3>0, <3>1 DEF Publish, ghostVars, Kept
    <3> QED
      BY <1>6, <2>0, <3>3, <3>4, <3>5 DEF Publish, Swap
  <2> QED
    BY <2>1, <2>2, <2>3, <2>4, <2>5, <2>6, <2>7 DEF IInv
<1>7. CASE Published
  <2>0. /\ Publications' = Publications /\ The(archive)' = The(archive) /\ Accepts' = Accepts
        /\ Wanted' = Wanted
        /\ \A i : InSafety(i)' <=> InSafety(i)
    BY <1>7, SameArchive DEF Published, zipVars, Operator, InSafety
  <2>1. TypeOK'
    BY <1>0, <1>7, PlaceFacts DEF Published, placeVars, zipVars, buildVars, TypeOK
  <2>2. Honest' /\ Schemas'
    BY <1>0, <1>7 DEF Published, placeVars, zipVars, Honest, Schemas
  <2>3. Stage'
    BY <1>0, <1>7, <2>0, PlaceFacts DEF Published, zipVars, buildVars, Stage, Restoring
  <2>4. Safe'
    BY <1>0, <1>7, <2>0 DEF Published, placeVars, buildVars, Safe
  <2>5. NothingLost'
    <3> SUFFICES ASSUME NEW i \in Places, quiet', start'[i] # 0
                 PROVE  start'[i] \in {live'[i], prior'[i]} \/ InSafety(i)'
      BY DEF NothingLost
    <3>1. IF i \in Publications THEN InSafety(i) ELSE live[i] = start[i]
      BY <1>0, <1>7 DEF Published, placeVars, Safe
    <3> QED
      BY <2>0, <1>7, <3>1 DEF Published, placeVars
  <2>6. Swap'
    BY <1>0, <1>7, <2>0, PlaceFacts DEF Published, placeVars, Swap, Kept, Aside
  <2> QED
    BY <2>1, <2>2, <2>3, <2>4, <2>5, <2>6 DEF IInv
<1>8. CASE Announce
  <2>0. /\ Publications' = Publications /\ The(archive)' = The(archive) /\ Accepts' = Accepts
        /\ Wanted' = Wanted
        /\ \A i : InSafety(i)' <=> InSafety(i)
    BY <1>8, SameArchive DEF Announce, zipVars, Operator, InSafety
  <2>1. TypeOK'
    BY <1>0, <1>8, PlaceFacts, BackupAssumption DEF Announce, placeVars, zipVars, buildVars,
      swapVars, MayFail, TypeOK
  <2>2. Honest' /\ Schemas'
    BY <1>0, <1>8 DEF Announce, placeVars, zipVars, Honest, Schemas
  <2>3. Stage'
    BY <1>0, <1>8, <2>0, PlaceFacts DEF Announce, zipVars, buildVars, Stage, Restoring
  <2>4. Safe' /\ NothingLost'
    BY <1>0, <1>8, <2>0 DEF Announce, placeVars, buildVars, swapVars, Safe, NothingLost
  <2>5. Swap'
    BY <1>0, <1>8, <2>0, PlaceFacts DEF Announce, placeVars, swapVars, Swap, Kept, Aside
  <2> QED
    BY <2>1, <2>2, <2>3, <2>4, <2>5 DEF IInv
<1> QED
  BY <1>1, <1>2, <1>3, <1>4, <1>5, <1>6, <1>7, <1>8

\* A restore that fails.
LEMMA FailureSteps ==
  ASSUME IInv, MoveRaises \/ PublishRaises \/ PutBackRaises \/ UndoRaises \/ Undone \/ Crash
  PROVE  IInv'
<1>0. TypeOK /\ Honest /\ Stage /\ Schemas /\ Safe /\ NothingLost /\ Swap
  BY DEF IInv
<1>1. CASE MoveRaises
  <2>0. /\ Publications' = Publications /\ The(archive)' = The(archive) /\ Accepts' = Accepts
        /\ Wanted' = Wanted
        /\ \A i : InSafety(i)' <=> InSafety(i)
    BY <1>1, SameArchive DEF MoveRaises, zipVars, Operator, ghostVars, InSafety
  <2>1. TypeOK'
    BY <1>0, <1>1, PlaceFacts, BackupAssumption DEF MoveRaises, placeVars, zipVars, buildVars,
      swapVars, ghostVars, MayFail, TypeOK
  <2>2. Honest' /\ Schemas'
    BY <1>0, <1>1 DEF MoveRaises, placeVars, zipVars, Honest, Schemas
  <2>3. Stage'
    BY <1>0, <1>1, <2>0, PlaceFacts DEF MoveRaises, zipVars, buildVars, Stage, Restoring
  <2>4. Safe' /\ NothingLost'
    BY <1>0, <1>1, <2>0 DEF MoveRaises, placeVars, buildVars, swapVars, ghostVars, Safe,
      NothingLost
  <2>5. Swap'
    BY <1>0, <1>1, <2>0, PlaceFacts DEF MoveRaises, placeVars, swapVars, ghostVars, Swap, Kept,
      Aside
  <2> QED
    BY <2>1, <2>2, <2>3, <2>4, <2>5 DEF IInv
<1>2. CASE PublishRaises
  <2>0. /\ Publications' = Publications /\ The(archive)' = The(archive) /\ Accepts' = Accepts
        /\ Wanted' = Wanted
        /\ \A i : InSafety(i)' <=> InSafety(i)
    BY <1>2, SameArchive DEF PublishRaises, zipVars, Operator, ghostVars, InSafety
  <2>1. TypeOK'
    <3>1. at \in Places
      BY <1>0, <1>2, PlaceFacts DEF PublishRaises, Stage
    <3>2. live' \in [Places -> Values]
      BY <1>0, <1>2, <3>1 DEF PublishRaises, PutBack, TypeOK
    <3> QED
      BY <1>0, <1>2, <3>2, BackupAssumption DEF PublishRaises, zipVars, buildVars, swapVars,
        ghostVars, MayFail, TypeOK
  <2>2. Honest' /\ Schemas'
    BY <1>0, <1>2 DEF PublishRaises, zipVars, Honest, Schemas
  <2>3. Stage'
    BY <1>0, <1>2, <2>0, PlaceFacts DEF PublishRaises, zipVars, buildVars, Stage, Restoring
  <2>4. Safe'
    <3>0. at \in Publications /\ (\A j \in Places : j # at => live'[j] = live[j])
          /\ live'[at] = IF prior[at] # 0 THEN prior[at] ELSE live[at]
      BY <1>0, <1>2, PlaceFacts DEF PublishRaises, PutBack, Stage, TypeOK

    <3> QED
      BY <1>0, <1>2, <2>0, PlaceFacts, <3>0 DEF PublishRaises, swapVars, ghostVars, zipVars, Safe
  <2>5. NothingLost'
    <3> SUFFICES ASSUME NEW i \in Places, quiet', start'[i] # 0
                 PROVE  start'[i] \in {live'[i], prior'[i]} \/ InSafety(i)'
      BY DEF NothingLost
    <3>0. at \in Publications /\ (\A j \in Places : j # at => live'[j] = live[j])
          /\ live'[at] = IF prior[at] # 0 THEN prior[at] ELSE live[at]
      BY <1>0, <1>2, PlaceFacts DEF PublishRaises, PutBack, Stage, TypeOK
    <3>1. IF i \in Publications THEN InSafety(i) ELSE live[i] = start[i]
      BY <1>0, <1>2 DEF PublishRaises, swapVars, ghostVars, Safe
    <3> QED
      BY <2>0, <1>2, <3>0, <3>1 DEF PublishRaises, swapVars, ghostVars
  <2>6. Swap'
    <3>0. at \in Publications /\ (\A j \in Places : j # at => live'[j] = live[j])
          /\ live'[at] = IF prior[at] # 0 THEN prior[at] ELSE live[at]
      BY <1>0, <1>2, PlaceFacts DEF PublishRaises, PutBack, Stage, TypeOK
    <3>1. /\ replaced = {j \in Publications : j < at}
          /\ \A i \in replaced : Aside(i)
          /\ \A i \in Places \ replaced : Kept(i) \/ i = at
          /\ Aside(at)
      BY <1>0, <1>2 DEF PublishRaises, Swap
    <3>2. \A i \in replaced : Aside(i)'
      BY <1>2, <3>1 DEF PublishRaises, swapVars, ghostVars, Aside
    <3>3. \A i \in Places \ replaced : Kept(i)'
      BY <1>2, <3>0, <3>1 DEF PublishRaises, swapVars, ghostVars, Kept, Aside
    <3> QED
      BY <1>2, <2>0, <3>1, <3>2, <3>3 DEF PublishRaises, swapVars, Swap
  <2> QED
    BY <2>1, <2>2, <2>3, <2>4, <2>5, <2>6 DEF IInv
<1>3. CASE PutBackRaises
  <2>0. /\ Publications' = Publications /\ The(archive)' = The(archive) /\ Accepts' = Accepts
        /\ Wanted' = Wanted
        /\ \A i : InSafety(i)' <=> InSafety(i)
    BY <1>3, SameArchive DEF PutBackRaises, zipVars, Operator, InSafety
  <2>1. TypeOK'
    BY <1>0, <1>3, PlaceFacts, BackupAssumption DEF PutBackRaises, placeVars, zipVars,
      buildVars, swapVars, TypeOK
  <2>2. Honest' /\ Schemas'
    BY <1>0, <1>3 DEF PutBackRaises, placeVars, zipVars, Honest, Schemas
  <2>3. Stage'
    BY <1>0, <1>3, <2>0, PlaceFacts DEF PutBackRaises, zipVars, buildVars, Stage, Restoring
  <2>4. Safe' /\ NothingLost'
    BY <1>0, <1>3, <2>0 DEF PutBackRaises, placeVars, buildVars, swapVars, Safe, NothingLost
  <2>5. Swap'
    BY <1>0, <1>3, <2>0, PlaceFacts DEF PutBackRaises, placeVars, swapVars, Swap, Kept, Aside
  <2> QED
    BY <2>1, <2>2, <2>3, <2>4, <2>5 DEF IInv
<1>4. CASE UndoRaises
  <2>0. /\ Publications' = Publications /\ The(archive)' = The(archive) /\ Accepts' = Accepts
        /\ Wanted' = Wanted
        /\ \A i : InSafety(i)' <=> InSafety(i)
    BY <1>4, SameArchive DEF UndoRaises, zipVars, Operator, InSafety
  <2>1. TypeOK'
    BY <1>0, <1>4, PlaceFacts, BackupAssumption DEF UndoRaises, placeVars, zipVars, buildVars,
      MayFail, TypeOK
  <2>2. Honest' /\ Schemas'
    BY <1>0, <1>4 DEF UndoRaises, placeVars, zipVars, Honest, Schemas
  <2>3. Stage'
    BY <1>0, <1>4, <2>0, PlaceFacts DEF UndoRaises, zipVars, buildVars, Stage, Restoring
  <2>4. Safe'
    BY <1>0, <1>4, <2>0 DEF UndoRaises, placeVars, buildVars, Safe
  <2>5. NothingLost'
    <3> SUFFICES ASSUME NEW i \in Places, quiet', start'[i] # 0
                 PROVE  start'[i] \in {live'[i], prior'[i]} \/ InSafety(i)'
      BY DEF NothingLost
    <3>1. IF i \in Publications THEN InSafety(i) ELSE live[i] = start[i]
      BY <1>0, <1>4 DEF UndoRaises, placeVars, Safe
    <3> QED
      BY <2>0, <1>4, <3>1 DEF UndoRaises, placeVars
  <2>6. Swap'
    BY <1>0, <1>4, <2>0, PlaceFacts DEF UndoRaises, placeVars, Swap, Kept, Aside
  <2> QED
    BY <2>1, <2>2, <2>3, <2>4, <2>5, <2>6 DEF IInv
<1>5. CASE Undone
  <2>0. /\ Publications' = Publications /\ The(archive)' = The(archive) /\ Accepts' = Accepts
        /\ Wanted' = Wanted
        /\ \A i : InSafety(i)' <=> InSafety(i)
    BY <1>5, SameArchive DEF Undone, zipVars, Operator, InSafety
  <2>1. TypeOK'
    BY <1>0, <1>5, PlaceFacts DEF Undone, placeVars, zipVars, buildVars, TypeOK
  <2>2. Honest' /\ Schemas'
    BY <1>0, <1>5 DEF Undone, placeVars, zipVars, Honest, Schemas
  <2>3. Stage'
    BY <1>0, <1>5, <2>0, PlaceFacts DEF Undone, zipVars, buildVars, Stage, Restoring
  <2>4. Safe'
    BY <1>0, <1>5, <2>0 DEF Undone, placeVars, buildVars, Safe
  <2>5. NothingLost'
    <3> SUFFICES ASSUME NEW i \in Places, quiet', start'[i] # 0
                 PROVE  start'[i] \in {live'[i], prior'[i]} \/ InSafety(i)'
      BY DEF NothingLost
    <3>1. IF i \in Publications THEN InSafety(i) ELSE live[i] = start[i]
      BY <1>0, <1>5 DEF Undone, placeVars, Safe
    <3> QED
      BY <2>0, <1>5, <3>1 DEF Undone, placeVars
  <2>6. Swap'
    BY <1>0, <1>5, <2>0, PlaceFacts DEF Undone, placeVars, Swap, Kept, Aside
  <2> QED
    BY <2>1, <2>2, <2>3, <2>4, <2>5, <2>6 DEF IInv
<1>6. CASE Crash
  <2>0. /\ Publications' = Publications /\ The(archive)' = The(archive) /\ Accepts' = Accepts
        /\ \A i : InSafety(i)' <=> InSafety(i)
    BY <1>6, SameArchive DEF Crash, zipVars, ghostVars, InSafety
  <2>1. TypeOK'
    <3>1. mishap' \in BOOLEAN
      BY <1>0, <1>6 DEF Crash, TypeOK, Restoring
    <3>2. scanning' \in BOOLEAN /\ faults' \in 0..MaxFaults
      <4>1. scanning' = FALSE
        BY <1>6 DEF Crash
      <4>2. faults' \in 0..MaxFaults
        BY <1>0, <1>6, BackupAssumption DEF Crash, MayFail, TypeOK
      <4> QED
        BY <4>1, <4>2
    <3>3. UNCHANGED <<placeVars, zipVars, buildVars, swapVars, at, quiet, start, told, clock>>
      BY <1>6 DEF Crash
    <3> QED
      BY <1>0, <3>1, <3>2, <3>3 DEF placeVars, zipVars, buildVars, swapVars, TypeOK
  <2>2. Honest' /\ Schemas'
    BY <1>0, <1>6 DEF Crash, placeVars, zipVars, Honest, Schemas
  <2>3. Stage'
    BY <1>0, <1>6, <2>0, PlaceFacts DEF Crash, zipVars, buildVars, Stage, Restoring
  <2>4. Safe' /\ NothingLost'
    BY <1>0, <1>6, <2>0 DEF Crash, placeVars, buildVars, swapVars, ghostVars, Safe, NothingLost
  <2>5. Swap'
    BY <1>0, <1>6, <2>0, PlaceFacts DEF Crash, placeVars, swapVars, ghostVars, Swap, Kept, Aside
  <2> QED
    BY <2>1, <2>2, <2>3, <2>4, <2>5 DEF IInv
<1> QED
  BY <1>1, <1>2, <1>3, <1>4, <1>5, <1>6

\* The next start.
LEMMA StartSteps ==
  ASSUME IInv, Open \/ CreateAll \/ Alter \/ SetVersion
  PROVE  IInv'
<1>0. TypeOK /\ Honest /\ Stage /\ Schemas /\ Safe /\ NothingLost /\ Swap
  BY DEF IInv
<1>1. CASE Open
  <2>0. /\ Publications' = Publications /\ The(archive)' = The(archive) /\ Accepts' = Accepts
        /\ Wanted' = Wanted
        /\ \A i : InSafety(i)' <=> InSafety(i)
    BY <1>1, SameArchive DEF Open, zipVars, Operator, ghostVars, InSafety
  <2>1. TypeOK'
    BY <1>0, <1>1, PlaceFacts DEF Open, placeVars, zipVars, buildVars, swapVars, ghostVars,
      TypeOK
  <2>2. Honest' /\ Schemas'
    BY <1>0, <1>1 DEF Open, placeVars, zipVars, Honest, Schemas
  <2>3. Stage'
    BY <1>0, <1>1, <2>0, PlaceFacts DEF Open, zipVars, buildVars, Stage, Restoring
  <2>4. Safe' /\ NothingLost'
    BY <1>0, <1>1, <2>0 DEF Open, placeVars, buildVars, swapVars, ghostVars, Safe, NothingLost
  <2>5. Swap'
    BY <1>0, <1>1, <2>0, PlaceFacts DEF Open, placeVars, swapVars, ghostVars, Swap, Kept, Aside
  <2> QED
    BY <2>1, <2>2, <2>3, <2>4, <2>5 DEF IInv
<1>2. CASE CreateAll
  <2>0. /\ Publications' = Publications /\ The(archive)' = The(archive) /\ Accepts' = Accepts
        /\ Wanted' = Wanted
        /\ \A i : InSafety(i)' <=> InSafety(i)
    BY <1>2, SameArchive DEF CreateAll, zipVars, Operator, ghostVars, InSafety
  <2>1. TypeOK'
    <3>1. schema' \in [version : 0..Current, log : BOOLEAN, title : BOOLEAN]
      <4>1. CASE live[Db] = 0
        <5>1. schema' = [version |-> 0, log |-> TRUE, title |-> TRUE]
          BY <1>2, <4>1 DEF CreateAll
        <5> QED
          BY <5>1 DEF Current
      <4>2. CASE live[Db] # 0
        BY <1>0, <1>2, <4>2 DEF CreateAll, TypeOK
      <4> QED
        BY <4>1, <4>2
    <3>2. clock' \in Values /\ live' \in [Places -> Values]
      BY <1>0, <1>2, PlaceFacts, BackupAssumption DEF CreateAll, TypeOK, Values
    <3> QED
      BY <1>0, <1>2, <3>1, <3>2 DEF CreateAll, zipVars, buildVars, swapVars, ghostVars, TypeOK
  <2>2. Honest'
    BY <1>0, <1>2 DEF CreateAll, zipVars, Honest
  <2>3. Schemas'
    <3>1. CASE live[Db] = 0
      BY <1>2, <3>1 DEF CreateAll, Schemas
    <3>2. CASE live[Db] # 0
      <4>1. schema'.version = schema.version /\ schema'.log = TRUE /\ schema'.title = schema.title
        BY <1>0, <1>2, <3>2 DEF CreateAll, TypeOK
      <4> QED
        BY <1>0, <1>2, <4>1 DEF CreateAll, Schemas
    <3> QED
      BY <3>1, <3>2
  <2>4. Stage'
    BY <1>0, <1>2, <2>0, PlaceFacts DEF CreateAll, zipVars, buildVars, Stage, Restoring
  <2>5. Safe'
    BY <1>0, <1>2, <2>0 DEF CreateAll, buildVars, ghostVars, Safe
  <2>6. NothingLost'
    <3> SUFFICES ASSUME NEW i \in Places, quiet', start'[i] # 0
                 PROVE  start'[i] \in {live'[i], prior'[i]} \/ InSafety(i)'
      BY DEF NothingLost
    <3>1. start[i] \in {live[i], prior[i]} \/ InSafety(i)
      BY <1>0, <1>2 DEF CreateAll, swapVars, ghostVars, NothingLost
    <3>2. live[i] = start[i] => live'[i] = live[i]
      BY <1>0, <1>2, PlaceFacts DEF CreateAll, swapVars, ghostVars, TypeOK
    <3> QED
      BY <2>0, <1>2, <3>1, <3>2 DEF CreateAll, swapVars, ghostVars
  <2>7. Swap'
    BY <1>0, <1>2, <2>0, PlaceFacts DEF CreateAll, swapVars, ghostVars, Swap, Kept, Aside
  <2> QED
    BY <2>1, <2>2, <2>3, <2>4, <2>5, <2>6, <2>7 DEF IInv
<1>3. CASE Alter
  <2>0. /\ Publications' = Publications /\ The(archive)' = The(archive) /\ Accepts' = Accepts
        /\ Wanted' = Wanted
        /\ \A i : InSafety(i)' <=> InSafety(i)
    BY <1>3, SameArchive DEF Alter, zipVars, Operator, ghostVars, InSafety
  <2>1. TypeOK'
    BY <1>0, <1>3, PlaceFacts DEF Alter, zipVars, buildVars, swapVars, ghostVars, TypeOK
  <2>2. Honest'
    BY <1>0, <1>3 DEF Alter, zipVars, Honest
  <2>3. Schemas'
    <3>1. /\ schema'.version = schema.version /\ schema'.log = schema.log
          /\ schema'.title = (schema.title \/ TitleMissing)
      BY <1>0, <1>3 DEF Alter, TypeOK
    <3>2. schema.log /\ (schema.version \in {0, Current} => schema.title)
      BY <1>0, <1>3 DEF Alter, Schemas
    <3>3. schema'.title
      BY <1>0, <3>1, <3>2 DEF TitleMissing, TypeOK, Current
    <3> QED
      BY <1>3, <3>1, <3>2, <3>3 DEF Alter, Schemas
  <2>4. Stage'
    BY <1>0, <1>3, <2>0, PlaceFacts DEF Alter, zipVars, buildVars, Stage, Restoring
  <2>5. Safe' /\ NothingLost'
    BY <1>0, <1>3, <2>0 DEF Alter, buildVars, swapVars, ghostVars, Safe, NothingLost
  <2>6. Swap'
    BY <1>0, <1>3, <2>0, PlaceFacts DEF Alter, swapVars, ghostVars, Swap, Kept, Aside
  <2> QED
    BY <2>1, <2>2, <2>3, <2>4, <2>5, <2>6 DEF IInv
<1>4. CASE SetVersion
  <2>0. /\ Publications' = Publications /\ The(archive)' = The(archive) /\ Accepts' = Accepts
        /\ Wanted' = Wanted
        /\ \A i : InSafety(i)' <=> InSafety(i)
    BY <1>4, SameArchive DEF SetVersion, zipVars, Operator, InSafety
  <2>1. TypeOK'
    <3>1. schema' \in [version : 0..Current, log : BOOLEAN, title : BOOLEAN]
      BY <1>0, <1>4 DEF SetVersion, TypeOK, Current
    <3> QED
      BY <1>0, <1>4, <3>1 DEF SetVersion, zipVars, buildVars, swapVars, TypeOK
  <2>2. Honest'
    BY <1>0, <1>4 DEF SetVersion, zipVars, Honest
  <2>3. Schemas'
    <3>1. schema'.version = Current /\ schema'.log /\ schema'.title
      BY <1>0, <1>4 DEF SetVersion, TypeOK, Schemas
    <3>2. schema' = [version |-> 3, log |-> TRUE, title |-> TRUE]
      BY <1>0, <1>4, <3>1 DEF SetVersion, TypeOK, Current
    <3> QED
      BY <1>4, <3>1, <3>2, CurrentSchema DEF SetVersion, Schemas
  <2>4. Stage'
    BY <1>0, <1>4, <2>0, PlaceFacts DEF SetVersion, zipVars, buildVars, Stage, Restoring
  <2>5. Safe' /\ NothingLost'
    BY <1>0, <1>4, <2>0 DEF SetVersion, buildVars, swapVars, Safe, NothingLost
  <2>6. Swap'
    BY <1>0, <1>4, <2>0, PlaceFacts DEF SetVersion, swapVars, Swap, Kept, Aside
  <2> QED
    BY <2>1, <2>2, <2>3, <2>4, <2>5, <2>6 DEF IInv
<1> QED
  BY <1>1, <1>2, <1>3, <1>4

LEMMA ScanStep ==
  ASSUME IInv, NEW i \in {Db, Evidence}, ScanWrites(i)
  PROVE  IInv'
<1>0. TypeOK /\ Honest /\ Stage /\ Schemas /\ Safe /\ NothingLost /\ Swap
  BY DEF IInv
<1>1. /\ Publications' = Publications /\ The(archive)' = The(archive) /\ Accepts' = Accepts
      /\ Wanted' = Wanted
  BY <1>0, SameArchive DEF ScanWrites, zipVars, Operator
<1>2. /\ live' = [live EXCEPT ![i] = clock + 1] /\ clock' = clock + 1
      /\ clock + 1 \in Values \ {0}
  BY <1>0, BackupAssumption DEF ScanWrites, TypeOK, Values
<1>3. TypeOK'
  <2>1. quiet' \in BOOLEAN
    BY DEF ScanWrites
  <2> QED
    BY <1>0, <1>2, <2>1 DEF ScanWrites, TypeOK, zipVars, buildVars, swapVars, ghostVars
<1>4. Honest' /\ Stage' /\ Schemas'
  BY <1>0, <1>1 DEF ScanWrites, zipVars, buildVars, Honest, Stage, Restoring, Schemas
<1>5. Safe' /\ NothingLost'
  BY DEF ScanWrites, Safe, NothingLost
<1>6. Swap'
  <2>1. \A j \in Places : (Kept(j) => Kept(j)') /\ (Aside(j)' <=> Aside(j)) /\ (live[j] # 0 => live'[j] # 0)
    BY <1>0, <1>2, PlaceFacts DEF ScanWrites, TypeOK, swapVars, ghostVars, Kept, Aside
  <2>2. replaced \subseteq Places
    BY <1>0 DEF TypeOK
  <2>3. at \in Places => (Aside(at)' <=> Aside(at))
    BY <2>1 DEF ScanWrites
  <2>4. pc = "publish" => at \in Places
    BY <1>0, PlaceFacts DEF Stage
  <2> QED
    BY <1>0, <1>1, <2>1, <2>2, <2>3, <2>4 DEF ScanWrites, swapVars, ghostVars, Swap
<1> QED
  BY <1>3, <1>4, <1>5, <1>6 DEF IInv

LEMMA UndoStep ==
  ASSUME IInv, NEW i \in Places, Undo(i)
  PROVE  IInv'
<1>0. TypeOK /\ Honest /\ Stage /\ Schemas /\ Safe /\ NothingLost /\ Swap
  BY DEF IInv
<1>1. /\ Publications' = Publications /\ The(archive)' = The(archive) /\ Accepts' = Accepts
      /\ Wanted' = Wanted
      /\ \A j : InSafety(j)' <=> InSafety(j)
  BY <1>0, SameArchive DEF Undo, zipVars, ghostVars, Operator, InSafety
<1>2. /\ i \in Publications /\ Aside(i)
      /\ live' = [live EXCEPT ![i] = prior[i]] /\ live'[i] = prior[i]
      /\ \A j \in Places : j # i => live'[j] = live[j]
  BY <1>0 DEF Undo, Swap, TypeOK
<1>3. TypeOK' /\ Schemas'
  <2>1. /\ schema' \in [version : 0..Current, log : BOOLEAN, title : BOOLEAN]
        /\ schema'.version \in {0, Current} => schema'.log /\ schema'.title
    <3>1. schema' \in {schema, [version |-> 3, log |-> TRUE, title |-> TRUE]}
      BY CurrentSchema DEF Undo, SchemaWith
    <3>2. CASE schema' = schema
      BY <1>0, <3>2 DEF TypeOK, Schemas
    <3>3. CASE schema' = [version |-> 3, log |-> TRUE, title |-> TRUE]
      BY <3>3 DEF Current
    <3> QED
      BY <3>1, <3>2, <3>3
  <2>2. TypeOK'
    BY <1>0, <1>2, <2>1 DEF Undo, zipVars, buildVars, ghostVars, TypeOK
  <2>3. Schemas'
    BY <2>1 DEF Undo, Schemas
  <2> QED
    BY <2>2, <2>3
<1>4. Honest' /\ Stage'
  BY <1>0, <1>1 DEF Undo, zipVars, buildVars, Honest, Stage, Restoring
<1>5. Safe'
  BY <1>0, <1>1, <1>2 DEF Undo, ghostVars, Safe
<1>6. NothingLost'
  <2> SUFFICES ASSUME NEW j \in Places, quiet', start'[j] # 0
               PROVE  start'[j] \in {live'[j], prior'[j]} \/ InSafety(j)'
    BY DEF NothingLost
  <2>1. IF j \in Publications THEN InSafety(j) ELSE live[j] = start[j]
    BY <1>0 DEF Undo, Safe
  <2> QED
    BY <1>1, <1>2, <2>1 DEF Undo, ghostVars
<1>7. Swap'
  <2>1. /\ replaced \subseteq Publications
        /\ \A j \in replaced : Aside(j)
        /\ \A j \in Places \ replaced : Kept(j) \/ mishap
    BY <1>0 DEF Undo, Swap
  <2>2. \A j \in replaced' : Aside(j)'
    BY <2>1 DEF Undo, ghostVars, Aside
  <2>3. \A j \in Places \ replaced' : Kept(j)' \/ mishap'
    BY <1>2, <2>1 DEF Undo, ghostVars, Kept, Aside
  <2>4. replaced' \subseteq Publications'
    BY <1>1, <2>1 DEF Undo
  <2> QED
    BY <2>2, <2>3, <2>4 DEF Undo, Swap
<1> QED
  BY <1>3, <1>4, <1>5, <1>6, <1>7 DEF IInv

LEMMA StepIInv == IInv /\ [Next]_vars => IInv'
<1> SUFFICES ASSUME IInv, [Next]_vars PROVE IInv'
  OBVIOUS
<1>1. CASE UNCHANGED vars
  BY <1>1 DEF vars, placeVars, zipVars, buildVars, swapVars, ghostVars, IInv, TypeOK, Honest,
    Stage, Restoring, Operator, Wanted, Included, Publications, Accepts, Schemas, Safe, InSafety,
    NothingLost, Swap, Kept, Aside
<1>2. CASE Next
  BY <1>2, ScanStep, BackupSteps, RestoreSteps, FailureSteps, UndoStep, StartSteps, Zenon DEF Next
<1> QED
  BY <1>1, <1>2

\* The invariant the theorems follow from.
THEOREM BackupInvariant == Spec => []IInv
BY InitIInv, StepIInv, PTL DEF Spec

\* The types of the variables; above all, no installation ever has a database
\* newer than the application, whatever archive is restored (_validate_database).
THEOREM BackupTypes == Spec => []TypeOK
<1>1. IInv => TypeOK
  BY DEF IInv
<1> QED
  BY BackupInvariant, <1>1, PTL

\* However many steps of restore_in_place raise, and wherever the process dies,
\* what was there when the restore began is still somewhere, unless a scan wrote
\* meanwhile; and the application only ever runs on a completely migrated database.
THEOREM DataSurvives == Spec => []DataIsWhole
<1>1. IInv => DataIsWhole
  BY DEF IInv, Schemas, DataIsWhole, MigratedWhole
<1> QED
  BY BackupInvariant, <1>1, PTL
-----------------------------------------------------------------------------
\* What is to be seen where a restore ends without a mishap.
LEMMA SeenBefore ==
  ASSUME replaced = {}, \A i \in Places : Kept(i)
  PROVE  Origin = "before"
<1>1. Missing = {}
  BY DEF Missing, Kept
<1> QED
  BY <1>1 DEF Origin

LEMMA SeenAfter ==
  ASSUME replaced = Publications, replaced \subseteq Places, \A i \in replaced : live[i] # 0,
         \A i \in Places \ replaced : Kept(i)
  PROVE  Origin \in {"before", "after"}
<1>1. Missing = {}
  BY DEF Missing, Kept
<1> QED
  BY <1>1 DEF Origin

\* Steps that are none of a restore's, or that only it sees.
LEMMA Unseen ==
  ASSUME UNCHANGED <<seen, mishap>>, Restoring' <=> Restoring
  PROVE  UNCHANGED <<Restoring \/ mishap, seen>>
OBVIOUS

LEMMA StepIsChange ==
  ASSUME IInv, [Next]_vars
  PROVE  [Change!ChangeNext]_<<Restoring \/ mishap, seen>>
<1> DEFINE Stutter == UNCHANGED <<Restoring \/ mishap, seen>>
<1> DEFINE Goal == [Change!ChangeNext]_<<Restoring \/ mishap, seen>>
<1>1. Stutter => Goal
  OBVIOUS
\* Where a restore ends, with or without a mishap.
<1>2. ASSUME Restoring, ~Restoring', mishap' = mishap, Over, mishap \/ Origin \in {"before", "after"}
      PROVE  Goal
  <2>1. CASE mishap
    BY <1>2, <2>1 DEF Over
  <2>2. CASE ~mishap
    BY <1>2, <2>2 DEF Over, Change!ChangeNext, Change!End
  <2> QED
    BY <2>1, <2>2
<1>3. CASE UNCHANGED vars
  BY <1>3 DEF vars, ghostVars, Restoring
<1>4. CASE \/ \E i \in {Db, Evidence} : ScanWrites(i)
           \/ ScanEnds \/ BeginBackup \/ CopyFile \/ HashFile \/ FinishBackup
           \/ FinishSafety \/ MoveAside \/ NotThere \/ Publish \/ Announce
           \/ MoveRaises \/ PublishRaises \/ (\E i \in Places : Undo(i))
           \/ Open \/ CreateAll \/ Alter \/ SetVersion
  <2>1. UNCHANGED <<seen, mishap>>
    BY <1>4 DEF ScanWrites, ScanEnds, BeginBackup, CopyFile, HashFile, FinishBackup, FinishSafety,
      MoveAside, NotThere, Publish, Announce, MoveRaises, PublishRaises, Undo, Open, CreateAll,
      Alter, SetVersion, ghostVars
  <2>2. Restoring' <=> Restoring
    BY <1>4 DEF ScanWrites, ScanEnds, BeginBackup, CopyFile, HashFile, FinishBackup, FinishSafety,
      MoveAside, NotThere, Publish, Announce, MoveRaises, PublishRaises, Undo, Open, CreateAll,
      Alter, SetVersion, Operator, Restoring
  <2> QED
    BY <2>1, <2>2, Unseen, <1>1
<1>5. CASE BeginRestore
  <2>1. ~Restoring /\ Restoring' /\ mishap' = mishap /\ seen' = seen
    BY <1>5 DEF BeginRestore, Restoring
  <2> QED
    BY <2>1 DEF Change!ChangeNext, Change!Begin
<1>6. CASE Validate
  <2>1. CASE Accepts
    BY <1>6, <2>1 DEF Validate, Restoring
  <2>2. CASE ~Accepts
    <3>1. Origin = "before"
      BY <1>6, SeenBefore DEF IInv, Swap, Validate
    <3> QED
      BY <1>2, <1>6, <2>2, <3>1 DEF Validate, Restoring
  <2> QED
    BY <2>1, <2>2
<1>7. CASE BackupRaises
  <2>1. CASE Operator
    BY <1>7, <2>1 DEF BackupRaises, Operator, Restoring
  <2>2. CASE ~Operator
    <3>1. Origin = "before"
      BY <1>7, <2>2, SeenBefore DEF IInv, Swap, BackupRaises, Operator
    <3> QED
      BY <1>2, <1>7, <2>2, <3>1 DEF BackupRaises, Operator, Restoring
  <2> QED
    BY <2>1, <2>2
<1>8. CASE Published
  <2>1. /\ replaced = {j \in Publications : j < at}
        /\ \A i \in replaced : live[i] # 0
        /\ \A i \in Places \ replaced : Kept(i)
    BY <1>8 DEF IInv, Swap, Published
  <2>2. replaced = Publications
    <3>1. at \in 1..(Sources + 3) /\ at \notin Places
      BY <1>8 DEF IInv, Stage, Published
    <3>2. \A j \in Publications : j < at
      BY <3>1, PlaceFacts
    <3> QED
      BY <2>1, <3>2
  <2>3. Origin \in {"before", "after"}
    BY <2>1, <2>2, SeenAfter, PlaceFacts
  <2> QED
    BY <1>2, <1>8, <2>3 DEF Published, Restoring
<1>9. CASE Undone
  <2>1. mishap \/ Origin = "before"
    BY <1>9, SeenBefore DEF IInv, Swap, Undone
  <2> QED
    BY <1>2, <1>9, <2>1 DEF Undone, Restoring
<1>10. CASE PutBackRaises \/ UndoRaises \/ Crash
  <2>1. seen' = seen /\ (Restoring => mishap')
    BY <1>10 DEF PutBackRaises, UndoRaises, Crash
  <2>2. ~Restoring => ~Restoring' /\ mishap' = mishap
    <3>1. CASE PutBackRaises \/ UndoRaises
      BY <3>1 DEF PutBackRaises, UndoRaises, Restoring
    <3>2. CASE Crash
      BY <3>2 DEF IInv, TypeOK, Crash, Restoring
    <3> QED
      BY <1>10, <3>1, <3>2
  <2>3. (Restoring' \/ mishap') = (Restoring \/ mishap)
    BY <1>10, <2>1, <2>2 DEF PutBackRaises, UndoRaises, Crash
  <2> QED
    BY <2>1, <2>3, <1>1
<1> HIDE DEF Goal
<1> QED
  BY <1>3, <1>4, <1>5, <1>6, <1>7, <1>8, <1>9, <1>10, Zenon DEF Next, Goal

\* restore_in_place implements AtomicChange: it ends with the archive's data in
\* every place that the archive has data for, or with the data as it was in all,
\* whatever raises and whatever a scan writes meanwhile; short of a death of the
\* process and of an exception in the rollback itself.
THEOREM RestoreAtomic == Spec => RestoreIsAtomic
<1>1. Init => Change!ChangeInit
  BY DEF Init, Restoring, Change!ChangeInit
<1> QED
  BY <1>1, BackupInvariant, StepIsChange, PTL DEF Spec, RestoreIsAtomic, Change!ChangeSpec
================================================================================
