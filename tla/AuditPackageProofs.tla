-------------------------- MODULE AuditPackageProofs --------------------------
(***************************************************************************)
(* Proofs about AuditPackage for every set of devices and commands, every  *)
(* bundle, and any number of steps that raise.                             *)
(***************************************************************************)
EXTENDS AuditPackage, FiniteSetTheorems, FunctionTheorems, TLAPS

\* SQLite's ids, in the original database and in the importing one: the rows of
\* the run have the first ids after row 1, one each, and an entry has one row.
Dense ==
  /\ IsFiniteSet(rows)
  /\ {r.id : r \in rows} = 2..(Cardinality(rows) + 1)
  /\ \A r, s \in rows : r.id = s.id => r = s
  /\ \A r, s \in rows : r.of = s.of => r = s

\* What was copied into an archive was in the bundle.
Packed == \A p \in package : p.raw \subseteq sealed.entries /\ p.spoiled \subseteq p.raw

\* An import starts without a record, and works on a directory that is there and
\* was verified.
Stage ==
  /\ ~run => rows = {}
  /\ pc \in {"verify", "createRun", "cleanFiles"} => ~run
  /\ pc \in {"device", "artifact", "link", "log"} => run
  /\ pc \in Rebuilding => bundle
  /\ pc \in Rebuilding \ {"verify"} => Verifies
  /\ pc = "deleteRecord" => ~bundle
  /\ pc \in {"idle", "deleteRecord", "cleanRecord", "cleanFiles"} \cup Rebuilding

\* A device whose part of the import is over is as it was sent.
Imported(d) ==
  /\ device[d] # "absent"
  /\ {r.of : r \in RowsOf(d)} = EntriesOf(d)
  /\ d \in sealed.results => found[d] # "none" /\ links[d] = {r.id : r \in RowsOf(d)}

\* The loop over the devices: which are done, how far the present one is, and
\* that those still left have nothing.
Loop ==
  /\ pc \in {"device", "artifact", "link", "log"} => \A d \in left : RowsOf(d) = {}
  /\ pc \in {"device", "artifact", "link", "log"} => \A d \in Devices \ (left \cup at) : Imported(d)
  /\ pc = "device" => \A d \in at \ left : Imported(d)
  /\ pc = "log" => left = {} /\ \A d \in at : Imported(d)
  /\ pc \in {"artifact", "link"} => \E d \in Devices :
       /\ at = {d} /\ d \notin left
       /\ device[d] # "absent"
       /\ todo \subseteq EntriesOf(d)
       /\ {r.of : r \in RowsOf(d)} = EntriesOf(d) \ todo
       /\ newId = {<<sealed.id[r.of], r.id>> : r \in RowsOf(d)}
       /\ pc = "link" => todo = {} /\ d \in sealed.results /\ found[d] # "none"

IInv == TypeOK /\ sealed \in Bundles /\ Dense /\ Packed /\ Stage /\ Loop /\ FoundAsSent
-----------------------------------------------------------------------------
Looping == {"device", "artifact", "link", "log"}

LEMMA InLooping == \A s : s \in {"device", "artifact", "link", "log"} <=> s \in Looping
  BY DEF Looping

\* A step that leaves the records alone and is not one of the loop.
LEMMA Quiet ==
  ASSUME IInv, UNCHANGED <<sealed, recordVars>>, pc' \notin Looping,
         TypeOK', Packed', Stage'
  PROVE  IInv'
<1>1. UNCHANGED <<sealed, run, device, rows, found, links>>
  BY DEF recordVars
<1>2. Dense'
  BY <1>1 DEF IInv, Dense
<1>3. FoundAsSent'
  BY <1>1 DEF IInv, FoundAsSent, LinksStayHome, StatusKept, RowsOf
<1>4. Loop'
  BY DEF Loop, Looping
<1>5. (sealed \in Bundles)'
  BY <1>1 DEF IInv, Bundles
<1> QED
  BY <1>2, <1>3, <1>4, <1>5 DEF IInv

LEMMA QuietSteps ==
  ASSUME IInv,
         \/ Purge \/ Export \/ Damage \/ DeleteFiles \/ Install
         \/ VerifyEvidence \/ Finish \/ CleanBundle
         \/ ImportRaises \/ CleanupRaises \/ Crash
         \/ \E e \in Entries : Spoil(e)
  PROVE  IInv'
<1>0. TypeOK /\ Packed /\ Stage /\ MaxFaults \in Nat
  BY PackageAssumption DEF IInv
<1>1. CASE Purge
  <2>1. TypeOK' /\ Packed' /\ Stage'
    BY <1>0, <1>1 DEF Purge, Idle, TypeOK, Packed, Stage, Verifies, Rebuilding, recordVars, packVars, loopVars
  <2> QED BY <1>1, <2>1, Quiet DEF Purge, Idle, Looping
<1>2. CASE Export
  <2>1. TypeOK' /\ Packed' /\ Stage'
    <3>1. TypeOK'
      BY <1>0, <1>2 DEF Export, TypeOK, recordVars, fileVars, loopVars
    <3>2. raw \subseteq sealed.entries /\ spoiled \subseteq raw
      BY <1>0 DEF TypeOK
    <3>3. \A p \in package' : p.raw = raw /\ p.spoiled = spoiled
      BY <1>2 DEF Export
    <3>4. Packed'
      BY <1>2, <3>2, <3>3 DEF Export, Packed
    <3>5. Stage'
      BY <1>0, <1>2 DEF Export, Idle, Stage, Verifies, Rebuilding, recordVars, fileVars
    <3> QED BY <3>1, <3>4, <3>5
  <2> QED BY <1>2, <2>1, Quiet DEF Export, Idle, Looping
<1>3. CASE Damage
  <2>1. TypeOK' /\ Packed' /\ Stage'
    BY <1>0, <1>3 DEF Damage, Idle, TypeOK, Packed, Stage, Verifies, Rebuilding, recordVars, fileVars, loopVars
  <2> QED BY <1>3, <2>1, Quiet DEF Damage, Idle, Looping
<1>4. CASE DeleteFiles
  <2>1. TypeOK' /\ Packed' /\ Stage'
    <3>1. Seen \in {"before", "after", "mixed"}
      BY DEF Seen
    <3>2. TypeOK'
      BY <1>0, <1>4, <3>1 DEF DeleteFiles, TypeOK, recordVars, packVars, loopVars
    <3>3. Packed' /\ Stage'
      BY <1>0, <1>4 DEF DeleteFiles, Packed, Stage, Verifies, Rebuilding, recordVars, packVars
    <3> QED BY <3>2, <3>3
  <2> QED BY <1>4, <2>1, Quiet DEF DeleteFiles, Looping
<1>5. CASE Install
  <2>1. Copied \in package
    BY <1>5 DEF Install, Copied
  <2>2. TypeOK' /\ Packed' /\ Stage'
    BY <1>0, <1>5, <2>1 DEF Install, Idle, Refused, Seen, TypeOK, Packed, Stage, Verifies, Rebuilding, recordVars, packVars, loopVars
  <2> QED BY <1>5, <2>2, Quiet DEF Install, Looping
<1>6. CASE VerifyEvidence
  <2>1. TypeOK' /\ Packed' /\ Stage'
    BY <1>0, <1>6 DEF VerifyEvidence, TypeOK, Packed, Stage, Verifies, Rebuilding, recordVars, fileVars, packVars, loopVars
  <2> QED BY <1>6, <2>1, Quiet DEF VerifyEvidence, Looping
<1>7. CASE Finish
  <2>1. TypeOK' /\ Packed' /\ Stage'
    BY <1>0, <1>7 DEF Finish, TypeOK, Packed, Stage, Verifies, Rebuilding, recordVars, fileVars, packVars, loopVars
  <2> QED BY <1>7, <2>1, Quiet DEF Finish, Looping
<1>8. CASE CleanBundle
  <2>1. TypeOK' /\ Packed' /\ Stage'
    BY <1>0, <1>8 DEF CleanBundle, CleanFiles, TypeOK, Packed, Stage, Verifies, Rebuilding, recordVars, packVars, loopVars
  <2> QED BY <1>8, <2>1, Quiet DEF CleanBundle, Looping
<1>9. CASE ImportRaises
  <2>1. TypeOK' /\ Packed' /\ Stage'
    BY <1>0, <1>9 DEF ImportRaises, MayFail, TypeOK, Packed, Stage, Verifies, Rebuilding, recordVars, fileVars, packVars, loopVars
  <2> QED BY <1>9, <2>1, Quiet DEF ImportRaises, Looping
<1>10. CASE CleanupRaises
  <2>1. TypeOK' /\ Packed' /\ Stage'
    BY <1>0, <1>10 DEF CleanupRaises, MayFail, TypeOK, Packed, Stage, Verifies, Rebuilding, recordVars, fileVars, packVars, loopVars
  <2> QED BY <1>10, <2>1, Quiet DEF CleanupRaises, Looping
<1>11. CASE Crash
  <2>1. TypeOK' /\ Packed' /\ Stage'
    BY <1>0, <1>11 DEF Crash, Idle, MayFail, TypeOK, Packed, Stage, Verifies, Rebuilding, recordVars, fileVars, packVars, loopVars
  <2> QED BY <1>11, <2>1, Quiet DEF Crash, Looping
<1>12. ASSUME NEW e \in Entries, Spoil(e) PROVE IInv'
  <2>1. TypeOK' /\ Packed' /\ Stage'
    BY <1>0, <1>12 DEF Spoil, Idle, TypeOK, Packed, Stage, Verifies, Rebuilding, recordVars, packVars, loopVars
  <2> QED BY <1>12, <2>1, Quiet DEF Spoil, Idle, Looping
<1> QED
  BY <1>1, <1>2, <1>3, <1>4, <1>5, <1>6, <1>7, <1>8, <1>9, <1>10, <1>11, <1>12

LEMMA ReviewKeeps ==
  ASSUME IInv, NEW d \in Devices, Review(d)
  PROVE  IInv'
<1>1. found' = [found EXCEPT ![d] = "reviewer"] /\ pc' = "idle" /\ pc = "idle"
      /\ UNCHANGED <<sealed, run, device, rows, links, fileVars, packVars, loopVars, was, mishap, faults>>
  BY DEF Review, Idle
<1>2. TypeOK'
  BY <1>1 DEF IInv, TypeOK, fileVars, packVars, loopVars
<1>3. Packed' /\ Stage' /\ (sealed \in Bundles)'
  BY <1>1 DEF IInv, Packed, Stage, Verifies, Rebuilding, Bundles, fileVars, packVars
<1>4. Dense' /\ FoundAsSent'
  BY <1>1 DEF IInv, Dense, FoundAsSent, LinksStayHome, StatusKept, RowsOf
<1>5. Loop'
  BY <1>1 DEF Loop
<1> QED
  BY <1>2, <1>3, <1>4, <1>5 DEF IInv

LEMMA RecordGoneKeeps ==
  ASSUME IInv, CleanRecord \/ DeleteRecord
  PROVE  IInv'
<1>1. /\ run' = FALSE /\ device' = [d \in Devices |-> "absent"] /\ rows' = {}
      /\ found' = [d \in Devices |-> "none"] /\ links' = [d \in Devices |-> {}]
      /\ pc' \in {"idle", "cleanFiles"}
      /\ UNCHANGED <<sealed, fileVars, packVars, loopVars, was, mishap, faults>>
  BY DEF CleanRecord, DeleteRecord, RecordGone
<1>2. TypeOK'
  BY <1>1 DEF IInv, TypeOK, fileVars, packVars, loopVars
<1>3. Packed' /\ Stage' /\ (sealed \in Bundles)'
  BY <1>1 DEF IInv, Packed, Stage, Verifies, Rebuilding, Bundles, fileVars, packVars
<1>4. Dense'
  <2>1. IsFiniteSet({}) /\ Cardinality({}) = 0
    BY FS_EmptySet
  <2>2. 2..1 = {}
    OBVIOUS
  <2> QED BY <1>1, <2>1, <2>2 DEF Dense
<1>5. FoundAsSent'
  BY <1>1 DEF FoundAsSent, LinksStayHome, StatusKept
<1>6. Loop'
  BY <1>1 DEF Loop
<1> QED
  BY <1>2, <1>3, <1>4, <1>5, <1>6 DEF IInv
-----------------------------------------------------------------------------
(***************************************************************************)
(* The loop of the import.                                                 *)
(***************************************************************************)
LEMMA CreateRunKeeps == IInv /\ CreateRun => IInv'
<1> SUFFICES ASSUME IInv, CreateRun PROVE IInv'
  OBVIOUS
<1>1. /\ pc = "createRun" /\ run' = TRUE /\ left' = Devices /\ pc' = "device"
      /\ UNCHANGED <<sealed, device, rows, found, links, fileVars, packVars, at, todo, newId, was,
                     mishap, faults>>
  BY DEF CreateRun
<1>2. rows = {}
  BY <1>1 DEF IInv, Stage
<1>3. TypeOK'
  BY <1>1 DEF IInv, TypeOK, fileVars, packVars
<1>4. Packed' /\ Stage' /\ (sealed \in Bundles)'
  BY <1>1 DEF IInv, Packed, Stage, Verifies, Rebuilding, Bundles, fileVars, packVars
<1>5. Dense' /\ FoundAsSent'
  BY <1>1 DEF IInv, Dense, FoundAsSent, LinksStayHome, StatusKept, RowsOf
<1>6. Loop'
  <2>1. at \subseteq Devices
    BY DEF IInv, TypeOK
  <2>2. \A d \in Devices : RowsOf(d)' = {}
    BY <1>1, <1>2 DEF RowsOf
  <2> QED BY <1>1, <2>1, <2>2 DEF Loop
<1> QED
  BY <1>3, <1>4, <1>5, <1>6 DEF IInv

LEMMA AddDeviceKeeps ==
  ASSUME IInv, NEW d \in Devices, AddDevice(d)
  PROVE  IInv'
<1>1. /\ pc = "device" /\ d \in left /\ pc' = "artifact"
      /\ device' = [device EXCEPT ![d] = ImportedStatus(d)]
      /\ left' = left \ {d} /\ at' = {d} /\ todo' = EntriesOf(d) /\ newId' = {}
      /\ UNCHANGED <<sealed, run, rows, found, links, fileVars, packVars, was, mishap, faults>>
  BY DEF AddDevice
<1>2. /\ device \in [Devices -> {"absent", "COMPLETE"} \cup Failed]
      /\ sealed.status \in [Devices -> {"COMPLETE"} \cup Failed]
  BY DEF IInv, TypeOK
<1>3. ImportedStatus(d) \in {"COMPLETE"} \cup Failed /\ ImportedStatus(d) # "absent"
      /\ (sealed.closed = "completed" => ImportedStatus(d) = sealed.status[d])
  BY <1>2 DEF ImportedStatus, Failed
<1>4. TypeOK'
  <2>1. EntriesOf(d) \subseteq sealed.entries
    BY DEF EntriesOf
  <2>2. device' \in [Devices -> {"absent", "COMPLETE"} \cup Failed]
    BY <1>1, <1>2, <1>3
  <2> QED BY <1>1, <2>1, <2>2 DEF IInv, TypeOK, fileVars, packVars
<1>5. Packed' /\ Stage' /\ (sealed \in Bundles)'
  BY <1>1 DEF IInv, Packed, Stage, Verifies, Rebuilding, Bundles, fileVars, packVars
<1>6. Dense' /\ FoundAsSent'
  BY <1>1, <1>2, <1>3 DEF IInv, Dense, FoundAsSent, LinksStayHome, StatusKept, RowsOf
<1>7. Loop'
  <2>1. \A c \in Devices : RowsOf(c)' = RowsOf(c) /\ EntriesOf(c)' = EntriesOf(c)
    BY <1>1 DEF RowsOf, EntriesOf
  <2>2. \A c \in Devices : c # d /\ Imported(c) => Imported(c)'
    BY <1>1, <1>2, <2>1 DEF Imported
  <2>3. \A c \in Devices \ left : Imported(c)
    BY <1>1 DEF IInv, Loop, TypeOK
  <2>4. RowsOf(d) = {} /\ left \subseteq Devices
    BY <1>1 DEF IInv, Loop, TypeOK
  <2>5. EntriesOf(d) \ EntriesOf(d) = {} /\ device'[d] # "absent"
    BY <1>1, <1>2, <1>3
  <2>6. /\ at' = {d} /\ d \notin left' /\ device'[d] # "absent"
        /\ todo' \subseteq EntriesOf(d)'
        /\ {r.of : r \in RowsOf(d)'} = EntriesOf(d)' \ todo'
        /\ newId' = {<<sealed'.id[r.of], r.id>> : r \in RowsOf(d)'}
    BY <1>1, <2>1, <2>4, <2>5
  <2>7. \A c \in left' : RowsOf(c)' = {}
    BY <1>1, <2>1, <2>4 DEF IInv, Loop
  <2>8. \A c \in Devices \ (left' \cup at') : Imported(c)'
    BY <1>1, <2>2, <2>3
  <2> HIDE DEF Imported
  <2> QED BY <1>1, <2>6, <2>7, <2>8 DEF Loop
<1> QED
  BY <1>4, <1>5, <1>6, <1>7 DEF IInv

\* A row that is not there yet gets the next id, and there is one for it.
LEMMA NextId ==
  ASSUME IInv, NEW e \in sealed.entries, \A r \in rows : r.of # e
  PROVE  LET row == [id |-> FreshId, of |-> e] IN
         /\ FreshId \in Ids
         /\ \A r \in rows : r.id # FreshId
         /\ IsFiniteSet(rows \cup {row})
         /\ Cardinality(rows) \in Nat
         /\ Cardinality(rows \cup {row}) = Cardinality(rows) + 1
<1> DEFINE row == [id |-> FreshId, of |-> e]
           Rest == Entries \ {e}
           f == [r \in rows |-> r.of]
<1>1. /\ IsFiniteSet(rows) /\ Cardinality(rows) \in Nat
      /\ {r.id : r \in rows} = 2..(Cardinality(rows) + 1)
      /\ \A r, s \in rows : r.of = s.of => r = s
  BY FS_CardinalityType DEF IInv, Dense
<1>2. sealed.entries \subseteq Entries /\ \A r \in rows : r.of \in sealed.entries
  BY DEF IInv, TypeOK
<1>3. IsFiniteSet(Entries) /\ Cardinality(Entries) \in Nat
  <2>1. IsFiniteSet(Devices \X Commands)
    BY PackageAssumption, FS_Product
  <2> QED BY <2>1, FS_CardinalityType DEF Entries
<1>4. IsFiniteSet(Rest) /\ Cardinality(Rest) = Cardinality(Entries) - 1
  BY <1>2, <1>3, FS_RemoveElement
<1>5. Cardinality(rows) <= Cardinality(Rest)
  <2>1. f \in [rows -> Rest]
    BY <1>2
  <2>2. \A r, s \in rows : f[r] = f[s] => r = s
    BY <1>1
  <2> HIDE DEF f, Rest
  <2>3. f \in Injection(rows, Rest)
    BY <2>1, <2>2, Fun_IsInj
  <2> QED BY <1>4, <2>3, FS_Injection
<1>6. FreshId = Cardinality(rows) + 2
  BY <1>1 DEF FreshId
<1>7. FreshId \in Ids
  <2> HIDE DEF Rest
  <2> QED BY <1>1, <1>3, <1>4, <1>5, <1>6 DEF Ids
<1>8. \A r \in rows : r.id # FreshId
  <2> SUFFICES ASSUME NEW r \in rows PROVE r.id # FreshId
    OBVIOUS
  <2>1. r.id \in 2..(Cardinality(rows) + 1)
    BY <1>1
  <2> QED BY <1>1, <1>6, <2>1
<1>9. row \notin rows
  OBVIOUS
<1>10. IsFiniteSet(rows \cup {row}) /\ Cardinality(rows \cup {row}) = Cardinality(rows) + 1
  BY <1>1, <1>9, FS_AddElement
<1> QED
  BY <1>1, <1>7, <1>8, <1>10

LEMMA AddArtifactKeeps ==
  ASSUME IInv, NEW e \in Entries, AddArtifact(e)
  PROVE  IInv'
<1> DEFINE row == [id |-> FreshId, of |-> e]
<1>1. /\ pc = "artifact" /\ pc' = "artifact" /\ e \in todo
      /\ rows' = rows \cup {row}
      /\ newId' = newId \cup {<<sealed.id[e], FreshId>>}
      /\ todo' = todo \ {e}
      /\ UNCHANGED <<sealed, run, device, found, links, fileVars, packVars, left, at, was, mishap, faults>>
  BY DEF AddArtifact
<1>2. PICK d \in Devices :
        /\ at = {d} /\ d \notin left /\ device[d] # "absent"
        /\ todo \subseteq EntriesOf(d)
        /\ {r.of : r \in RowsOf(d)} = EntriesOf(d) \ todo
        /\ newId = {<<sealed.id[r.of], r.id>> : r \in RowsOf(d)}
  BY <1>1 DEF IInv, Loop
<1>3. e \in sealed.entries /\ e[1] = d
  BY <1>1, <1>2 DEF EntriesOf
<1>4. \A r \in rows : r.of # e
  <2> SUFFICES ASSUME NEW r \in rows, r.of = e PROVE FALSE
    OBVIOUS
  <2>1. r \in RowsOf(d)
    BY <1>3 DEF RowsOf
  <2> QED BY <1>1, <1>2, <2>1
<1>5. /\ FreshId \in Ids /\ \A r \in rows : r.id # FreshId
      /\ IsFiniteSet(rows \cup {row})
      /\ Cardinality(rows) \in Nat /\ Cardinality(rows \cup {row}) = Cardinality(rows) + 1
  BY <1>3, <1>4, NextId
<1>6. row.id = FreshId /\ row.of = e
  OBVIOUS
<1>7. FreshId = Cardinality(rows) + 2
  BY <1>5 DEF FreshId
<1>8. row \in [id : Ids, of : sealed.entries]
  BY <1>3, <1>5
<1> HIDE DEF row
<1>9. \A r, s \in rows' : (r.id = s.id => r = s) /\ (r.of = s.of => r = s)
  BY <1>1, <1>4, <1>5, <1>6 DEF IInv, Dense
<1>10. TypeOK'
  <2>1. rows' \subseteq [id : Ids, of : sealed.entries]
    BY <1>1, <1>8 DEF IInv, TypeOK
  <2> QED BY <1>1, <1>9, <2>1 DEF IInv, TypeOK, fileVars, packVars
<1>11. Packed' /\ Stage' /\ (sealed \in Bundles)'
  BY <1>1 DEF IInv, Packed, Stage, Verifies, Rebuilding, Bundles, fileVars, packVars
<1>12. Dense'
  <2>1. {r.id : r \in rows'} = {r.id : r \in rows} \cup {FreshId}
    BY <1>1, <1>6
  <2>2. {r.id : r \in rows} = 2..(Cardinality(rows) + 1)
    BY DEF IInv, Dense
  <2>3. \A n \in Nat : 2..(n + 1) \cup {n + 2} = 2..((n + 1) + 1)
    OBVIOUS
  <2>4. {r.id : r \in rows'} = 2..((Cardinality(rows) + 1) + 1)
    BY <1>5, <1>7, <2>1, <2>2, <2>3
  <2>5. IsFiniteSet(rows') /\ Cardinality(rows') = Cardinality(rows) + 1
    BY <1>1, <1>5
  <2> QED BY <1>9, <2>4, <2>5 DEF Dense
<1>13. /\ \A c \in Devices : c # d => RowsOf(c)' = RowsOf(c)
       /\ RowsOf(d)' = RowsOf(d) \cup {row}
  BY <1>1, <1>3, <1>6 DEF RowsOf
<1>14. FoundAsSent'
  <2>1. \A c \in Devices : RowsOf(c) \subseteq RowsOf(c)'
    BY <1>1 DEF RowsOf
  <2>2. LinksStayHome'
    BY <1>1, <2>1 DEF IInv, FoundAsSent, LinksStayHome
  <2>3. StatusKept'
    BY <1>1 DEF IInv, FoundAsSent, StatusKept
  <2> QED BY <2>2, <2>3 DEF FoundAsSent
<1>15. Loop'
  <2>1. \A c \in Devices : EntriesOf(c)' = EntriesOf(c)
    BY <1>1 DEF EntriesOf
  <2>2. \A c \in Devices \ (left \cup at) : Imported(c)'
    <3> SUFFICES ASSUME NEW c \in Devices \ (left \cup at) PROVE Imported(c)'
      OBVIOUS
    <3>1. c # d
      BY <1>2
    <3>2. Imported(c)
      BY <1>1 DEF IInv, Loop
    <3> QED BY <1>1, <1>13, <2>1, <3>1, <3>2 DEF Imported
  <2>3. \A c \in left' : RowsOf(c)' = {}
    BY <1>1, <1>2, <1>13 DEF IInv, Loop, TypeOK
  <2>4. {r.of : r \in RowsOf(d)'} = EntriesOf(d)' \ todo'
    <3>1. {r.of : r \in RowsOf(d)'} = {r.of : r \in RowsOf(d)} \cup {e}
      BY <1>6, <1>13
    <3>2. {r.of : r \in RowsOf(d)} \cup {e} = EntriesOf(d) \ (todo \ {e})
      BY <1>1, <1>2
    <3> QED BY <1>1, <2>1, <3>1, <3>2
  <2>5. newId' = {<<sealed'.id[r.of], r.id>> : r \in RowsOf(d)'}
    BY <1>1, <1>2, <1>6, <1>13
  <2>6. todo' \subseteq EntriesOf(d)' /\ device'[d] # "absent" /\ at' = {d} /\ d \notin left'
    BY <1>1, <1>2, <2>1
  <2>7. \A c \in Devices \ (left' \cup at') : Imported(c)'
    BY <1>1, <2>2
  <2> HIDE DEF Imported
  <2> QED BY <1>1, <2>3, <2>4, <2>5, <2>6, <2>7 DEF Loop
<1> QED
  BY <1>10, <1>11, <1>12, <1>14, <1>15 DEF IInv

LEMMA AddResultKeeps ==
  ASSUME IInv, NEW d \in Devices, AddResult(d)
  PROVE  IInv'
<1>1. /\ pc = "artifact" /\ pc' = "link" /\ todo = {} /\ at = {d} /\ d \in sealed.results
      /\ found' = [found EXCEPT ![d] = "engine"]
      /\ UNCHANGED <<sealed, run, device, rows, links, fileVars, packVars, loopVars, was, mishap, faults>>
  BY DEF AddResult
<1>2. found \in [Devices -> {"none", "engine", "reviewer"}]
  BY DEF IInv, TypeOK
<1>3. TypeOK'
  BY <1>1, <1>2 DEF IInv, TypeOK, fileVars, packVars, loopVars
<1>4. Packed' /\ Stage' /\ (sealed \in Bundles)'
  BY <1>1 DEF IInv, Packed, Stage, Verifies, Rebuilding, Bundles, fileVars, packVars
<1>5. Dense' /\ FoundAsSent'
  BY <1>1 DEF IInv, Dense, FoundAsSent, LinksStayHome, StatusKept, RowsOf
<1>6. Loop'
  <2>1. UNCHANGED <<left, at, todo, newId>>
    BY <1>1 DEF loopVars
  <2>2. \A c \in Devices : RowsOf(c)' = RowsOf(c) /\ EntriesOf(c)' = EntriesOf(c)
    BY <1>1 DEF RowsOf, EntriesOf
  <2>3. \A c \in Devices \ (left \cup at) : Imported(c)'
    BY <1>1, <1>2, <2>2 DEF IInv, Loop, Imported
  <2>4. \A c \in left : RowsOf(c)' = {}
    BY <1>1, <2>2 DEF IInv, Loop, TypeOK
  <2>5. /\ at = {d} /\ d \notin left /\ device[d] # "absent"
        /\ {r.of : r \in RowsOf(d)} = EntriesOf(d) \ todo
        /\ newId = {<<sealed.id[r.of], r.id>> : r \in RowsOf(d)}
    BY <1>1 DEF IInv, Loop
  <2>6. /\ at' = {d} /\ d \notin left' /\ device'[d] # "absent"
        /\ todo' \subseteq EntriesOf(d)'
        /\ {r.of : r \in RowsOf(d)'} = EntriesOf(d)' \ todo'
        /\ newId' = {<<sealed'.id[r.of], r.id>> : r \in RowsOf(d)'}
        /\ todo' = {} /\ d \in sealed'.results /\ found'[d] # "none"
    BY <1>1, <1>2, <2>1, <2>2, <2>5
  <2> HIDE DEF Imported
  <2> QED BY <1>1, <2>1, <2>3, <2>4, <2>6 DEF Loop
<1> QED
  BY <1>3, <1>4, <1>5, <1>6 DEF IInv

\* The loop goes on to another device, or ends, with all done so far as sent.
LEMMA GoesOn ==
  ASSUME IInv, NEW d \in Devices, at = {d}, pc \in {"artifact", "link"},
         UNCHANGED <<left, at>>, pc' = NextDevice,
         Imported(d)', \A c \in Devices \ {d} : Imported(c) => Imported(c)',
         \A c \in Devices : RowsOf(c)' = RowsOf(c)
  PROVE  Loop'
<1>1. left \subseteq Devices
  BY DEF IInv, TypeOK
<1>2. \A c \in Devices \ left : Imported(c)'
  BY DEF IInv, Loop
<1>3. \A c \in left' : RowsOf(c)' = {}
  BY <1>1 DEF IInv, Loop
<1>4. pc' = "device" \/ (pc' = "log" /\ left' = {})
  BY DEF NextDevice
<1> HIDE DEF Imported
<1> QED
  BY <1>1, <1>2, <1>3, <1>4 DEF Loop

LEMMA LinkResultKeeps ==
  ASSUME IInv, NEW d \in Devices, LinkResult(d)
  PROVE  IInv'
<1>1. /\ pc = "link" /\ at = {d} /\ pc' = NextDevice
      /\ links' = [links EXCEPT ![d] = Linked(d)]
      /\ UNCHANGED <<sealed, run, device, rows, found, fileVars, packVars, loopVars, was, mishap, faults>>
  BY DEF LinkResult
<1>2. /\ device[d] # "absent" /\ todo = {} /\ d \in sealed.results /\ found[d] # "none"
      /\ {r.of : r \in RowsOf(d)} = EntriesOf(d) \ todo
      /\ newId = {<<sealed.id[r.of], r.id>> : r \in RowsOf(d)}
  BY <1>1 DEF IInv, Loop
<1>3. Linked(d) = {r.id : r \in RowsOf(d)}
  <2>1. \A r \in RowsOf(d) : r.of \in EntriesOf(d)
    BY <1>2
  <2>2. \A n \in newId : n[1] \in {sealed.id[e] : e \in EntriesOf(d)}
    BY <1>2, <2>1
  <2>3. Linked(d) = {m[2] : m \in newId}
    BY <2>2 DEF Mapped, Linked
  <2>4. ASSUME NEW m \in newId PROVE m[2] \in {r.id : r \in RowsOf(d)}
    <3>1. PICK r \in RowsOf(d) : m = <<sealed.id[r.of], r.id>>
      BY <1>2
    <3> QED BY <3>1
  <2>5. ASSUME NEW r \in RowsOf(d) PROVE r.id \in {m[2] : m \in newId}
    <3>1. <<sealed.id[r.of], r.id>> \in newId
      BY <1>2
    <3>2. <<sealed.id[r.of], r.id>>[2] = r.id
      OBVIOUS
    <3> QED BY <3>1, <3>2
  <2> QED BY <2>3, <2>4, <2>5
<1>4. links \in [Devices -> SUBSET Ids] /\ rows \subseteq [id : Ids, of : sealed.entries]
  BY DEF IInv, TypeOK
<1>5. Linked(d) \subseteq Ids
  BY <1>3, <1>4 DEF RowsOf
<1>6. TypeOK'
  <2>1. links' \in [Devices -> SUBSET Ids]
    BY <1>1, <1>4, <1>5
  <2> QED BY <1>1, <2>1 DEF IInv, TypeOK, fileVars, packVars, loopVars
<1>7. pc' \in {"log", "device"}
  BY <1>1 DEF NextDevice
<1>8. Packed' /\ Stage' /\ (sealed \in Bundles)'
  BY <1>1, <1>7 DEF IInv, Packed, Stage, Verifies, Rebuilding, Bundles, fileVars, packVars
<1>9. \A c \in Devices : RowsOf(c)' = RowsOf(c) /\ EntriesOf(c)' = EntriesOf(c)
  BY <1>1 DEF RowsOf, EntriesOf
<1>10. Dense' /\ FoundAsSent'
  <2>1. Dense' /\ StatusKept'
    BY <1>1 DEF IInv, Dense, FoundAsSent, StatusKept
  <2>2. LinksStayHome'
    <3> SUFFICES ASSUME NEW c \in Devices, NEW i \in links'[c]
                 PROVE  \E r \in RowsOf(c) : r.id = i
      BY <1>9 DEF LinksStayHome
    <3>1. CASE c = d
      BY <1>1, <1>3, <1>4, <3>1
    <3>2. CASE c # d
      BY <1>1, <1>4, <3>2 DEF IInv, FoundAsSent, LinksStayHome
    <3> QED BY <3>1, <3>2
  <2> QED BY <2>1, <2>2 DEF FoundAsSent
<1>11. Loop'
  <2>1. UNCHANGED <<left, at>>
    BY <1>1 DEF loopVars
  <2>2. Imported(d)'
    BY <1>1, <1>2, <1>3, <1>4, <1>9 DEF Imported
  <2>3. \A c \in Devices \ {d} : Imported(c) => Imported(c)'
    BY <1>1, <1>4, <1>9 DEF Imported
  <2> QED BY <1>1, <1>9, <2>1, <2>2, <2>3, GoesOn
<1> QED
  BY <1>6, <1>8, <1>10, <1>11 DEF IInv

LEMMA NoResultsKeep ==
  ASSUME IInv, NEW d \in Devices, NoResults(d)
  PROVE  IInv'
<1>1. /\ pc = "artifact" /\ todo = {} /\ at = {d} /\ d \notin sealed.results /\ pc' = NextDevice
      /\ UNCHANGED <<sealed, recordVars, fileVars, packVars, loopVars, was, mishap, faults>>
  BY DEF NoResults
<1>2. pc' \in {"log", "device"}
  BY <1>1 DEF NextDevice
<1>3. device[d] # "absent" /\ {r.of : r \in RowsOf(d)} = EntriesOf(d) \ todo
  BY <1>1 DEF IInv, Loop
<1>4. TypeOK'
  BY <1>1 DEF IInv, TypeOK, recordVars, fileVars, packVars, loopVars
<1>5. Packed' /\ Stage' /\ (sealed \in Bundles)'
  BY <1>1, <1>2 DEF IInv, Packed, Stage, Verifies, Rebuilding, Bundles, recordVars, fileVars, packVars
<1>6. Dense' /\ FoundAsSent'
  BY <1>1 DEF IInv, Dense, FoundAsSent, LinksStayHome, StatusKept, RowsOf, recordVars
<1>7. Loop'
  <2>1. \A c \in Devices : RowsOf(c)' = RowsOf(c) /\ EntriesOf(c)' = EntriesOf(c)
    BY <1>1 DEF RowsOf, EntriesOf, recordVars
  <2>2. UNCHANGED <<left, at, device, found, links, sealed>>
    BY <1>1 DEF loopVars, recordVars
  <2>3. Imported(d)'
    BY <1>1, <1>3, <2>1, <2>2 DEF Imported
  <2>4. \A c \in Devices \ {d} : Imported(c) => Imported(c)'
    BY <2>1, <2>2 DEF Imported
  <2> QED BY <1>1, <2>1, <2>2, <2>3, <2>4, GoesOn
<1> QED
  BY <1>4, <1>5, <1>6, <1>7 DEF IInv
-----------------------------------------------------------------------------
\* The rows of the original run: their ids are the first free ones in some order.
LEMMA InitDense == Init => Dense
<1> SUFFICES ASSUME Init PROVE Dense
  OBVIOUS
<1> DEFINE E == sealed.entries
           I == 2..(Cardinality(E) + 1)
           number == [e \in E |-> sealed.id[e]]
           row(e) == [id |-> sealed.id[e], of |-> e]
           f == [e \in E |-> row(e)]
<1>1. E \subseteq Entries /\ {sealed.id[e] : e \in E} = I
  BY DEF Init, Bundles
<1>2. IsFiniteSet(E) /\ Cardinality(E) \in Nat
  <2>1. IsFiniteSet(Devices \X Commands)
    BY PackageAssumption, FS_Product
  <2>2. E \in SUBSET (Devices \X Commands)
    BY <1>1 DEF Entries
  <2> HIDE DEF E
  <2> QED BY <2>1, <2>2, FS_Subset, FS_CardinalityType
<1>3. IsFiniteSet(I) /\ Cardinality(I) = Cardinality(E)
  <2> HIDE DEF E
  <2>1. Cardinality(E) + 1 \in Int /\ 2 \in Int
    BY <1>2
  <2> QED BY <1>2, <2>1, FS_Interval
<1>4. \A e, g \in E : sealed.id[e] = sealed.id[g] => e = g
  <2>1. number \in [E -> I] /\ \A i \in I : \E e \in E : number[e] = i
    BY <1>1
  <2>2. number \in Surjection(E, I)
    <3> HIDE DEF E, I, number
    <3> QED BY <2>1, Fun_IsSurj
  <2>3. number \in Injection(E, I)
    <3> HIDE DEF E, I, number
    <3> QED BY <1>2, <1>3, <2>2, FS_SurjSameCardinalityImpliesInj
  <2>4. \A e, g \in E : number[e] = number[g] => e = g
    <3> HIDE DEF E, I, number
    <3> QED BY <2>3, Fun_InjectionProperties
  <2> QED BY <2>4
<1>5. rows = {row(e) : e \in E} /\ \A e \in E : row(e).id = sealed.id[e] /\ row(e).of = e
  BY DEF Init
<1> HIDE DEF row
<1>6. f \in Bijection(E, rows)
  <2>1. f \in [E -> rows] /\ \A r \in rows : \E e \in E : f[e] = r
    BY <1>5
  <2>2. \A e, g \in E : f[e] = f[g] => e = g
    BY <1>5
  <2> HIDE DEF E, f
  <2> QED BY <2>1, <2>2, Fun_IsBij, Fun_IsSurj, Fun_IsInj
<1>7. IsFiniteSet(rows) /\ Cardinality(rows) = Cardinality(E)
  <2> HIDE DEF E, f
  <2>1. ExistsBijection(E, rows)
    BY <1>6 DEF ExistsBijection
  <2> QED BY <1>2, <2>1, FS_Bijection
<1>8. {r.id : r \in rows} = I
  BY <1>1, <1>5
<1>9. \A r, s \in rows : (r.id = s.id => r = s) /\ (r.of = s.of => r = s)
  BY <1>4, <1>5
<1> HIDE DEF E
<1> QED
  BY <1>7, <1>8, <1>9 DEF Dense

LEMMA InitIInv == Init => IInv
<1> SUFFICES ASSUME Init PROVE IInv
  OBVIOUS
<1>1. /\ sealed \in Bundles
      /\ sealed.closed \in {"completed", "aborted"}
      /\ sealed.status \in [Devices -> {"COMPLETE"} \cup Failed]
      /\ sealed.entries \subseteq Entries /\ sealed.results \subseteq Devices
      /\ sealed.id \in [Entries -> Ids \cup {0}]
      /\ \A e \in Entries : sealed.id[e] = 0 <=> e \notin sealed.entries
  BY DEF Init, Bundles
<1>2. Dense
  BY InitDense
<1>3. \A e \in sealed.entries : sealed.id[e] \in Ids
  BY <1>1 DEF Ids
<1>4. rows = {[id |-> sealed.id[e], of |-> e] : e \in sealed.entries}
  BY DEF Init
<1>5. \A e \in sealed.entries : LET r == [id |-> sealed.id[e], of |-> e] IN
        r \in rows /\ r.id = sealed.id[e] /\ r.of = e
  BY <1>4
<1>6. TypeOK
  <2>1. rows \subseteq [id : Ids, of : sealed.entries]
    BY <1>3, <1>4
  <2>2. links \in [Devices -> SUBSET Ids]
    BY <1>3 DEF Init, EntriesOf
  <2>3. found \in [Devices -> {"none", "engine", "reviewer"}]
    BY DEF Init
  <2>4. device \in [Devices -> {"absent", "COMPLETE"} \cup Failed]
    BY <1>1 DEF Init
  <2>5. \A r, s \in rows : r.id = s.id => r = s
    BY <1>2 DEF Dense
  <2>6. /\ run \in BOOLEAN /\ bundle \in BOOLEAN /\ raw \subseteq sealed.entries /\ spoiled \subseteq raw
        /\ damaged \in BOOLEAN /\ (package = {} => ~damaged)
        /\ left \subseteq Devices /\ at \subseteq Devices /\ todo \subseteq sealed.entries
        /\ was \in {"before", "after", "mixed"} /\ mishap \in BOOLEAN
    BY DEF Init
  <2>7. faults \in 0..MaxFaults
    BY PackageAssumption DEF Init
  <2> QED BY <1>1, <2>1, <2>2, <2>3, <2>4, <2>5, <2>6, <2>7 DEF TypeOK
<1>7. Packed /\ Stage /\ Loop
  BY DEF Init, Packed, Stage, Rebuilding, Loop
<1>8. LinksStayHome
  <2> SUFFICES ASSUME NEW d \in Devices, NEW i \in links[d]
               PROVE  \E r \in RowsOf(d) : r.id = i
    BY DEF LinksStayHome
  <2>1. PICK e \in EntriesOf(d) : i = sealed.id[e]
    BY DEF Init
  <2>2. e \in sealed.entries /\ e[1] = d
    BY <2>1 DEF EntriesOf
  <2> QED BY <1>5, <2>1, <2>2 DEF RowsOf
<1>9. StatusKept
  BY DEF Init, StatusKept
<1> QED
  BY <1>1, <1>2, <1>6, <1>7, <1>8, <1>9 DEF IInv, FoundAsSent

LEMMA StepIInv == IInv /\ [Next]_vars => IInv'
<1> SUFFICES ASSUME IInv, [Next]_vars PROVE IInv'
  OBVIOUS
<1>1. CASE UNCHANGED vars
  <2>1. UNCHANGED <<sealed, recordVars, fileVars, packVars, pc, loopVars, was, mishap, faults>>
    BY <1>1 DEF vars
  <2>2. TypeOK' /\ Packed'
    BY <2>1 DEF IInv, TypeOK, Packed, recordVars, fileVars, packVars, loopVars
  <2>3. Stage' /\ (sealed \in Bundles)'
    BY <2>1 DEF IInv, Stage, Verifies, Bundles, recordVars, fileVars
  <2>4. Dense' /\ FoundAsSent'
    BY <2>1 DEF IInv, Dense, FoundAsSent, LinksStayHome, StatusKept, RowsOf, recordVars
  <2>5. Loop'
    BY <2>1 DEF IInv, Loop, Imported, RowsOf, EntriesOf, recordVars, loopVars
  <2> QED BY <2>2, <2>3, <2>4, <2>5 DEF IInv
<1>2. CASE ImportStep
  BY <1>2, QuietSteps, RecordGoneKeeps, CreateRunKeeps, AddDeviceKeeps, AddArtifactKeeps,
     AddResultKeeps, LinkResultKeeps, NoResultsKeep DEF ImportStep
<1> QED
  BY <1>1, <1>2, QuietSteps, ReviewKeeps DEF Next

\* What packages, imports and deletions rely on holds of every run and however
\* often steps raise or the process dies.
THEOREM PackageInvariant == Spec => []IInv
  BY InitIInv, StepIInv, PTL DEF Spec

\* Variables keep their types, and no two rows of the run share an id.
THEOREM PackageTypes == Spec => []TypeOK
<1>1. IInv => TypeOK
  BY DEF IInv
<1> QED
  BY <1>1, PackageInvariant, PTL

\* Evidence links stay with their device, in the original run and in the
\* imported one, and no device of a completed run comes back with another
\* status, for every number of devices, commands and failing steps.
THEOREM ImportedAsSent == Spec => []FoundAsSent
<1>1. IInv => FoundAsSent
  BY DEF IInv
<1> QED
  BY <1>1, PackageInvariant, PTL

\* Nothing is recorded as imported whose outputs are not all there as collected.
THEOREM ImportsVerified == Spec => OnlyVerified
<1>1. IInv /\ [Next]_vars =>
        [pc = "log" /\ pc' = "idle" => mishap' \/ (raw = sealed.entries /\ spoiled = {})]_vars
  <2> SUFFICES ASSUME IInv, pc = "log"
               PROVE  raw = sealed.entries /\ spoiled = {}
    OBVIOUS
  <2> QED BY DEF IInv, Stage, Rebuilding, Verifies
<1> QED
  BY <1>1, PackageInvariant, PTL DEF Spec, OnlyVerified
-----------------------------------------------------------------------------
(***************************************************************************)
(* An import and a deletion are atomic: the step that begins one keeps     *)
(* what was seen, the step that ends one shows all of it or nothing.       *)
(***************************************************************************)
Busy  == ~Idle \/ mishap
Value == IF Idle /\ ~mishap THEN Seen ELSE was

\* A step inside a handler, or after a mishap.
LEMMA Inside ==
  ASSUME pc # "idle" \/ mishap, pc' # "idle" \/ mishap', was' = was
  PROVE  UNCHANGED <<Busy, Value>>
  BY DEF Busy, Value, Idle

\* A step of the operator between the handlers that leaves the run to be seen as
\* it was.
LEMMA Between ==
  ASSUME pc = "idle", pc' = "idle", UNCHANGED <<mishap, was>>, Whole' <=> Whole,
         UNCHANGED <<run, bundle>>
  PROVE  UNCHANGED <<Busy, Value>>
  BY DEF Busy, Value, Idle, Seen, Nothing

LEMMA OperatorSeesSame ==
  ASSUME IInv,
         \/ Purge \/ Export \/ Damage
         \/ \E d \in Devices : Review(d)
         \/ \E e \in Entries : Spoil(e)
  PROVE  UNCHANGED <<Busy, Value>>
<1>1. CASE \E d \in Devices : Review(d)
  <2>1. PICK d \in Devices : Review(d)
    BY <1>1
  <2>2. /\ pc = "idle" /\ pc' = "idle" /\ found[d] = "engine" /\ found' = [found EXCEPT ![d] = "reviewer"]
        /\ UNCHANGED <<sealed, run, device, rows, links, bundle, was, mishap>>
    BY <2>1 DEF Review, Idle, fileVars
  <2>3. \A c \in Devices : found'[c] # "none" <=> found[c] # "none"
    BY <2>2 DEF IInv, TypeOK
  <2>4. \A c \in Devices : RowsOf(c)' = RowsOf(c) /\ EntriesOf(c)' = EntriesOf(c)
    BY <2>2 DEF RowsOf, EntriesOf
  <2>5. Whole' <=> Whole
    BY <2>2, <2>3, <2>4 DEF Whole
  <2> QED BY <2>2, <2>5, Between
<1>2. CASE Purge \/ Export \/ Damage \/ \E e \in Entries : Spoil(e)
  <2>1. /\ pc = "idle" /\ pc' = "idle"
        /\ UNCHANGED <<sealed, run, device, rows, found, links, bundle, was, mishap>>
    BY <1>2 DEF Purge, Export, Damage, Spoil, Idle, recordVars, fileVars
  <2>2. Whole' <=> Whole
    BY <2>1 DEF Whole, RowsOf, EntriesOf
  <2> QED BY <2>1, <2>2, Between
<1> QED
  BY <1>1, <1>2

LEMMA StepAtomic == IInv /\ [Next]_vars => [Change!ChangeNext]_<<Busy, Value>>
<1> SUFFICES ASSUME IInv, [Next]_vars, ~UNCHANGED <<Busy, Value>>
             PROVE  Change!ChangeNext
  OBVIOUS
<1>1. CASE DeleteFiles \/ Install
  <2>1. pc = "idle" /\ pc' # "idle" /\ mishap' = mishap /\ was' = IF mishap THEN was ELSE Seen
    BY <1>1 DEF DeleteFiles, Install, Idle
  <2>2. CASE mishap
    BY <2>1, <2>2, Inside
  <2>3. CASE ~mishap
    BY <2>1, <2>3 DEF Change!Begin, Change!ChangeNext, Idle
  <2> QED BY <2>2, <2>3
<1>2. CASE Finish
  <2>1. /\ pc = "log" /\ pc' = "idle"
        /\ UNCHANGED <<sealed, run, device, rows, found, links, bundle, was, mishap>>
    BY <1>2 DEF Finish, recordVars, fileVars
  <2>2. CASE mishap
    BY <2>1, <2>2, Inside
  <2>3. CASE ~mishap
    <3>1. run /\ bundle /\ \A d \in Devices : Imported(d)
      BY <2>1 DEF IInv, Stage, Loop, Rebuilding
    <3>2. Whole
      BY <3>1 DEF Whole, Imported
    <3>3. Whole'
      BY <2>1, <3>2 DEF Whole, RowsOf, EntriesOf
    <3>4. Seen' = "after"
      BY <3>3 DEF Seen
    <3> QED BY <2>1, <2>3, <3>4 DEF Change!End, Change!ChangeNext, Idle
  <2> QED BY <2>2, <2>3
<1>3. CASE CleanBundle \/ DeleteRecord
  <2>1. /\ pc # "idle" /\ pc' = "idle" /\ UNCHANGED <<was, mishap>>
        /\ ~run' /\ ~bundle'
    BY <1>3 DEF CleanBundle, CleanFiles, DeleteRecord, RecordGone, IInv, Stage, recordVars, fileVars
  <2>2. CASE mishap
    BY <2>1, <2>2, Inside
  <2>3. CASE ~mishap
    <3>1. Seen' = "before"
      BY <2>1 DEF Seen, Whole, Nothing
    <3> QED BY <2>1, <2>3, <3>1 DEF Change!End, Change!ChangeNext, Idle
  <2> QED BY <2>2, <2>3
<1>4. CASE \/ VerifyEvidence \/ CreateRun \/ CleanRecord \/ ImportRaises \/ CleanupRaises \/ Crash
  <2>1. pc # "idle" /\ (pc' # "idle" \/ mishap') /\ was' = was
    BY <1>4 DEF VerifyEvidence, CreateRun, CleanRecord, ImportRaises, CleanupRaises, Crash, Rebuilding, Idle
  <2> QED BY <2>1, Inside
<1>5. ASSUME NEW d \in Devices, AddDevice(d) \/ AddResult(d) \/ LinkResult(d) \/ NoResults(d)
      PROVE  FALSE
  <2>1. pc # "idle" /\ pc' # "idle" /\ was' = was
    BY <1>5 DEF AddDevice, AddResult, LinkResult, NoResults, NextDevice
  <2> QED BY <2>1, Inside
<1>6. ASSUME NEW e \in Entries, AddArtifact(e) PROVE FALSE
  <2>1. pc # "idle" /\ pc' # "idle" /\ was' = was
    BY <1>6 DEF AddArtifact
  <2> QED BY <2>1, Inside
<1>7. CASE UNCHANGED vars
  <2>1. UNCHANGED <<sealed, run, device, rows, found, links, bundle, pc, was, mishap>>
    BY <1>7 DEF vars, recordVars, fileVars
  <2>2. Whole' <=> Whole
    BY <2>1 DEF Whole, RowsOf, EntriesOf
  <2> QED BY <2>1, <2>2 DEF Busy, Value, Idle, Seen, Nothing
<1> QED
  BY <1>1, <1>2, <1>3, <1>4, <1>5, <1>6, <1>7, OperatorSeesSame DEF Next, ImportStep

LEMMA InitAtomic == Init => Change!ChangeInit
<1> SUFFICES ASSUME Init PROVE Change!ChangeInit
  OBVIOUS
<1>1. Idle /\ ~mishap
  BY DEF Init, Idle
<1>2. Whole
  <2>1. /\ sealed \in Bundles /\ run /\ bundle /\ device = sealed.status
        /\ rows = {[id |-> sealed.id[e], of |-> e] : e \in sealed.entries}
    BY DEF Init
  <2>2. \A d \in Devices : sealed.status[d] \in {"COMPLETE"} \cup Failed
    BY <2>1 DEF Bundles
  <2> SUFFICES ASSUME NEW d \in Devices PROVE Imported(d)
    BY <2>1 DEF Whole, Imported
  <2>3. device[d] # "absent"
    BY <2>1, <2>2 DEF Failed
  <2>4. RowsOf(d) = {[id |-> sealed.id[e], of |-> e] : e \in EntriesOf(d)}
    BY <2>1 DEF RowsOf, EntriesOf
  <2>5. {r.of : r \in RowsOf(d)} = EntriesOf(d) /\ {r.id : r \in RowsOf(d)} = {sealed.id[e] : e \in EntriesOf(d)}
    <3> DEFINE row(e) == [id |-> sealed.id[e], of |-> e]
    <3>1. \A e \in EntriesOf(d) : row(e).id = sealed.id[e] /\ row(e).of = e
      OBVIOUS
    <3>2. RowsOf(d) = {row(e) : e \in EntriesOf(d)}
      BY <2>4
    <3> HIDE DEF row
    <3> QED BY <3>1, <3>2
  <2>6. d \in sealed.results => found[d] # "none" /\ links[d] = {sealed.id[e] : e \in EntriesOf(d)}
    BY <2>2 DEF Init
  <2> QED BY <2>3, <2>5, <2>6 DEF Imported
<1> QED
  BY <1>1, <1>2 DEF Change!ChangeInit, Seen

\* The import of a package, its undoing after a step that raised, and the
\* deletion of a run implement the contract of an atomic change: nobody finds
\* half a run when the handler is over, unless the process died in it or its own
\* cleanup raised.
THEOREM ImportAtomic == Spec => ImportIsAtomic
<1>1. IInv /\ [Next]_vars =>
        [Change!ChangeNext]_<<~Idle \/ mishap, IF Idle /\ ~mishap THEN Seen ELSE was>>
  BY StepAtomic DEF Busy, Value
<1> QED
  BY <1>1, InitAtomic, PackageInvariant, PTL DEF Spec, ImportIsAtomic, Change!ChangeSpec
=============================================================================
