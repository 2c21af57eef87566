------------------------ MODULE EvidenceStoreProofs ------------------------
(***************************************************************************)
(* Proofs that the evidence bundle can be trusted, for any numbers of      *)
(* threads, devices, directories, calls and failures.                      *)
(***************************************************************************)
EXTENDS EvidenceStore, FiniteSetTheorems, WellFoundedInduction, TLAPS

\* The steps of write_evidence that hold the store's lock.
Locked == {"file", "list", "row", "identify"}

Place(c) == <<DirFor(c), op[c].number>>

\* A caller works on a call of its own, and a call stores at most one file.
OwnCalls ==
  /\ \A c \in Callers : op[c].kind = "idle" => op[c] = NoOp
  /\ \A c \in Callers : op[c].kind # "idle" =>
       op[c].device \in Devices /\ op[c].call \in 1..calls /\ op[c].step # ""
  /\ \A c, x \in Callers :
       c # x /\ op[c].kind # "idle" /\ op[x].kind # "idle" => op[c].call # op[x].call
  /\ \A n \in Names : files[n] <= calls
  /\ \A c \in Callers : op[c].step \in {"waiting", "file"} =>
       \A n \in Names : files[n] # op[c].call
  /\ \A m, n \in Names : files[m] = files[n] /\ files[m] # 0 => m = n

\* What a write_evidence that is under way has stored is still there.
Underway ==
  \A c \in Callers : op[c].step \in Locked =>
    /\ op[c].kind = "evidence" /\ lock = c /\ dir = "present"
    /\ op[c].step # "file" => op[c].number # 0 /\ files[Place(c)] = op[c].call
    /\ op[c].step \in {"row", "identify"} =>
         op[c].seen = listed[DirFor(c)] /\ ArtifactOf(c) \in Range(op[c].seen)
    /\ op[c].step = "identify" => ArtifactOf(c) \in rows

\* Without a bundle nothing is listed or sealed; before there is one, nothing
\* was stored.
NothingWithoutBundle ==
  /\ dir # "present" => AllListed = {} /\ ~sealed
  /\ dir = "new" => returned = {}

\* What the discipline of the callers comes to.
Discipline ==
  /\ \A c \in Callers : op[c].kind \in Closing => Alone(c)
  /\ \A c \in Callers : op[c].kind = "purge" => sealed
  /\ sealed => \A c \in Callers : op[c].kind \notin Writing
  /\ purged => sealed \/ dir = "deleted"

IInv ==
  /\ TypeOK /\ OwnCalls /\ Underway /\ NothingWithoutBundle
  /\ ListedVerifies /\ ReturnedIsRecorded
  /\ Disciplined => Discipline /\ WritesFailClosed /\ FreshPaths
-----------------------------------------------------------------------------
(***************************************************************************)
(* Sequences, and the first number that no file has.                       *)
(***************************************************************************)
LEMMA Appended ==
  ASSUME NEW S, NEW s \in Seq(S), NEW e \in S
  PROVE  Append(s, e) \in Seq(S) /\ Range(Append(s, e)) = Range(s) \cup {e}
<1>1. /\ Append(s, e) \in Seq(S)
      /\ DOMAIN Append(s, e) = 1..(Len(s) + 1) /\ DOMAIN s = 1..Len(s) /\ Len(s) \in Nat
      /\ \A i \in 1..Len(s) : Append(s, e)[i] = s[i]
      /\ Append(s, e)[Len(s) + 1] = e
  OBVIOUS
<1> DEFINE t == Append(s, e)
<1>2. DOMAIN t = (DOMAIN s) \cup {Len(s) + 1}
  BY <1>1
<1>3. \A i \in DOMAIN s : t[i] = s[i]
  BY <1>1
<1>4. t[Len(s) + 1] = e
  BY <1>1
<1> HIDE DEF t
<1>5. Range(t) = Range(s) \cup {e}
  BY <1>2, <1>3, <1>4 DEF Range
<1> QED
  BY <1>1, <1>5 DEF t

\* A set of numbers that is not empty has a first one.
LEMMA Least ==
  ASSUME NEW S \in SUBSET (1..MaxCalls), S # {}
  PROVE  \E n \in S : \A m \in 1..(n - 1) : m \notin S
<1> DEFINE R == {ss \in Nat \X Nat : ss[1] < ss[2]}
<1>1. IsWellFoundedOn(R, Nat)
  BY NatLessThanWellFounded DEF OpToRel
<1>2. \A m, n \in Nat : m < n => <<m, n>> \in R
  OBVIOUS
<1> HIDE DEF R
<1>3. S \subseteq Nat
  BY StoreAssumption
<1>4. PICK n \in S : \A m \in S : ~ (<<m, n>> \in R)
  BY <1>1, <1>3, WFMin
<1>5. \A m \in S : ~ (m < n)
  <2> SUFFICES ASSUME NEW m \in S, m < n PROVE FALSE
    BY <1>3
  <2>1. <<m, n>> \in R
    BY <1>2, <1>3
  <2> QED
    BY <2>1, <1>4
<1> QED
  BY <1>3, <1>5

\* A caller that has yet to store its output finds a number no file has: there
\* are as many numbers as calls, and no file holds the output of this call.
LEMMA NumberIsFree ==
  ASSUME TypeOK, OwnCalls, NEW c \in Callers, op[c].kind # "idle", op[c].step = "file"
  PROVE  FreeNumber(DirFor(c)) \in 1..MaxCalls /\ files[<<DirFor(c), FreeNumber(DirFor(c))>>] = 0
<1> DEFINE d == DirFor(c)
           k == op[c].call
           S == {n \in 1..MaxCalls : files[<<d, n>>] = 0}
<1>1. d \in Dirs /\ k \in 1..MaxCalls /\ MaxCalls \in Nat
  <2>1. op[c].device \in Devices /\ op[c].call \in 1..calls
    BY DEF OwnCalls
  <2>2. calls \in 0..MaxCalls
    BY DEF TypeOK
  <2> QED
    BY <2>1, <2>2, StoreAssumption DEF DirFor
<1>2. \A n \in 1..MaxCalls : <<d, n>> \in Names /\ files[<<d, n>>] \in 0..MaxCalls
  BY <1>1 DEF TypeOK, Names
<1>3. \A n \in 1..MaxCalls : files[<<d, n>>] # k
  BY <1>2 DEF OwnCalls
<1>4. \A m, n \in 1..MaxCalls : files[<<d, m>>] = files[<<d, n>>] /\ files[<<d, m>>] # 0 => m = n
  BY <1>2 DEF OwnCalls
<1> HIDE DEF d, k
<1>5. S # {}
  <2> SUFFICES ASSUME S = {} PROVE FALSE
    OBVIOUS
  <2> DEFINE f == [n \in 1..MaxCalls |-> files[<<d, n>>]]
             T == (1..MaxCalls) \ {k}
  <2>1. f \in [1..MaxCalls -> T]
    BY <1>2, <1>3
  <2>2. IsFiniteSet(1..MaxCalls) /\ Cardinality(1..MaxCalls) \in Nat
    BY <1>1, FS_Interval, FS_CardinalityType
  <2>3. IsFiniteSet(T) /\ Cardinality(T) = Cardinality(1..MaxCalls) - 1
    BY <1>1, <2>2, FS_RemoveElement
  <2>4. Cardinality(T) < Cardinality(1..MaxCalls)
    BY <2>2, <2>3
  <2>5. PICK m, n \in 1..MaxCalls : m # n /\ f[m] = f[n]
    <3> DEFINE N == 1..MaxCalls
    <3>1. /\ IsFiniteSet(N) /\ IsFiniteSet(T) /\ Cardinality(T) < Cardinality(N)
          /\ f \in [N -> T]
      BY <2>1, <2>2, <2>3, <2>4
    <3> HIDE DEF f, T, N
    <3>2. \E m, n \in N : m # n /\ f[m] = f[n]
      BY <3>1, FS_PigeonHole
    <3> QED
      BY <3>2 DEF N
  <2>6. files[<<d, m>>] # 0 /\ files[<<d, m>>] = files[<<d, n>>]
    BY <2>5
  <2> QED
    BY <2>5, <2>6, <1>4
<1>6. PICK n \in S : \A m \in 1..(n - 1) : m \notin S
  <2> HIDE DEF S
  <2>1. S \subseteq 1..MaxCalls
    BY DEF S
  <2> QED
    BY <2>1, <1>5, Least
<1>7. \A m \in 1..(n - 1) : files[<<d, m>>] # 0
  BY <1>6, <1>1
<1>8. \E i \in 1..MaxCalls : files[<<d, i>>] = 0 /\ \A m \in 1..(i - 1) : files[<<d, m>>] # 0
  BY <1>7
<1>9. FreeNumber(d) \in 1..MaxCalls /\ files[<<d, FreeNumber(d)>>] = 0
  BY <1>8 DEF FreeNumber
<1> QED
  BY <1>9 DEF d
-----------------------------------------------------------------------------
(***************************************************************************)
(* What the steps have in common.                                          *)
(***************************************************************************)
LEMMA InListed ==
  \A e : e \in AllListed <=> \E d \in Dirs : e \in Range(listed[d])
  BY DEF AllListed

\* A caller takes another step of what it does, or starts, or ends.
LEMMA Moved ==
  ASSUME TypeOK, NEW c \in Callers, NEW o \in OpType, op' = [op EXCEPT ![c] = o]
  PROVE  /\ op' \in [Callers -> OpType] /\ op'[c] = o
         /\ \A x \in Callers : x # c => op'[x] = op[x]
  BY DEF TypeOK

LEMMA NoOpType == NoOp \in OpType
<1>1. <<>> \in Seq(Artifacts)
  OBVIOUS
<1> QED
  BY <1>1, StoreAssumption DEF NoOp, OpType, Nobody

\* Who ends leaves nothing under way, and no file appears.
LEMMA LeaveStep ==
  ASSUME TypeOK, OwnCalls, Underway, NEW c \in Callers, lock \in {Nobody, c},
         Leaves(c), calls' = calls, \A n \in Names : files'[n] \in {0, files[n]}
  PROVE  /\ op' \in [Callers -> OpType] /\ op'[c] = NoOp
         /\ \A x \in Callers : x # c => op'[x] = op[x]
         /\ lock' = Nobody
         /\ OwnCalls' /\ Underway'
<1>1. op' = [op EXCEPT ![c] = NoOp] /\ lock' = Nobody /\ calls' = calls
  BY DEF Leaves
<1>2. /\ op' \in [Callers -> OpType] /\ op'[c] = NoOp
      /\ \A x \in Callers : x # c => op'[x] = op[x]
  BY <1>1, Moved, NoOpType
<1>3. NoOp.kind = "idle" /\ NoOp.step = ""
  BY DEF NoOp
<1>4. Underway'
  <2> SUFFICES ASSUME NEW x \in Callers, op'[x].step \in Locked PROVE FALSE
    BY DEF Underway
  <2>1. x # c
    BY <1>2, <1>3 DEF Locked
  <2>2. lock = x
    BY <2>1, <1>2 DEF Underway
  <2> QED
    BY <2>1, <2>2, StoreAssumption DEF Nobody
<1>5. \A n \in Names : files[n] \in Nat /\ files[n] \in 0..MaxCalls
  BY StoreAssumption DEF TypeOK
<1>6. calls \in Nat
  BY StoreAssumption DEF TypeOK
<1>7. OwnCalls'
  <2>1. \A x \in Callers : op'[x].kind = "idle" => op'[x] = NoOp
    BY <1>2 DEF OwnCalls
  <2>2. \A x \in Callers : op'[x].kind # "idle" =>
          op'[x].device \in Devices /\ op'[x].call \in 1..calls' /\ op'[x].step # ""
    BY <1>1, <1>2, <1>3 DEF OwnCalls
  <2>3. \A x, y \in Callers :
          x # y /\ op'[x].kind # "idle" /\ op'[y].kind # "idle" => op'[x].call # op'[y].call
    <3>1. \A x, y \in Callers :
            x # y /\ op[x].kind # "idle" /\ op[y].kind # "idle" => op[x].call # op[y].call
      BY DEF OwnCalls
    <3>2. \A x \in Callers : op'[x].kind # "idle" => op'[x] = op[x]
      BY <1>2, <1>3
    <3> QED
      BY <3>1, <3>2
  <2>4. \A n \in Names : files'[n] <= calls'
    <3>1. \A n \in Names : files[n] <= calls
      BY DEF OwnCalls
    <3> QED
      BY <3>1, <1>1, <1>6
  <2>5. \A x \in Callers : op'[x].step \in {"waiting", "file"} =>
          \A n \in Names : files'[n] # op'[x].call
    <3> SUFFICES ASSUME NEW x \in Callers, op'[x].step \in {"waiting", "file"},
                        NEW n \in Names
                 PROVE  files'[n] # op'[x].call
      OBVIOUS
    <3>1. x # c /\ op'[x] = op[x]
      BY <1>2, <1>3
    <3>2. op[x].kind # "idle" /\ op[x].call \in 1..calls
      BY <3>1, <1>3 DEF OwnCalls
    <3>3. files[n] # op[x].call /\ 0 # op[x].call
      <4>1. \A m \in Names : files[m] # op[x].call
        BY <3>1 DEF OwnCalls
      <4> QED
        BY <4>1, <3>2, <1>6
    <3> QED
      BY <3>1, <3>3
  <2>6. \A m, n \in Names : files'[m] = files'[n] /\ files'[m] # 0 => m = n
    BY DEF OwnCalls
  <2> QED
    BY <2>1, <2>2, <2>3, <2>4, <2>5, <2>6 DEF OwnCalls
<1> QED
  BY <1>1, <1>2, <1>4, <1>7

\* What a caller has waited for, it does alone if it closes the bundle.
LEMMA LeaveDiscipline ==
  ASSUME Discipline, NEW c \in Callers, op'[c] = NoOp,
         \A x \in Callers : x # c => op'[x] = op[x]
  PROVE  /\ \A x \in Callers : op'[x].kind \in Closing => Alone(x)'
         /\ \A x \in Callers : op'[x].kind = "purge" => op[x].kind = "purge"
         /\ \A x \in Callers : op'[x].kind \in Writing => op[x].kind \in Writing
         /\ op[c].kind \in Closing => \A x \in Callers : op'[x].kind = "idle"
<1>1. NoOp.kind = "idle" /\ "idle" \notin Closing \cup Writing
  BY DEF NoOp, Closing, Writing
<1>2. \A x \in Callers : op'[x].kind \in Closing => Alone(x)'
  BY <1>1 DEF Discipline, Alone, Idle
<1>3. op[c].kind \in Closing => \A x \in Callers : op'[x].kind = "idle"
  BY <1>1 DEF Discipline, Alone, Idle
<1> QED
  BY <1>1, <1>2, <1>3
-----------------------------------------------------------------------------
(***************************************************************************)
(* Operations that are one durable step, and those that fail.              *)
(***************************************************************************)
\* What ends without touching the artifacts or the seal keeps the invariant.
LEMMA PlainStep ==
  ASSUME IInv, NEW c \in Callers, lock \in {Nobody, c}, Leaves(c), calls' = calls,
         UNCHANGED <<dir, files, listed, sealed, manifest, rows, returned, purged>>,
         faults' \in 0..MaxFaults, snapshot' \in 0..MaxCalls,
         owner' \in [Dirs -> Devices \cup {Nobody}], results' \in [Dirs -> 0..MaxCalls]
  PROVE  IInv'
<1> USE DEF IInv
<1>1. \A n \in Names : files'[n] \in {0, files[n]}
  OBVIOUS
<1>2. /\ op' \in [Callers -> OpType] /\ op'[c] = NoOp
      /\ \A x \in Callers : x # c => op'[x] = op[x]
      /\ lock' = Nobody /\ OwnCalls' /\ Underway'
  BY <1>1, LeaveStep
<1>3. TypeOK'
  BY <1>2 DEF TypeOK
<1>4. AllListed' = AllListed
  BY DEF AllListed
<1>5. NothingWithoutBundle' /\ ListedVerifies' /\ ReturnedIsRecorded'
  BY <1>4 DEF NothingWithoutBundle, ListedVerifies, ReturnedIsRecorded
<1>6. ASSUME Disciplined PROVE Discipline'
  BY <1>2, <1>6, LeaveDiscipline DEF Discipline
<1>7. ASSUME Disciplined PROVE WritesFailClosed' /\ FreshPaths'
  BY <1>4, <1>7 DEF WritesFailClosed, FreshPaths
<1> QED
  BY <1>2, <1>3, <1>5, <1>6, <1>7

LEMMA FinalizeStep ==
  ASSUME IInv, NEW c \in Callers, FinalizeRun(c)
  PROVE  IInv'
<1> USE DEF IInv
<1>1. /\ op[c].kind = "finalize" /\ lock = Nobody /\ Leaves(c) /\ calls' = calls /\ faults' = faults
      /\ UNCHANGED <<dir, snapshot, owner, files, listed, results, rows, returned, purged>>
  BY DEF FinalizeRun, Enters, Free, Done
<1>2. CASE dir = "present" /\ ~sealed
  <2>1. sealed' = TRUE /\ manifest' = AllListed
    BY <1>2 DEF FinalizeRun, Reachable
  <2>2. \A n \in Names : files'[n] \in {0, files[n]}
    BY <1>1
  <2>3. /\ op' \in [Callers -> OpType] /\ op'[c] = NoOp
        /\ \A x \in Callers : x # c => op'[x] = op[x]
        /\ lock' = Nobody /\ OwnCalls' /\ Underway'
    BY <1>1, <2>2, LeaveStep
  <2>4. AllListed' = AllListed
    BY <1>1 DEF AllListed
  <2>5. AllListed \subseteq Artifacts
    BY InListed DEF TypeOK, Range
  <2>6. TypeOK'
    BY <1>1, <2>1, <2>3, <2>5 DEF TypeOK
  <2>7. NothingWithoutBundle' /\ ListedVerifies' /\ ReturnedIsRecorded'
    BY <1>1, <1>2, <2>1, <2>4 DEF NothingWithoutBundle, ListedVerifies, ReturnedIsRecorded
  <2>8. ASSUME Disciplined PROVE Discipline'
    <3>1. \A x \in Callers : op'[x].kind = "idle"
      BY <2>3, <2>8, <1>1, LeaveDiscipline DEF Closing
    <3> QED
      BY <3>1, <2>1, <2>3, <2>8, LeaveDiscipline DEF Discipline, Closing, Writing
  <2>9. ASSUME Disciplined PROVE WritesFailClosed' /\ FreshPaths'
    BY <2>1, <2>4, <2>9, <1>1 DEF WritesFailClosed, FreshPaths
  <2> QED
    BY <2>3, <2>6, <2>7, <2>8, <2>9
<1>3. CASE ~(dir = "present" /\ ~sealed)
  <2>1. UNCHANGED <<sealed, manifest>>
    BY <1>3 DEF FinalizeRun, Reachable
  <2> QED
    BY <1>1, <2>1, PlainStep DEF TypeOK
<1> QED
  BY <1>2, <1>3

LEMMA PurgeStep ==
  ASSUME IInv, NEW c \in Callers, Purge(c)
  PROVE  IInv'
<1> USE DEF IInv
<1>1. /\ op[c].kind = "purge" /\ lock = Nobody /\ Leaves(c) /\ calls' = calls /\ faults' = faults
      /\ files' = [n \in Names |-> 0] /\ purged' = (purged \/ dir = "present")
      /\ UNCHANGED <<dir, snapshot, owner, listed, results, sealed, manifest, rows, returned>>
  BY DEF Purge, Enters, Free, Done
<1>2. \A n \in Names : files'[n] \in {0, files[n]}
  BY <1>1
<1>3. /\ op' \in [Callers -> OpType] /\ op'[c] = NoOp
      /\ \A x \in Callers : x # c => op'[x] = op[x]
      /\ lock' = Nobody /\ OwnCalls' /\ Underway'
  BY <1>1, <1>2, LeaveStep
<1>4. AllListed' = AllListed
  BY <1>1 DEF AllListed
<1>5. TypeOK'
  BY <1>1, <1>3, StoreAssumption DEF TypeOK
<1>6. NothingWithoutBundle' /\ ListedVerifies' /\ ReturnedIsRecorded'
  BY <1>1, <1>4 DEF NothingWithoutBundle, ListedVerifies, ReturnedIsRecorded
<1>7. ASSUME Disciplined PROVE Discipline'
  <2>1. sealed
    BY <1>1, <1>7 DEF Discipline
  <2> QED
    BY <1>1, <1>3, <1>7, <2>1, LeaveDiscipline DEF Discipline
<1>8. ASSUME Disciplined PROVE WritesFailClosed' /\ FreshPaths'
  BY <1>1, <1>4, <1>8 DEF WritesFailClosed, FreshPaths
<1> QED
  BY <1>3, <1>5, <1>6, <1>7, <1>8

LEMMA DeleteStep ==
  ASSUME IInv, NEW c \in Callers, DeleteRun(c)
  PROVE  IInv'
<1> USE DEF IInv
<1>1. /\ op[c].kind = "delete" /\ lock = Nobody /\ Leaves(c) /\ calls' = calls /\ faults' = faults
      /\ dir' = "deleted" /\ snapshot' = 0 /\ owner' = [d \in Dirs |-> Nobody]
      /\ files' = [n \in Names |-> 0] /\ listed' = [d \in Dirs |-> <<>>]
      /\ results' = [d \in Dirs |-> 0] /\ sealed' = FALSE /\ manifest' = {}
      /\ UNCHANGED <<rows, returned, purged>>
  BY DEF DeleteRun, Enters, Free, Done
<1>2. \A n \in Names : files'[n] \in {0, files[n]}
  BY <1>1
<1>3. /\ op' \in [Callers -> OpType] /\ op'[c] = NoOp
      /\ \A x \in Callers : x # c => op'[x] = op[x]
      /\ lock' = Nobody /\ OwnCalls' /\ Underway'
  BY <1>1, <1>2, LeaveStep
<1>4. AllListed' = {}
  BY <1>1 DEF AllListed, Range
<1>5. TypeOK'
  <2>1. <<>> \in Seq(Artifacts)
    OBVIOUS
  <2>2. 0 \in 0..MaxCalls
    BY StoreAssumption
  <2>3. listed' \in [Dirs -> Seq(Artifacts)] /\ owner' \in [Dirs -> Devices \cup {Nobody}]
    BY <1>1, <2>1
  <2>4. files' \in [Names -> 0..MaxCalls] /\ results' \in [Dirs -> 0..MaxCalls] /\ snapshot' \in 0..MaxCalls
    BY <1>1, <2>2
  <2>5. manifest' \subseteq Artifacts /\ sealed' \in BOOLEAN /\ dir' \in {"new", "present", "deleted"}
    BY <1>1
  <2> QED
    BY <1>1, <1>3, <2>3, <2>4, <2>5 DEF TypeOK
<1>6. NothingWithoutBundle' /\ ListedVerifies' /\ ReturnedIsRecorded'
  BY <1>1, <1>4 DEF NothingWithoutBundle, ListedVerifies, ReturnedIsRecorded
<1>7. ASSUME Disciplined PROVE Discipline'
  <2>1. \A x \in Callers : op'[x].kind = "idle"
    BY <1>1, <1>3, <1>7, LeaveDiscipline DEF Closing
  <2> QED
    BY <1>1, <2>1, <1>3, <1>7, LeaveDiscipline DEF Discipline, Closing, Writing
<1>8. ASSUME Disciplined PROVE WritesFailClosed' /\ FreshPaths'
  BY <1>1, <1>4, <1>8 DEF WritesFailClosed, FreshPaths
<1> QED
  BY <1>3, <1>5, <1>6, <1>7, <1>8
LEMMA SnapshotStep ==
  ASSUME IInv, NEW c \in Callers, WriteSnapshot(c)
  PROVE  IInv'
<1>1. op[c].call \in 0..MaxCalls
  BY DEF IInv, TypeOK, OpType
<1> QED
  BY <1>1, PlainStep DEF IInv, TypeOK, WriteSnapshot, Enters, Free, Done

LEMMA PrepareStep ==
  ASSUME IInv, NEW c \in Callers, PrepareDevice(c)
  PROVE  IInv'
<1>1. owner' \in [Dirs -> Devices \cup {Nobody}]
  <2>1. op[c].device \in Devices \cup {Nobody} /\ owner \in [Dirs -> Devices \cup {Nobody}]
    BY DEF IInv, TypeOK, OpType
  <2>2. DirFor(c) \in Dirs => owner[DirFor(c)] \in Devices \cup {Nobody}
    BY <2>1
  <2>3. CASE Reachable(c)
    <3>1. PICK o \in {op[c].device, owner[DirFor(c)]} \ {Nobody} : owner' = [owner EXCEPT ![DirFor(c)] = o]
      BY <2>3 DEF PrepareDevice
    <3> QED
      BY <3>1, <2>1, <2>2
  <2>4. CASE ~Reachable(c)
    BY <2>4, <2>1 DEF PrepareDevice
  <2> QED
    BY <2>3, <2>4
<1> QED
  BY <1>1, PlainStep DEF IInv, TypeOK, PrepareDevice, Enters, Free, Done

\* The directory of the device a caller works on is one of Dirs.
LEMMA OpenedType ==
  ASSUME IInv, NEW c \in Callers
  PROVE  Opened(c) \in [Dirs -> Devices \cup {Nobody}]
  BY DEF IInv, TypeOK, OpType, Opened

LEMMA ResultsStep ==
  ASSUME IInv, NEW c \in Callers, WriteResults(c)
  PROVE  IInv'
<1>1. owner' \in [Dirs -> Devices \cup {Nobody}] /\ results' \in [Dirs -> 0..MaxCalls]
  <2>1. op[c].call \in 0..MaxCalls /\ results \in [Dirs -> 0..MaxCalls]
    BY DEF IInv, TypeOK, OpType
  <2> QED
    BY <2>1, OpenedType DEF IInv, TypeOK, WriteResults
<1> QED
  BY <1>1, PlainStep DEF IInv, TypeOK, WriteResults, Enters, Free, Done

LEMMA FaultStep ==
  ASSUME IInv, NEW c \in Callers, Fault(c)
  PROVE  IInv'
<1>1. op[c].step \in Locked
  <2>1. op[c].step \in {"", "waiting", "file", "list", "row", "identify"}
    BY DEF IInv, TypeOK, OpType
  <2> QED
    BY <2>1 DEF IInv, OwnCalls, Fault, Locked
<1>2. lock = c
  BY <1>1 DEF IInv, Underway
<1>3. faults' \in 0..MaxFaults
  BY StoreAssumption DEF IInv, TypeOK, Fault
<1> QED
  BY <1>2, <1>3, PlainStep DEF IInv, TypeOK, Fault, bundle-----------------------------------------------------------------------------
(***************************************************************************)
(* The run is made, and operations are called.                             *)
(***************************************************************************)
\* Calls and outputs are numbered up to calls.
LEMMA Numbers ==
  ASSUME TypeOK, OwnCalls
  PROVE  /\ calls \in Nat
         /\ \A n \in Names : files[n] \in Nat /\ files[n] <= calls
         /\ \A x \in Callers : op[x].kind # "idle" =>
              op[x].device \in Devices /\ op[x].call \in 1..calls /\ op[x].step # ""
<1>1. calls \in Nat
  BY StoreAssumption DEF TypeOK
<1>2. \A n \in Names : files[n] \in Nat /\ files[n] <= calls
  <2> SUFFICES ASSUME NEW n \in Names PROVE files[n] \in Nat /\ files[n] <= calls
    OBVIOUS
  <2>1. files[n] \in 0..MaxCalls
    BY DEF TypeOK
  <2>2. files[n] <= calls
    BY DEF OwnCalls
  <2> QED
    BY <2>1, <2>2
<1>3. \A x \in Callers : op[x].kind # "idle" =>
        op[x].device \in Devices /\ op[x].call \in 1..calls /\ op[x].step # ""
  BY DEF OwnCalls
<1> QED
  BY <1>1, <1>2, <1>3

LEMMA CreateStep ==
  ASSUME IInv, NEW c \in Callers, CreateRun(c)
  PROVE  IInv'
<1> USE DEF IInv
<1>1. /\ dir = "new" /\ dir' = "present" /\ calls < MaxCalls /\ calls' = calls + 1
      /\ snapshot' \in {0, calls + 1}
      /\ UNCHANGED <<owner, files, listed, results, sealed, manifest, rows, lock, op,
                     faults, returned, purged>>
  BY DEF CreateRun
<1>2. calls \in Nat /\ calls' \in 0..MaxCalls /\ snapshot' \in 0..MaxCalls
  BY <1>1, StoreAssumption DEF TypeOK
<1>3. TypeOK'
  BY <1>1, <1>2 DEF TypeOK
<1>4. OwnCalls'
  <2>1. \A x \in Callers : op[x].kind # "idle" =>
          op[x].device \in Devices /\ op[x].call \in 1..calls' /\ op[x].step # ""
    <3> SUFFICES ASSUME NEW x \in Callers, op[x].kind # "idle"
                 PROVE  op[x].device \in Devices /\ op[x].call \in 1..calls' /\ op[x].step # ""
      OBVIOUS
    <3>1. op[x].device \in Devices /\ op[x].step # ""
      BY Numbers
    <3>2. op[x].call \in 1..calls'
      <4>1. op[x].call \in 1..calls
        BY Numbers
      <4> QED
        BY <4>1, <1>1, <1>2
    <3> QED
      BY <3>1, <3>2
  <2>2. \A n \in Names : files[n] <= calls'
    <3> SUFFICES ASSUME NEW n \in Names PROVE files[n] <= calls'
      OBVIOUS
    <3>1. files[n] \in Nat /\ files[n] <= calls
      BY Numbers
    <3> QED
      BY <3>1, <1>1, <1>2
  <2> QED
    BY <1>1, <2>1, <2>2 DEF OwnCalls
<1>5. Underway'
  BY <1>1 DEF Underway
<1>6. AllListed' = AllListed /\ AllListed = {} /\ returned = {} /\ ~sealed
  BY <1>1 DEF AllListed, NothingWithoutBundle
<1>7. NothingWithoutBundle' /\ ListedVerifies' /\ ReturnedIsRecorded'
  BY <1>1, <1>6 DEF NothingWithoutBundle, ListedVerifies, ReturnedIsRecorded
<1>8. ASSUME Disciplined PROVE Discipline' /\ WritesFailClosed' /\ FreshPaths'
  BY <1>1, <1>6, <1>8 DEF Discipline, WritesFailClosed, FreshPaths, Alone, Idle
<1> QED
  BY <1>3, <1>4, <1>5, <1>7, <1>8

LEMMA CallStep ==
  ASSUME IInv, NEW c \in Callers, NEW kind \in Writing \cup Closing, NEW d \in Devices,
         Call(c, kind, d)
  PROVE  IInv'
<1> USE DEF IInv
<1> DEFINE o == [NoOp EXCEPT !.kind = kind, !.device = d, !.step = "waiting", !.call = calls + 1]
<1>1. /\ op[c] = NoOp /\ calls < MaxCalls /\ calls' = calls + 1
      /\ op' = [op EXCEPT ![c] = o] /\ MayCall(c, kind) /\ Passes(kind)
      /\ UNCHANGED <<bundle, rows, lock, faults, returned, purged>>
  BY DEF Call, Idle
<1>2. calls \in Nat /\ calls' \in 0..MaxCalls /\ calls + 1 \in 1..MaxCalls
  BY <1>1, StoreAssumption DEF TypeOK
<1>3. /\ o.kind = kind /\ o.device = d /\ o.step = "waiting" /\ o.call = calls + 1
      /\ o.number = 0 /\ o.seen = <<>> /\ o \in OpType
  <2>1. <<>> \in Seq(Artifacts) /\ calls + 1 \in 0..MaxCalls /\ 0 \in 0..MaxCalls
    BY <1>2, StoreAssumption
  <2> QED
    BY <2>1 DEF NoOp, OpType
<1>4. kind # "idle" /\ NoOp.kind = "idle" /\ "idle" \notin Closing \cup Writing
  BY DEF Writing, Closing, NoOp
<1> HIDE DEF o
<1>5. /\ op' \in [Callers -> OpType] /\ op'[c] = o
      /\ \A x \in Callers : x # c => op'[x] = op[x]
  BY <1>1, <1>3, Moved
<1>6. TypeOK'
  BY <1>1, <1>2, <1>5 DEF TypeOK, bundle
<1>7. \A n \in Names : files[n] \in Nat /\ files[n] <= calls
  BY Numbers
<1>8. \A x \in Callers : op[x].kind # "idle" =>
        op[x].device \in Devices /\ op[x].call \in 1..calls /\ op[x].step # ""
  BY Numbers
<1>9. OwnCalls'
  <2>1. \A x \in Callers : op'[x].kind = "idle" => op'[x] = NoOp
    BY <1>3, <1>4, <1>5 DEF OwnCalls
  <2>2. \A x \in Callers : op'[x].kind # "idle" =>
          op'[x].device \in Devices /\ op'[x].call \in 1..calls' /\ op'[x].step # ""
    <3> SUFFICES ASSUME NEW x \in Callers, op'[x].kind # "idle"
                 PROVE  op'[x].device \in Devices /\ op'[x].call \in 1..calls' /\ op'[x].step # ""
      OBVIOUS
    <3>1. CASE x = c
      <4>1. o.call \in 1..calls'
        BY <1>1, <1>2, <1>3
      <4> QED
        BY <3>1, <4>1, <1>3, <1>5
    <3>2. CASE x # c
      <4>1. op[x].device \in Devices /\ op[x].step # ""
        BY <3>2, <1>5, <1>8
      <4>2. op[x].call \in 1..calls'
        <5>1. op[x].call \in 1..calls
          BY <3>2, <1>5, <1>8
        <5> QED
          BY <5>1, <1>1, <1>2
      <4> QED
        BY <4>1, <4>2, <3>2, <1>5
    <3> QED
      BY <3>1, <3>2
  <2>3. \A x, y \in Callers :
          x # y /\ op'[x].kind # "idle" /\ op'[y].kind # "idle" => op'[x].call # op'[y].call
    <3>1. \A x, y \in Callers :
            x # y /\ op[x].kind # "idle" /\ op[y].kind # "idle" => op[x].call # op[y].call
      BY DEF OwnCalls
    <3>2. \A x \in Callers : x # c /\ op[x].kind # "idle" => op[x].call # o.call
      <4> SUFFICES ASSUME NEW x \in Callers, x # c, op[x].kind # "idle"
                   PROVE  op[x].call # o.call
        OBVIOUS
      <4>1. op[x].call \in 1..calls
        BY <1>8
      <4> QED
        BY <4>1, <1>2, <1>3
    <3> QED
      BY <3>1, <3>2, <1>5
  <2>4. \A n \in Names : files'[n] <= calls'
    BY <1>1, <1>2, <1>7 DEF bundle
  <2>5. \A x \in Callers : op'[x].step \in {"waiting", "file"} =>
          \A n \in Names : files'[n] # op'[x].call
    <3>1. \A n \in Names : files[n] # o.call
      BY <1>2, <1>3, <1>7
    <3>2. \A x \in Callers : op[x].step \in {"waiting", "file"} =>
            \A n \in Names : files[n] # op[x].call
      BY DEF OwnCalls
    <3> QED
      BY <3>1, <3>2, <1>1, <1>5 DEF bundle
  <2>6. \A m, n \in Names : files'[m] = files'[n] /\ files'[m] # 0 => m = n
    BY <1>1 DEF OwnCalls, bundle
  <2> QED
    BY <2>1, <2>2, <2>3, <2>4, <2>5, <2>6 DEF OwnCalls
<1>10. Underway'
  <2> SUFFICES ASSUME NEW x \in Callers, op'[x].step \in Locked
               PROVE  x # c /\ op'[x] = op[x]
    BY <1>1 DEF Underway, bundle, Place, DirFor, ArtifactOf
  <2> QED
    BY <1>3, <1>5 DEF Locked
<1>11. AllListed' = AllListed
  BY <1>1 DEF AllListed, bundle
<1>12. NothingWithoutBundle' /\ ListedVerifies' /\ ReturnedIsRecorded'
  BY <1>1, <1>11 DEF bundle, NothingWithoutBundle, ListedVerifies, ReturnedIsRecorded
<1>13. ASSUME Disciplined PROVE Discipline'
  <2>1. \A x \in Callers : op'[x].kind \in Closing => Alone(x)'
    <3>1. \A x \in Callers : op[x].kind \notin Closing
      BY <1>1, <1>13 DEF MayCall
    <3>2. kind \in Closing => \A x \in Callers \ {c} : op'[x] = NoOp
      BY <1>1, <1>5, <1>13 DEF MayCall, Alone, Idle
    <3> QED
      BY <3>1, <3>2, <1>3, <1>5 DEF Alone, Idle
  <2>2. \A x \in Callers : op'[x].kind = "purge" => sealed'
    BY <1>1, <1>3, <1>5, <1>13 DEF Discipline, MayCall, bundle
  <2>3. sealed' => \A x \in Callers : op'[x].kind \notin Writing
    <3>1. kind \in Writing => ~sealed
      BY <1>1 DEF Passes, Writing
    <3> QED
      BY <3>1, <1>1, <1>3, <1>5, <1>13 DEF Discipline, bundle
  <2> QED
    BY <2>1, <2>2, <2>3, <1>1, <1>13 DEF Discipline, bundle
<1>14. ASSUME Disciplined PROVE WritesFailClosed' /\ FreshPaths'
  BY <1>1, <1>11, <1>14 DEF bundle, WritesFailClosed, FreshPaths
<1> QED
  BY <1>6, <1>9, <1>10, <1>12, <1>13, <1>14-----------------------------------------------------------------------------
(***************************************************************************)
(* write_evidence.                                                         *)
(***************************************************************************)
\* A caller goes on, holding the lock, to another step of the same call.  The
\* file it may store at that step is one nobody has.
LEMMA HoldStep ==
  ASSUME IInv, NEW c \in Callers, NEW o \in OpType, op' = [op EXCEPT ![c] = o],
         op[c].kind = "evidence", lock \in {Nobody, c},
         o.kind = "evidence", o.device = op[c].device, o.call = op[c].call, o.step \in Locked,
         UNCHANGED <<dir, sealed, calls, purged>>,
         \/ UNCHANGED files /\ (o.step = "file" => op[c].step = "waiting")
         \/ /\ op[c].step = "file" /\ o.step # "file"
            /\ \E n \in Names : files[n] = 0 /\ files' = [files EXCEPT ![n] = op[c].call]
  PROVE  /\ op' \in [Callers -> OpType] /\ op'[c] = o
         /\ \A x \in Callers : x # c => op'[x] = op[x] /\ op[x].step \notin Locked
         /\ OwnCalls'
         /\ Disciplined => Discipline'
<1> USE DEF IInv
<1>1. /\ op' \in [Callers -> OpType] /\ op'[c] = o
      /\ \A x \in Callers : x # c => op'[x] = op[x]
  BY Moved
<1>2. \A x \in Callers : x # c => op[x].step \notin Locked
  BY StoreAssumption DEF Underway, Nobody
<1>3. op[c].call \in 1..calls /\ calls \in Nat
  BY Numbers
<1>4. \A n \in Names : files[n] <= calls /\ files[n] \in Nat
  BY Numbers
<1>5. o.step # "" /\ o.step # "waiting"
  BY DEF Locked
<1>6. /\ \A x \in Callers : op'[x].kind = "idle" => op'[x] = NoOp
      /\ \A x \in Callers : op'[x].kind # "idle" => op'[x].device \in Devices /\ op'[x].step # ""
      /\ \A x \in Callers : op'[x].kind # "idle" => op'[x].call \in 1..calls'
  <2>1. \A x \in Callers : op[x].kind # "idle" => op[x].call \in 1..calls
    BY Numbers
  <2>2. \A x \in Callers : op'[x].kind # "idle" => op'[x].call \in 1..calls'
    BY <2>1, <1>1, <1>3
  <2> QED
    BY <2>2, <1>1, <1>5 DEF OwnCalls
<1>7. \A x, y \in Callers :
        x # y /\ op'[x].kind # "idle" /\ op'[y].kind # "idle" => op'[x].call # op'[y].call
  <2>1. \A x, y \in Callers :
          x # y /\ op[x].kind # "idle" /\ op[y].kind # "idle" => op[x].call # op[y].call
    BY DEF OwnCalls
  <2> QED
    BY <2>1, <1>1
<1>8. /\ \A x \in Callers : op[x].step \in {"waiting", "file"} => \A n \in Names : files[n] # op[x].call
      /\ \A m, n \in Names : files[m] = files[n] /\ files[m] # 0 => m = n
  BY DEF OwnCalls
<1>9. OwnCalls'
  <2>1. CASE UNCHANGED files /\ (o.step = "file" => op[c].step = "waiting")
    <3>1. \A x \in Callers : op'[x].step \in {"waiting", "file"} =>
            \A n \in Names : files'[n] # op'[x].call
      BY <2>1, <1>1, <1>5, <1>8
    <3>2. \A n \in Names : files'[n] <= calls'
      BY <2>1, <1>4
    <3> QED
      BY <2>1, <3>1, <3>2, <1>6, <1>7, <1>8 DEF OwnCalls
  <2>2. CASE /\ op[c].step = "file" /\ o.step # "file"
             /\ \E n \in Names : files[n] = 0 /\ files' = [files EXCEPT ![n] = op[c].call]
    <3>1. PICK n \in Names : files[n] = 0 /\ files' = [files EXCEPT ![n] = op[c].call]
      BY <2>2
    <3>2. files'[n] = op[c].call /\ \A m \in Names : m # n => files'[m] = files[m]
      BY <3>1 DEF TypeOK
    <3>3. \A m \in Names : files'[m] <= calls'
      BY <3>2, <1>3, <1>4
    <3>4. \A x \in Callers : op'[x].step \in {"waiting", "file"} =>
            \A m \in Names : files'[m] # op'[x].call
      <4> SUFFICES ASSUME NEW x \in Callers, op'[x].step \in {"waiting", "file"}
                   PROVE  \A m \in Names : files'[m] # op'[x].call
        OBVIOUS
      <4>1. x # c /\ op'[x] = op[x]
        BY <1>1, <1>5, <2>2
      <4>2. op[x].kind # "idle"
        <5>1. NoOp.step = ""
          BY DEF NoOp
        <5> QED
          BY <4>1, <5>1 DEF OwnCalls
      <4>3. op[x].call # op[c].call
        BY <4>1, <4>2 DEF OwnCalls
      <4> QED
        BY <4>1, <4>3, <3>2, <1>8
    <3>5. \A m, i \in Names : files'[m] = files'[i] /\ files'[m] # 0 => m = i
      BY <3>2, <2>2, <1>8
    <3> QED
      BY <3>3, <3>4, <3>5, <1>6, <1>7 DEF OwnCalls
  <2> QED
    BY <2>1, <2>2
<1>10. ASSUME Disciplined PROVE Discipline'
  <2>1. \A x \in Callers : op[x].kind \notin Closing
    <3>1. NoOp.kind = "idle"
      BY DEF NoOp
    <3> QED
      BY <1>10, <3>1 DEF Discipline, Alone, Idle, Closing
  <2> QED
    BY <2>1, <1>1, <1>10 DEF Discipline, Closing, Writing
<1> QED
  BY <1>1, <1>2, <1>9, <1>10
LEMMA OpenStep ==
  ASSUME IInv, NEW c \in Callers, OpenDevice(c)
  PROVE  IInv'
<1> USE DEF IInv
<1>1. /\ op[c].kind = "evidence" /\ op[c].step = "waiting" /\ lock = Nobody
      /\ UNCHANGED <<dir, snapshot, files, listed, results, sealed, manifest, rows,
                     calls, faults, returned, purged>>
  BY DEF OpenDevice, Enters, Free
<1>2. CASE CanOpen(c)
  <2> DEFINE o == [op[c] EXCEPT !.step = "file"]
  <2>1. owner' = Opened(c) /\ lock' = c /\ op' = [op EXCEPT ![c] = o]
    BY <1>2 DEF OpenDevice
  <2>2. /\ o \in OpType /\ o.kind = "evidence" /\ o.device = op[c].device
        /\ o.call = op[c].call /\ o.step = "file"
    BY <1>1 DEF TypeOK, OpType
  <2> HIDE DEF o
  <2>3. /\ op' \in [Callers -> OpType] /\ op'[c] = o
        /\ \A x \in Callers : x # c => op'[x] = op[x] /\ op[x].step \notin Locked
        /\ OwnCalls' /\ (Disciplined => Discipline')
    BY <1>1, <2>1, <2>2, HoldStep DEF Locked
  <2>4. TypeOK'
    BY <1>1, <2>1, <2>3, OpenedType DEF TypeOK
  <2>5. Underway'
    BY <1>1, <1>2, <2>1, <2>2, <2>3 DEF Underway, CanOpen, Reachable
  <2>6. AllListed' = AllListed
    BY <1>1 DEF AllListed
  <2>7. NothingWithoutBundle' /\ ListedVerifies' /\ ReturnedIsRecorded'
    BY <1>1, <2>6 DEF NothingWithoutBundle, ListedVerifies, ReturnedIsRecorded
  <2>8. ASSUME Disciplined PROVE WritesFailClosed' /\ FreshPaths'
    BY <1>1, <2>6, <2>8 DEF WritesFailClosed, FreshPaths
  <2> QED
    BY <2>3, <2>4, <2>5, <2>7, <2>8
<1>3. CASE ~CanOpen(c)
  <2>1. Leaves(c) /\ UNCHANGED owner
    BY <1>3 DEF OpenDevice
  <2> QED
    BY <1>1, <2>1, PlainStep DEF TypeOK
<1> QED
  BY <1>2, <1>3

LEMMA FileStep ==
  ASSUME IInv, NEW c \in Callers, WriteFile(c)
  PROVE  IInv'
<1> USE DEF IInv
<1> DEFINE n == FreeNumber(DirFor(c))
           p == <<DirFor(c), n>>
           o == [op[c] EXCEPT !.step = "list", !.number = n]
<1>1. /\ op[c].kind = "evidence" /\ op[c].step = "file"
      /\ files' = [files EXCEPT ![p] = op[c].call] /\ op' = [op EXCEPT ![c] = o]
      /\ UNCHANGED <<dir, snapshot, owner, listed, results, sealed, manifest, rows, lock,
                     calls, faults, returned, purged>>
  BY DEF WriteFile, Holds
<1>2. n \in 1..MaxCalls /\ files[p] = 0
  BY <1>1, NumberIsFree
<1>3. op[c].device \in Devices /\ op[c].call \in 1..calls /\ DirFor(c) \in Dirs
  BY <1>1, StoreAssumption DEF OwnCalls, DirFor
<1>4. lock = c /\ dir = "present"
  BY <1>1 DEF Underway, Locked
<1> HIDE DEF n
<1>5. /\ o \in OpType /\ o.kind = "evidence" /\ o.device = op[c].device
      /\ o.call = op[c].call /\ o.step = "list" /\ o.number = n
  <2>1. n \in 0..MaxCalls /\ op[c] \in OpType
    BY <1>2, StoreAssumption DEF TypeOK
  <2> QED
    BY <1>1, <2>1 DEF OpType
<1>6. p \in Names
  BY <1>2, <1>3 DEF Names
<1> HIDE DEF o, p
<1>7. /\ op' \in [Callers -> OpType] /\ op'[c] = o
      /\ \A x \in Callers : x # c => op'[x] = op[x] /\ op[x].step \notin Locked
      /\ OwnCalls' /\ (Disciplined => Discipline')
  <2>1. /\ op[c].step = "file" /\ o.step # "file"
        /\ \E m \in Names : files[m] = 0 /\ files' = [files EXCEPT ![m] = op[c].call]
    BY <1>1, <1>2, <1>5, <1>6
  <2> QED
    BY <1>1, <1>4, <1>5, <2>1, HoldStep DEF Locked
<1>8. files' \in [Names -> 0..MaxCalls] /\ files'[p] = op[c].call
      /\ \A m \in Names : m # p => files'[m] = files[m]
  <2>1. op[c].call \in 0..MaxCalls
    BY DEF TypeOK, OpType
  <2> QED
    BY <1>1, <1>6, <2>1 DEF TypeOK
<1>9. TypeOK'
  BY <1>1, <1>7, <1>8 DEF TypeOK
<1>10. Underway'
  <2>1. Place(c)' = p /\ op'[c].number # 0
    BY <1>2, <1>5, <1>7 DEF Place, DirFor, p
  <2> QED
    BY <2>1, <1>1, <1>4, <1>5, <1>7, <1>8 DEF Underway
<1>11. AllListed' = AllListed
  BY <1>1 DEF AllListed
<1>12. ListedVerifies'
  <2> SUFFICES ASSUME ~purged, NEW e \in AllListed PROVE files'[e.name] = e.digest
    BY <1>1, <1>11 DEF ListedVerifies
  <2>1. files[e.name] = e.digest
    BY DEF ListedVerifies
  <2>2. e \in Artifacts
    BY InListed DEF TypeOK, Range
  <2>3. e.name \in Names /\ e.digest # 0
    BY <2>2, StoreAssumption DEF Artifacts
  <2> QED
    BY <2>1, <2>3, <1>2, <1>8
<1>13. NothingWithoutBundle' /\ ReturnedIsRecorded'
  BY <1>1, <1>11 DEF NothingWithoutBundle, ReturnedIsRecorded
<1>14. ASSUME Disciplined PROVE WritesFailClosed' /\ FreshPaths'
  BY <1>1, <1>11, <1>14 DEF WritesFailClosed, FreshPaths
<1> QED
  BY <1>7, <1>9, <1>10, <1>12, <1>13, <1>14
\* While a caller holds the lock the artifact it stores is a proper one.
LEMMA Stored ==
  ASSUME IInv, NEW c \in Callers, op[c].step \in {"list", "row", "identify"}
  PROVE  /\ op[c].kind = "evidence" /\ lock = c /\ dir = "present" /\ DirFor(c) \in Dirs
         /\ ArtifactOf(c) \in Artifacts
         /\ ArtifactOf(c).name = Place(c) /\ ArtifactOf(c).digest = op[c].call
         /\ files[Place(c)] = op[c].call
         /\ Disciplined => ~sealed /\ ~purged
<1> USE DEF IInv
<1>1. /\ op[c].kind = "evidence" /\ lock = c /\ dir = "present"
      /\ op[c].number # 0 /\ files[Place(c)] = op[c].call
  BY DEF Underway, Locked
<1>2. op[c].device \in Devices /\ DirFor(c) \in Dirs
  BY <1>1, StoreAssumption DEF OwnCalls, DirFor
<1>3. op[c].call \in 1..MaxCalls /\ op[c].number \in 1..MaxCalls
  <2>1. op[c].call \in 0..MaxCalls /\ op[c].number \in 0..MaxCalls
    BY DEF TypeOK, OpType
  <2>2. op[c].call # 0
    <3>1. op[c].call \in 1..calls
      BY <1>1, Numbers
    <3> QED
      BY <3>1
  <2> QED
    BY <1>1, <2>1, <2>2, StoreAssumption
<1>4. ArtifactOf(c) \in Artifacts
  BY <1>2, <1>3 DEF ArtifactOf, Artifacts, Names
<1>5. ArtifactOf(c).name = Place(c) /\ ArtifactOf(c).digest = op[c].call
  BY DEF ArtifactOf, Place
<1>6. Disciplined => ~sealed /\ ~purged
  BY <1>1 DEF Discipline, Writing
<1> QED
  BY <1>1, <1>2, <1>4, <1>5, <1>6

LEMMA ListStep ==
  ASSUME IInv, NEW c \in Callers, WriteListed(c)
  PROVE  IInv'
<1> USE DEF IInv
<1> DEFINE d == DirFor(c)
           e == ArtifactOf(c)
           entries == Append(listed[d], e)
           o == [op[c] EXCEPT !.step = "row", !.seen = entries]
<1>1. /\ op[c].kind = "evidence" /\ op[c].step = "list"
      /\ listed' = [listed EXCEPT ![d] = entries] /\ op' = [op EXCEPT ![c] = o]
      /\ UNCHANGED <<dir, snapshot, owner, files, results, sealed, manifest, rows, lock,
                     calls, faults, returned, purged>>
  BY DEF WriteListed, Holds
<1>2. /\ lock = c /\ dir = "present" /\ d \in Dirs /\ e \in Artifacts
      /\ e.name = Place(c) /\ e.digest = op[c].call /\ files[Place(c)] = op[c].call
      /\ Disciplined => ~sealed /\ ~purged
  BY <1>1, Stored
<1> HIDE DEF d, e
<1>3. entries \in Seq(Artifacts) /\ Range(entries) = Range(listed[d]) \cup {e}
  BY <1>2, Appended DEF TypeOK
<1> HIDE DEF entries
<1>4. /\ o \in OpType /\ o.kind = "evidence" /\ o.device = op[c].device
      /\ o.call = op[c].call /\ o.step = "row" /\ o.number = op[c].number /\ o.seen = entries
  <2>1. op[c] \in OpType
    BY DEF TypeOK
  <2> QED
    BY <1>1, <1>3, <2>1 DEF OpType
<1> HIDE DEF o
<1>5. /\ op' \in [Callers -> OpType] /\ op'[c] = o
      /\ \A x \in Callers : x # c => op'[x] = op[x] /\ op[x].step \notin Locked
      /\ OwnCalls' /\ (Disciplined => Discipline')
  BY <1>1, <1>2, <1>4, HoldStep DEF Locked
<1>6. /\ listed' \in [Dirs -> Seq(Artifacts)] /\ listed'[d] = entries
      /\ \A x \in Dirs : x # d => listed'[x] = listed[x]
  BY <1>1, <1>2, <1>3 DEF TypeOK
<1>7. AllListed' = AllListed \cup {e}
  <2>1. AllListed' = UNION {Range(listed'[x]) : x \in Dirs}
    BY DEF AllListed
  <2> QED
    BY <1>2, <1>3, <1>6, <2>1 DEF AllListed
<1>8. TypeOK'
  BY <1>1, <1>5, <1>6 DEF TypeOK
<1>9. ArtifactOf(c)' = e /\ Place(c)' = Place(c) /\ DirFor(c)' = d
  BY <1>4, <1>5 DEF ArtifactOf, Place, DirFor, e, d
<1>10. Underway'
  <2>1. op[c].number # 0
    BY <1>1 DEF Underway, Locked
  <2> QED
    BY <2>1, <1>1, <1>2, <1>3, <1>4, <1>5, <1>6, <1>9 DEF Underway
<1>11. NothingWithoutBundle' /\ ListedVerifies' /\ ReturnedIsRecorded'
  BY <1>1, <1>2, <1>7 DEF NothingWithoutBundle, ListedVerifies, ReturnedIsRecorded
<1>12. ASSUME Disciplined PROVE WritesFailClosed' /\ FreshPaths'
  BY <1>1, <1>2, <1>12 DEF WritesFailClosed, FreshPaths
<1> QED
  BY <1>5, <1>8, <1>10, <1>11, <1>12

LEMMA RowStep ==
  ASSUME IInv, NEW c \in Callers, WriteRow(c)
  PROVE  IInv'
<1> USE DEF IInv
<1> DEFINE d == DirFor(c)
           e == ArtifactOf(c)
           o == [op[c] EXCEPT !.step = "identify"]
<1>1. /\ op[c].kind = "evidence" /\ op[c].step = "row"
      /\ rows' = rows \cup {e} /\ op' = [op EXCEPT ![c] = o]
      /\ UNCHANGED <<dir, snapshot, owner, files, listed, results, sealed, manifest, lock,
                     calls, faults, returned, purged>>
  BY DEF WriteRow, Holds, Goto, bundle
<1>2. lock = c /\ e \in Artifacts
  BY <1>1, Stored
<1> HIDE DEF d, e
<1>3. /\ o \in OpType /\ o.kind = "evidence" /\ o.device = op[c].device
      /\ o.call = op[c].call /\ o.step = "identify" /\ o.number = op[c].number
      /\ o.seen = op[c].seen
  <2>1. op[c] \in OpType
    BY DEF TypeOK
  <2> QED
    BY <1>1, <2>1 DEF OpType
<1> HIDE DEF o
<1>4. /\ op' \in [Callers -> OpType] /\ op'[c] = o
      /\ \A x \in Callers : x # c => op'[x] = op[x] /\ op[x].step \notin Locked
      /\ OwnCalls' /\ (Disciplined => Discipline')
  BY <1>1, <1>2, <1>3, HoldStep DEF Locked
<1>5. TypeOK'
  BY <1>1, <1>2, <1>4 DEF TypeOK
<1>6. ArtifactOf(c)' = e /\ Place(c)' = Place(c) /\ DirFor(c)' = d
  BY <1>3, <1>4 DEF ArtifactOf, Place, DirFor, e, d
<1>7. Underway'
  <2>1. /\ dir = "present" /\ op[c].number # 0 /\ files[Place(c)] = op[c].call
        /\ op[c].seen = listed[d] /\ e \in Range(op[c].seen)
    BY <1>1 DEF Underway, Locked, d, e
  <2> QED
    BY <2>1, <1>1, <1>2, <1>3, <1>4, <1>6 DEF Underway
<1>8. AllListed' = AllListed
  BY <1>1 DEF AllListed
<1>9. NothingWithoutBundle' /\ ListedVerifies' /\ ReturnedIsRecorded'
  BY <1>1, <1>8 DEF NothingWithoutBundle, ListedVerifies, ReturnedIsRecorded
<1>10. ASSUME Disciplined PROVE WritesFailClosed' /\ FreshPaths'
  BY <1>1, <1>8, <1>10 DEF WritesFailClosed, FreshPaths
<1> QED
  BY <1>4, <1>5, <1>7, <1>9, <1>10
\* The second write of device.json writes what the first one wrote.
LEMMA IdentifyStep ==
  ASSUME IInv, NEW c \in Callers, Identify(c)
  PROVE  IInv'
<1> USE DEF IInv
<1> DEFINE d == DirFor(c)
           e == ArtifactOf(c)
<1>1. /\ op[c].kind = "evidence" /\ op[c].step = "identify" /\ Leaves(c)
      /\ listed' = [listed EXCEPT ![d] = op[c].seen] /\ returned' = returned \cup {e}
      /\ UNCHANGED <<dir, snapshot, owner, files, results, sealed, manifest, rows, calls, faults, purged>>
  BY DEF Identify, Holds, Done
<1>2. /\ lock = c /\ dir = "present" /\ d \in Dirs /\ e \in Artifacts
      /\ e.name = Place(c) /\ e.digest = op[c].call /\ files[Place(c)] = op[c].call
      /\ Disciplined => ~sealed /\ ~purged
  BY <1>1, Stored
<1>3. op[c].seen = listed[d] /\ e \in Range(listed[d]) /\ e \in rows
  BY <1>1 DEF Underway, Locked
<1> HIDE DEF d, e
<1>4. listed' = listed
  BY <1>1, <1>2, <1>3 DEF TypeOK
<1>5. AllListed' = AllListed /\ e \in AllListed
  BY <1>2, <1>3, <1>4 DEF AllListed
<1>6. /\ op' \in [Callers -> OpType] /\ op'[c] = NoOp
      /\ \A x \in Callers : x # c => op'[x] = op[x]
      /\ lock' = Nobody /\ OwnCalls' /\ Underway'
  <2>1. \A n \in Names : files'[n] \in {0, files[n]}
    BY <1>1
  <2> QED
    BY <1>1, <1>2, <2>1, LeaveStep
<1>7. TypeOK'
  BY <1>1, <1>2, <1>4, <1>6 DEF TypeOK
<1>8. NothingWithoutBundle' /\ ListedVerifies' /\ ReturnedIsRecorded'
  BY <1>1, <1>2, <1>3, <1>5 DEF NothingWithoutBundle, ListedVerifies, ReturnedIsRecorded
<1>9. ASSUME Disciplined PROVE Discipline'
  BY <1>1, <1>6, <1>9, LeaveDiscipline DEF Discipline
<1>10. ASSUME Disciplined PROVE WritesFailClosed' /\ FreshPaths'
  <2>1. \A x \in returned : files[x.name] = x.digest
    BY <1>2, <1>10 DEF ListedVerifies, ReturnedIsRecorded
  <2>2. files[e.name] = e.digest
    BY <1>2
  <2> QED
    BY <2>1, <2>2, <1>1, <1>5, <1>10 DEF WritesFailClosed, FreshPaths
<1> QED
  BY <1>6, <1>7, <1>8, <1>9, <1>10
-----------------------------------------------------------------------------
(***************************************************************************)
(* The inductive invariant, and what follows from it.                      *)
(***************************************************************************)
LEMMA InitIInv == Init => IInv
<1> SUFFICES ASSUME Init PROVE IInv
  OBVIOUS
<1>1. AllListed = {}
  BY DEF Init, AllListed, Range
<1>2. NoOp \in OpType /\ NoOp.kind = "idle" /\ NoOp.step = ""
  BY NoOpType DEF NoOp
<1>3. TypeOK
  <2>1. <<>> \in Seq(Artifacts) /\ 0 \in 0..MaxCalls /\ 0 \in 0..MaxFaults
    BY StoreAssumption
  <2> QED
    BY <1>2, <2>1 DEF Init, TypeOK
<1>4. OwnCalls
  <2>1. \A c \in Callers : op[c] = NoOp
    BY DEF Init
  <2>2. calls = 0 /\ \A n \in Names : files[n] = 0
    BY DEF Init
  <2>3. \A n \in Names : files[n] <= calls
    BY <2>2
  <2> QED
    BY <1>2, <2>1, <2>2, <2>3 DEF OwnCalls
<1>5. Underway
  BY <1>2 DEF Init, Underway, Locked
<1>6. NothingWithoutBundle /\ ListedVerifies /\ ReturnedIsRecorded
  BY <1>1 DEF Init, NothingWithoutBundle, ListedVerifies, ReturnedIsRecorded
<1>7. Discipline /\ WritesFailClosed /\ FreshPaths
  BY <1>1, <1>2 DEF Init, Discipline, WritesFailClosed, FreshPaths, Closing, Writing
<1> QED
  BY <1>3, <1>4, <1>5, <1>6, <1>7 DEF IInv

LEMMA NextIInv == IInv /\ [Next]_vars => IInv'
<1> SUFFICES ASSUME IInv, [Next]_vars PROVE IInv'
  OBVIOUS
<1>1. CASE UNCHANGED vars
  <2> USE <1>1 DEF vars, bundle
  <2>1. TypeOK' = TypeOK /\ OwnCalls' = OwnCalls
    BY DEF TypeOK, OwnCalls
  <2>2. Underway' = Underway
    BY DEF Underway, Place, DirFor, ArtifactOf
  <2>3. AllListed' = AllListed
    BY DEF AllListed
  <2>4. NothingWithoutBundle' = NothingWithoutBundle /\ ListedVerifies' = ListedVerifies
    BY <2>3 DEF NothingWithoutBundle, ListedVerifies
  <2>5. ReturnedIsRecorded' = ReturnedIsRecorded /\ Discipline' = Discipline
    BY <2>3 DEF ReturnedIsRecorded, Discipline, Alone, Idle
  <2>6. WritesFailClosed' = WritesFailClosed /\ FreshPaths' = FreshPaths
    BY <2>3 DEF WritesFailClosed, FreshPaths
  <2> QED
    BY <2>1, <2>2, <2>4, <2>5, <2>6 DEF IInv
<1>2. ASSUME NEW c \in Callers, CreateRun(c) PROVE IInv'
  BY <1>2, CreateStep
<1>3. ASSUME NEW c \in Callers, Operation(c) PROVE IInv'
  BY <1>3, SnapshotStep, PrepareStep, ResultsStep, FinalizeStep, PurgeStep, DeleteStep,
     OpenStep, FileStep, ListStep, RowStep, IdentifyStep DEF Operation, WriteEvidence
<1>4. ASSUME NEW c \in Callers, Fault(c) PROVE IInv'
  BY <1>4, FaultStep
<1>5. ASSUME NEW c \in Callers, NEW kind \in Writing \cup Closing, NEW d \in Devices,
             Call(c, kind, d)
      PROVE  IInv'
  BY <1>5, CallStep
<1> QED
  BY <1>1, <1>2, <1>3, <1>4, <1>5 DEF Next, Quiet

\* What the store's operations rely on, on disk and in their own state, holds
\* of every run, whatever its callers do and wherever a write fails.
THEOREM StoreInvariant == Spec => []IInv
<1> QED
  BY InitIInv, NextIInv, PTL DEF Spec

\* Every variable keeps its type: there is a free number whenever an output is
\* stored, and every recorded digest is that of an output.
THEOREM StoreTypes == Spec => []TypeOK
<1>1. IInv => TypeOK
  BY DEF IInv
<1> QED
  BY <1>1, StoreInvariant, PTL

\* Whatever the callers do, what a reader finds listed verifies, and what
\* write_evidence returned is listed and has its row.
THEOREM EvidenceKept == Spec => [](ListedVerifies /\ ReturnedIsRecorded)
<1>1. IInv => ListedVerifies /\ ReturnedIsRecorded
  BY DEF IInv
<1> QED
  BY <1>1, StoreInvariant, PTL

\* When callers finalize, purge and delete alone, the whole bundle can be
\* trusted: the manifest covers it, and no artifact overwrites another.
THEOREM BundleTrusted == Spec => [](Disciplined => BundleVerifies)
<1>1. IInv => (Disciplined => BundleVerifies)
  BY DEF IInv, BundleVerifies
<1> QED
  BY <1>1, StoreInvariant, PTL

\* A step of the discipline leaves a sealed bundle as it is.
LEMMA SealedStep ==
  ASSUME Disciplined, IInv, [Next]_vars, sealed
  PROVE  Frozen \/ UNCHANGED vars
<1>1. dir = "present" /\ \A x \in Callers : op[x].kind \notin Writing
  BY DEF IInv, NothingWithoutBundle, Discipline
<1>2. files \in [Names -> 0..MaxCalls]
  BY DEF IInv, TypeOK
<1>3. ASSUME NEW c \in Callers, CreateRun(c) PROVE Frozen
  BY <1>1, <1>3 DEF CreateRun
<1>4. ASSUME NEW c \in Callers, Operation(c) PROVE Frozen
  <2>1. CASE FinalizeRun(c)
    BY <2>1, <1>1 DEF FinalizeRun, Reachable, Frozen
  <2>2. CASE Purge(c)
    BY <2>2 DEF Purge, Frozen
  <2>3. CASE DeleteRun(c)
    BY <2>3 DEF DeleteRun, Frozen
  <2>4. CASE WriteSnapshot(c) \/ PrepareDevice(c) \/ WriteResults(c) \/ WriteEvidence(c)
    BY <2>4, <1>1 DEF WriteSnapshot, PrepareDevice, WriteResults, WriteEvidence, OpenDevice,
                      WriteFile, WriteListed, WriteRow, Identify, Enters, Holds, Writing
  <2> QED
    BY <1>4, <2>1, <2>2, <2>3, <2>4 DEF Operation
<1>5. ASSUME NEW c \in Callers, Fault(c) PROVE Frozen
  BY <1>5 DEF Fault, Frozen, bundle
<1>6. ASSUME NEW c \in Callers, NEW kind \in Writing \cup Closing, NEW d \in Devices,
             Call(c, kind, d)
      PROVE  Frozen
  BY <1>6 DEF Call, Frozen, bundle
<1> QED
  BY <1>3, <1>4, <1>5, <1>6 DEF Next, Quiet

\* When callers keep the discipline a sealed bundle stays as it is, but for the
\* purge of raw evidence, until it is deleted.
THEOREM SealKept == ASSUME Disciplined PROVE Spec => SealedForGood
<1>1. IInv /\ [Next]_vars => [sealed => Frozen]_vars
  BY SealedStep
<1> QED
  BY <1>1, StoreInvariant, PTL DEF Spec, SealedForGood
=============================================================================
