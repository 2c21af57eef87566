---------------------------- MODULE GuiTabsProofs ----------------------------
(***************************************************************************)
(* Proofs about two tabs of the window, which share no state:              *)
(*                                                                         *)
(*  - the Audit Run tab (AuditSetup): the table that an audit reads is the *)
(*    one the operator set up, and an audit that starts is the one that    *)
(*    was asked for and that the license allows, for tables of any size,   *)
(*    any clock and any number of audits;                                  *)
(*  - the Evidence page (EvidenceView): it shows     *)
(*    what is selected, for any lists of artifacts and any number of       *)
(*    commands, readers and answers.                                       *)
(***************************************************************************)
EXTENDS AuditSetup, EvidenceView, FiniteSetTheorems, WellFoundedInduction, TLAPS

(***************************************************************************)
(* The Audit Run tab: its inductive invariant.                             *)
(***************************************************************************)
Overrides == {"", "site"}
Target    == [ip : Addresses, checked : BOOLEAN, profile : Overrides]
Shown     == [checked : BOOLEAN, profile : Overrides]
Devices   == {"a", "b"}
Kinds     == {"none", "checked", "selected", "all", "checklist", "retry"}

\* The table, its widgets and its selection.
TableInv ==
  /\ targets \in Seq(Target) /\ rows \in Seq(Shown) /\ wanted \in Seq(Target)
  /\ Len(rows) = Len(targets) /\ Len(wanted) = Len(targets) /\ Len(targets) <= MaxTargets
  /\ selected \in 0..Len(targets) /\ (targets # <<>> => selected > 0)
  /\ disturbed \in BOOLEAN

\* What a license that cannot be trusted grants.
Distrusted(l) ==
  l.status \in {"FREE", "MISSING", "INVALID"} => l = [Untrusted EXCEPT !.status = l.status]

\* The license, the profiles and the audit that started last.
SettingInv ==
  /\ clock \in Nat /\ file \in Licenses \cup {NoFile} /\ Distrusted(licence)
  /\ active \in Profiles /\ profile \in Profiles /\ busy \in BOOLEAN
  /\ scan \in [kind : Kinds, targets : UNION {[D -> Overrides] : D \in SUBSET Devices},
               families : SUBSET Families, profile : Profiles, failed : SUBSET Devices]

IInv == TableInv /\ RowsAsSet /\ SettingInv
-----------------------------------------------------------------------------
(***************************************************************************)
(* Sequences.                                                              *)
(***************************************************************************)
LEMMA Same ==
  ASSUME NEW S, NEW a \in Seq(S), NEW b \in Seq(S), Len(a) = Len(b),
         \A k \in 1..Len(a) : a[k] = b[k]
  PROVE  a = b
  OBVIOUS

\* A function on 1..n with values in S is a sequence of length n.
LEMMA Mapped ==
  ASSUME NEW S, NEW n \in Nat, NEW f, f = [k \in 1..n |-> f[k]], \A k \in 1..n : f[k] \in S
  PROVE  f \in Seq(S) /\ Len(f) = n /\ DOMAIN f = 1..n
<1>1. f \in [1..n -> S]
  OBVIOUS
<1> QED
  BY <1>1

\* Append, entry by entry.
LEMMA Appended ==
  ASSUME NEW S, NEW s \in Seq(S), NEW e \in S
  PROVE  /\ Append(s, e) \in Seq(S) /\ Len(Append(s, e)) = Len(s) + 1 /\ Append(s, e)[Len(s) + 1] = e
         /\ \A k \in 1..Len(s) : Append(s, e)[k] = s[k]
  OBVIOUS

\* A concatenation, entry by entry.
LEMMA Joined ==
  ASSUME NEW S, NEW a \in Seq(S), NEW b \in Seq(S)
  PROVE  /\ a \o b \in Seq(S) /\ Len(a \o b) = Len(a) + Len(b)
         /\ \A j \in 1..(Len(a) + Len(b)) : (a \o b)[j] = IF j <= Len(a) THEN a[j] ELSE b[j - Len(a)]
  OBVIOUS

\* RemoveAt, entry by entry.
LEMMA Removed ==
  ASSUME NEW S, NEW s \in Seq(S), NEW k \in 1..Len(s)
  PROVE  /\ RemoveAt(s, k) \in Seq(S) /\ Len(RemoveAt(s, k)) = Len(s) - 1
         /\ \A j \in 1..(Len(s) - 1) : RemoveAt(s, k)[j] = IF j < k THEN s[j] ELSE s[j + 1]
<1> DEFINE a == SubSeq(s, 1, k - 1)
           b == SubSeq(s, k + 1, Len(s))
<1>1. Len(s) \in Nat /\ k \in Nat /\ 1 <= k /\ k <= Len(s)
  OBVIOUS
<1>2. a \in Seq(S) /\ Len(a) = k - 1 /\ \A j \in 1..(k - 1) : a[j] = s[j]
  BY <1>1
<1>3. b \in Seq(S) /\ Len(b) = Len(s) - k /\ \A j \in 1..(Len(s) - k) : b[j] = s[k + j]
  BY <1>1
<1> HIDE DEF a, b
<1>4. /\ a \o b \in Seq(S) /\ Len(a \o b) = Len(a) + Len(b)
      /\ \A j \in 1..(Len(a) + Len(b)) : (a \o b)[j] = IF j <= Len(a) THEN a[j] ELSE b[j - Len(a)]
  BY <1>2, <1>3, Joined
<1>5. Len(a) + Len(b) = Len(s) - 1
  BY <1>1, <1>2, <1>3
<1>6. ASSUME NEW j \in 1..(Len(s) - 1)
      PROVE  (a \o b)[j] = IF j < k THEN s[j] ELSE s[j + 1]
  <2>1. CASE j < k
    BY <1>1, <1>2, <1>4, <1>5, <2>1
  <2>2. CASE ~(j < k)
    <3>1. j - Len(a) \in 1..(Len(s) - k) /\ k + (j - Len(a)) = j + 1 /\ ~(j <= Len(a))
      BY <1>1, <1>2, <2>2
    <3> QED BY <1>3, <1>4, <1>5, <2>2, <3>1
  <2> QED BY <2>1, <2>2
<1>7. RemoveAt(s, k) = a \o b
  BY DEF RemoveAt, a, b
<1> QED BY <1>4, <1>5, <1>6, <1>7

\* A finite set, as a sequence.
LEMMA Listed ==
  ASSUME NEW S, IsFiniteSet(S)
  PROVE  Cardinality(S) \in Nat /\ SetToSeq(S) \in [1..Cardinality(S) -> S]
<1>1. Cardinality(S) \in Nat /\ ExistsBijection(1..Cardinality(S), S)
  BY FS_CardinalityType
<1>2. PICK f : f \in Bijection(1..Cardinality(S), S)
  BY <1>1 DEF ExistsBijection
<1>3. f \in [1..Cardinality(S) -> S] /\ IsInjective(f)
  BY <1>2 DEF Bijection, Injection
<1> QED
  BY <1>1, <1>3 DEF SetToSeq

\* Some set of row numbers has a first one.
LEMMA FirstOf ==
  ASSUME NEW T, T \subseteq Nat, T # {}
  PROVE  \E x \in T : \A y \in T : x <= y
<1>1. \E x \in T : \A y \in T : ~(<<y, x>> \in OpToRel(<, Nat))
  BY NatLessThanWellFounded, WFMin
<1>2. \A x, y \in Nat : ~(<<y, x>> \in OpToRel(<, Nat)) => x <= y
  BY DEF OpToRel
<1> QED
  BY <1>1, <1>2
-----------------------------------------------------------------------------
(***************************************************************************)
(* Records and widgets.                                                    *)
(***************************************************************************)
\* Synchronising changes boxes and profiles only, and only where there is a widget.
LEMMA Synced ==
  ASSUME NEW ts \in Seq(Target), NEW rs \in Seq(Shown)
  PROVE  /\ Sync(ts, rs) \in Seq(Target) /\ Len(Sync(ts, rs)) = Len(ts)
         /\ \A k \in 1..Len(ts) :
              /\ k <= Len(rs) => Sync(ts, rs)[k] = [ip |-> ts[k].ip, checked |-> rs[k].checked, profile |-> rs[k].profile]
              /\ k > Len(rs) => Sync(ts, rs)[k] = ts[k]
<1> DEFINE S == Sync(ts, rs)
<1>1. DOMAIN ts = 1..Len(ts) /\ DOMAIN rs = 1..Len(rs) /\ Len(ts) \in Nat /\ Len(rs) \in Nat
  OBVIOUS
<1>2. /\ S = [k \in 1..Len(ts) |-> S[k]]
      /\ \A k \in 1..Len(ts) :
           S[k] = IF k \in 1..Len(rs) THEN [ip |-> ts[k].ip, checked |-> rs[k].checked, profile |-> rs[k].profile]
                  ELSE ts[k]
  BY <1>1 DEF Sync
<1>3. \A k \in 1..Len(ts) : ts[k] \in Target
  BY <1>1
<1>4. \A k \in 1..Len(rs) : rs[k] \in Shown
  BY <1>1
<1> HIDE DEF S
<1>5. ASSUME NEW k \in 1..Len(ts) PROVE S[k] \in Target
  BY <1>2, <1>3, <1>4 DEF Target, Shown
<1>6. S \in Seq(Target) /\ Len(S) = Len(ts)
  BY <1>1, <1>2, <1>5, Mapped
<1>7. ASSUME NEW k \in 1..Len(ts)
      PROVE  /\ k <= Len(rs) => S[k] = [ip |-> ts[k].ip, checked |-> rs[k].checked, profile |-> rs[k].profile]
             /\ k > Len(rs) => S[k] = ts[k]
  BY <1>1, <1>2
<1> QED
  BY <1>6, <1>7 DEF S

\* The rows written for a list of targets are the targets' own fields, in order.
LEMMA ShownRows ==
  ASSUME NEW ts \in Seq(Target)
  PROVE  /\ Shows(ts) \in Seq(Shown) /\ Len(Shows(ts)) = Len(ts)
         /\ \A k \in 1..Len(ts) : Shows(ts)[k] = Row(ts[k])
<1> DEFINE S == Shows(ts)
<1>1. DOMAIN ts = 1..Len(ts) /\ Len(ts) \in Nat
  OBVIOUS
<1>2. S = [k \in 1..Len(ts) |-> S[k]] /\ \A k \in 1..Len(ts) : S[k] = Row(ts[k])
  BY <1>1 DEF Shows
<1>3. ASSUME NEW k \in 1..Len(ts) PROVE Row(ts[k]) \in Shown
  <2>1. ts[k] \in Target
    OBVIOUS
  <2> QED BY <2>1 DEF Row, Target, Shown
<1> HIDE DEF S
<1>4. S \in Seq(Shown) /\ Len(S) = Len(ts)
  BY <1>1, <1>2, <1>3, Mapped
<1> QED
  BY <1>2, <1>4 DEF S

\* Records are told apart by their fields.
LEMMA Fields ==
  ASSUME NEW t \in Target
  PROVE  /\ t = [ip |-> t.ip, checked |-> t.checked, profile |-> t.profile]
         /\ t.ip \in Addresses /\ t.checked \in BOOLEAN /\ t.profile \in Overrides
         /\ Row(t).checked = t.checked /\ Row(t).profile = t.profile
  BY DEF Target, Row

\* Widgets that show the records leave them as they are.
LEMMA SyncShown ==
  ASSUME NEW ts \in Seq(Target)
  PROVE  Sync(ts, Shows(ts)) = ts
<1>1. Shows(ts) \in Seq(Shown) /\ Len(Shows(ts)) = Len(ts) /\ \A k \in 1..Len(ts) : Shows(ts)[k] = Row(ts[k])
  BY ShownRows
<1>2. /\ Sync(ts, Shows(ts)) \in Seq(Target) /\ Len(Sync(ts, Shows(ts))) = Len(ts)
      /\ \A k \in 1..Len(ts) : k <= Len(Shows(ts)) =>
           Sync(ts, Shows(ts))[k] = [ip |-> ts[k].ip, checked |-> Shows(ts)[k].checked, profile |-> Shows(ts)[k].profile]
  BY <1>1, Synced
<1>3. ASSUME NEW k \in 1..Len(ts) PROVE Sync(ts, Shows(ts))[k] = ts[k]
  <2>1. ts[k] \in Target
    OBVIOUS
  <2> QED BY <1>1, <1>2, <2>1, Fields
<1> QED
  BY <1>2, <1>3, Same

\* Synchronising twice is synchronising once.
LEMMA SyncTwice ==
  ASSUME NEW ts \in Seq(Target), NEW rs \in Seq(Shown)
  PROVE  Sync(Sync(ts, rs), rs) = Sync(ts, rs)
<1> DEFINE S == Sync(ts, rs)
           T == Sync(S, rs)
<1>1. /\ S \in Seq(Target) /\ Len(S) = Len(ts)
      /\ \A k \in 1..Len(ts) :
           k <= Len(rs) => S[k] = [ip |-> ts[k].ip, checked |-> rs[k].checked, profile |-> rs[k].profile]
  BY Synced
<1> HIDE DEF S
<1>2. /\ T \in Seq(Target) /\ Len(T) = Len(S)
      /\ \A k \in 1..Len(S) :
           /\ k <= Len(rs) => T[k] = [ip |-> S[k].ip, checked |-> rs[k].checked, profile |-> rs[k].profile]
           /\ k > Len(rs) => T[k] = S[k]
  BY <1>1, Synced
<1> HIDE DEF T
<1>3. ASSUME NEW k \in 1..Len(S) PROVE T[k] = S[k]
  <2>1. CASE k <= Len(rs)
    <3>1. S[k] = [ip |-> ts[k].ip, checked |-> rs[k].checked, profile |-> rs[k].profile]
      BY <1>1, <2>1
    <3>2. S[k].ip = ts[k].ip
      BY <3>1
    <3> QED BY <1>2, <2>1, <3>1, <3>2
  <2>2. CASE ~(k <= Len(rs))
    <3>1. k > Len(rs)
      BY <2>2
    <3> QED BY <1>2, <3>1
  <2> QED BY <2>1, <2>2
<1> QED
  BY <1>1, <1>2, <1>3, Same DEF S, T

\* The new row is the last one.
LEMMA SyncAppended ==
  ASSUME NEW ts \in Seq(Target), NEW rs \in Seq(Shown), Len(rs) = Len(ts), NEW t \in Target
  PROVE  Sync(Append(ts, t), rs) = Append(Sync(ts, rs), t)
<1> DEFINE A == Append(ts, t)
           S == Sync(ts, rs)
           L == Sync(A, rs)
           R == Append(S, t)
<1>1. A \in Seq(Target) /\ Len(A) = Len(ts) + 1 /\ A[Len(ts) + 1] = t /\ \A k \in 1..Len(ts) : A[k] = ts[k]
  BY Appended
<1>2. /\ S \in Seq(Target) /\ Len(S) = Len(ts)
      /\ \A k \in 1..Len(ts) :
           k <= Len(rs) => S[k] = [ip |-> ts[k].ip, checked |-> rs[k].checked, profile |-> rs[k].profile]
  BY Synced
<1> HIDE DEF A, S
<1>3. /\ L \in Seq(Target) /\ Len(L) = Len(A)
      /\ \A k \in 1..Len(A) :
           /\ k <= Len(rs) => L[k] = [ip |-> A[k].ip, checked |-> rs[k].checked, profile |-> rs[k].profile]
           /\ k > Len(rs) => L[k] = A[k]
  BY <1>1, Synced
<1>4. R \in Seq(Target) /\ Len(R) = Len(S) + 1 /\ R[Len(S) + 1] = t /\ \A k \in 1..Len(S) : R[k] = S[k]
  BY <1>2, Appended
<1> HIDE DEF L, R
<1>5. Len(ts) \in Nat
  OBVIOUS
<1>6. ASSUME NEW k \in 1..Len(L) PROVE L[k] = R[k]
  <2>1. CASE k \in 1..Len(ts)
    <3>1. k <= Len(rs) /\ k \in 1..Len(A) /\ k \in 1..Len(S)
      BY <1>1, <1>2, <1>5, <2>1
    <3>2. L[k] = [ip |-> ts[k].ip, checked |-> rs[k].checked, profile |-> rs[k].profile]
      BY <1>1, <1>3, <2>1, <3>1
    <3> QED BY <1>2, <1>4, <2>1, <3>1, <3>2
  <2>2. CASE k = Len(ts) + 1
    BY <1>1, <1>2, <1>3, <1>4, <1>5, <2>2
  <2> QED BY <1>1, <1>3, <1>5, <2>1, <2>2
<1>7. Len(L) = Len(R)
  BY <1>1, <1>2, <1>3, <1>4
<1>8. L = R
  BY <1>3, <1>4, <1>6, <1>7, Same
<1> QED
  BY <1>8 DEF A, S, L, R

\* Nothing moves when the last row goes.
LEMMA SyncRemovedLast ==
  ASSUME NEW ts \in Seq(Target), NEW rs \in Seq(Shown), Len(rs) = Len(ts), NEW n, n = Len(ts), n > 0
  PROVE  Sync(RemoveAt(ts, n), rs) = RemoveAt(Sync(ts, rs), n)
<1> DEFINE A == RemoveAt(ts, n)
           S == Sync(ts, rs)
           L == Sync(A, rs)
           R == RemoveAt(S, n)
<1>0. n \in Nat /\ n \in 1..Len(ts)
  OBVIOUS
<1>1. A \in Seq(Target) /\ Len(A) = n - 1 /\ \A k \in 1..(n - 1) : A[k] = IF k < n THEN ts[k] ELSE ts[k + 1]
  BY <1>0, Removed
<1>2. /\ S \in Seq(Target) /\ Len(S) = n
      /\ \A k \in 1..Len(ts) :
           k <= Len(rs) => S[k] = [ip |-> ts[k].ip, checked |-> rs[k].checked, profile |-> rs[k].profile]
  BY Synced
<1> HIDE DEF A, S
<1>3. /\ L \in Seq(Target) /\ Len(L) = Len(A)
      /\ \A k \in 1..Len(A) :
           k <= Len(rs) => L[k] = [ip |-> A[k].ip, checked |-> rs[k].checked, profile |-> rs[k].profile]
  BY <1>1, Synced
<1>4. R \in Seq(Target) /\ Len(R) = n - 1 /\ \A k \in 1..(n - 1) : R[k] = IF k < n THEN S[k] ELSE S[k + 1]
  BY <1>0, <1>2, Removed
<1> HIDE DEF L, R
<1>5. ASSUME NEW k \in 1..Len(L) PROVE L[k] = R[k]
  <2>1. k \in 1..(n - 1) /\ k < n /\ k \in 1..Len(ts) /\ k <= Len(rs)
    BY <1>0, <1>1, <1>3
  <2> QED BY <1>1, <1>2, <1>3, <1>4, <2>1
<1>6. L = R
  BY <1>1, <1>3, <1>4, <1>5, Same
<1> QED
  BY <1>6 DEF A, S, L, R

\* New widgets give the records that have their boxes and profiles.
LEMMA SyncRewritten ==
  ASSUME NEW ts \in Seq(Target), NEW rs \in Seq(Shown), NEW new \in Seq(Shown), NEW ws \in Seq(Target),
         Len(rs) = Len(ts), Len(new) = Len(ts), Len(ws) = Len(ts),
         \A k \in 1..Len(ts) :
           ws[k] = [ip |-> Sync(ts, rs)[k].ip, checked |-> new[k].checked, profile |-> new[k].profile]
  PROVE  Sync(ts, new) = ws
<1> DEFINE S == Sync(ts, rs)
           N == Sync(ts, new)
<1>1. \A k \in 1..Len(ts) :
        k <= Len(rs) => S[k] = [ip |-> ts[k].ip, checked |-> rs[k].checked, profile |-> rs[k].profile]
  BY Synced
<1>2. /\ N \in Seq(Target) /\ Len(N) = Len(ts)
      /\ \A k \in 1..Len(ts) :
           k <= Len(new) => N[k] = [ip |-> ts[k].ip, checked |-> new[k].checked, profile |-> new[k].profile]
  BY Synced
<1>3. \A k \in 1..Len(ts) : ws[k] = [ip |-> S[k].ip, checked |-> new[k].checked, profile |-> new[k].profile]
  OBVIOUS
<1> HIDE DEF S, N
<1>4. ASSUME NEW k \in 1..Len(ts) PROVE N[k] = ws[k]
  <2>1. k <= Len(rs) /\ k <= Len(new)
    OBVIOUS
  <2>2. S[k] = [ip |-> ts[k].ip, checked |-> rs[k].checked, profile |-> rs[k].profile]
    BY <1>1, <2>1
  <2>3. S[k].ip = ts[k].ip
    BY <2>2
  <2> QED BY <1>2, <1>3, <2>1, <2>3
<1>5. N = ws
  BY <1>2, <1>4, Same
<1> QED
  BY <1>5 DEF N

\* After a rendering the rows show the targets, so reading the table back changes nothing.
LEMMA Rendered ==
  ASSUME rows \in Seq(Shown), NEW ts \in Seq(Target), NEW sync \in BOOLEAN, Render(ts, sync)
  PROVE  /\ targets' = IF sync THEN Sync(ts, rows) ELSE ts
         /\ targets' \in Seq(Target) /\ Len(targets') = Len(ts)
         /\ rows' \in Seq(Shown) /\ Len(rows') = Len(ts)
         /\ Sync(targets', rows') = targets'
<1>1. targets' = (IF sync THEN Sync(ts, rows) ELSE ts) /\ rows' = Shows(targets')
  BY DEF Render
<1>2. targets' \in Seq(Target) /\ Len(targets') = Len(ts)
  BY <1>1, Synced
<1> QED
  BY <1>1, <1>2, ShownRows, SyncShown
-----------------------------------------------------------------------------
(***************************************************************************)
(* The actions on the table.                                               *)
(***************************************************************************)
LEMMA Defaults ==
  ASSUME NEW ip \in Addresses
  PROVE  Default(ip) \in Target
  BY DEF Default, Target, Overrides

\* The three lists of the table are indexed alike.
LEMMA Rows ==
  ASSUME TableInv
  PROVE  /\ DOMAIN targets = 1..Len(targets) /\ DOMAIN rows = 1..Len(targets) /\ DOMAIN wanted = 1..Len(targets)
         /\ Len(targets) \in Nat
         /\ \A k \in 1..Len(targets) : targets[k] \in Target /\ rows[k] \in Shown /\ wanted[k] \in Target
         /\ targets = <<>> <=> Len(targets) = 0
<1>1. targets \in Seq(Target) /\ rows \in Seq(Shown) /\ wanted \in Seq(Target)
      /\ Len(rows) = Len(targets) /\ Len(wanted) = Len(targets)
  BY DEF TableInv
<1> QED
  BY <1>1

\* A list loaded in place of the table keeps the invariant, and the rows are as set.
LEMMA ReplacedStep ==
  ASSUME TableInv, NEW ts \in Seq(Target), Len(ts) <= MaxTargets, Replaced(ts)
  PROVE  TableInv' /\ RowsAsSet'
<1>1. Render(ts, FALSE) /\ wanted' = ts /\ disturbed' = FALSE /\ selected' = IF ts = <<>> THEN 0 ELSE 1
  BY DEF Replaced, RenderNew
<1>2. rows \in Seq(Shown)
  BY DEF TableInv
<1>3. /\ targets' = ts /\ rows' \in Seq(Shown) /\ Len(rows') = Len(ts) /\ Sync(targets', rows') = targets'
  BY <1>1, <1>2, Rendered
<1>4. Len(ts) \in Nat /\ (ts # <<>> => Len(ts) >= 1)
  OBVIOUS
<1>5. selected' \in 0..Len(ts) /\ (ts # <<>> => selected' > 0)
  BY <1>1, <1>4
<1> QED
  BY <1>1, <1>3, <1>5 DEF TableInv, RowsAsSet

\* Adding a target keeps the rows above it.
LEMMA AddTargetStep ==
  ASSUME TableInv, RowsAsSet, AddTarget
  PROVE  TableInv' /\ RowsAsSet'
<1>1. PICK ip \in {"a", "b"} :
        /\ Len(targets) < MaxTargets /\ Render(Append(targets, Default(ip)), TRUE)
        /\ wanted' = Append(wanted, Default(ip))
  BY DEF AddTarget
<1>2. selected' = (IF selected = 0 THEN 1 ELSE selected) /\ disturbed' = disturbed
  BY DEF AddTarget
<1> DEFINE d == Default(ip)
<1>3. d \in Target
  BY Defaults DEF Addresses
<1> HIDE DEF d
<1>4. /\ targets \in Seq(Target) /\ rows \in Seq(Shown) /\ wanted \in Seq(Target)
      /\ Len(rows) = Len(targets) /\ Len(wanted) = Len(targets) /\ Len(targets) \in Nat
      /\ selected \in 0..Len(targets) /\ disturbed \in BOOLEAN
  BY DEF TableInv
<1>5. Append(targets, d) \in Seq(Target) /\ Len(Append(targets, d)) = Len(targets) + 1
  BY <1>3, <1>4, Appended
<1>6. /\ targets' = Sync(Append(targets, d), rows)
      /\ targets' \in Seq(Target) /\ Len(targets') = Len(targets) + 1
      /\ rows' \in Seq(Shown) /\ Len(rows') = Len(targets) + 1
      /\ Sync(targets', rows') = targets'
  BY <1>1, <1>4, <1>5, Rendered DEF d
<1>7. wanted' \in Seq(Target) /\ Len(wanted') = Len(targets) + 1
  BY <1>1, <1>3, <1>4, Appended DEF d
<1>8. targets' = Append(Sync(targets, rows), d)
  BY <1>3, <1>4, <1>6, SyncAppended
<1>9. RowsAsSet'
  BY <1>1, <1>2, <1>6, <1>8 DEF RowsAsSet, d
<1>10. selected' \in 0..(Len(targets) + 1) /\ selected' > 0 /\ Len(targets) + 1 <= MaxTargets
  BY <1>1, <1>2, <1>4, SetupAssumption
<1>11. TableInv'
  BY <1>2, <1>4, <1>6, <1>7, <1>10 DEF TableInv
<1> QED
  BY <1>9, <1>11

\* A row that is not disturbed is as the operator set it: the record's address,
\* the widget's box and profile.
LEMMA AsSet ==
  ASSUME TableInv, RowsAsSet, ~disturbed
  PROVE  /\ Sync(targets, rows) = wanted
         /\ \A k \in 1..Len(targets) : wanted[k].checked = rows[k].checked /\ wanted[k].profile = rows[k].profile
<1>1. /\ targets \in Seq(Target) /\ rows \in Seq(Shown) /\ Len(rows) = Len(targets)
  BY DEF TableInv
<1>2. Sync(targets, rows) = wanted
  BY DEF RowsAsSet
<1>3. ASSUME NEW k \in 1..Len(targets)
      PROVE  wanted[k].checked = rows[k].checked /\ wanted[k].profile = rows[k].profile
  <2>1. k <= Len(rows)
    BY <1>1
  <2>2. wanted[k] = [ip |-> targets[k].ip, checked |-> rows[k].checked, profile |-> rows[k].profile]
    BY <1>1, <1>2, <2>1, Synced
  <2> QED BY <2>2
<1> QED
  BY <1>2, <1>3

\* New widgets that the operator's rows agree with.
LEMMA WidgetStep ==
  ASSUME TableInv, RowsAsSet,
         rows' \in Seq(Shown), Len(rows') = Len(targets),
         wanted' \in Seq(Target), Len(wanted') = Len(targets),
         targets' = targets \/ targets' = Sync(targets, rows'),
         UNCHANGED <<selected, disturbed>>,
         \A k \in 1..Len(targets) :
           wanted[k].checked = rows[k].checked /\ wanted[k].profile = rows[k].profile =>
             wanted'[k] = [ip |-> wanted[k].ip, checked |-> rows'[k].checked, profile |-> rows'[k].profile]
  PROVE  TableInv' /\ RowsAsSet'
<1>1. /\ targets \in Seq(Target) /\ rows \in Seq(Shown) /\ Len(rows) = Len(targets)
      /\ selected \in 0..Len(targets) /\ (targets # <<>> => selected > 0) /\ disturbed \in BOOLEAN
      /\ Len(targets) <= MaxTargets
  BY DEF TableInv
<1>2. targets' \in Seq(Target) /\ Len(targets') = Len(targets)
  BY <1>1, Synced
<1>3. Sync(targets', rows') = Sync(targets, rows')
  BY <1>1, SyncTwice
<1>4. targets' # <<>> => targets # <<>>
  BY <1>1, <1>2
<1>5. TableInv'
  BY <1>1, <1>2, <1>4 DEF TableInv
<1>6. ASSUME ~disturbed PROVE Sync(targets, rows') = wanted'
  <2>1. Sync(targets, rows) = wanted
    BY <1>6, AsSet
  <2>2. \A k \in 1..Len(targets) :
          wanted'[k] = [ip |-> Sync(targets, rows)[k].ip, checked |-> rows'[k].checked, profile |-> rows'[k].profile]
    BY <1>6, AsSet
  <2> QED BY <1>1, <2>2, SyncRewritten
<1>7. RowsAsSet'
  BY <1>3, <1>6 DEF RowsAsSet
<1> QED
  BY <1>5, <1>7

\* EXCEPT on a sequence, entry by entry.
LEMMA Updated ==
  ASSUME NEW S, NEW s \in Seq(S), NEW k \in 1..Len(s), NEW e \in S, NEW u, u = [s EXCEPT ![k] = e]
  PROVE  u \in Seq(S) /\ Len(u) = Len(s) /\ u[k] = e /\ \A j \in 1..Len(s) : j # k => u[j] = s[j]
  OBVIOUS

\* A checkbox changes its row and the target last set for it alike.
LEMMA ToggleRowStep ==
  ASSUME TableInv, RowsAsSet, ToggleRow
  PROVE  TableInv' /\ RowsAsSet'
<1>1. PICK k \in DOMAIN rows :
        /\ rows' = [rows EXCEPT ![k].checked = ~@] /\ targets' = Sync(targets, rows')
        /\ wanted' = [wanted EXCEPT ![k].checked = rows'[k].checked]
  BY DEF ToggleRow
<1>2. UNCHANGED <<selected, disturbed>>
  BY DEF ToggleRow
<1>3. /\ rows \in Seq(Shown) /\ wanted \in Seq(Target) /\ Len(rows) = Len(targets) /\ Len(wanted) = Len(targets)
  BY DEF TableInv
<1>4. k \in 1..Len(targets) /\ rows[k] \in Shown /\ wanted[k] \in Target
  BY <1>1, Rows
<1>5. PICK r : r = [rows[k] EXCEPT !.checked = ~@]
  OBVIOUS
<1>6. r \in Shown /\ r.checked = ~rows[k].checked /\ r.profile = rows[k].profile
  BY <1>4, <1>5 DEF Shown
<1>7. rows' = [rows EXCEPT ![k] = r]
  BY <1>1, <1>5
<1>8. rows' \in Seq(Shown) /\ Len(rows') = Len(targets) /\ rows'[k] = r
      /\ \A j \in 1..Len(targets) : j # k => rows'[j] = rows[j]
  BY <1>3, <1>4, <1>6, <1>7, Updated
<1>9. PICK w : w = [wanted[k] EXCEPT !.checked = r.checked]
  OBVIOUS
<1>10. w \in Target /\ w = [ip |-> wanted[k].ip, checked |-> r.checked, profile |-> wanted[k].profile]
  BY <1>4, <1>6, <1>9 DEF Target, Shown
<1>11. wanted' = [wanted EXCEPT ![k] = w]
  BY <1>1, <1>8, <1>9
<1>12. wanted' \in Seq(Target) /\ Len(wanted') = Len(targets) /\ wanted'[k] = w
       /\ \A j \in 1..Len(targets) : j # k => wanted'[j] = wanted[j]
  BY <1>3, <1>4, <1>10, <1>11, Updated
<1>13. ASSUME NEW j \in 1..Len(targets), wanted[j].checked = rows[j].checked, wanted[j].profile = rows[j].profile
       PROVE  wanted'[j] = [ip |-> wanted[j].ip, checked |-> rows'[j].checked, profile |-> rows'[j].profile]
  <2>1. CASE j = k
    BY <1>6, <1>8, <1>10, <1>12, <1>13, <2>1
  <2>2. CASE j # k
    <3>1. wanted[j] \in Target
      BY Rows
    <3> QED BY <1>8, <1>12, <1>13, <2>2, <3>1, Fields
  <2> QED BY <2>1, <2>2
<1> QED
  BY <1>1, <1>2, <1>8, <1>12, <1>13, WidgetStep

\* Choosing a profile changes its row and the target last set for it alike.
LEMMA PickProfileStep ==
  ASSUME TableInv, RowsAsSet, PickProfile
  PROVE  TableInv' /\ RowsAsSet'
<1>1. PICK k \in DOMAIN rows, p \in Overrides :
        rows' = [rows EXCEPT ![k].profile = p] /\ wanted' = [wanted EXCEPT ![k].profile = p]
  BY DEF PickProfile, Overrides
<1>2. UNCHANGED <<targets, selected, disturbed>>
  BY DEF PickProfile
<1>3. /\ rows \in Seq(Shown) /\ wanted \in Seq(Target) /\ Len(rows) = Len(targets) /\ Len(wanted) = Len(targets)
  BY DEF TableInv
<1>4. k \in 1..Len(targets) /\ rows[k] \in Shown /\ wanted[k] \in Target
  BY <1>1, Rows
<1>5. PICK r : r = [rows[k] EXCEPT !.profile = p]
  OBVIOUS
<1>6. r \in Shown /\ r.checked = rows[k].checked /\ r.profile = p
  BY <1>4, <1>5 DEF Shown
<1>7. rows' = [rows EXCEPT ![k] = r]
  BY <1>1, <1>5
<1>8. rows' \in Seq(Shown) /\ Len(rows') = Len(targets) /\ rows'[k] = r
      /\ \A j \in 1..Len(targets) : j # k => rows'[j] = rows[j]
  BY <1>3, <1>4, <1>6, <1>7, Updated
<1>9. PICK w : w = [wanted[k] EXCEPT !.profile = p]
  OBVIOUS
<1>10. w \in Target /\ w = [ip |-> wanted[k].ip, checked |-> wanted[k].checked, profile |-> p]
  BY <1>4, <1>9 DEF Target
<1>11. wanted' = [wanted EXCEPT ![k] = w]
  BY <1>1, <1>9
<1>12. wanted' \in Seq(Target) /\ Len(wanted') = Len(targets) /\ wanted'[k] = w
       /\ \A j \in 1..Len(targets) : j # k => wanted'[j] = wanted[j]
  BY <1>3, <1>4, <1>10, <1>11, Updated
<1>13. ASSUME NEW j \in 1..Len(targets), wanted[j].checked = rows[j].checked, wanted[j].profile = rows[j].profile
       PROVE  wanted'[j] = [ip |-> wanted[j].ip, checked |-> rows'[j].checked, profile |-> rows'[j].profile]
  <2>1. CASE j = k
    BY <1>6, <1>8, <1>10, <1>12, <1>13, <2>1
  <2>2. CASE j # k
    <3>1. wanted[j] \in Target
      BY Rows
    <3> QED BY <1>8, <1>12, <1>13, <2>2, <3>1, Fields
  <2> QED BY <2>1, <2>2
<1> QED
  BY <1>2, <1>8, <1>12, <1>13, WidgetStep

\* Deleting a profile clears it from rows and targets alike.
LEMMA DeleteProfileStep ==
  ASSUME TableInv, RowsAsSet, DeleteProfile
  PROVE  TableInv' /\ RowsAsSet'
<1> DEFINE fall(r) == IF r.profile = "site" THEN [r EXCEPT !.profile = ""] ELSE r
<1>1. /\ rows' = [k \in DOMAIN rows |-> fall(rows[k])] /\ targets' = Sync(targets, rows')
      /\ wanted' = [k \in DOMAIN wanted |-> fall(wanted[k])]
      /\ UNCHANGED <<selected, disturbed>>
  BY DEF DeleteProfile
<1>2. /\ DOMAIN rows = 1..Len(targets) /\ DOMAIN wanted = 1..Len(targets) /\ Len(targets) \in Nat
      /\ \A k \in 1..Len(targets) : rows[k] \in Shown /\ wanted[k] \in Target
  BY Rows
<1>3. \A r \in Shown : /\ fall(r) \in Shown /\ fall(r).checked = r.checked
                       /\ fall(r).profile = IF r.profile = "site" THEN "" ELSE r.profile
  BY DEF Shown, Overrides
<1>4. \A w \in Target : /\ fall(w) \in Target
                        /\ fall(w) = [ip |-> w.ip, checked |-> w.checked,
                                      profile |-> IF w.profile = "site" THEN "" ELSE w.profile]
  BY DEF Target, Overrides
<1> HIDE DEF fall
<1>5. \A k \in 1..Len(targets) : rows'[k] = fall(rows[k]) /\ wanted'[k] = fall(wanted[k])
  BY <1>1, <1>2
<1>6. rows' = [k \in 1..Len(targets) |-> rows'[k]] /\ wanted' = [k \in 1..Len(targets) |-> wanted'[k]]
  BY <1>1, <1>2
<1>7. rows' \in Seq(Shown) /\ Len(rows') = Len(targets)
  <2>1. \A k \in 1..Len(targets) : rows'[k] \in Shown
    BY <1>2, <1>3, <1>5
  <2> QED BY <1>2, <1>6, <2>1, Mapped
<1>8. wanted' \in Seq(Target) /\ Len(wanted') = Len(targets)
  <2>1. \A k \in 1..Len(targets) : wanted'[k] \in Target
    BY <1>2, <1>4, <1>5
  <2> QED BY <1>2, <1>6, <2>1, Mapped
<1>9. ASSUME NEW j \in 1..Len(targets), wanted[j].checked = rows[j].checked, wanted[j].profile = rows[j].profile
      PROVE  wanted'[j] = [ip |-> wanted[j].ip, checked |-> rows'[j].checked, profile |-> rows'[j].profile]
  <2>1. rows[j] \in Shown /\ wanted[j] \in Target
    BY <1>2
  <2>2. rows'[j].checked = rows[j].checked /\ rows'[j].profile = IF rows[j].profile = "site" THEN "" ELSE rows[j].profile
    BY <1>3, <1>5, <2>1
  <2>3. wanted'[j] = [ip |-> wanted[j].ip, checked |-> wanted[j].checked,
                      profile |-> IF wanted[j].profile = "site" THEN "" ELSE wanted[j].profile]
    BY <1>4, <1>5, <2>1
  <2> QED BY <1>9, <2>2, <2>3
<1> QED
  BY <1>1, <1>7, <1>8, <1>9, WidgetStep

\* Checking all rows disturbs those whose widget is ahead of the record.
LEMMA CheckAllStep ==
  ASSUME TableInv, RowsAsSet, CheckAll
  PROVE  TableInv' /\ RowsAsSet'
<1>1. PICK on \in BOOLEAN :
        /\ Render([k \in DOMAIN targets |-> [targets[k] EXCEPT !.checked = on]], FALSE)
        /\ wanted' = [k \in DOMAIN wanted |-> [wanted[k] EXCEPT !.checked = on]]
  BY DEF CheckAll
<1>2. disturbed' = (disturbed \/ Sync(targets, rows) # targets) /\ selected' = selected
  BY DEF CheckAll
<1>3. /\ DOMAIN targets = 1..Len(targets) /\ DOMAIN wanted = 1..Len(targets) /\ Len(targets) \in Nat
      /\ \A k \in 1..Len(targets) : targets[k] \in Target /\ wanted[k] \in Target
      /\ targets = <<>> <=> Len(targets) = 0
  BY Rows
<1> DEFINE ts == [k \in 1..Len(targets) |-> [targets[k] EXCEPT !.checked = on]]
           ws == [k \in 1..Len(targets) |-> [wanted[k] EXCEPT !.checked = on]]
<1>4. \A t \in Target : [t EXCEPT !.checked = on] \in Target
  BY DEF Target
<1>5. ts \in Seq(Target) /\ Len(ts) = Len(targets)
  <2>1. ts = [k \in 1..Len(targets) |-> ts[k]] /\ \A k \in 1..Len(targets) : ts[k] \in Target
    BY <1>3, <1>4
  <2> HIDE DEF ts
  <2> QED BY <1>3, <2>1, Mapped
<1>6. ws \in Seq(Target) /\ Len(ws) = Len(targets)
  <2>1. ws = [k \in 1..Len(targets) |-> ws[k]] /\ \A k \in 1..Len(targets) : ws[k] \in Target
    BY <1>3, <1>4
  <2> HIDE DEF ws
  <2> QED BY <1>3, <2>1, Mapped
<1>7. targets = wanted => ts = ws
  OBVIOUS
<1>8. Render(ts, FALSE) /\ wanted' = ws
  BY <1>1, <1>3
<1> HIDE DEF ts, ws
<1>9. /\ rows \in Seq(Shown) /\ selected \in 0..Len(targets) /\ (targets # <<>> => selected > 0)
      /\ disturbed \in BOOLEAN /\ Len(targets) <= MaxTargets
  BY DEF TableInv
<1>10. /\ targets' = ts /\ rows' \in Seq(Shown) /\ Len(rows') = Len(targets) /\ Sync(targets', rows') = targets'
  BY <1>5, <1>8, <1>9, Rendered
<1>11. targets' # <<>> => targets # <<>>
  BY <1>3, <1>5, <1>10
<1>12. disturbed' \in BOOLEAN
  BY <1>2
<1>13. TableInv'
  BY <1>2, <1>5, <1>6, <1>8, <1>9, <1>10, <1>11, <1>12 DEF TableInv
<1>14. ASSUME ~disturbed' PROVE targets' = wanted'
  <2>1. ~disturbed /\ Sync(targets, rows) = targets
    BY <1>2, <1>14
  <2>2. targets = wanted
    BY <2>1 DEF RowsAsSet
  <2> QED BY <1>7, <1>8, <1>10, <2>2
<1>15. RowsAsSet'
  BY <1>10, <1>14 DEF RowsAsSet
<1> QED
  BY <1>13, <1>15

\* A table that is synchronised and stays as it is.
LEMMA SyncedStep ==
  ASSUME TableInv, RowsAsSet, targets' = Sync(targets, rows), UNCHANGED <<wanted, disturbed>>,
         \/ UNCHANGED rows
         \/ rows' \in Seq(Shown) /\ Len(rows') = Len(targets) /\ Sync(targets', rows') = targets',
         selected' \in DOMAIN targets \/ selected' = selected
  PROVE  TableInv' /\ RowsAsSet'
<1>1. /\ targets \in Seq(Target) /\ rows \in Seq(Shown) /\ wanted \in Seq(Target)
      /\ Len(rows) = Len(targets) /\ Len(wanted) = Len(targets) /\ Len(targets) <= MaxTargets
      /\ selected \in 0..Len(targets) /\ (targets # <<>> => selected > 0) /\ disturbed \in BOOLEAN
  BY DEF TableInv
<1>2. targets' \in Seq(Target) /\ Len(targets') = Len(targets)
  BY <1>1, Synced
<1>3. rows' \in Seq(Shown) /\ Len(rows') = Len(targets)
  BY <1>1
<1>4. Sync(targets', rows') = Sync(targets, rows)
  BY <1>1, SyncTwice
<1>5. selected' \in 0..Len(targets) /\ (targets' # <<>> => selected' > 0)
  BY <1>1, <1>2
<1>6. TableInv'
  BY <1>1, <1>2, <1>3, <1>5 DEF TableInv
<1>7. RowsAsSet'
  BY <1>4 DEF RowsAsSet
<1> QED
  BY <1>6, <1>7

\* Selecting a row reads the table back and keeps its rows.
LEMMA SelectRowStep ==
  ASSUME TableInv, RowsAsSet, SelectRow
  PROVE  TableInv' /\ RowsAsSet'
<1>1. selected' \in DOMAIN targets /\ Render(targets, TRUE) /\ UNCHANGED <<wanted, disturbed>>
  BY DEF SelectRow
<1>2. targets \in Seq(Target) /\ rows \in Seq(Shown)
  BY DEF TableInv
<1>3. /\ targets' = Sync(targets, rows) /\ rows' \in Seq(Shown) /\ Len(rows') = Len(targets)
      /\ Sync(targets', rows') = targets'
  BY <1>1, <1>2, Rendered
<1> QED
  BY <1>1, <1>3, SyncedStep

\* The row that is removed is the last one, or the table is disturbed.
LEMMA RemoveRowStep ==
  ASSUME TableInv, RowsAsSet, RemoveRow
  PROVE  TableInv' /\ RowsAsSet'
<1>1. PICK k \in DOMAIN targets, sync \in BOOLEAN :
        /\ Render(RemoveAt(IF sync THEN Sync(targets, rows) ELSE targets, k), TRUE)
        /\ wanted' = RemoveAt(wanted, k)
        /\ selected' = SelectedAfter(k)
        /\ disturbed' = (disturbed \/ k < Len(targets))
  BY DEF RemoveRow
<1>2. /\ targets \in Seq(Target) /\ rows \in Seq(Shown) /\ wanted \in Seq(Target)
      /\ Len(rows) = Len(targets) /\ Len(wanted) = Len(targets) /\ Len(targets) <= MaxTargets
      /\ disturbed \in BOOLEAN
  BY DEF TableInv
<1>3. Len(targets) \in Nat /\ k \in 1..Len(targets)
  BY Rows
<1> DEFINE base == IF sync THEN Sync(targets, rows) ELSE targets
           ts   == RemoveAt(base, k)
<1>4. base \in Seq(Target) /\ Len(base) = Len(targets) /\ Sync(base, rows) = Sync(targets, rows)
  BY <1>2, Synced, SyncTwice
<1> HIDE DEF base
<1>5. ts \in Seq(Target) /\ Len(ts) = Len(targets) - 1
  BY <1>3, <1>4, Removed
<1>6. Render(ts, TRUE)
  BY <1>1 DEF base
<1>7. wanted' \in Seq(Target) /\ Len(wanted') = Len(targets) - 1
  BY <1>1, <1>2, <1>3, Removed
<1>8. k = Len(targets) => Sync(ts, rows) = RemoveAt(Sync(base, rows), k)
  BY <1>2, <1>3, <1>4, SyncRemovedLast
<1> HIDE DEF ts
<1>9. /\ targets' = Sync(ts, rows) /\ targets' \in Seq(Target) /\ Len(targets') = Len(targets) - 1
      /\ rows' \in Seq(Shown) /\ Len(rows') = Len(targets) - 1
      /\ Sync(targets', rows') = targets'
  BY <1>2, <1>5, <1>6, Rendered
<1>10. selected' \in 0..(Len(targets) - 1) /\ (Len(targets) - 1 > 0 => selected' > 0)
  BY <1>1, <1>3 DEF SelectedAfter
<1>11. targets' # <<>> => Len(targets) - 1 > 0
  BY <1>3, <1>9
<1>12. disturbed' \in BOOLEAN
  BY <1>1
<1>13. TableInv'
  BY <1>2, <1>3, <1>7, <1>9, <1>10, <1>11, <1>12, SetupAssumption DEF TableInv
<1>14. ASSUME ~disturbed' PROVE targets' = wanted'
  <2>0. ~disturbed /\ ~(k < Len(targets))
    BY <1>1, <1>14, Zenon
  <2>1. ~disturbed /\ k = Len(targets)
    BY <1>3, <2>0
  <2>2. Sync(base, rows) = wanted
    BY <1>4, <2>1 DEF RowsAsSet
  <2> QED BY <1>1, <1>8, <1>9, <2>1, <2>2
<1>15. RowsAsSet'
  BY <1>9, <1>14 DEF RowsAsSet
<1> QED
  BY <1>13, <1>15

\* A table that is made of a set of addresses.
LEMMA TableOf ==
  ASSUME NEW S \in SUBSET Devices
  PROVE  /\ [k \in 1..Cardinality(S) |-> Default(SetToSeq(S)[k])] \in Seq(Target)
         /\ Len([k \in 1..Cardinality(S) |-> Default(SetToSeq(S)[k])]) <= MaxTargets
<1> DEFINE ts == [k \in 1..Cardinality(S) |-> Default(SetToSeq(S)[k])]
<1>1. IsFiniteSet({"a"}) /\ Cardinality({"a"}) = 1
  BY FS_Singleton
<1>2. IsFiniteSet(Devices) /\ Cardinality(Devices) = 2
  <2>1. Devices = {"a"} \cup {"b"} /\ "b" \notin {"a"}
    BY DEF Devices
  <2> QED BY <1>1, <2>1, FS_AddElement
<1>3. IsFiniteSet(S) /\ Cardinality(S) <= 2
  BY <1>2, FS_Subset
<1>4. Cardinality(S) \in Nat /\ SetToSeq(S) \in [1..Cardinality(S) -> S]
  BY <1>3, Listed
<1>5. \A ip \in S : Default(ip) \in Target
  BY Defaults DEF Devices, Addresses
<1>6. ts = [k \in 1..Cardinality(S) |-> ts[k]] /\ \A k \in 1..Cardinality(S) : ts[k] \in Target
  BY <1>4, <1>5
<1> HIDE DEF ts
<1>7. ts \in Seq(Target) /\ Len(ts) = Cardinality(S)
  BY <1>4, <1>6, Mapped
<1>8. Len(ts) <= MaxTargets
  BY <1>3, <1>4, <1>7, SetupAssumption
<1> QED
  BY <1>7, <1>8 DEF ts

\* A saved group or preset is a table within the bound.
LEMMA SavedTables ==
  ASSUME NEW ts \in Saved
  PROVE  ts \in Seq(Target) /\ Len(ts) <= MaxTargets
<1>1. Default("a") \in Target /\ Default("b") \in Target /\ Default("B") \in Target
  BY Defaults DEF Addresses
<1>2. [Default("a") EXCEPT !.profile = "site"] \in Target /\ [Default("a") EXCEPT !.checked = FALSE] \in Target
  BY DEF Default, Target, Addresses, Overrides
<1>3. \A t, u \in Target : <<t, u>> \in Seq(Target) /\ Len(<<t, u>>) = 2 /\ <<t>> \in Seq(Target) /\ Len(<<t>>) = 1
  OBVIOUS
<1>4. \E t, u \in Target : ts = <<t, u>> \/ ts = <<t>>
  BY <1>1, <1>2 DEF Saved
<1>5. PICK t, u \in Target : ts = <<t, u>> \/ ts = <<t>>
  BY <1>4
<1>6. ts \in Seq(Target) /\ (Len(ts) = 1 \/ Len(ts) = 2)
  <2>1. <<t, u>> \in Seq(Target) /\ Len(<<t, u>>) = 2
    BY <1>3
  <2>2. <<t>> \in Seq(Target) /\ Len(<<t>>) = 1
    BY <1>3
  <2>3. CASE ts = <<t, u>>
    BY <2>1, <2>3, Zenon
  <2>4. CASE ts = <<t>>
    BY <2>2, <2>4, Zenon
  <2> QED BY <1>5, <2>3, <2>4
<1>7. MaxTargets \in Nat /\ MaxTargets >= 2
  BY SetupAssumption
<1>8. CASE Len(ts) = 1
  BY <1>6, <1>7, <1>8
<1>9. CASE Len(ts) = 2
  BY <1>6, <1>7, <1>9
<1> QED
  BY <1>6, <1>8, <1>9

\* A table without rows is one, too.
LEMMA ClearTargetsStep ==
  ASSUME TableInv, ClearTargets
  PROVE  TableInv' /\ RowsAsSet'
<1>1. <<>> \in Seq(Target) /\ Len(<<>>) <= MaxTargets
  BY SetupAssumption
<1> QED
  BY <1>1, ReplacedStep DEF ClearTargets

\* Loading a group keeps the invariant.
LEMMA LoadGroupStep ==
  ASSUME TableInv, RowsAsSet, LoadGroup
  PROVE  TableInv' /\ RowsAsSet'
<1>1. PICK ts \in Saved : Replaced(ts) \/ UNCHANGED table
  BY DEF LoadGroup
<1>2. CASE Replaced(ts)
  BY <1>2, SavedTables, ReplacedStep
<1>3. CASE UNCHANGED table
  BY <1>3 DEF table, TableInv, RowsAsSet
<1> QED
  BY <1>1, <1>2, <1>3

\* Loading a preset replaces the table.
LEMMA LoadPresetStep ==
  ASSUME TableInv, LoadPreset
  PROVE  TableInv' /\ RowsAsSet'
<1>1. PICK ips \in SUBSET Devices : Replaced([k \in 1..Cardinality(ips) |-> Default(SetToSeq(ips)[k])])
  BY DEF LoadPreset, Devices
<1> DEFINE ts == [k \in 1..Cardinality(ips) |-> Default(SetToSeq(ips)[k])]
<1>2. ts \in Seq(Target) /\ Len(ts) <= MaxTargets /\ Replaced(ts)
  BY <1>1, TableOf
<1> HIDE DEF ts
<1> QED
  BY <1>2, ReplacedStep
-----------------------------------------------------------------------------
(***************************************************************************)
(* License files, and what is audited.                                     *)
(***************************************************************************)
LEMMA FileFields ==
  ASSUME NEW f \in Licenses \cup {NoFile}
  PROVE  /\ f.issued \in Nat /\ f.expires \in Nat /\ f.max \in Nat
         /\ f.features \subseteq Features
<1>1. /\ f.issued \in {0, 1} /\ f.expires \in {0, 2} /\ f.max \in {0, 1, 2}
      /\ f.features \in {{}, Features, {"l2", "multi"}}
  BY DEF Licenses, NoFile
<1> QED
  BY <1>1 DEF Features

\* A licence that is missing, free or invalid grants nothing of its file.
LEMMA LoadDistrusts ==
  ASSUME NEW f, NEW now
  PROVE  Distrusted(Load(f, now))
  BY DEF Distrusted, Load, Untrusted

\* What a valid license says of the file.
LEMMA LoadValid ==
  ASSUME NEW f \in Licenses \cup {NoFile}, NEW now \in Nat, Load(f, now).status = "VALID"
  PROVE  /\ f.kind = "signed" /\ f.issued <= now /\ now <= f.expires
         /\ Load(f, now).max = f.max /\ Load(f, now).features = f.features
<1>1. f.kind # "none" /\ Sound(f, now) /\ ~(now > f.expires)
  BY DEF Load, Untrusted
<1>2. Load(f, now) = [status |-> "VALID", max |-> f.max, features |-> f.features]
  BY <1>1 DEF Load
<1>3. f.kind = "signed" /\ f.issued <= now
  BY <1>1 DEF Sound
<1> QED
  BY <1>1, <1>2, <1>3, FileFields

\* Each device once, with the profile of one of its rows.
LEMMA UniqueDevices ==
  ASSUME NEW ts \in Seq(Target), NEW ks, ks \subseteq DOMAIN ts
  PROVE  /\ Unique(ts, ks) \in [{Normal(ts[k].ip) : k \in ks} -> Overrides]
         /\ {Normal(ts[k].ip) : k \in ks} \subseteq Devices
         /\ DOMAIN Unique(ts, ks) = {Normal(ts[k].ip) : k \in ks}
<1> DEFINE D == {Normal(ts[k].ip) : k \in ks}
           First(ip, k) == Normal(ts[k].ip) = ip /\ \A j \in ks : j < k => Normal(ts[j].ip) # ip
           first(ip) == CHOOSE k \in ks : First(ip, k)
<1>1. ks \subseteq 1..Len(ts) /\ Len(ts) \in Nat /\ \A k \in ks : k \in Nat /\ ts[k] \in Target
  OBVIOUS
<1>2. ASSUME NEW ip \in D PROVE first(ip) \in ks /\ First(ip, first(ip))
  <2> DEFINE T == {k \in ks : Normal(ts[k].ip) = ip}
  <2>1. T \subseteq Nat /\ T # {}
    BY <1>1
  <2>2. PICK k \in T : \A j \in T : k <= j
    BY <2>1, FirstOf
  <2>3. k \in ks /\ First(ip, k)
    BY <1>1, <2>2
  <2> QED BY <2>3
<1>3. Unique(ts, ks) = [ip \in D |-> ts[first(ip)].profile]
  BY DEF Unique
<1> HIDE DEF first
<1>4. \A ip \in D : /\ first(ip) \in ks /\ Normal(ts[first(ip)].ip) = ip
                   /\ ts[first(ip)].profile = Unique(ts, ks)[ip]
  BY <1>2, <1>3
<1>5. \A k \in ks : ts[k].profile \in Overrides /\ ts[k].ip \in Addresses
  BY <1>1 DEF Target
<1>6. \A ip \in Addresses : Normal(ip) \in Devices
  BY DEF Addresses, Normal, Devices
<1>7. Unique(ts, ks) \in [D -> Overrides]
  BY <1>3, <1>4, <1>5
<1>8. D \subseteq Devices
  BY <1>5, <1>6
<1> HIDE DEF D
<1>9. DOMAIN Unique(ts, ks) = D
  BY <1>7
<1> QED
  BY <1>7, <1>8, <1>9 DEF D

\* The families a licence enables are families.
LEMMA FamilySets ==
  ASSUME NEW l
  PROVE  {f \in Families : Enabled(l, f)} \in SUBSET Families
  OBVIOUS

\* What an audit that starts is.
LEMMA StartedScan ==
  ASSUME SettingInv, NEW kind \in Kinds, NEW ts \in Seq(Target), NEW ks, ks \subseteq DOMAIN ts,
         NEW families \in SUBSET Families, NEW live \in BOOLEAN,
         Started(kind, Unique(ts, ks), families, live)
  PROVE  /\ scan'.kind = kind /\ scan'.targets = Unique(ts, ks) /\ scan'.families = families
         /\ busy' \in BOOLEAN
         /\ scan' \in [kind : Kinds, targets : UNION {[D -> Overrides] : D \in SUBSET Devices},
                       families : SUBSET Families, profile : Profiles, failed : SUBSET Devices]
<1>1. /\ scan' = [kind |-> kind, targets |-> Unique(ts, ks), families |-> families, profile |-> profile,
                  failed |-> {}]
      /\ busy' = live
  BY DEF Started
<1>2. Unique(ts, ks) \in UNION {[D -> Overrides] : D \in SUBSET Devices}
  <2> DEFINE D == {Normal(ts[k].ip) : k \in ks}
  <2>1. Unique(ts, ks) \in [D -> Overrides] /\ D \in SUBSET Devices
    BY UniqueDevices
  <2> QED BY <2>1
<1>3. profile \in Profiles
  BY DEF SettingInv
<1> QED
  BY <1>1, <1>2, <1>3

\* The rows that are read for an audit.
LEMMA TableRead ==
  ASSUME TableInv
  PROVE  /\ ReadTable \in Seq(Target)
         /\ \A scope : InScope(ReadTable, scope) \subseteq DOMAIN ReadTable
<1>1. targets \in Seq(Target) /\ rows \in Seq(Shown)
  BY DEF TableInv
<1> QED
  BY <1>1, Synced DEF ReadTable, InScope

\* RunScope starts nothing, or an audit of the rows in scope that the license
\* as it is now permits.
LEMMA RunScopeStarts ==
  ASSUME RunScope
  PROVE  /\ targets' = Sync(targets, rows) /\ UNCHANGED <<clock, file, rows, selected, wanted, disturbed, profileVars>>
         /\ licence' \in {licence, Load(file, clock)}
         /\ \/ UNCHANGED audits
            \/ \E scope \in {"checked", "selected", "all"}, live \in BOOLEAN :
                 LET devices  == Unique(ReadTable, InScope(ReadTable, scope))
                     families == {f \in Families : Enabled(Load(file, clock), f)}
                 IN  /\ PermitsDevices(Load(file, clock), Cardinality(DOMAIN devices)) /\ families # {}
                     /\ Started(scope, devices, families, live \/ busy)
  BY DEF RunScope, Reloaded, ReadTable

\* What a checklist run reads, and what it starts.
LEMMA RunChecklistStarts ==
  ASSUME RunChecklist
  PROVE  /\ targets' = Sync(targets, rows) /\ UNCHANGED <<clock, file, rows, selected, wanted, disturbed, profileVars>>
         /\ licence' \in {licence, Load(file, clock)}
         /\ \/ UNCHANGED audits
            \/ \E families \in (SUBSET Families) \ {{}} :
                 LET devices == Unique(ReadTable, InScope(ReadTable, "checked"))
                 IN  /\ \A f \in families : Enabled(Load(file, clock), f)
                     /\ PermitsDevices(Load(file, clock), Cardinality(DOMAIN devices))
                     /\ Started("checklist", devices, families, TRUE)
  BY DEF RunChecklist, Reloaded, ReadTable
-----------------------------------------------------------------------------
(***************************************************************************)
(* The invariant.                                                          *)
(***************************************************************************)
LEMMA InitIInv == Init => IInv
<1> SUFFICES ASSUME Init PROVE IInv
  OBVIOUS
<1>1. <<>> \in Seq(Target) /\ <<>> \in Seq(Shown) /\ Len(<<>>) = 0 /\ Sync(<<>>, <<>>) = <<>>
  BY DEF Sync
<1>2. MaxTargets \in Nat
  BY SetupAssumption
<1>3. TableInv
  <2>1. targets = <<>> /\ rows = <<>> /\ wanted = <<>> /\ selected = 0 /\ disturbed = FALSE
    BY DEF Init
  <2>2. selected \in 0..Len(targets) /\ Len(targets) <= MaxTargets
    BY <1>1, <1>2, <2>1
  <2>3. disturbed \in BOOLEAN
    BY <2>1
  <2> QED BY <1>1, <2>1, <2>2, <2>3, Zenon DEF TableInv
<1>4. RowsAsSet
  BY <1>1 DEF Init, RowsAsSet
<1>5. <<>> \in [{} -> Overrides] /\ {} \in SUBSET Devices
  OBVIOUS
<1>6. <<>> \in UNION {[D -> Overrides] : D \in SUBSET Devices}
  BY <1>5
<1>7. scan \in [kind : Kinds, targets : UNION {[D -> Overrides] : D \in SUBSET Devices},
                families : SUBSET Families, profile : Profiles, failed : SUBSET Devices]
  BY <1>6 DEF Init, Kinds, Profiles
<1>8. Distrusted(licence)
  BY LoadDistrusts DEF Init
<1>9. SettingInv
  BY <1>7, <1>8 DEF Init, SettingInv, Profiles
<1> QED
  BY <1>3, <1>4, <1>9 DEF IInv

\* Retrying makes a table of the addresses that failed, and audits it or not.
LEMMA RetryStep ==
  ASSUME IInv, Retry
  PROVE  IInv'
<1> USE DEF IInv
<1> DEFINE S  == scan.failed
           ts == [k \in 1..Cardinality(S) |-> Default(SetToSeq(S)[k])]
<1>1. S \in SUBSET Devices
  BY DEF SettingInv
<1>2. ts \in Seq(Target) /\ Len(ts) <= MaxTargets
  BY <1>1, TableOf
<1>3. /\ Replaced(ts) /\ UNCHANGED <<clock, file, licence, profileVars>>
      /\ UNCHANGED audits \/ Started("retry", Unique(ts, DOMAIN ts), Families, TRUE)
  BY DEF Retry
<1> HIDE DEF S, ts
<1>4. TableInv' /\ RowsAsSet'
  BY <1>2, <1>3, ReplacedStep
<1>5. ASSUME UNCHANGED audits PROVE SettingInv'
  BY <1>3, <1>5 DEF SettingInv, audits, profileVars
<1>6. ASSUME Started("retry", Unique(ts, DOMAIN ts), Families, TRUE) PROVE SettingInv'
  <2>1. "retry" \in Kinds /\ DOMAIN ts \subseteq DOMAIN ts /\ Families \in SUBSET Families /\ TRUE \in BOOLEAN
    BY DEF Kinds
  <2>2. /\ busy' \in BOOLEAN
        /\ scan' \in [kind : Kinds, targets : UNION {[D -> Overrides] : D \in SUBSET Devices},
                      families : SUBSET Families, profile : Profiles, failed : SUBSET Devices]
    BY <1>2, <1>6, <2>1, StartedScan
  <2> QED BY <1>3, <2>2 DEF SettingInv, profileVars
<1>7. SettingInv'
  BY <1>3, <1>5, <1>6, Zenon
<1> QED
  BY <1>4, <1>7

\* An audit reads the table, and changes nothing else of it.
LEMMA AuditStep ==
  ASSUME IInv, RunScope \/ RunChecklist
  PROVE  IInv'
<1> USE DEF IInv
<1>1. /\ targets' = Sync(targets, rows) /\ UNCHANGED <<clock, file, rows, selected, wanted, disturbed, profileVars>>
      /\ licence' \in {licence, Load(file, clock)}
  BY RunScopeStarts, RunChecklistStarts
<1>2. TableInv' /\ RowsAsSet'
  BY <1>1, SyncedStep
<1>3. Distrusted(licence')
  BY <1>1, LoadDistrusts DEF SettingInv
<1> DEFINE Scans == [kind : Kinds, targets : UNION {[D -> Overrides] : D \in SUBSET Devices},
                     families : SUBSET Families, profile : Profiles, failed : SUBSET Devices]
<1>4. busy \in BOOLEAN /\ scan \in Scans
  BY DEF SettingInv
<1>5. busy' \in BOOLEAN /\ scan' \in Scans
  <2>1. CASE UNCHANGED audits
    BY <1>4, <2>1 DEF audits
  <2>2. ASSUME RunScope, ~(UNCHANGED audits) PROVE busy' \in BOOLEAN /\ scan' \in Scans
    <3>1. PICK scope \in {"checked", "selected", "all"}, live \in BOOLEAN :
            Started(scope, Unique(ReadTable, InScope(ReadTable, scope)),
                    {f \in Families : Enabled(Load(file, clock), f)}, live \/ busy)
      BY <2>2, RunScopeStarts
    <3>2. scope \in Kinds /\ (live \/ busy) \in BOOLEAN
      BY <1>4 DEF Kinds
    <3>3. {f \in Families : Enabled(Load(file, clock), f)} \in SUBSET Families
      OBVIOUS
    <3> QED BY <3>1, <3>2, <3>3, TableRead, StartedScan
  <2>3. ASSUME RunChecklist, ~(UNCHANGED audits) PROVE busy' \in BOOLEAN /\ scan' \in Scans
    <3>1. PICK families \in SUBSET Families :
            Started("checklist", Unique(ReadTable, InScope(ReadTable, "checked")), families, TRUE)
      BY <2>3, RunChecklistStarts
    <3>2. "checklist" \in Kinds /\ TRUE \in BOOLEAN
      BY DEF Kinds
    <3> QED BY <3>1, <3>2, TableRead, StartedScan
  <2> QED BY <2>1, <2>2, <2>3
<1>6. SettingInv'
  BY <1>1, <1>3, <1>5 DEF SettingInv, profileVars
<1> QED
  BY <1>2, <1>6

\* The end of a scan keeps the invariant.
LEMMA ScanEndsStep ==
  ASSUME IInv, ScanEnds
  PROVE  IInv'
<1> USE DEF IInv
<1>1. TableInv' /\ RowsAsSet'
  BY DEF ScanEnds, table, TableInv, RowsAsSet
<1>2. PICK failed \in SUBSET DOMAIN scan.targets : scan' = [scan EXCEPT !.failed = failed]
  BY DEF ScanEnds
<1>3. scan \in [kind : Kinds, targets : UNION {[D -> Overrides] : D \in SUBSET Devices},
                families : SUBSET Families, profile : Profiles, failed : SUBSET Devices]
  BY DEF SettingInv
<1>4. failed \in SUBSET Devices
  <2>1. PICK D \in SUBSET Devices : scan.targets \in [D -> Overrides]
    BY <1>3
  <2> QED BY <2>1
<1>5. scan' \in [kind : Kinds, targets : UNION {[D -> Overrides] : D \in SUBSET Devices},
                 families : SUBSET Families, profile : Profiles, failed : SUBSET Devices]
  BY <1>2, <1>3, <1>4
<1>6. SettingInv'
  BY <1>5 DEF ScanEnds, SettingInv, profileVars
<1> QED
  BY <1>1, <1>6

\* Profiles are chosen, made, deleted and loaded.
LEMMA ProfileStep ==
  ASSUME SettingInv, SelectProfile \/ CreateProfile \/ DeleteProfile \/ LoadGroup \/ LoadPreset
  PROVE  SettingInv'
<1>1. UNCHANGED <<clock, file, licence, audits>>
  BY DEF SelectProfile, CreateProfile, DeleteProfile, LoadGroup, LoadPreset
<1>2. active \in Profiles /\ profile \in Profiles /\ "base" \in Profiles /\ "site" \in Profiles
  BY DEF SettingInv, Profiles
<1>3. \A name \in Profiles : Activate(name) => active' \in Profiles /\ profile' \in Profiles
  BY <1>2 DEF Activate
<1>4. ASSUME SelectProfile PROVE active' \in Profiles /\ profile' \in Profiles
  BY <1>3, <1>4 DEF SelectProfile
<1>5. ASSUME CreateProfile PROVE active' \in Profiles /\ profile' \in Profiles
  BY <1>2, <1>5 DEF CreateProfile
<1>6. ASSUME DeleteProfile PROVE active' \in Profiles /\ profile' \in Profiles
  BY <1>2, <1>6 DEF DeleteProfile
<1>7. ASSUME LoadGroup PROVE active' \in Profiles /\ profile' \in Profiles
  <2>1. PICK name \in Profiles \cup {""} :
          \/ name = "" /\ UNCHANGED <<active, profile>>
          \/ name # "" /\ Activate(name)
    BY <1>7 DEF LoadGroup, Profiles
  <2> QED BY <1>2, <1>3, <2>1
<1>8. ASSUME LoadPreset PROVE active' \in Profiles /\ profile' \in Profiles
  BY <1>3, <1>8 DEF LoadPreset
<1>9. active' \in Profiles /\ profile' \in Profiles
  BY <1>4, <1>5, <1>6, <1>7, <1>8
<1> QED
  BY <1>1, <1>9 DEF SettingInv, audits

\* Every operation on the table keeps it as set.
LEMMA TableStep ==
  ASSUME TableInv, RowsAsSet, Table
  PROVE  TableInv' /\ RowsAsSet'
<1>1. CASE AddTarget
  BY <1>1, AddTargetStep
<1>2. CASE ToggleRow
  BY <1>2, ToggleRowStep
<1>3. CASE PickProfile
  BY <1>3, PickProfileStep
<1>4. CASE CheckAll
  BY <1>4, CheckAllStep
<1>5. CASE SelectRow
  BY <1>5, SelectRowStep
<1>6. CASE RemoveRow
  BY <1>6, RemoveRowStep
<1>7. CASE ClearTargets
  BY <1>7, ClearTargetsStep
<1> QED
  BY <1>1, <1>2, <1>3, <1>4, <1>5, <1>6, <1>7 DEF Table

\* Every operation on the licence and the clock keeps the invariant.
LEMMA FilesStep ==
  ASSUME IInv, Files
  PROVE  IInv'
<1> USE DEF IInv
<1>1. CASE SelectProfile \/ CreateProfile
  BY <1>1, ProfileStep DEF SelectProfile, CreateProfile, table, TableInv, RowsAsSet
<1>2. CASE DeleteProfile
  BY <1>2, ProfileStep, DeleteProfileStep
<1>3. CASE LoadGroup
  BY <1>3, ProfileStep, LoadGroupStep
<1>4. CASE LoadPreset
  BY <1>4, ProfileStep, LoadPresetStep
<1>5. CASE SaveGroup
  <2>1. targets' = Sync(targets, rows) /\ licence' = Load(file, clock)
        /\ UNCHANGED <<clock, file, rows, selected, wanted, disturbed, active, profile, busy, scan>>
    BY <1>5 DEF SaveGroup, Reloaded, profileVars, audits
  <2>2. TableInv' /\ RowsAsSet'
    BY <2>1, SyncedStep
  <2>3. Distrusted(licence')
    BY <2>1, LoadDistrusts
  <2> QED BY <2>1, <2>2, <2>3 DEF SettingInv
<1> QED
  BY <1>1, <1>2, <1>3, <1>4, <1>5 DEF Files

\* Every step of the setup keeps the invariant.
LEMMA StepIInv == IInv /\ [Next]_vars => IInv'
<1> SUFFICES ASSUME IInv, [Next]_vars PROVE IInv'
  OBVIOUS
<1> USE DEF IInv
<1>1. CASE Environment
  <2>1. UNCHANGED <<licence, table, profileVars, audits>> /\ clock' \in Nat /\ file' \in Licenses \cup {NoFile}
    BY <1>1 DEF Environment, SettingInv
  <2> QED BY <2>1 DEF table, profileVars, audits, TableInv, RowsAsSet, SettingInv
<1>2. CASE License
  <2>1. /\ UNCHANGED <<clock, table, profileVars, audits>> /\ file' \in Licenses \cup {NoFile}
        /\ \E f, now : licence' = Load(f, now)
    BY <1>2 DEF License, ImportLicense, RefreshLicense, Reloaded, SettingInv
  <2>2. Distrusted(licence')
    BY <2>1, LoadDistrusts
  <2> QED BY <2>1, <2>2 DEF table, profileVars, audits, TableInv, RowsAsSet, SettingInv
<1>3. CASE Table
  <2>1. UNCHANGED <<clock, file, licence, profileVars, audits>>
    BY <1>3 DEF Table, AddTarget, ToggleRow, PickProfile, CheckAll, SelectRow, RemoveRow, ClearTargets
  <2>2. TableInv' /\ RowsAsSet'
    BY <1>3, TableStep
  <2> QED BY <2>1, <2>2 DEF profileVars, audits, SettingInv
<1>4. CASE Files
  BY <1>4, FilesStep
<1>5. CASE RunScope \/ RunChecklist
  BY <1>5, AuditStep
<1>6. CASE ScanEnds
  BY <1>6, ScanEndsStep
<1>7. CASE Retry
  BY <1>7, RetryStep
<1>8. CASE UNCHANGED vars
  BY <1>8 DEF vars, table, profileVars, audits, TableInv, RowsAsSet, SettingInv
<1> QED
  BY <1>1, <1>2, <1>3, <1>4, <1>5, <1>6, <1>7, <1>8 DEF Next, Audits

\* The table, the widgets it is edited through and the history of what the
\* operator did to them stay together, in any order of commands.
THEOREM SetupInvariant == Spec => []IInv
  BY InitIInv, StepIInv, PTL DEF Spec

\* Targets, widgets, profiles, license and audits keep their types, and a row is
\* selected as long as there are rows (TargetsTab, LicenseManager).
THEOREM SetupTyped == Spec => []TypeOK
<1>1. IInv => TypeOK
  BY DEF IInv, TableInv, SettingInv, Distrusted, TypeOK
<1> QED
  BY <1>1, SetupInvariant, PTL

\* Until a row is removed, what the tab would read of its widgets is what the operator
\* set, row by row, for any length of the table (_sync_row_state, _render_rows).
THEOREM RowsStayAsSet == Spec => []RowsAsSet
<1>1. IInv => RowsAsSet
  BY DEF IInv
<1> QED
  BY <1>1, SetupInvariant, PTL
-----------------------------------------------------------------------------
(***************************************************************************)
(* The audits that start.                                                  *)
(***************************************************************************)
\* Only these commands start an audit.
LEMMA Starts ==
  ASSUME IInv, [Next]_vars, scans' # scans
  PROVE  \/ RunScope /\ ~(UNCHANGED audits)
         \/ RunChecklist /\ ~(UNCHANGED audits)
         \/ Retry /\ scan'.kind = "retry"
<1>1. Environment \/ License \/ Table \/ Files => UNCHANGED audits
  BY DEF Environment, License, ImportLicense, RefreshLicense, Table, AddTarget, ToggleRow, PickProfile, CheckAll,
         SelectRow, RemoveRow, ClearTargets, Files, SelectProfile, CreateProfile, DeleteProfile, LoadGroup,
         LoadPreset, SaveGroup
<1>2. ScanEnds \/ UNCHANGED vars => UNCHANGED scans
  BY DEF ScanEnds, vars, audits
<1>3. UNCHANGED audits => UNCHANGED scans
  BY DEF audits
<1>4. Retry => scan'.kind = "retry"
  BY <1>3 DEF Retry, Started
<1> QED
  BY <1>1, <1>2, <1>3, <1>4 DEF Next, Audits

\* A license that permits an audit is that of a file that covers it.
LEMMA Permitted ==
  ASSUME NEW f \in Licenses \cup {NoFile}, NEW now \in Nat, NEW s,
         NEW families, families = s.families, families # {}, \A x \in families : Enabled(Load(f, now), x),
         PermitsDevices(Load(f, now), Cardinality(DOMAIN s.targets))
  PROVE  Covers(f, now, s)
<1>1. Load(f, now).status = "VALID"
  BY DEF Enabled
<1>2. /\ f.kind = "signed" /\ f.issued <= now /\ now <= f.expires
      /\ Load(f, now).max = f.max /\ Load(f, now).features = f.features
  BY <1>1, LoadValid
<1>3. s.families \subseteq f.features
  BY <1>2 DEF Enabled
<1>4. /\ Cardinality(DOMAIN s.targets) <= f.max
      /\ Cardinality(DOMAIN s.targets) > 1 => "multi" \in f.features
  BY <1>1, <1>2 DEF PermitsDevices, MaxDevices, Enabled
<1> QED
  BY <1>2, <1>3, <1>4 DEF Covers

\* A device of a scan comes from a row in its scope, with that row's profile.
LEMMA DeviceOf ==
  ASSUME NEW ts \in Seq(Target), NEW ks, ks \subseteq DOMAIN ts, NEW s, s = Unique(ts, ks),
         NEW ip \in DOMAIN s
  PROVE  \E t \in {ts[k] : k \in ks} : Normal(t.ip) = ip /\ t.profile = s[ip]
<1> DEFINE First(k) == Normal(ts[k].ip) = ip /\ \A j \in ks : j < k => Normal(ts[j].ip) # ip
           T == {k \in ks : Normal(ts[k].ip) = ip}
<1>1. ks \subseteq Nat
  OBVIOUS
<1>2. ip \in {Normal(ts[k].ip) : k \in ks} /\ s[ip] = ts[CHOOSE k \in ks : First(k)].profile
  BY DEF Unique
<1>3. T \subseteq Nat /\ T # {}
  BY <1>1, <1>2
<1>4. PICK k \in T : \A j \in T : k <= j
  BY <1>3, FirstOf
<1>5. k \in ks /\ First(k)
  BY <1>1, <1>4
<1> DEFINE f == CHOOSE i \in ks : First(i)
<1>6. f \in ks /\ First(f)
  BY <1>5
<1> HIDE DEF f
<1> QED BY <1>2, <1>6 DEF f

\* The devices of an audit of checked rows are those of the rows as they were set.
LEMMA AsAsked ==
  ASSUME IInv, ~disturbed, NEW s, s = Unique(ReadTable, InScope(ReadTable, "checked"))
  PROVE  /\ DOMAIN s = {Normal(w.ip) : w \in {x \in Range(wanted) : x.checked}}
         /\ \A ip \in DOMAIN s : \E w \in Range(wanted) : w.checked /\ Normal(w.ip) = ip /\ w.profile = s[ip]
<1>1. ReadTable = wanted
  BY DEF IInv, RowsAsSet, ReadTable
<1> DEFINE ks == InScope(wanted, "checked")
           ws == {x \in Range(wanted) : x.checked}
<1>2. ks = {k \in DOMAIN wanted : wanted[k].checked}
  BY DEF InScope
<1>3. wanted \in Seq(Target)
  BY DEF IInv, TableInv
<1>4. s = Unique(wanted, ks) /\ ks \subseteq DOMAIN wanted
  BY <1>1, <1>2
<1>5. ws = {wanted[k] : k \in ks}
  BY <1>2 DEF Range
<1> HIDE DEF ks
<1>6. DOMAIN s = {Normal(wanted[k].ip) : k \in ks}
  BY <1>3, <1>4, UniqueDevices
<1>7. ASSUME NEW ip \in DOMAIN s
      PROVE  \E w \in ws : Normal(w.ip) = ip /\ w.profile = s[ip]
  <2>1. \E t \in {wanted[k] : k \in ks} : Normal(t.ip) = ip /\ t.profile = s[ip]
    BY <1>3, <1>4, DeviceOf
  <2> QED BY <1>5, <2>1
<1>8. DOMAIN s = {Normal(w.ip) : w \in ws}
  BY <1>5, <1>6
<1> QED
  BY <1>7, <1>8

\* A scan that a step starts is covered by the licence file of that moment.
LEMMA CoveredStep ==
  ASSUME IInv, [Next]_vars, scans' # scans, scan'.kind # "retry"
  PROVE  Covers(file, clock, scan')
<1>1. file \in Licenses \cup {NoFile} /\ clock \in Nat /\ SettingInv /\ TableInv
  BY DEF IInv, SettingInv
<1>2. ASSUME RunScope, ~(UNCHANGED audits) PROVE Covers(file, clock, scan')
  <2>1. PICK scope \in {"checked", "selected", "all"}, live \in BOOLEAN :
          LET devices  == Unique(ReadTable, InScope(ReadTable, scope))
              families == {f \in Families : Enabled(Load(file, clock), f)}
          IN  /\ PermitsDevices(Load(file, clock), Cardinality(DOMAIN devices)) /\ families # {}
              /\ Started(scope, devices, families, live \/ busy)
    BY <1>2, RunScopeStarts
  <2> DEFINE families == {f \in Families : Enabled(Load(file, clock), f)}
  <2>2. scan'.families = families /\ scan'.targets = Unique(ReadTable, InScope(ReadTable, scope))
    BY <2>1 DEF Started
  <2> QED BY <1>1, <2>1, <2>2, Permitted
<1>3. ASSUME RunChecklist, ~(UNCHANGED audits) PROVE Covers(file, clock, scan')
  <2>1. PICK families \in (SUBSET Families) \ {{}} :
          LET devices == Unique(ReadTable, InScope(ReadTable, "checked"))
          IN  /\ \A f \in families : Enabled(Load(file, clock), f)
              /\ PermitsDevices(Load(file, clock), Cardinality(DOMAIN devices))
              /\ Started("checklist", devices, families, TRUE)
    BY <1>3, RunChecklistStarts
  <2>2. scan'.families = families /\ scan'.targets = Unique(ReadTable, InScope(ReadTable, "checked"))
    BY <2>1 DEF Started
  <2> QED BY <1>1, <2>1, <2>2, Permitted
<1> QED
  BY <1>2, <1>3, Starts

\* An audit of checked rows is of the rows as they were last set.
LEMMA AskedStep ==
  ASSUME IInv, [Next]_vars, scans' # scans, scan'.kind \in {"checked", "checklist"}, ~disturbed
  PROVE  /\ DOMAIN scan'.targets = {Normal(w.ip) : w \in {x \in Range(wanted) : x.checked}}
         /\ \A ip \in DOMAIN scan'.targets : \E w \in Range(wanted) :
              w.checked /\ Normal(w.ip) = ip /\ w.profile = scan'.targets[ip]
<1>1. ASSUME RunScope, ~(UNCHANGED audits)
      PROVE  scan'.targets = Unique(ReadTable, InScope(ReadTable, "checked"))
  <2>1. PICK scope \in {"checked", "selected", "all"}, live \in BOOLEAN :
          Started(scope, Unique(ReadTable, InScope(ReadTable, scope)),
                  {f \in Families : Enabled(Load(file, clock), f)}, live \/ busy)
    BY <1>1, RunScopeStarts
  <2>2. scan'.kind = scope /\ scan'.targets = Unique(ReadTable, InScope(ReadTable, scope))
    BY <2>1 DEF Started
  <2>3. scope = "checked"
    BY <2>2
  <2> QED BY <2>2, <2>3
<1>2. ASSUME RunChecklist, ~(UNCHANGED audits)
      PROVE  scan'.targets = Unique(ReadTable, InScope(ReadTable, "checked"))
  <2>1. PICK families \in (SUBSET Families) \ {{}} :
          Started("checklist", Unique(ReadTable, InScope(ReadTable, "checked")), families, TRUE)
    BY <1>2, RunChecklistStarts
  <2> QED BY <2>1 DEF Started
<1>3. scan'.targets = Unique(ReadTable, InScope(ReadTable, "checked"))
  BY <1>1, <1>2, Starts
<1> QED
  BY <1>3, AsAsked

\* Importing a licence does not invalidate one that is valid.
LEMMA ImportStep ==
  ASSUME IInv, ImportLicense, Load(file, clock).status = "VALID"
  PROVE  Load(file', clock').status = "VALID"
<1>1. PICK source \in Licenses, copied \in BOOLEAN :
        file' = IF Load(source, clock).status \in Installable /\ copied THEN source ELSE file
  BY DEF ImportLicense
<1>2. clock' = clock
  BY DEF ImportLicense
<1> QED
  BY <1>1, <1>2 DEF Installable

\* Every audit that is started, but for a retry, is covered by the license file of
\* that moment, whatever the manager has cached; one of the checked rows has each
\* checked device as the operator set it; choosing another file never costs a
\* valid license.
THEOREM AuditsStartRightly == Spec => AuditsRightly
<1>1. IInv /\ [Next]_vars => (scans' # scans /\ scan'.kind # "retry" => Covers(file, clock, scan'))
  BY CoveredStep
<1>2. IInv /\ [Next]_vars =>
        (scans' # scans /\ scan'.kind \in {"checked", "checklist"} /\ ~disturbed =>
           /\ DOMAIN scan'.targets = {Normal(w.ip) : w \in {x \in Range(wanted) : x.checked}}
           /\ \A ip \in DOMAIN scan'.targets : \E w \in Range(wanted) :
                w.checked /\ Normal(w.ip) = ip /\ w.profile = scan'.targets[ip])
  BY AskedStep
<1>3. IInv => (ImportLicense /\ Load(file, clock).status = "VALID" => Load(file', clock').status = "VALID")
  BY ImportStep
<1>4. Spec => AuditsCovered
  BY <1>1, SetupInvariant, PTL DEF Spec, AuditsCovered
<1>5. Spec => AuditsAsAsked
  BY <1>2, SetupInvariant, PTL DEF Spec, AuditsAsAsked
<1>6. Spec => ImportKeepsValid
  BY <1>3, SetupInvariant, PTL DEF Spec, ImportKeepsValid
<1> QED
  BY <1>4, <1>5, <1>6 DEF AuditsRightly
-----------------------------------------------------------------------------
(***************************************************************************)
(* The Evidence page: its inductive invariant.                             *)
(***************************************************************************)
Answers == [generation : Nat, text : UNION {{Text(a), Failure(a)} : a \in Artifacts}]

PageTyped ==
  /\ artifacts \in Contexts /\ changed \in BOOLEAN /\ generation \in Nat
  /\ artifacts # <<>> => viewed \in DOMAIN artifacts
  /\ artifacts = <<>> => viewed = 0
  /\ readers \subseteq [generation : Nat, of : Artifacts]
  /\ posted \in Seq(Answers)

\* Nobody answers a question that was not asked yet.
Asked ==
  /\ \A r \in readers : r.generation <= generation
  /\ \A k \in DOMAIN posted : posted[k].generation <= generation

\* Whoever answers the latest question answers it for the selected row.
ToThePoint ==
  artifacts # <<>> /\ ~changed =>
    /\ \A r \in readers : r.generation = generation => r.of = artifacts[viewed]
    /\ \A k \in DOMAIN posted : posted[k].generation = generation =>
         posted[k].text \in {Text(artifacts[viewed]), Failure(artifacts[viewed])}

PageInv == PageTyped /\ Asked /\ ToThePoint /\ ShownIsSelected
-----------------------------------------------------------------------------

\* A message posted to a queue goes behind the others.
LEMMA Posted ==
  ASSUME NEW S, NEW s \in Seq(S), NEW e \in S
  PROVE  /\ Append(s, e) \in Seq(S)
         /\ DOMAIN Append(s, e) = 1..(Len(s) + 1) /\ DOMAIN s = 1..Len(s) /\ Len(s) \in Nat
         /\ \A i \in 1..Len(s) : Append(s, e)[i] = s[i]
         /\ Append(s, e)[Len(s) + 1] = e
  OBVIOUS

\* A message taken from a queue is its first.
LEMMA Taken ==
  ASSUME NEW S, NEW s \in Seq(S), s # <<>>
  PROVE  /\ Tail(s) \in Seq(S) /\ Head(s) \in S /\ Head(s) = s[1] /\ 1 \in DOMAIN s
         /\ \A i \in DOMAIN Tail(s) : i + 1 \in DOMAIN s /\ Tail(s)[i] = s[i + 1]
         /\ \A i \in DOMAIN s : i # 1 => i - 1 \in DOMAIN Tail(s) /\ Tail(s)[i - 1] = s[i]
  OBVIOUS

\* A list that is not empty has a first artifact, and its artifacts are Artifacts.
LEMMA Listing ==
  ASSUME NEW c \in Contexts, c # <<>>
  PROVE  1 \in DOMAIN c /\ \A k \in DOMAIN c : c[k] \in Artifacts
<1>1. c \in Seq(Range(c))
  BY ViewAssumption
<1>2. 1 \in DOMAIN c
  BY <1>1
<1>3. \A k \in DOMAIN c : c[k] \in Range(c)
  BY DEF Range
<1> QED
  BY <1>2, <1>3 DEF Artifacts

\* Texts, failures and messages are told apart.
LEMMA Told ==
  ASSUME NEW a
  PROVE  /\ Text(a).is # "message" /\ Failure(a).is # "message"
         /\ Text(a).of = a /\ Failure(a).of = a
         /\ Text(a) # Loading /\ Failure(a) # Loading
         /\ Loading.is = "message"
<1>1. Text(a).is = "text" /\ Failure(a).is = "failure" /\ Loading.is = "message"
  BY DEF Text, Failure, Loading, Message
<1>2. Text(a).of = a /\ Failure(a).of = a
  BY DEF Text, Failure
<1> QED
  BY <1>1, <1>2

\* The page begins in the invariant.
LEMMA InitPage == PageInit => PageInv
<1> SUFFICES ASSUME PageInit PROVE PageInv
  OBVIOUS
<1>1. posted \in Seq(Answers) /\ DOMAIN posted = {}
  BY DEF PageInit
<1> QED
  BY <1>1, ViewAssumption DEF PageInit, PageInv, PageTyped, Asked, ToThePoint, ShownIsSelected

\* A load asks a new question, which no earlier answer is for.
LEMMA LoadStep ==
  ASSUME PageTyped, Asked, NEW a \in Artifacts, LoadText(a)
  PROVE  /\ generation' \in Nat
         /\ readers' \subseteq [generation : Nat, of : Artifacts]
         /\ posted' \in Seq(Answers)
         /\ Asked'
         /\ \E r \in readers' : r.generation = generation' /\ r.of = a
         /\ \A r \in readers' : r.generation = generation' => r.of = a
         /\ \A k \in DOMAIN posted' : posted'[k].generation # generation'
         /\ raw' = Loading
<1> DEFINE new == [generation |-> generation + 1, of |-> a]
<1>1. readers' = readers \cup {new} /\ generation' = generation + 1 /\ posted' = posted
      /\ raw' = Loading
  BY DEF LoadText, Own
<1>2. generation \in Nat /\ new \in [generation : Nat, of : Artifacts]
  BY DEF PageTyped
<1>3. new.generation = generation + 1 /\ new.of = a
  OBVIOUS
<1>4. \A r \in readers : r.generation \in Nat /\ r.generation <= generation
  BY DEF PageTyped, Asked
<1>5. \A k \in DOMAIN posted : posted[k].generation \in Nat /\ posted[k].generation <= generation
  <2>1. \A k \in DOMAIN posted : posted[k] \in Answers
    BY DEF PageTyped
  <2>2. \A x \in Answers : x.generation \in Nat
    BY DEF Answers
  <2> QED
    BY <2>1, <2>2 DEF Asked
<1> HIDE DEF new
<1>6. \A r \in readers' : r.generation <= generation' /\ (r.generation = generation' => r.of = a)
  BY <1>1, <1>2, <1>3, <1>4
<1>7. \A k \in DOMAIN posted : posted[k].generation < generation'
  BY <1>1, <1>2, <1>5
<1>8. Asked'
  BY <1>1, <1>5, <1>6, <1>7, <1>2 DEF Asked
<1>9. \A k \in DOMAIN posted' : posted'[k].generation # generation'
  BY <1>1, <1>2, <1>5
<1> QED
  BY <1>1, <1>2, <1>3, <1>6, <1>8, <1>9 DEF PageTyped

\* What is opened is loaded, and its selection has yet to be reported.
LEMMA ShowStep ==
  ASSUME PageInv, NEW c \in Contexts, Show(c)
  PROVE  PageInv'
<1> USE DEF PageInv
<1>1. CASE c = <<>>
  BY <1>1 DEF Show, loadVars, PageTyped, Asked, ToThePoint, ShownIsSelected
<1>2. CASE c # <<>>
  <2>1. 1 \in DOMAIN c /\ c[1] \in Artifacts
    BY <1>2, Listing
  <2>2. artifacts' = c /\ viewed' = 1 /\ changed' = TRUE /\ LoadText(c[1])
    BY <1>2 DEF Show
  <2>3. PageTyped' /\ Asked'
    BY <1>2, <2>1, <2>2, LoadStep DEF PageTyped
  <2> QED
    BY <2>2, <2>3 DEF ToThePoint, ShownIsSelected
<1> QED
  BY <1>1, <1>2

\* A selection that is reported is loaded.
LEMMA SelectionStep ==
  ASSUME PageInv, SelectionChanged
  PROVE  PageInv'
<1> USE DEF PageInv
<1>1. CASE artifacts = <<>>
  BY <1>1 DEF SelectionChanged, loadVars, PageTyped, Asked, ToThePoint, ShownIsSelected
<1>2. CASE artifacts # <<>>
  <2>1. viewed \in DOMAIN artifacts /\ artifacts \in Contexts
    BY <1>2 DEF PageTyped
  <2>2. artifacts[viewed] \in Artifacts
    BY <1>2, <2>1, Listing
  <2>3. viewed # 0
    BY <2>1, ViewAssumption
  <2>4. LoadText(artifacts[viewed]) /\ artifacts' = artifacts /\ viewed' = viewed /\ changed' = FALSE
    BY <2>3 DEF SelectionChanged
  <2>5. PageTyped' /\ Asked'
    BY <2>2, <2>4, LoadStep DEF PageTyped
  <2>6. ToThePoint'
    BY <2>2, <2>4, LoadStep DEF ToThePoint
  <2>7. raw'.is = "message" /\ \E r \in readers' : r.generation = generation' /\ r.of = artifacts[viewed]
    BY <2>2, <2>4, LoadStep, Told
  <2>8. ShownIsSelected'
    BY <2>4, <2>7 DEF ShownIsSelected
  <2> QED
    BY <2>5, <2>6, <2>8
<1> QED
  BY <1>1, <1>2

\* An answer is posted for the artifact its reader was started for.
LEMMA ReadStep ==
  ASSUME PageInv, NEW r \in readers, Read(r)
  PROVE  PageInv'
<1> USE DEF PageInv
<1> DEFINE answer == [generation |-> r.generation,
                      text |-> IF r.of \in files THEN Text(r.of) ELSE Failure(r.of)]
<1>1. readers' = readers \ {r} /\ posted' = Append(posted, answer)
      /\ UNCHANGED <<artifacts, viewed, raw, loaded, changed, generation>>
  BY DEF Read, tabVars
<1>2. r.generation \in Nat /\ r.of \in Artifacts /\ r.generation <= generation
  BY DEF PageTyped, Asked
<1>3. answer.generation = r.generation /\ answer.text \in {Text(r.of), Failure(r.of)}
  OBVIOUS
<1>4. answer \in Answers
  BY <1>2 DEF Answers
<1> HIDE DEF answer
<1>5. /\ posted' \in Seq(Answers)
      /\ DOMAIN posted' = 1..(Len(posted) + 1) /\ DOMAIN posted = 1..Len(posted) /\ Len(posted) \in Nat
      /\ \A i \in 1..Len(posted) : posted'[i] = posted[i]
      /\ posted'[Len(posted) + 1] = answer
  BY <1>1, <1>4, Posted DEF PageTyped
<1>6. \A k \in DOMAIN posted' : (k \in DOMAIN posted /\ posted'[k] = posted[k]) \/ posted'[k] = answer
  BY <1>5
<1>7. PageTyped'
  BY <1>1, <1>5 DEF PageTyped
<1>8. Asked'
  BY <1>1, <1>2, <1>3, <1>6 DEF Asked
<1>9. ToThePoint'
  BY <1>1, <1>3, <1>6 DEF ToThePoint
<1>10. ShownIsSelected'
  <2> SUFFICES ASSUME artifacts # <<>>, ~changed
               PROVE  /\ raw.is # "message" => raw.of = artifacts[viewed] /\ loaded = raw
                      /\ raw = Loading =>
                           \/ \E q \in readers' : q.generation = generation /\ q.of = artifacts[viewed]
                           \/ \E k \in DOMAIN posted' : posted'[k].generation = generation
    BY <1>1 DEF ShownIsSelected, Wanted
  <2>1. raw.is # "message" => raw.of = artifacts[viewed] /\ loaded = raw
    BY DEF ShownIsSelected
  <2>2. ASSUME raw = Loading, NEW q \in readers, q.generation = generation, q.of = artifacts[viewed]
        PROVE  \/ q \in readers'
               \/ \E k \in DOMAIN posted' : posted'[k].generation = generation
    <3>1. CASE q # r
      BY <3>1, <1>1, <2>2
    <3>2. CASE q = r
      BY <3>2, <2>2, <1>3, <1>5
    <3> QED
      BY <3>1, <3>2
  <2>3. ASSUME raw = Loading, NEW k \in DOMAIN posted, posted[k].generation = generation
        PROVE  k \in DOMAIN posted' /\ posted'[k].generation = generation
    BY <2>3, <1>5
  <2>4. raw = Loading =>
          \/ \E q \in readers : q.generation = generation /\ q.of = artifacts[viewed]
          \/ \E k \in DOMAIN posted : posted[k].generation = generation
    BY DEF ShownIsSelected, Wanted
  <2> QED
    BY <2>1, <2>2, <2>3, <2>4
<1> QED
  BY <1>7, <1>8, <1>9, <1>10

\* An answer that is shown is to the latest question; one that is dropped is not.
LEMMA DeliverStep ==
  ASSUME PageInv, Deliver
  PROVE  PageInv'
<1> USE DEF PageInv
<1>1. posted # <<>> /\ posted' = Tail(posted)
      /\ UNCHANGED <<artifacts, viewed, changed, generation, readers>>
  BY DEF Deliver
<1>2. /\ posted' \in Seq(Answers) /\ Head(posted) \in Answers
      /\ Head(posted) = posted[1] /\ 1 \in DOMAIN posted
      /\ \A i \in DOMAIN posted' : i + 1 \in DOMAIN posted /\ posted'[i] = posted[i + 1]
      /\ \A i \in DOMAIN posted : i # 1 => i - 1 \in DOMAIN posted' /\ posted'[i - 1] = posted[i]
  BY <1>1, Taken DEF PageTyped
<1>3. PageTyped'
  BY <1>1, <1>2 DEF PageTyped
<1>4. Asked'
  BY <1>1, <1>2 DEF Asked
<1>5. ToThePoint'
  BY <1>1, <1>2 DEF ToThePoint
<1>6. CASE Wanted(Head(posted))
  <2>1. raw' = Head(posted).text /\ loaded' = Head(posted).text
    BY <1>6 DEF Deliver
  <2>2. artifacts # <<>> /\ ~changed =>
          raw' \in {Text(artifacts[viewed]), Failure(artifacts[viewed])}
    BY <1>2, <1>6, <2>1 DEF ToThePoint, Wanted
  <2>3. artifacts # <<>> /\ ~changed => raw'.of = artifacts[viewed] /\ raw' # Loading
    BY <2>2, Told
  <2>4. ShownIsSelected'
    BY <1>1, <2>1, <2>3 DEF ShownIsSelected
  <2> QED
    BY <1>3, <1>4, <1>5, <2>4
<1>7. CASE ~Wanted(Head(posted))
  <2>1. raw' = raw /\ loaded' = loaded
    BY <1>7 DEF Deliver
  <2>2. ASSUME NEW k \in DOMAIN posted, posted[k].generation = generation
        PROVE  \E j \in DOMAIN posted' : posted'[j].generation = generation
    <3>1. k # 1
      BY <1>2, <1>7, <2>2 DEF Wanted
    <3> QED
      BY <1>2, <2>2, <3>1
  <2>3. ShownIsSelected'
    BY <1>1, <2>1, <2>2 DEF ShownIsSelected, Wanted
  <2> QED
    BY <1>3, <1>4, <1>5, <2>3
<1> QED
  BY <1>6, <1>7

\* Every step of the page keeps the invariant.
LEMMA StepPage == PageInv /\ [PageNext]_pageVars => PageInv'
<1> SUFFICES ASSUME PageInv, [PageNext]_pageVars PROVE PageInv'
  OBVIOUS
<1>1. CASE Open
  BY <1>1, ShowStep DEF Open
<1>2. CASE Select
  <2>1. artifacts' = artifacts /\ changed' = TRUE /\ UNCHANGED <<generation, readers, posted>>
        /\ viewed' \in DOMAIN artifacts
    BY <1>2 DEF Select, loadVars
  <2>2. artifacts = <<>> => DOMAIN artifacts = {}
    OBVIOUS
  <2> QED
    BY <2>1, <2>2 DEF PageInv, PageTyped, Asked, ToThePoint, ShownIsSelected
<1>3. CASE Purge
  BY <1>3 DEF Purge, tabVars, loadVars, PageInv, PageTyped, Asked, ToThePoint, ShownIsSelected, Wanted
<1>4. CASE DeleteRun
  BY <1>4, ShowStep, ViewAssumption DEF DeleteRun
<1>5. CASE SelectionChanged
  BY <1>5, SelectionStep
<1>6. CASE Deliver
  BY <1>6, DeliverStep
<1>7. CASE \E g \in Generations : ReadFor(g)
  BY <1>7, ReadStep DEF ReadFor
<1>8. CASE UNCHANGED pageVars
  BY <1>8 DEF pageVars, tabVars, loadVars, PageInv, PageTyped, Asked, ToThePoint, ShownIsSelected, Wanted
<1> QED
  BY <1>1, <1>2, <1>3, <1>4, <1>5, <1>6, <1>7, <1>8 DEF PageNext

\* The invariant that ties questions, readers and answers to the selected row.
THEOREM PageInvariant == PageSpec => []PageInv
<1>1. PageInit => PageInv
  BY InitPage
<1>2. PageInv /\ [PageNext]_pageVars => PageInv'
  BY StepPage
<1> QED
  BY <1>1, <1>2, PTL DEF PageSpec

\* The output beside a table of artifacts is the selected artifact's, for any
\* number of selections and readers (load_evidence_text_async).
THEOREM SelectedIsDisplayed == PageSpec => []ShownIsSelected
<1>1. PageInv => ShownIsSelected
  BY DEF PageInv
<1> QED
  BY <1>1, PageInvariant, PTL
=============================================================================
