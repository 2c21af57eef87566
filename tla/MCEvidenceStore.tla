--------------------------- MODULE MCEvidenceStore ---------------------------
(* Instances of EvidenceStore for TLC: two threads and two devices. *)
EXTENDS EvidenceStore, TLC

CONSTANTS c1, c2, a, b, da, db

MCCallers == {c1, c2}
MCDevices == {a, b}
MCDirs    == {da, db}

\* Distinct addresses, distinct directories: what IPv4 targets give.
Apart  == a :> da @@ b :> db
\* 2001:db8::1 and 2001:db8:1:: both become 2001_db8_1.
Shared == a :> da @@ b :> da

Symmetry == Permutations(MCCallers)
=============================================================================
