---------------------------- MODULE MCStigLibrary ----------------------------
(* Two releases of one family, with a rule whose text changes, and a package *)
(* that may be taken for either family: imported as the first one, it is the *)
(* second release published again, with a rule more.                         *)
EXTENDS StigLibrary

Package(hint, version, revision, rules) ==
  [hint |-> hint, benchmark |-> "Cisco_IOS-XE", version |-> version, revision |-> revision, rules |-> rules]

MCPackages ==
  {Package(Layer2, 1, 1, [v \in {"V-1"} |-> "old"]),
   Package(Layer2, 2, 2, [v \in {"V-1"} |-> "new"]),
   Package(NoHint, 2, 3, [v \in {"V-1", "V-2"} |-> IF v = "V-1" THEN "new" ELSE "added"])}

\* The check of V-2 gives the STIG ID of V-1: it is of V-1 in the releases that
\* have no V-2, and of neither rule in the one that has both.
MCEdits == {{Check("V-1", "V-1", TRUE, "")}, {Check("V-2", "V-1", TRUE, "new")}}
=============================================================================
