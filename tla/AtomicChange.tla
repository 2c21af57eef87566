---------------------------- MODULE AtomicChange ----------------------------
(***************************************************************************)
(* What an operation on stored data promises that takes many steps and has *)
(* no transaction around them: whoever looks when it is over finds the     *)
(* data as it was or as it was to become, never a mixture.  AuditPackage   *)
(* (import of a package) and BackupRestore (restore in place) implement it.*)
(***************************************************************************)
VARIABLES busy,  \* is an operation under way?
          value  \* what is seen when none is; it keeps while one is

ChangeInit == busy = FALSE /\ value \in {"before", "after"}

Begin == ~busy /\ busy' = TRUE /\ UNCHANGED value

End(v) == busy /\ busy' = FALSE /\ value' = v

ChangeNext == Begin \/ End("before") \/ End("after")

ChangeSpec == ChangeInit /\ [][ChangeNext]_<<busy, value>>
=============================================================================
