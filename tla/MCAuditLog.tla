----------------------------- MODULE MCAuditLog -----------------------------
(* Small instance of AuditLog: two processes, two event bodies. *)
EXTENDS AuditLog, TLC

Processes == Permutations(Proc) \union Permutations(Body)
=============================================================================
