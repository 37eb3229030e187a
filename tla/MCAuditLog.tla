---------------------------- MODULE MCAuditLog ----------------------------
(* The audit log with a handful of records, for TLC. *)
EXTENDS AuditLog, TLC
===========================================================================
