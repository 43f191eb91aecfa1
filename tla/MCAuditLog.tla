---------------------------- MODULE MCAuditLog ----------------------------
(* AuditLog for TLC with a writer that does not lock, and no mishap.       *)
EXTENDS AuditLog
CONSTANTS w1, w2, u1
Calm == [m \in Mishaps |-> 0]
=============================================================================
