--------------------------- MODULE MCOutboxSync ---------------------------
(* Instances of OutboxSync for TLC. *)
EXTENDS OutboxSync
=============================================================================
