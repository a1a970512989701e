--------------------------- MODULE MCFulfilment ---------------------------
(* Instances of Fulfilment for TLC. *)
EXTENDS Fulfilment
=============================================================================
