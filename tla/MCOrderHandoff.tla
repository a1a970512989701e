--------------------------- MODULE MCOrderHandoff ---------------------------
(* OrderHandoff for TLC: its configurations name the constants' values.  There is no *)
(* symmetry set, because liveness is checked too.                           *)
EXTENDS OrderHandoff
=============================================================================
