---------------------------- MODULE MCWorkQueue -----------------------------
(* WorkQueue for TLC: its configurations name the constants' values.  There is no *)
(* symmetry set, because liveness is checked too.                           *)
EXTENDS WorkQueue
=============================================================================
