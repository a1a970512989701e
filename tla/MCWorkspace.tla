----------------------------- MODULE MCWorkspace -----------------------------
(* Workspace for TLC: its configuration names the constants' values. *)
EXTENDS Workspace
=============================================================================
