----------------------------- MODULE MCSandbox -----------------------------
(* An instance of Sandbox for TLC. *)
EXTENDS Sandbox, TLC
=============================================================================
