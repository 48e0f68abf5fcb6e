----------------------------- MODULE MCZTracer -----------------------------
(* ZTracer for TLC. *)
EXTENDS ZTracer
=============================================================================
