---------------------------- MODULE MCTraceFile ----------------------------
(* TraceFile for TLC. *)
EXTENDS TraceFile
=============================================================================
