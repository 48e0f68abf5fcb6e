---------------------------- MODULE MCTraceCode ----------------------------
(* TraceCode for TLC: images of two addresses and of one, in each other's  *)
(* place.                                                                  *)
EXTENDS TraceCode, TLC

CONSTANTS a1, a2

MCSpans == {{a1, a2}, {a2}}

Symmetry == Permutations(Threads)
=============================================================================
