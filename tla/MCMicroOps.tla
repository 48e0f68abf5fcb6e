----------------------------- MODULE MCMicroOps -----------------------------
(* MicroOps for TLC. *)
EXTENDS MicroOps

(* One byte and two, the first one being an opcode as well. *)
SomeWords == {1, 2 + 4 * Base}

(* No data, and data that looks like an OP_NEWPC. *)
SomeData == {<<>>, <<1, 2>>}
=============================================================================
