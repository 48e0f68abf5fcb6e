----------------------- MODULE MCInstructionCounter -----------------------
(* InstructionCounter for TLC: an owner and two readers, words of three   *)
(* values, so that two carries happen within the bound and the second one *)
(* starts from a high word that is not 0.                                 *)
EXTENDS InstructionCounter
=============================================================================
