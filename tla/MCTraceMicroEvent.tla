------------------------- MODULE MCTraceMicroEvent -------------------------
(* TraceMicroEvent for TLC. *)
EXTENDS TraceMicroEvent, TLC

R(n)  == [read |-> TRUE,  written |-> FALSE, size |-> n]
W(n)  == [read |-> FALSE, written |-> TRUE,  size |-> n]
RW(n) == [read |-> TRUE,  written |-> TRUE,  size |-> n]

Ins(kind, operands, predicated, direct, plt) ==
    [kind |-> kind, operands |-> operands, predicated |-> predicated, direct |-> direct, plt |-> plt]

MCProgram ==
    {Ins("plain", <<RW(4)>>, FALSE, FALSE, FALSE),        \* add mem, reg
     Ins("plain", <<W(8)>>, TRUE, FALSE, FALSE),          \* rep stos
     Ins("plain", <<W(512)>>, FALSE, FALSE, FALSE),       \* fxsave
     Ins("call", <<R(8), W(8)>>, FALSE, FALSE, FALSE),    \* a call through memory
     Ins("call", <<W(8)>>, FALSE, FALSE, TRUE),           \* an indirect call in the .plt
     Ins("ret", <<R(8)>>, FALSE, FALSE, FALSE)}

(* Addresses and threads differ in nothing but their identity. *)
Symmetry == Permutations(Addrs) \cup Permutations(Threads)
=============================================================================
