-------------------------- MODULE TraceMicroEvent --------------------------
(***************************************************************************)
(* The instrumentation of instructions (src/src/TraceMicroEvent.cpp): the  *)
(* analysis calls each instruction gets, and what they put into the logs   *)
(* when threads execute instructions, fault, and write and unmap memory    *)
(* under each other.                                                       *)
(*                                                                         *)
(* A thread passes through an instruction in three steps: the calls before *)
(* it, the instruction itself (or a fault), the calls after it.  All calls *)
(* before it are one step: they touch nothing of another thread.  Pin is   *)
(* external: a predicated call is made if the instruction's predicate is   *)
(* true; after a fault the program's handler may run, and the instruction  *)
(* begins again or is given up.                                            *)
(***************************************************************************)
EXTENDS Integers, Sequences, FiniteSets, Functions

CONSTANTS Threads,       \* indexes of the program's threads
          Program,       \* its instructions
          Addrs,         \* addresses of memory
          Null,          \* the address no thread has captured yet
          MaxWriteSize,  \* MAX_WRITE_SIZE
          MinFree,       \* MIN_LOG_FREE_SPACE, in bytes
          MaxPasses      \* bound: passes of all threads

Kinds == {"plain", "call", "ret", "syscall"}

Operand == [read : BOOLEAN, written : BOOLEAN, size : Nat]

Instruction == [kind : Kinds, operands : Seq(Operand),
                predicated : BOOLEAN,  \* it has a predicate, which may be false
                direct : BOOLEAN,      \* INS_IsDirectBranchOrCall
                plt : BOOLEAN]         \* its trace starts in the .plt section

Written(ins) == {k \in DOMAIN ins.operands : ins.operands[k].written}

(* One address is saved per thread, so an instruction may write one        *)
(* operand, as those of x86 do.  A return writes none and does not fall    *)
(* through, nor does what Pin takes for a call.                            *)
ASSUME ProgramAssumption ==
    /\ Program \subseteq Instruction
    /\ \A ins \in Program : /\ Cardinality(Written(ins)) <= 1
                            /\ ins.kind = "ret" => Written(ins) = {}
    /\ Null \notin Addrs
    /\ {MaxWriteSize, MinFree, MaxPasses} \subseteq Nat

VARIABLES
    pc,        \* pc[t]: "next", "before" or "after" an instruction
    passes,    \* passes[t]: history: what t did, one entry per pass
    writeEa,   \* WriteEa
    log,       \* log[t]: the micro-ops t has logged
    memory,    \* memory[a]: who wrote what is at a last, and at which pass
    unmapped,  \* the addresses that cannot be accessed
    aborted    \* the assertion in LogMemoryWrite has failed

vars == <<pc, passes, writeEa, log, memory, unmapped, aborted>>

Init ==
    /\ pc = [t \in Threads |-> "next"]
    /\ passes = [t \in Threads |-> <<>>]
    /\ writeEa = [t \in Threads |-> Null]
    /\ log = [t \in Threads |-> <<>>]
    /\ memory = [a \in Addrs |-> <<>>]
    /\ unmapped = {}
    /\ aborted = FALSE

Pass(t) == passes[t][Len(passes[t])]

----------------------------------------------------------------------------
(* What TraceMicroEvent inserts. *)

HasFallThrough(ins) == ins.kind \in {"plain", "syscall"}
IsBranchOrCall(ins) == ins.kind = "call"

(* AddLogMemoryRead, in the loop over the operands. *)
LogReads(ins, ea) ==
    LET reads[k \in 0 .. Len(ins.operands)] ==
            IF k = 0 THEN <<>>
            ELSE IF ins.operands[k].read
                   THEN Append(reads[k - 1], [op |-> "read", ea |-> ea[k], size |-> ins.operands[k].size])
                   ELSE reads[k - 1]
    IN  reads[Len(ins.operands)]

(* AddLogCall, which leaves out indirect calls in the .plt, and AddLogRet. *)
(* Nothing is inserted for a system call.                                  *)
LogCallOrRet(ins) ==
    CASE ins.kind = "call" /\ (ins.direct \/ ~ins.plt) -> <<[op |-> "call", direct |-> FALSE]>>
      [] ins.kind = "ret" -> <<[op |-> "ret"]>>
      [] OTHER -> <<>>

(* Mutant: LogPC is predicated like the rest. *)
BeforePredicated(ins, ea, true) ==
    IF true THEN <<[op |-> "pc", ins |-> ins]>> \o LogReads(ins, ea) \o LogCallOrRet(ins) ELSE <<>>

(* The micro-ops logged before an instruction: LogPC is inserted as the    *)
(* first call, the others follow in the code's order and are predicated.   *)
Before(ins, ea, true) ==
    <<[op |-> "pc", ins |-> ins]>> \o
    (IF true THEN LogReads(ins, ea) \o LogCallOrRet(ins) ELSE <<>>)

(* The operands whose address AddCaptureWriteEa saves, predicate or not.   *)
Captured(ins) == Written(ins)

(* Mutant: one address for all threads. *)
CaptureShared(t, ins, ea) ==
    IF Captured(ins) = {} THEN writeEa
    ELSE [u \in Threads |-> ea[CHOOSE k \in Captured(ins) : TRUE]]

(* CaptureWriteEa *)
Capture(t, ins, ea) ==
    IF Captured(ins) = {} THEN writeEa
    ELSE [writeEa EXCEPT ![t] = ea[CHOOSE k \in Captured(ins) : TRUE]]

(* AddLogMemoryWrite: predicated, after the instruction or, if it does not *)
(* fall through, where it goes.                                            *)
LogsWrite(ins, true) ==
    true /\ Written(ins) # {} /\ (HasFallThrough(ins) \/ IsBranchOrCall(ins))

(* Mutant: the assertion is compiled out. *)
TooLongNever(size) == FALSE

(* The assertion in LogMemoryWrite. *)
TooLong(size) == size > MaxWriteSize

----------------------------------------------------------------------------
(* Threads and their memory. *)

Touched(p) == IF p.true THEN Range(p.ea) ELSE {}

(* The address a pass writes; the instruction has only one. *)
Target(p) == p.ea[CHOOSE k \in Written(p.ins) : TRUE]

Writes(p) == p.true /\ Written(p.ins) # {}

(* The calls before an instruction. *)
BeginPass(t, ins, ea, true) ==
    /\ ~aborted
    /\ pc[t] = "next"
    /\ pc' = [pc EXCEPT ![t] = "before"]
    /\ passes' = [passes EXCEPT ![t] =
           Append(@, [ins |-> ins, ea |-> ea, true |-> true, done |-> FALSE, raced |-> FALSE])]
    /\ log' = [log EXCEPT ![t] = @ \o Before(ins, ea, true)]
    /\ writeEa' = Capture(t, ins, ea)
    /\ UNCHANGED <<memory, unmapped, aborted>>

(* The history when the threads U find a changed under what they write. *)
Race(U, a) ==
    [u \in Threads |->
        IF u \in U /\ pc[u] = "after" /\ Writes(Pass(u)) /\ Target(Pass(u)) = a
          THEN [passes[u] EXCEPT ![Len(passes[u])].raced = TRUE] ELSE passes[u]]

(* The instruction itself. *)
Execute(t) ==
    /\ ~aborted
    /\ pc[t] = "before"
    /\ Touched(Pass(t)) \cap unmapped = {}
    /\ pc' = [pc EXCEPT ![t] = "after"]
    /\ LET others == IF Writes(Pass(t)) THEN Race(Threads \ {t}, Target(Pass(t))) ELSE passes
       IN  passes' = [others EXCEPT ![t][Len(passes[t])].done = TRUE]
    /\ memory' = IF Writes(Pass(t))
                   THEN [memory EXCEPT ![Target(Pass(t))] = <<t, Len(passes[t])>>] ELSE memory
    /\ UNCHANGED <<log, writeEa, unmapped, aborted>>

(* An access fails: nothing is written, nothing is called after it. *)
Fault(t) ==
    /\ ~aborted
    /\ pc[t] = "before"
    /\ Touched(Pass(t)) \cap unmapped # {}
    /\ pc' = [pc EXCEPT ![t] = "next"]
    /\ UNCHANGED <<passes, log, writeEa, memory, unmapped, aborted>>

(* LogMemoryWrite, if it is called: what is at the saved address now, and  *)
(* nothing of it if it cannot be copied.                                   *)
EndPass(t) ==
    LET p    == Pass(t)
        size == p.ins.operands[CHOOSE k \in Written(p.ins) : TRUE].size
        w    == [op |-> "write", ea |-> writeEa[t],
                 size |-> IF writeEa[t] \in unmapped THEN 0 ELSE size,
                 data |-> IF writeEa[t] \in unmapped THEN <<>> ELSE memory[writeEa[t]]]
    IN  /\ ~aborted
        /\ pc[t] = "after"
        /\ \/ /\ ~LogsWrite(p.ins, p.true)
              /\ pc' = [pc EXCEPT ![t] = "next"]
              /\ UNCHANGED <<log, aborted>>
           \/ /\ LogsWrite(p.ins, p.true)
              /\ ~TooLong(size)
              /\ log' = [log EXCEPT ![t] = Append(@, w)]
              /\ pc' = [pc EXCEPT ![t] = "next"]
              /\ UNCHANGED aborted
           \/ /\ LogsWrite(p.ins, p.true)
              /\ TooLong(size)
              /\ aborted' = TRUE
              /\ UNCHANGED <<pc, log>>
        /\ UNCHANGED <<passes, writeEa, memory, unmapped>>

(* The program or the kernel changes what can be accessed.  Bounds: one    *)
(* address at a time, and when a thread is at an instruction that uses it; *)
(* before that it makes no difference.                                     *)
Unmap(a) ==
    /\ ~aborted
    /\ unmapped = {}
    /\ \E t \in Threads : pc[t] # "next" /\ a \in Range(Pass(t).ea)
    /\ unmapped' = unmapped \cup {a}
    /\ passes' = Race(Threads, a)
    /\ UNCHANGED <<pc, log, writeEa, memory, aborted>>

Map(a) ==
    /\ ~aborted
    /\ a \in unmapped
    /\ unmapped' = unmapped \ {a}
    /\ UNCHANGED <<pc, passes, log, writeEa, memory, aborted>>

Made == FoldFunction(LAMBDA p, n : Len(p) + n, 0, passes)

(* The process is gone, or has reached the bound. *)
Over == /\ aborted \/ (Made = MaxPasses /\ \A t \in Threads : pc[t] = "next")
        /\ UNCHANGED vars

Next == \/ \E t \in Threads, ins \in Program :
             /\ Made < MaxPasses
             /\ \E ea \in [DOMAIN ins.operands -> Addrs],
                   true \in IF ins.predicated THEN BOOLEAN ELSE {TRUE} :
                      BeginPass(t, ins, ea, true)
        \/ \E t \in Threads : \/ Execute(t)
                              \/ Fault(t)
                              \/ EndPass(t)
        \/ \E a \in Addrs : \/ Unmap(a)
                            \/ Map(a)
        \/ Over

Spec == Init /\ [][Next]_vars

----------------------------------------------------------------------------
(* The micro-ops from t's j-th OP_NEWPC to the next. *)
Heads(t) == {i \in DOMAIN log[t] : log[t][i].op = "pc"}

Group(t, j) ==
    LET from == CHOOSE i \in Heads(t) : Cardinality({h \in Heads(t) : h <= i}) = j
        to   == {h \in Heads(t) : h > from}
    IN  SubSeq(log[t], from, IF to = {} THEN Len(log[t]) ELSE (CHOOSE h \in to : \A g \in to : h <= g) - 1)

Of(g, op) == {i \in DOMAIN g : g[i].op = op}

(* A thread's log has a group for every instruction it began, predicated   *)
(* off or faulting ones too, and so instruction indexes count passes.  The *)
(* group is the instruction's: its reads, and its call or return, once     *)
(* each and only if its predicate held, the write after them.              *)
GroupPerPass ==
    \A t \in Threads :
        /\ Cardinality(Heads(t)) = Len(passes[t])
        /\ \A j \in DOMAIN passes[t] :
              LET g == Group(t, j)
                  p == passes[t][j]
                  n == Len(p.ins.operands)
              IN  /\ g[1] = [op |-> "pc", ins |-> p.ins]
                  /\ ~p.true => Len(g) = 1
                  /\ p.true =>
                       /\ Cardinality(Of(g, "read")) = Cardinality({k \in 1 .. n : p.ins.operands[k].read})
                       /\ \A k \in 1 .. n : p.ins.operands[k].read =>
                            \E i \in Of(g, "read") : g[i].ea = p.ea[k] /\ g[i].size = p.ins.operands[k].size
                       /\ Cardinality(Of(g, "ret")) = (IF p.ins.kind = "ret" THEN 1 ELSE 0)
                       /\ Cardinality(Of(g, "call")) =
                            (IF p.ins.kind = "call" /\ ~(p.ins.plt /\ ~p.ins.direct) THEN 1 ELSE 0)
                  /\ \A i \in Of(g, "write") : i = Len(g)

(* Whether the j-th pass of t is over. *)
IsOver(t, j) == j < Len(passes[t]) \/ pc[t] = "next"

(* A write is logged once if the instruction wrote, and never otherwise    *)
(* (its predicate was false, it faulted), and at the address this very     *)
(* pass wrote, although the address was saved in a global array and faults *)
(* have let a handler's instructions use it.  Its data are what this pass  *)
(* wrote, all of it, unless another thread got at the address before they  *)
(* were copied.                                                            *)
WriteTold ==
    \A t \in Threads : \A j \in DOMAIN passes[t] :
        LET g == Group(t, j)
            p == passes[t][j]
        IN  /\ IsOver(t, j) => Cardinality(Of(g, "write")) = (IF p.done /\ Writes(p) THEN 1 ELSE 0)
            /\ \A i \in Of(g, "write") :
                  /\ p.done
                  /\ g[i].ea = Target(p)
                  /\ ~p.raced => /\ g[i].data = <<t, j>>
                                 /\ \E k \in Written(p.ins) : g[i].size = p.ins.operands[k].size

Word == 8  \* sizeof(ADDRINT)

(* What MicroEventLog puts for a micro-op. *)
Bytes(o) == CASE o.op = "pc"    -> 1 + Word
              [] o.op = "read"  -> 1 + Word + 4
              [] o.op = "write" -> 1 + Word + 4 + o.size
              [] o.op = "call"  -> 1 + Word + Word + 1
              [] o.op = "ret"   -> 1 + Word

(* An instruction that reads as many operands as x86 ones do, calls and    *)
(* writes as much as the assertion allows, fits: 33 reads would.           *)
ASSUME FewReads ==
    \A ins \in Program :
        LET reads == {k \in DOMAIN ins.operands : ins.operands[k].read}
        IN  13 * Cardinality(reads) + 40 + MaxWriteSize <= MinFree

(* The micro-ops of an instruction fit into the space that CheckFlush      *)
(* leaves free before it ("bump the value", MicroEventLog.h:11-14): it is  *)
(* the assertion about the size of a write that makes sure of it.          *)
GroupFits ==
    \A t \in Threads : \A j \in DOMAIN passes[t] :
        FoldFunction(LAMBDA o, n : Bytes(o) + n, 0, Group(t, j)) <= MinFree
=============================================================================
