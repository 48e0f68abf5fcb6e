----------------------- MODULE TraceMicroEventProofs -----------------------
(***************************************************************************)
(* Theorems about TraceMicroEvent, for any program, any number of threads, *)
(* addresses and passes: a thread's log is the sequence of what its passes *)
(* through instructions told, one group for each.                          *)
(*                                                                         *)
(* The properties find a group by counting OP_NEWPCs; the invariant says   *)
(* where the groups are: CutAt cuts the log in front of every pass and     *)
(* says what each piece tells of its pass (Tells).  What the last write    *)
(* tells rests on what holds between the calls before an instruction and   *)
(* those after it (PassOK): whose address is in WriteEa, and that memory   *)
(* has the pass's value unless another thread has got at the address.      *)
(***************************************************************************)
EXTENDS TraceMicroEvent, FiniteSetTheorems, SequenceTheorems, WellFoundedInduction, TLAPS

----------------------------------------------------------------------------
(* Induction, and what it says of the loop over the operands.              *)

(* A set of numbers that has one has a least one. *)
LEMMA LeastNat ==
    ASSUME NEW T \in SUBSET Nat, T # {}
    PROVE  \E n \in T : \A m \in T : n <= m
<1> DEFINE R == {ss \in Nat \X Nat : ss[1] < ss[2]}
<1>1. IsWellFoundedOn(R, Nat)
  BY NatLessThanWellFounded DEF OpToRel
<1>2. \E x \in T : \A y \in T : ~ (<<y, x>> \in R)
  <2> HIDE DEF R
  <2> QED
    BY <1>1, WFMin
<1>3. \A x, y \in Nat : y < x => <<y, x>> \in R
  OBVIOUS
<1> HIDE DEF R
<1>4. PICK x \in T : \A y \in T : ~ (<<y, x>> \in R)
  BY <1>2
<1>5. \A y \in T : ~ (y < x)
  BY <1>3, <1>4
<1> QED
  BY <1>5

(* What holds of 0 and of the number after any number it holds of, holds   *)
(* of every number.                                                        *)
LEMMA Induction ==
    ASSUME NEW S, 0 \in S, \A n \in Nat : n \in S => n + 1 \in S
    PROVE  \A n \in Nat : n \in S
<1> SUFFICES ASSUME {n \in Nat : n \notin S} # {} PROVE FALSE
  OBVIOUS
<1>1. PICK n \in {k \in Nat : k \notin S} : \A m \in {k \in Nat : k \notin S} : n <= m
  BY LeastNat
<1>2. n - 1 \in Nat /\ n - 1 \in S
  BY <1>1
<1> QED
  BY <1>1, <1>2

(* The read micro-op of an operand. *)
ReadOp(ins, ea, k) == [op |-> "read", ea |-> ea[k], size |-> ins.operands[k].size]

(* One turn of the loop over the operands, after those that reads knows.   *)
Turn(ins, ea, reads, k) ==
    IF k = 0 THEN <<>>
    ELSE IF ins.operands[k].read THEN Append(reads[k - 1], ReadOp(ins, ea, k)) ELSE reads[k - 1]

(* The loop has a result: the function that LogReads chooses is there.     *)
LEMMA ReadsLoop ==
    ASSUME NEW ins, NEW ea, Len(ins.operands) \in Nat
    PROVE  \E reads : /\ LogReads(ins, ea) = reads[Len(ins.operands)]
                      /\ reads = [k \in 0 .. Len(ins.operands) |-> Turn(ins, ea, reads, k)]
<1> DEFINE n == Len(ins.operands)
           Upto(h, m) == /\ h = [k \in 0 .. n |-> h[k]]
                         /\ \A k \in 0 .. n : k <= m => h[k] = Turn(ins, ea, h, k)
           S == {m \in Nat : \E h : Upto(h, m)}
<1>1. 0 \in S
  <2> DEFINE h == [k \in 0 .. n |-> <<>>]
  <2>1. Upto(h, 0)
    BY DEF Turn
  <2> HIDE DEF h, Upto
  <2> QED
    BY <2>1
<1>2. ASSUME NEW m \in Nat, m \in S PROVE m + 1 \in S
  <2>1. PICK h : Upto(h, m)
    BY <1>2
  <2> DEFINE g == [k \in 0 .. n |-> Turn(ins, ea, h, k)]
  <2>2. \A k \in 0 .. n : k <= m => g[k] = h[k]
    BY <2>1
  <2>3. ASSUME NEW k \in 0 .. n, k <= m + 1 PROVE Turn(ins, ea, g, k) = Turn(ins, ea, h, k)
    <3>1. k = 0 \/ (k - 1 \in 0 .. n /\ k - 1 <= m)
      BY <2>3
    <3> HIDE DEF g
    <3> QED
      BY <2>2, <3>1 DEF Turn
  <2>4. Upto(g, m + 1)
    BY <2>3
  <2> HIDE DEF g, Upto
  <2> QED
    BY <2>4
<1>3. \E h : Upto(h, n)
  <2> HIDE DEF Upto
  <2>1. n \in S
    <3> HIDE DEF S
    <3> QED
      BY <1>1, <1>2, Induction
  <2> QED
    BY <2>1
<1>4. \E h : h = [k \in 0 .. n |-> Turn(ins, ea, h, k)]
  <2>1. PICK h : Upto(h, n)
    BY <1>3
  <2>2. h = [k \in 0 .. n |-> h[k]]
    BY <2>1
  <2> QED
    BY <2>1, <2>2
<1> DEFINE It == CHOOSE h : h = [k \in 0 .. n |-> Turn(ins, ea, h, k)]
<1>5. It = [k \in 0 .. n |-> Turn(ins, ea, It, k)]
  BY <1>4
<1>6. LogReads(ins, ea) = It[n]
  BY DEF LogReads, Turn, ReadOp
<1> HIDE DEF It
<1> QED
  BY <1>5, <1>6

ReadAt(ins) == {k \in DOMAIN ins.operands : ins.operands[k].read}

ReadOps == [op : {"read"}, ea : Addrs, size : Nat]

(* The operands of an instruction. *)
LEMMA OperandTypes ==
    ASSUME NEW ins \in Program
    PROVE  /\ ins \in Instruction
           /\ Len(ins.operands) \in Nat /\ DOMAIN ins.operands = 1 .. Len(ins.operands)
           /\ \A k \in DOMAIN ins.operands : ins.operands[k] \in Operand
BY ProgramAssumption DEF Instruction

(* The instruction's reads are logged: each operand that is read, once.    *)
LEMMA ReadsLogged ==
    ASSUME NEW ins \in Program, NEW ea \in [DOMAIN ins.operands -> Addrs]
    PROVE  LET reads == LogReads(ins, ea) IN
           /\ reads \in Seq(ReadOps)
           /\ IsFiniteSet(ReadAt(ins))
           /\ Len(reads) = Cardinality(ReadAt(ins))
           /\ Len(reads) <= Len(ins.operands)
           /\ \A k \in ReadAt(ins) : \E i \in 1 .. Len(reads) : reads[i] = ReadOp(ins, ea, k)
<1> DEFINE n == Len(ins.operands)
           Upto(m) == {k \in 1 .. m : ins.operands[k].read}
<1>1. n \in Nat /\ DOMAIN ins.operands = 1 .. n /\ \A k \in 1 .. n : ins.operands[k] \in Operand
  BY OperandTypes
<1>2. PICK reads : /\ LogReads(ins, ea) = reads[n]
                   /\ reads = [k \in 0 .. n |-> Turn(ins, ea, reads, k)]
  BY <1>1, ReadsLoop
<1> DEFINE Good(m) == /\ reads[m] \in Seq(ReadOps)
                      /\ IsFiniteSet(Upto(m)) /\ Len(reads[m]) = Cardinality(Upto(m))
                      /\ Len(reads[m]) <= m
                      /\ \A k \in Upto(m) : \E i \in 1 .. Len(reads[m]) : reads[m][i] = ReadOp(ins, ea, k)
           S == {m \in Nat : m <= n => Good(m)}
<1>3. Good(0)
  <2>1. reads[0] = <<>>
    BY <1>1, <1>2 DEF Turn
  <2>2. Upto(0) = {}
    OBVIOUS
  <2> QED
    BY <2>1, <2>2, FS_EmptySet
<1>4. ASSUME NEW m \in Nat, m + 1 <= n, Good(m) PROVE Good(m + 1)
  <2>1. m + 1 \in 1 .. n /\ m + 1 \in 0 .. n /\ m \in 0 .. n /\ m + 1 # 0 /\ (m + 1) - 1 = m
    BY <1>1, <1>4
  <2>2. reads[m + 1] = IF ins.operands[m + 1].read THEN Append(reads[m], ReadOp(ins, ea, m + 1))
                       ELSE reads[m]
    <3>1. \A k \in 0 .. n : reads[k] = Turn(ins, ea, reads, k)
      BY <1>2
    <3>2. reads[m + 1] = Turn(ins, ea, reads, m + 1)
      BY <2>1, <3>1
    <3> QED
      BY <2>1, <3>2 DEF Turn
  <2>3. CASE ~ins.operands[m + 1].read
    <3>1. Upto(m + 1) = Upto(m)
      BY <2>1, <2>3
    <3>2. reads[m + 1] = reads[m] /\ Len(reads[m]) \in Nat
      BY <1>4, <2>2, <2>3
    <3> HIDE DEF Upto
    <3> QED
      BY <1>4, <3>1, <3>2
  <2>4. CASE ins.operands[m + 1].read
    <3>1. Upto(m + 1) = Upto(m) \cup {m + 1} /\ m + 1 \notin Upto(m)
      BY <2>1, <2>4
    <3>2. IsFiniteSet(Upto(m + 1)) /\ Cardinality(Upto(m + 1)) = Cardinality(Upto(m)) + 1
      <4> HIDE DEF Upto
      <4> QED
        BY <1>4, <3>1, FS_AddElement
    <3>3. ReadOp(ins, ea, m + 1) \in ReadOps
      BY <1>1, <2>1 DEF ReadOp, ReadOps, Operand
    <3>4. PICK r : r = reads[m + 1]
      OBVIOUS
    <3>5. /\ r \in Seq(ReadOps) /\ Len(r) = Len(reads[m]) + 1
          /\ \A i \in 1 .. Len(reads[m]) : r[i] = reads[m][i]
          /\ r[Len(reads[m]) + 1] = ReadOp(ins, ea, m + 1)
      <4>1. reads[m] \in Seq(ReadOps) /\ r = Append(reads[m], ReadOp(ins, ea, m + 1))
        BY <1>4, <2>2, <2>4, <3>4
      <4> HIDE DEF ReadOps
      <4> QED
        BY <3>3, <4>1, AppendProperties
    <3>6. Len(reads[m]) \in Nat
      BY <1>4
    <3>7. ASSUME NEW k \in Upto(m + 1)
          PROVE  \E i \in 1 .. Len(r) : r[i] = ReadOp(ins, ea, k)
      <4>1. CASE k \in Upto(m)
        <5>1. PICK i \in 1 .. Len(reads[m]) : reads[m][i] = ReadOp(ins, ea, k)
          BY <1>4, <4>1
        <5>2. i \in 1 .. Len(r)
          BY <3>5, <3>6
        <5> QED
          BY <3>5, <5>1, <5>2
      <4>2. CASE k = m + 1
        BY <3>5, <3>6, <4>2
      <4> QED
        BY <3>1, <4>1, <4>2
    <3> HIDE DEF Upto
    <3> QED
      BY <1>4, <3>2, <3>4, <3>5, <3>6, <3>7
  <2> QED
    BY <2>3, <2>4
<1>5. Good(n)
  <2> HIDE DEF Good
  <2>1. n \in S
    <3>1. 0 \in S /\ \A m \in Nat : m \in S => m + 1 \in S
      BY <1>1, <1>3, <1>4
    <3> HIDE DEF S
    <3> QED
      BY <1>1, <3>1, Induction
  <2> QED
    BY <1>1, <2>1
<1>6. Upto(n) = ReadAt(ins)
  BY <1>1 DEF ReadAt
<1> QED
  BY <1>2, <1>5, <1>6
----------------------------------------------------------------------------
(* The states.                                                             *)

Values == {<<>>} \cup (Threads \X Nat)

PcOps    == [op : {"pc"}, ins : Program]
CallOps  == [op : {"call"}, direct : {FALSE}]
RetOps   == [op : {"ret"}]
WriteOps == [op : {"write"}, ea : Addrs, size : Nat, data : Values]

Ops == PcOps \cup ReadOps \cup CallOps \cup RetOps \cup WriteOps

Eas(ins) == [DOMAIN ins.operands -> Addrs]

Passes == {p \in [ins : Program, ea : UNION {Eas(ins) : ins \in Program},
                  true : BOOLEAN, done : BOOLEAN, raced : BOOLEAN] : p.ea \in Eas(p.ins)}

TypeOK ==
    /\ pc \in [Threads -> {"next", "before", "after"}]
    /\ passes \in [Threads -> Seq(Passes)]
    /\ writeEa \in [Threads -> Addrs \cup {Null}]
    /\ log \in [Threads -> Seq(Ops)]
    /\ memory \in [Addrs -> Values]
    /\ unmapped \in SUBSET Addrs
    /\ \A t \in Threads : pc[t] # "next" => Len(passes[t]) > 0

(* The operand that an instruction writes. *)
WriteAt(ins) == CHOOSE k \in Written(ins) : TRUE

LEMMA WriteAtWritten ==
    ASSUME NEW ins \in Program, Written(ins) # {}
    PROVE  /\ WriteAt(ins) \in DOMAIN ins.operands /\ WriteAt(ins) \in Written(ins)
           /\ ins.operands[WriteAt(ins)].size \in Nat
<1>1. WriteAt(ins) \in Written(ins)
  BY DEF WriteAt
<1>2. WriteAt(ins) \in DOMAIN ins.operands
  BY <1>1 DEF Written
<1>3. ins.operands[WriteAt(ins)] \in Operand
  BY <1>2, OperandTypes
<1> QED
  BY <1>1, <1>2, <1>3 DEF Operand

LEMMA PassTypes ==
    ASSUME NEW p \in Passes
    PROVE  /\ p.ins \in Program /\ p.ea \in Eas(p.ins)
           /\ p.true \in BOOLEAN /\ p.done \in BOOLEAN /\ p.raced \in BOOLEAN
           /\ Written(p.ins) # {} => Target(p) = p.ea[WriteAt(p.ins)] /\ Target(p) \in Addrs
<1>1. p.ins \in Program /\ p.ea \in Eas(p.ins) /\ p.true \in BOOLEAN /\ p.done \in BOOLEAN /\ p.raced \in BOOLEAN
  BY DEF Passes
<1>2. Target(p) = p.ea[WriteAt(p.ins)]
  BY DEF Target, WriteAt
<1>3. Written(p.ins) # {} => Target(p) \in Addrs
  BY <1>1, <1>2, WriteAtWritten DEF Eas
<1> QED
  BY <1>1, <1>2, <1>3

Raced(p) == [p EXCEPT !.raced = TRUE]
Done(p)  == [p EXCEPT !.done = TRUE]

(* A pass that is marked keeps its instruction, addresses and predicate.   *)
LEMMA MarkPass ==
    ASSUME NEW p \in Passes
    PROVE  /\ Raced(p) \in Passes /\ Done(p) \in Passes
           /\ Raced(p).ins = p.ins /\ Raced(p).ea = p.ea /\ Raced(p).true = p.true
           /\ Done(p).ins = p.ins /\ Done(p).ea = p.ea /\ Done(p).true = p.true
           /\ Raced(p).raced /\ Raced(p).done = p.done
           /\ Done(p).done /\ Done(p).raced = p.raced
BY DEF Passes, Raced, Done

(* What the thread does last. *)
LEMMA LastPass ==
    ASSUME TypeOK, NEW t \in Threads, pc[t] # "next"
    PROVE  /\ Len(passes[t]) \in 1 .. Len(passes[t])
           /\ Pass(t) = passes[t][Len(passes[t])] /\ Pass(t) \in Passes
<1>1. passes[t] \in Seq(Passes) /\ Len(passes[t]) > 0
  BY DEF TypeOK
<1>2. Len(passes[t]) \in 1 .. Len(passes[t])
  BY <1>1
<1> QED
  BY <1>1, <1>2 DEF Pass

(* The pass of u that finds a changed under what it writes.                *)
RacedAt(u, a) == pc[u] = "after" /\ Writes(Pass(u)) /\ Target(Pass(u)) = a

LEMMA RaceMarks ==
    ASSUME TypeOK, NEW U \in SUBSET Threads, NEW a, NEW u \in Threads
    PROVE  /\ Race(U, a)[u] \in Seq(Passes)
           /\ Len(Race(U, a)[u]) = Len(passes[u])
           /\ (u \notin U \/ ~RacedAt(u, a)) => Race(U, a)[u] = passes[u]
           /\ u \in U /\ RacedAt(u, a) =>
                \A j \in 1 .. Len(passes[u]) :
                   Race(U, a)[u][j] = IF j = Len(passes[u]) THEN Raced(passes[u][j]) ELSE passes[u][j]
<1>1. passes[u] \in Seq(Passes)
  BY DEF TypeOK
<1>2. CASE ~(u \in U /\ RacedAt(u, a))
  BY <1>1, <1>2 DEF Race, RacedAt
<1>3. CASE u \in U /\ RacedAt(u, a)
  <2>1. Len(passes[u]) \in 1 .. Len(passes[u]) /\ passes[u][Len(passes[u])] \in Passes
    BY <1>3, LastPass DEF RacedAt
  <2>2. Race(U, a)[u] = [passes[u] EXCEPT ![Len(passes[u])] = Raced(passes[u][Len(passes[u])])]
    BY <1>3 DEF Race, RacedAt, Raced
  <2>3. PICK q : q = Raced(passes[u][Len(passes[u])])
    OBVIOUS
  <2>4. q \in Passes
    BY <2>1, <2>3, MarkPass
  <2>5. Race(U, a)[u] = [passes[u] EXCEPT ![Len(passes[u])] = q]
    BY <2>2, <2>3
  <2>6. Race(U, a)[u] \in Seq(Passes) /\ Len(Race(U, a)[u]) = Len(passes[u])
    BY <1>1, <2>1, <2>4, <2>5
  <2>7. \A j \in 1 .. Len(passes[u]) : Race(U, a)[u][j] = IF j = Len(passes[u]) THEN q ELSE passes[u][j]
    BY <1>1, <2>1, <2>5
  <2> QED
    BY <1>3, <2>3, <2>6, <2>7
<1> QED
  BY <1>2, <1>3

LEMMA RaceTypes ==
    ASSUME TypeOK, NEW U \in SUBSET Threads, NEW a
    PROVE  Race(U, a) \in [Threads -> Seq(Passes)]
<1>1. \A u \in Threads : Race(U, a)[u] \in Seq(Passes)
  BY RaceMarks
<1> QED
  BY <1>1 DEF Race
----------------------------------------------------------------------------
(* The micro-ops of an instruction.                                        *)

LEMMA OpTypes ==
    ASSUME NEW o \in Ops
    PROVE  /\ o.op \in {"pc", "read", "call", "ret", "write"}
           /\ o.op = "pc" => o \in PcOps
           /\ o.op = "read" => o \in ReadOps
           /\ o.op = "call" => o \in CallOps
           /\ o.op = "ret" => o \in RetOps
           /\ o.op = "write" => o \in WriteOps
BY DEF Ops, PcOps, ReadOps, CallOps, RetOps, WriteOps

LEMMA CallOrRet ==
    ASSUME NEW ins \in Program
    PROVE  /\ LogCallOrRet(ins) \in Seq(Ops) /\ Len(LogCallOrRet(ins)) \in 0 .. 1
           /\ Len(LogCallOrRet(ins)) = 1 =>
                \/ /\ LogCallOrRet(ins)[1].op = "call"
                   /\ ins.kind = "call" /\ (ins.direct \/ ~ins.plt)
                \/ /\ LogCallOrRet(ins)[1].op = "ret"
                   /\ ins.kind = "ret"
           /\ Len(LogCallOrRet(ins)) = 0 =>
                ins.kind # "ret" /\ ~(ins.kind = "call" /\ (ins.direct \/ ~ins.plt))
<1>1. [op |-> "call", direct |-> FALSE] \in Ops /\ [op |-> "ret"] \in Ops
  BY DEF Ops, CallOps, RetOps
<1>2. CASE ins.kind = "call" /\ (ins.direct \/ ~ins.plt)
  <2>1. LogCallOrRet(ins) = <<[op |-> "call", direct |-> FALSE]>>
    BY <1>2 DEF LogCallOrRet
  <2> QED
    BY <1>1, <1>2, <2>1
<1>3. CASE ins.kind = "ret"
  <2>1. LogCallOrRet(ins) = <<[op |-> "ret"]>>
    BY <1>3 DEF LogCallOrRet
  <2> QED
    BY <1>1, <1>3, <2>1
<1>4. CASE ins.kind # "ret" /\ ~(ins.kind = "call" /\ (ins.direct \/ ~ins.plt))
  <2>1. LogCallOrRet(ins) = <<>>
    BY <1>4 DEF LogCallOrRet
  <2> QED
    BY <1>4, <2>1
<1> QED
  BY <1>2, <1>3, <1>4

(* What is logged before an instruction: its program counter, and if its   *)
(* predicate holds its reads and its call or return.                       *)
LEMMA BeforeShape ==
    ASSUME NEW ins \in Program, NEW ea \in Eas(ins), NEW true \in BOOLEAN
    PROVE  LET b == Before(ins, ea, true)
               r == Len(LogReads(ins, ea))
               c == Len(LogCallOrRet(ins)) IN
           /\ b \in Seq(Ops) /\ r \in Nat /\ c \in 0 .. 1
           /\ Len(b) = IF true THEN 1 + r + c ELSE 1
           /\ b[1] = [op |-> "pc", ins |-> ins]
           /\ true => /\ \A i \in 1 .. r : b[1 + i] = LogReads(ins, ea)[i]
                      /\ c = 1 => b[2 + r] = LogCallOrRet(ins)[1]
<1> DEFINE b == Before(ins, ea, true)
           r == Len(LogReads(ins, ea))
           c == Len(LogCallOrRet(ins))
           pco == [op |-> "pc", ins |-> ins]
<1>1. LogReads(ins, ea) \in Seq(Ops)
  <2>1. LogReads(ins, ea) \in Seq(ReadOps)
    BY ReadsLogged DEF Eas
  <2>2. ReadOps \subseteq Ops
    BY DEF Ops
  <2> QED
    BY <2>1, <2>2
<1>2. LogCallOrRet(ins) \in Seq(Ops) /\ c \in 0 .. 1
  BY CallOrRet
<1>3. pco \in Ops
  BY DEF Ops, PcOps
<1> HIDE DEF Ops, pco
<1>4. CASE ~true
  <2>1. b = <<pco>> \o <<>>
    BY <1>4 DEF Before, pco
  <2>2. b = <<pco>>
    <3>1. <<pco>> \in Seq(Ops)
      BY <1>3
    <3> QED
      BY <2>1, <3>1, ConcatEmptySeq
  <2> HIDE DEF b
  <2> QED
    BY <1>1, <1>2, <1>3, <1>4, <2>2 DEF pco, b
<1>5. CASE true
  <2>1. b = <<pco>> \o (LogReads(ins, ea) \o LogCallOrRet(ins))
    BY <1>5 DEF Before, pco
  <2>2. PICK x, y : x = LogReads(ins, ea) /\ y = LogCallOrRet(ins)
    OBVIOUS
  <2>3. x \in Seq(Ops) /\ y \in Seq(Ops) /\ Len(x) = r /\ Len(y) = c /\ b = <<pco>> \o (x \o y)
    BY <1>1, <1>2, <2>1, <2>2
  <2>4. x \o y \in Seq(Ops) /\ Len(x \o y) = r + c /\ \A i \in 1 .. r + c : (x \o y)[i] = IF i <= r THEN x[i] ELSE y[i - r]
    <3> HIDE DEF b, r, c
    <3> QED
      BY <2>3, ConcatProperties
  <2>5. b \in Seq(Ops) /\ Len(b) = 1 + r + c /\ b[1] = pco /\ \A i \in 1 .. r + c : b[1 + i] = (x \o y)[i]
    <3>1. r \in Nat /\ c \in Nat
      BY <1>1, <1>2
    <3>2. PICK z : z = x \o y
      OBVIOUS
    <3> HIDE DEF b, r, c
    <3> QED
      BY <1>3, <2>3, <2>4, <3>1, <3>2
  <2>6. r \in Nat /\ c \in 0 .. 1
    BY <1>1, <1>2
  <2>7. \A i \in 1 .. r : b[1 + i] = x[i]
    <3> HIDE DEF b, r, c
    <3> QED
      BY <2>4, <2>5, <2>6
  <2>8. c = 1 => b[2 + r] = y[1]
    <3> SUFFICES ASSUME c = 1 PROVE b[2 + r] = y[1]
      OBVIOUS
    <3> HIDE DEF b, r, c
    <3>1. r + 1 \in 1 .. r + c /\ ~(r + 1 <= r) /\ (r + 1) - r = 1 /\ 1 + (r + 1) = 2 + r
      BY <2>6
    <3> QED
      BY <2>4, <2>5, <3>1
  <2> HIDE DEF b, r, c
  <2>9. /\ b \in Seq(Ops) /\ r \in Nat /\ c \in 0 .. 1
        /\ Len(b) = 1 + r + c
        /\ b[1] = pco
        /\ \A i \in 1 .. r : b[1 + i] = x[i]
        /\ c = 1 => b[2 + r] = y[1]
    BY <2>5, <2>6, <2>7, <2>8
  <2> QED
    BY <1>5, <2>2, <2>9 DEF pco, b, r, c
<1> QED
  BY <1>4, <1>5

(* It begins with a program counter and has no other; it has no write, and *)
(* each read and the call or return once.                                  *)
LEMMA BeforeCounts ==
    ASSUME NEW p \in Passes
    PROVE  LET b == Before(p.ins, p.ea, p.true) IN
           /\ b \in Seq(Ops) /\ Len(b) \in Nat \ {0}
           /\ b[1] = [op |-> "pc", ins |-> p.ins]
           /\ \A i \in 2 .. Len(b) : b[i].op \in {"read", "call", "ret"}
           /\ \A i \in 1 .. Len(b) - 1 : b[i].op \in {"pc", "read"}
           /\ ~p.true => Len(b) = 1
           /\ p.true =>
                /\ Cardinality(Of(b, "read")) = Cardinality(ReadAt(p.ins))
                /\ \A k \in ReadAt(p.ins) : \E i \in Of(b, "read") :
                     b[i].ea = p.ea[k] /\ b[i].size = p.ins.operands[k].size
                /\ Cardinality(Of(b, "ret")) = (IF p.ins.kind = "ret" THEN 1 ELSE 0)
                /\ Cardinality(Of(b, "call")) =
                     (IF p.ins.kind = "call" /\ ~(p.ins.plt /\ ~p.ins.direct) THEN 1 ELSE 0)
<1> DEFINE b == Before(p.ins, p.ea, p.true)
           r == Len(LogReads(p.ins, p.ea))
           c == Len(LogCallOrRet(p.ins))
<1>1. /\ p.ins \in Program /\ p.ea \in Eas(p.ins) /\ p.true \in BOOLEAN
      /\ p.ins.direct \in BOOLEAN /\ p.ins.plt \in BOOLEAN
  BY PassTypes, OperandTypes DEF Instruction
<1>2. /\ b \in Seq(Ops) /\ r \in Nat /\ c \in 0 .. 1
      /\ Len(b) = IF p.true THEN 1 + r + c ELSE 1
      /\ b[1] = [op |-> "pc", ins |-> p.ins]
      /\ p.true => /\ \A i \in 1 .. r : b[1 + i] = LogReads(p.ins, p.ea)[i]
                   /\ c = 1 => b[2 + r] = LogCallOrRet(p.ins)[1]
  <2> QED
    BY <1>1, BeforeShape
<1>3. /\ r = Cardinality(ReadAt(p.ins))
      /\ \A i \in 1 .. r : LogReads(p.ins, p.ea)[i].op = "read"
      /\ \A k \in ReadAt(p.ins) : \E i \in 1 .. r : LogReads(p.ins, p.ea)[i] = ReadOp(p.ins, p.ea, k)
  <2>1. /\ LogReads(p.ins, p.ea) \in Seq(ReadOps) /\ r = Cardinality(ReadAt(p.ins))
        /\ \A k \in ReadAt(p.ins) : \E i \in 1 .. r : LogReads(p.ins, p.ea)[i] = ReadOp(p.ins, p.ea, k)
    BY <1>1, ReadsLogged DEF Eas
  <2>2. \A i \in 1 .. r : LogReads(p.ins, p.ea)[i] \in ReadOps
    <3> QED
      BY <2>1
  <2> QED
    BY <2>1, <2>2 DEF ReadOps
<1>4. /\ c = 1 => \/ /\ LogCallOrRet(p.ins)[1].op = "call"
                     /\ p.ins.kind = "call" /\ (p.ins.direct \/ ~p.ins.plt)
                  \/ /\ LogCallOrRet(p.ins)[1].op = "ret" /\ p.ins.kind = "ret"
      /\ c = 0 => p.ins.kind # "ret" /\ ~(p.ins.kind = "call" /\ (p.ins.direct \/ ~p.ins.plt))
  BY <1>1, CallOrRet
<1> HIDE DEF b, r, c
<1>5. \A i \in 1 .. Len(b) : b[i].op = IF i = 1 THEN "pc" ELSE IF i <= 1 + r THEN "read" ELSE LogCallOrRet(p.ins)[1].op
  <2> SUFFICES ASSUME NEW i \in 1 .. Len(b)
               PROVE  b[i].op = IF i = 1 THEN "pc" ELSE IF i <= 1 + r THEN "read" ELSE LogCallOrRet(p.ins)[1].op
    OBVIOUS
  <2>1. CASE i = 1
    BY <1>2, <2>1
  <2>2. CASE i # 1 /\ i <= 1 + r
    <3>1. p.true /\ i - 1 \in 1 .. r /\ 1 + (i - 1) = i
      BY <1>2, <2>2
    <3> QED
      BY <1>2, <1>3, <2>2, <3>1
  <2>3. CASE i > 1 + r
    <3>1. p.true /\ c = 1 /\ i = 2 + r /\ i # 1
      BY <1>2, <2>3
    <3> QED
      BY <1>2, <2>3, <3>1
  <2> QED
    BY <1>2, <2>1, <2>2, <2>3
<1>6. DOMAIN b = 1 .. Len(b) /\ Len(b) \in Nat \ {0}
  BY <1>1, <1>2
<1>7. \A i \in 2 .. Len(b) : b[i].op \in {"read", "call", "ret"}
  <2> SUFFICES ASSUME NEW i \in 2 .. Len(b) PROVE b[i].op \in {"read", "call", "ret"}
    OBVIOUS
  <2>1. CASE i <= 1 + r
    BY <1>2, <1>5, <2>1
  <2>2. CASE i > 1 + r
    <3>1. c = 1 /\ i \in 1 .. Len(b) /\ i # 1 /\ ~(i <= 1 + r)
      BY <1>2, <2>2
    <3> QED
      BY <1>4, <1>5, <3>1
  <2> QED
    BY <1>2, <2>1, <2>2
<1>8. \A i \in 1 .. Len(b) - 1 : b[i].op \in {"pc", "read"}
  <2> SUFFICES ASSUME NEW i \in 1 .. Len(b) - 1 PROVE b[i].op \in {"pc", "read"}
    OBVIOUS
  <2>1. i \in 1 .. Len(b) /\ i <= 1 + r
    BY <1>2
  <2> QED
    BY <1>5, <2>1
<1>9. ASSUME p.true
      PROVE  /\ Cardinality(Of(b, "read")) = Cardinality(ReadAt(p.ins))
             /\ \A k \in ReadAt(p.ins) : \E i \in Of(b, "read") :
                  b[i].ea = p.ea[k] /\ b[i].size = p.ins.operands[k].size
             /\ Cardinality(Of(b, "ret")) = (IF p.ins.kind = "ret" THEN 1 ELSE 0)
             /\ Cardinality(Of(b, "call")) =
                  (IF p.ins.kind = "call" /\ ~(p.ins.plt /\ ~p.ins.direct) THEN 1 ELSE 0)
  <2>1. Len(b) = 1 + r + c
    BY <1>2, <1>9
  <2>2. Of(b, "read") = 2 .. 1 + r
    <3>1. ASSUME NEW i \in 1 .. Len(b), i > 1 + r PROVE b[i].op # "read"
      <4>1. c = 1 /\ i # 1 /\ ~(i <= 1 + r)
        BY <1>2, <2>1, <3>1
      <4> QED
        BY <1>4, <1>5, <4>1
    <3>2. ASSUME NEW i \in 1 .. Len(b), i <= 1 + r PROVE b[i].op = "read" <=> i # 1
      BY <1>5, <3>2
    <3>3. \A i \in 1 .. Len(b) : b[i].op = "read" <=> i \in 2 .. 1 + r
      BY <1>2, <3>1, <3>2
    <3>4. \A i \in 2 .. 1 + r : i \in 1 .. Len(b)
      BY <1>2, <2>1
    <3> QED
      BY <1>6, <3>3, <3>4 DEF Of
  <2>3. Cardinality(2 .. 1 + r) = r
    <3>1. Cardinality(2 .. 1 + r) = IF 2 > 1 + r THEN 0 ELSE (1 + r) - 2 + 1
      BY <1>2, FS_Interval
    <3> QED
      BY <1>2, <3>1
  <2>4. ASSUME NEW k \in ReadAt(p.ins)
        PROVE  \E i \in Of(b, "read") : b[i].ea = p.ea[k] /\ b[i].size = p.ins.operands[k].size
    <3>1. PICK i \in 1 .. r : LogReads(p.ins, p.ea)[i] = ReadOp(p.ins, p.ea, k)
      BY <1>3
    <3>2. 1 + i \in 2 .. 1 + r /\ b[1 + i] = ReadOp(p.ins, p.ea, k)
      BY <1>2, <1>9, <3>1
    <3>3. b[1 + i].ea = p.ea[k] /\ b[1 + i].size = p.ins.operands[k].size
      BY <3>2 DEF ReadOp
    <3> QED
      BY <2>2, <3>2, <3>3
  <2>5. ASSUME NEW o \in {"call", "ret"}
        PROVE  Of(b, o) = IF c = 1 /\ LogCallOrRet(p.ins)[1].op = o THEN {2 + r} ELSE {}
    <3>1. ASSUME NEW i \in 1 .. Len(b), i <= 1 + r PROVE b[i].op # o
      BY <1>5, <3>1
    <3>2. ASSUME NEW i \in 1 .. Len(b), i > 1 + r
          PROVE  c = 1 /\ i = 2 + r /\ b[i].op = LogCallOrRet(p.ins)[1].op
      <4>1. c = 1 /\ i = 2 + r /\ i # 1 /\ ~(i <= 1 + r)
        BY <1>2, <2>1, <3>2
      <4> QED
        BY <1>5, <4>1
    <3>3. c = 1 => 2 + r \in 1 .. Len(b) /\ 2 + r > 1 + r
      BY <1>2, <2>1
    <3>4. \A i \in 1 .. Len(b) : b[i].op = o <=> c = 1 /\ i = 2 + r /\ LogCallOrRet(p.ins)[1].op = o
      <4> TAKE i \in 1 .. Len(b)
      <4>1. CASE i <= 1 + r
        <5>1. b[i].op # o /\ i # 2 + r
          BY <1>2, <3>1, <4>1
        <5> QED
          BY <5>1
      <4>2. CASE i > 1 + r
        BY <3>2, <4>2
      <4> QED
        BY <1>2, <4>1, <4>2
    <3> QED
      BY <1>6, <3>3, <3>4 DEF Of
  <2>6. Cardinality({2 + r}) = 1 /\ Cardinality({}) = 0
    BY FS_EmptySet, FS_Singleton
  <2>7. Cardinality(Of(b, "ret")) = (IF p.ins.kind = "ret" THEN 1 ELSE 0)
    <3>1. CASE c = 0
      BY <1>4, <2>5, <2>6, <3>1
    <3>2. CASE c = 1
      BY <1>4, <2>5, <2>6, <3>2
    <3> QED
      BY <1>2, <3>1, <3>2
  <2>8. Cardinality(Of(b, "call")) = (IF p.ins.kind = "call" /\ ~(p.ins.plt /\ ~p.ins.direct) THEN 1 ELSE 0)
    <3>1. CASE c = 0
      BY <1>1, <1>4, <2>5, <2>6, <3>1
    <3>2. CASE c = 1
      BY <1>1, <1>4, <2>5, <2>6, <3>2
    <3> QED
      BY <1>2, <3>1, <3>2
  <2> QED
    BY <1>3, <2>2, <2>3, <2>4, <2>7, <2>8
<1>10. ~p.true => Len(b) = 1
  BY <1>2
<1> QED
  BY <1>2, <1>6, <1>7, <1>8, <1>9, <1>10 DEF b
----------------------------------------------------------------------------
(* The invariant.                                                          *)

(* Between the calls before an instruction and those after it, the address *)
(* of the pass is in WriteEa, and unless the pass is marked as raced its   *)
(* value is in memory.                                                     *)
PassOK(t) ==
    /\ pc[t] = "before" => ~Pass(t).done
    /\ pc[t] = "after" => Pass(t).done
    /\ pc[t] # "next" /\ Written(Pass(t).ins) # {} => writeEa[t] = Target(Pass(t))
    /\ pc[t] = "after" /\ Writes(Pass(t)) /\ ~Pass(t).raced =>
         /\ Target(Pass(t)) \notin unmapped
         /\ memory[Target(Pass(t))] = <<t, Len(passes[t])>>

(* The write micro-op of pass p, whose value is mine. *)
WriteOf(w, p, mine) ==
    /\ w \in WriteOps
    /\ w.ea = Target(p)
    /\ w.size <= MaxWriteSize
    /\ ~p.raced => w.data = mine /\ \E k \in Written(p.ins) : w.size = p.ins.operands[k].size

(* The micro-ops g are those of pass p. *)
Tells(g, p, over, mine) ==
    LET b == Before(p.ins, p.ea, p.true) IN
    \/ g = b /\ (over => ~(p.done /\ Writes(p)))
    \/ \E w : g = Append(b, w) /\ over /\ p.done /\ Writes(p) /\ WriteOf(w, p, mine)

(* f cuts a log of l micro-ops into n groups, each with one or more: where *)
(* they begin, and after the last where the log ends.                      *)
Cut(f, l, n) ==
    /\ f \in [1 .. n + 1 -> Nat]
    /\ f[1] = 1 /\ f[n + 1] = l + 1
    /\ \A j, k \in 1 .. n + 1 : j < k => f[j] < f[k]

CutAt(t, f) ==
    /\ Cut(f, Len(log[t]), Len(passes[t]))
    /\ \A j \in 1 .. Len(passes[t]) :
         Tells(SubSeq(log[t], f[j], f[j + 1] - 1), passes[t][j], IsOver(t, j), <<t, j>>)

IInv ==
    /\ TypeOK
    /\ \A t \in Threads : PassOK(t) /\ \E f : CutAt(t, f)

LEMMA CutBounds ==
    ASSUME NEW l \in Nat, NEW n \in Nat, NEW f, Cut(f, l, n), NEW j \in 1 .. n
    PROVE  /\ f[j] \in 1 .. l /\ f[j + 1] \in Nat /\ f[j + 1] - 1 \in 1 .. l
           /\ f[j] < f[j + 1] /\ f[j] <= f[j + 1] - 1
<1>1. j \in 1 .. n + 1 /\ j + 1 \in 1 .. n + 1 /\ 1 \in 1 .. n + 1 /\ n + 1 \in 1 .. n + 1
  OBVIOUS
<1>2. f[j] \in Nat /\ f[j + 1] \in Nat /\ f[j] < f[j + 1]
  BY <1>1 DEF Cut
<1>3. j # 1 => f[1] < f[j]
  BY <1>1 DEF Cut
<1>4. j # n => f[j + 1] < f[n + 1]
  BY <1>1 DEF Cut
<1> QED
  BY <1>2, <1>3, <1>4 DEF Cut

(* What keeps a thread's log and the number of its passes keeps its groups *)
(* if it keeps what they tell.                                             *)
LEMMA KeepGroups ==
    ASSUME NEW t \in Threads, NEW f, CutAt(t, f),
           log'[t] = log[t], Len(passes'[t]) = Len(passes[t]),
           \A j \in 1 .. Len(passes[t]) : \A g :
              Tells(g, passes[t][j], IsOver(t, j), <<t, j>>) =>
                 Tells(g, passes'[t][j], IsOver(t, j)', <<t, j>>)
    PROVE  CutAt(t, f)'
<1>1. Cut(f, Len(log'[t]), Len(passes'[t]))
  BY DEF CutAt
<1>2. \A j \in 1 .. Len(passes[t]) :
        Tells(SubSeq(log[t], f[j], f[j + 1] - 1), passes[t][j], IsOver(t, j), <<t, j>>)
  BY DEF CutAt
<1>3. \A j \in 1 .. Len(passes'[t]) :
        Tells(SubSeq(log'[t], f[j], f[j + 1] - 1), passes'[t][j], IsOver(t, j)', <<t, j>>)
  BY <1>2
<1> QED
  BY <1>1, <1>3 DEF CutAt

(* The calls before an instruction add a group. *)
LEMMA AddGroup ==
    ASSUME TypeOK, NEW t \in Threads, NEW f, CutAt(t, f), pc[t] = "next",
           NEW p \in Passes, ~p.done,
           passes'[t] = Append(passes[t], p),
           log'[t] = log[t] \o Before(p.ins, p.ea, p.true),
           pc'[t] = "before"
    PROVE  \E g : CutAt(t, g)'
<1> DEFINE n == Len(passes[t])
           l == Len(log[t])
           b == Before(p.ins, p.ea, p.true)
           g == [j \in 1 .. n + 2 |-> IF j <= n + 1 THEN f[j] ELSE l + Len(b) + 1]
<1>1. /\ n \in Nat /\ l \in Nat /\ passes[t] \in Seq(Passes) /\ log[t] \in Seq(Ops)
      /\ Cut(f, l, n)
      /\ \A j \in 1 .. n : Tells(SubSeq(log[t], f[j], f[j + 1] - 1), passes[t][j], IsOver(t, j), <<t, j>>)
  BY DEF TypeOK, CutAt
<1>2. b \in Seq(Ops) /\ Len(b) \in Nat \ {0}
  <2> QED
    BY BeforeCounts
<1> HIDE DEF b
<1>3. Len(passes'[t]) = n + 1 /\ passes'[t][n + 1] = p /\ \A j \in 1 .. n : passes'[t][j] = passes[t][j]
  BY <1>1
<1>4. log'[t] \in Seq(Ops) /\ Len(log'[t]) = l + Len(b)
  <2>1. log'[t] = log[t] \o b
    BY DEF b
  <2> QED
    BY <1>1, <1>2, <2>1, ConcatProperties
<1>5. Cut(g, Len(log'[t]), Len(passes'[t]))
  <2>1. \A j \in 1 .. n + 1 : f[j] \in Nat /\ f[j] <= l + 1
    <3> TAKE j \in 1 .. n + 1
    <3>1. f \in [1 .. n + 1 -> Nat] /\ f[n + 1] = l + 1
      BY <1>1 DEF Cut
    <3>2. n + 1 \in 1 .. n + 1
      BY <1>1
    <3>3. j < n + 1 => f[j] < f[n + 1]
      BY <1>1, <3>2 DEF Cut
    <3> QED
      BY <1>1, <3>1, <3>3
  <2>2. g \in [1 .. (n + 1) + 1 -> Nat]
    BY <1>1, <1>2, <2>1
  <2>3. g[1] = 1 /\ g[(n + 1) + 1] = l + Len(b) + 1
    BY <1>1, <1>2 DEF Cut
  <2>4. ASSUME NEW j \in 1 .. (n + 1) + 1, NEW k \in 1 .. (n + 1) + 1, j < k PROVE g[j] < g[k]
    <3>1. CASE k <= n + 1
      <4>1. j \in 1 .. n + 1 /\ k \in 1 .. n + 1
        BY <1>1, <2>4, <3>1
      <4>2. f[j] < f[k]
        BY <1>1, <2>4, <4>1 DEF Cut
      <4> QED
        BY <1>1, <4>1, <4>2
    <3>2. CASE k = n + 2
      BY <1>1, <1>2, <2>1, <2>4, <3>2
    <3> QED
      BY <1>1, <3>1, <3>2
  <2> QED
    BY <1>3, <1>4, <2>2, <2>3, <2>4 DEF Cut
<1>6. ASSUME NEW j \in 1 .. n + 1
      PROVE  Tells(SubSeq(log'[t], g[j], g[j + 1] - 1), passes'[t][j], IsOver(t, j)', <<t, j>>)
  <2>1. log'[t] = log[t] \o b
    BY DEF b
  <2>2. CASE j \in 1 .. n
    <3>1. f[j] \in 1 .. l /\ f[j + 1] - 1 \in 1 .. l
      BY <1>1, <2>2, CutBounds
    <3>2. g[j] = f[j] /\ g[j + 1] = f[j + 1]
      BY <1>1, <2>2
    <3>3. SubSeq(log'[t], g[j], g[j + 1] - 1) = SubSeq(log[t], f[j], f[j + 1] - 1)
      <4>1. SubSeq(log[t] \o b, f[j], f[j + 1] - 1) = SubSeq(log[t], f[j], f[j + 1] - 1)
        <5> HIDE DEF g
        <5> QED
          BY <1>1, <1>2, <3>1, SubSeqOfConcat1
      <4> QED
        BY <2>1, <3>2, <4>1
    <3>4. IsOver(t, j) /\ IsOver(t, j)'
      BY <1>1, <1>3, <2>2 DEF IsOver
    <3>5. passes'[t][j] = passes[t][j]
      BY <1>3, <2>2
    <3>6. Tells(SubSeq(log[t], f[j], f[j + 1] - 1), passes[t][j], IsOver(t, j), <<t, j>>)
      BY <1>1, <2>2
    <3> HIDE DEF g
    <3>7. IsOver(t, j)' = IsOver(t, j)
      <4>1. IsOver(t, j) \in BOOLEAN /\ IsOver(t, j)' \in BOOLEAN
        BY DEF IsOver
      <4> QED
        BY <3>4, <4>1
    <3> QED
      BY <3>3, <3>5, <3>6, <3>7
  <2>3. CASE j = n + 1
    <3>1. g[j] = l + 1 /\ g[j + 1] = l + Len(b) + 1
      BY <1>1, <2>3 DEF Cut
    <3>2. SubSeq(log'[t], g[j], g[j + 1] - 1) = b
      <4>1. l + 1 \in l + 1 .. l + Len(b) /\ l + Len(b) \in l + 1 .. l + Len(b)
        BY <1>1, <1>2
      <4>2. SubSeq(log[t] \o b, l + 1, l + Len(b)) = SubSeq(b, (l + 1) - l, (l + Len(b)) - l)
        <5> QED
          BY <1>1, <1>2, <4>1, SubSeqOfConcat2
      <4>3. (l + 1) - l = 1 /\ (l + Len(b)) - l = Len(b) /\ (l + Len(b) + 1) - 1 = l + Len(b)
        BY <1>1, <1>2
      <4>4. SubSeq(b, 1, Len(b)) = b
        <5> QED
          BY <1>2, SubSeqFull
      <4> HIDE DEF g
      <4> QED
        BY <2>1, <3>1, <4>2, <4>3, <4>4
    <3>3. passes'[t][j] = p
      BY <1>3, <2>3
    <3> HIDE DEF g
    <3> QED
      BY <3>2, <3>3 DEF Tells, b
  <2> QED
    BY <1>1, <2>2, <2>3
<1>7. PICK h : h = g
  OBVIOUS
<1> HIDE DEF g
<1>8. \A j \in 1 .. Len(passes'[t]) :
        Tells(SubSeq(log'[t], h[j], h[j + 1] - 1), passes'[t][j], IsOver(t, j)', <<t, j>>)
  BY <1>3, <1>6, <1>7
<1>9. Cut(h, Len(log'[t]), Len(passes'[t]))
  BY <1>5, <1>7
<1>10. CutAt(t, h)'
  BY <1>8, <1>9 DEF CutAt
<1> QED
  BY <1>10

(* The call after it adds its write to the last group. *)
LEMMA AddWrite ==
    ASSUME TypeOK, NEW t \in Threads, NEW f, CutAt(t, f), pc[t] = "after",
           Pass(t).done, Writes(Pass(t)),
           NEW w, WriteOf(w, Pass(t), <<t, Len(passes[t])>>),
           passes'[t] = passes[t],
           log'[t] = Append(log[t], w),
           pc'[t] = "next"
    PROVE  \E g : CutAt(t, g)'
<1> DEFINE n == Len(passes[t])
           l == Len(log[t])
           g == [f EXCEPT ![n + 1] = l + 2]
<1>1. /\ n \in Nat /\ l \in Nat /\ log[t] \in Seq(Ops)
      /\ Cut(f, l, n)
      /\ \A j \in 1 .. n : Tells(SubSeq(log[t], f[j], f[j + 1] - 1), passes[t][j], IsOver(t, j), <<t, j>>)
  BY DEF TypeOK, CutAt
<1>2. n \in 1 .. n /\ Pass(t) = passes[t][n]
  BY LastPass
<1>3. w \in Ops
  BY DEF WriteOf, Ops
<1>4. <<w>> \in Seq(Ops) /\ log'[t] = log[t] \o <<w>> /\ Len(<<w>>) = 1
  <2> QED
    BY <1>1, <1>3
<1>5. /\ log'[t] \in Seq(Ops) /\ Len(log'[t]) = l + 1 /\ log'[t][l + 1] = w
      /\ \A i \in 1 .. l : log'[t][i] = log[t][i]
  <2> QED
    BY <1>1, <1>3, AppendProperties
<1>6. Cut(g, Len(log'[t]), n)
  <2>1. f \in [1 .. n + 1 -> Nat] /\ f[1] = 1 /\ f[n + 1] = l + 1
    BY <1>1 DEF Cut
  <2>2. g \in [1 .. n + 1 -> Nat] /\ g[1] = 1 /\ g[n + 1] = (l + 1) + 1
    BY <1>1, <1>2, <2>1
  <2>3. ASSUME NEW j \in 1 .. n + 1, NEW k \in 1 .. n + 1, j < k PROVE g[j] < g[k]
    <3>1. f[j] < f[k] /\ f[j] \in Nat /\ f[k] \in Nat
      BY <1>1, <2>3 DEF Cut
    <3>2. j # n + 1
      BY <1>1, <2>3
    <3> QED
      BY <2>1, <3>1, <3>2
  <2> HIDE DEF g
  <2> QED
    BY <1>5, <2>2, <2>3 DEF Cut
<1>7. ASSUME NEW j \in 1 .. n
      PROVE  Tells(SubSeq(log'[t], g[j], g[j + 1] - 1), passes'[t][j], IsOver(t, j)', <<t, j>>)
  <2>1. f[j] \in 1 .. l /\ f[j + 1] - 1 \in 1 .. l /\ f[j] <= f[j + 1] - 1
    BY <1>1, CutBounds
  <2>2. Tells(SubSeq(log[t], f[j], f[j + 1] - 1), passes[t][j], IsOver(t, j), <<t, j>>)
    BY <1>1
  <2>3. CASE j # n
    <3>1. g[j] = f[j] /\ g[j + 1] = f[j + 1]
      BY <1>1, <2>3 DEF Cut
    <3>2. SubSeq(log'[t], g[j], g[j + 1] - 1) = SubSeq(log[t], f[j], f[j + 1] - 1)
      <4>1. SubSeq(log[t] \o <<w>>, f[j], f[j + 1] - 1) = SubSeq(log[t], f[j], f[j + 1] - 1)
        <5> HIDE DEF g
        <5> QED
          BY <1>1, <1>4, <2>1, SubSeqOfConcat1
      <4> QED
        BY <1>4, <3>1, <4>1
    <3>3. IsOver(t, j) = TRUE /\ IsOver(t, j)' = TRUE
      BY <1>1, <2>3 DEF IsOver
    <3> HIDE DEF g
    <3> QED
      BY <2>2, <3>2, <3>3
  <2>4. CASE j = n
    <3>1. g[j] = f[j] /\ g[j + 1] = l + 2 /\ f[j + 1] = l + 1
      BY <1>1, <2>4 DEF Cut
    <3>2. SubSeq(log'[t], f[j], l + 1) = Append(SubSeq(log[t], f[j], l), w)
      <4>1. f[j] \in 1 .. Len(log'[t]) /\ l + 1 \in f[j] .. Len(log'[t]) /\ (l + 1) - 1 = l
        BY <1>1, <1>5, <2>1
      <4>2. SubSeq(log'[t], f[j], l + 1) = SubSeq(log'[t], f[j], l) \o <<w>>
        <5>1. SubSeq(log'[t], f[j], l + 1) = SubSeq(log'[t], f[j], (l + 1) - 1) \o <<log'[t][l + 1]>>
          BY <1>5, <4>1, SubSeqRecursiveSecond
        <5> QED
          BY <1>5, <4>1, <5>1
      <4>3. SubSeq(log'[t], f[j], l) = SubSeq(log[t], f[j], l)
        <5>1. l \in 1 .. l
          BY <1>1, <2>1
        <5>2. SubSeq(log[t] \o <<w>>, f[j], l) = SubSeq(log[t], f[j], l)
          <6> QED
            BY <1>1, <1>4, <2>1, <5>1, SubSeqOfConcat1
        <5> QED
          BY <1>4, <5>2
      <4>4. SubSeq(log[t], f[j], l) \in Seq(Ops)
        <5>1. \A i \in f[j] .. l : log[t][i] \in Ops
          <6>1. \A i \in 1 .. l : log[t][i] \in Ops
            <7> QED
              BY <1>1
          <6> QED
            BY <1>1, <2>1, <6>1
        <5> QED
          BY <1>1, <2>1, <5>1, SubSeqProperties
      <4>5. PICK x : x = SubSeq(log[t], f[j], l)
        OBVIOUS
      <4>6. x \in Seq(Ops)
        BY <4>4, <4>5
      <4>7. x \o <<w>> = Append(x, w)
        <5> QED
          BY <1>3, <4>6
      <4> QED
        BY <4>2, <4>3, <4>5, <4>7
    <3>3. IsOver(t, j) = FALSE /\ IsOver(t, j)' = TRUE
      BY <1>1, <2>4 DEF IsOver
    <3>4. SubSeq(log[t], f[j], l) = Before(Pass(t).ins, Pass(t).ea, Pass(t).true)
      <4>1. f[j + 1] - 1 = l
        BY <1>1, <3>1
      <4>2. Tells(SubSeq(log[t], f[j], l), Pass(t), FALSE, <<t, j>>)
        BY <1>2, <2>2, <2>4, <3>3, <4>1
      <4> QED
        BY <4>2 DEF Tells
    <3>5. Tells(SubSeq(log'[t], f[j], l + 1), Pass(t), TRUE, <<t, j>>)
      BY <2>4, <3>2, <3>4 DEF Tells
    <3>6. passes'[t][j] = Pass(t) /\ g[j + 1] - 1 = l + 1
      BY <1>1, <1>2, <2>4, <3>1
    <3> HIDE DEF g
    <3> QED
      BY <3>1, <3>3, <3>5, <3>6
  <2> QED
    BY <2>3, <2>4
<1>8. PICK h : h = g
  OBVIOUS
<1> HIDE DEF g
<1>9. \A j \in 1 .. Len(passes'[t]) :
        Tells(SubSeq(log'[t], h[j], h[j + 1] - 1), passes'[t][j], IsOver(t, j)', <<t, j>>)
  BY <1>7, <1>8
<1>10. Cut(h, Len(log'[t]), Len(passes'[t]))
  BY <1>6, <1>8
<1>11. CutAt(t, h)'
  BY <1>9, <1>10 DEF CutAt
<1> QED
  BY <1>11

----------------------------------------------------------------------------
(* It is an invariant: one lemma for each action.                          *)

LEMMA InitIInv == Init => IInv
<1> SUFFICES ASSUME Init PROVE IInv
  OBVIOUS
<1>1. TypeOK
  <2>1. <<>> \in Seq(Passes) /\ <<>> \in Seq(Ops) /\ <<>> \in Values
    BY DEF Values
  <2> QED
    BY <2>1 DEF TypeOK, Init
<1>2. ASSUME NEW t \in Threads PROVE PassOK(t) /\ \E f : CutAt(t, f)
  <2>1. PassOK(t)
    BY DEF PassOK, Init
  <2>2. log[t] = <<>> /\ passes[t] = <<>>
    BY DEF Init
  <2>3. Cut([j \in 1 .. 1 |-> 1], 0, 0)
    BY DEF Cut
  <2>4. CutAt(t, [j \in 1 .. 1 |-> 1])
    BY <2>2, <2>3 DEF CutAt
  <2> QED
    BY <2>1, <2>4
<1> QED
  BY <1>1, <1>2 DEF IInv

LEMMA BeginIInv ==
    ASSUME IInv, NEW t \in Threads, NEW ins \in Program, NEW ea \in Eas(ins), NEW true \in BOOLEAN,
           BeginPass(t, ins, ea, true)
    PROVE  IInv'
<1> DEFINE p == [ins |-> ins, ea |-> ea, true |-> true, done |-> FALSE, raced |-> FALSE]
           b == Before(ins, ea, true)
<1>1. p \in Passes /\ ~p.done /\ p.ins = ins /\ p.ea = ea /\ p.true = true
  BY DEF Passes, Eas
<1>2. b \in Seq(Ops)
  <2> QED
    BY BeforeShape
<1>3. /\ pc[t] = "next" /\ pc' = [pc EXCEPT ![t] = "before"]
      /\ passes' = [passes EXCEPT ![t] = Append(passes[t], p)]
      /\ log' = [log EXCEPT ![t] = log[t] \o b]
      /\ writeEa' = Capture(t, ins, ea)
      /\ UNCHANGED <<memory, unmapped, aborted>>
  BY DEF BeginPass
<1>4. TypeOK /\ \A u \in Threads : PassOK(u) /\ \E f : CutAt(u, f)
  BY DEF IInv
<1>5. Written(ins) # {} => ea[WriteAt(ins)] \in Addrs
  BY WriteAtWritten DEF Eas
<1>6. writeEa' = IF Written(ins) = {} THEN writeEa ELSE [writeEa EXCEPT ![t] = ea[WriteAt(ins)]]
  BY <1>3 DEF Capture, Captured, WriteAt
<1> HIDE DEF p, b
<1>7. /\ passes'[t] = Append(passes[t], p) /\ log'[t] = log[t] \o b /\ pc'[t] = "before"
      /\ passes'[t] \in Seq(Passes) /\ log'[t] \in Seq(Ops)
      /\ Len(passes'[t]) = Len(passes[t]) + 1 /\ Len(passes[t]) \in Nat
      /\ passes'[t][Len(passes[t]) + 1] = p
  <2>1. /\ passes[t] \in Seq(Passes) /\ log[t] \in Seq(Ops)
        /\ passes'[t] = Append(passes[t], p) /\ log'[t] = log[t] \o b /\ pc'[t] = "before"
    BY <1>3, <1>4 DEF TypeOK
  <2>2. log[t] \o b \in Seq(Ops)
    BY <1>2, <2>1, ConcatProperties
  <2>3. PICK x, y : x = passes[t] /\ y = passes'[t]
    OBVIOUS
  <2>4. x \in Seq(Passes) /\ y = Append(x, p)
    BY <2>1, <2>3
  <2>5. y \in Seq(Passes) /\ Len(y) = Len(x) + 1 /\ Len(x) \in Nat /\ y[Len(x) + 1] = p
    <3>1. p \in Passes
      BY <1>1
    <3>2. x \in Seq(Passes)
      BY <2>4
    <3>3. Len(x) \in Nat
      BY <3>2
    <3>4. Append(x, p) \in Seq(Passes) /\ Len(Append(x, p)) = Len(x) + 1 /\ Append(x, p)[Len(x) + 1] = p
      BY <3>1, <3>2, AppendProperties
    <3>5. y = Append(x, p)
      BY <2>4
    <3> QED
      BY <3>3, <3>4, <3>5
  <2> QED
    BY <2>1, <2>2, <2>3, <2>5
<1>8. \A u \in Threads \ {t} : /\ pc'[u] = pc[u] /\ passes'[u] = passes[u] /\ log'[u] = log[u]
                               /\ writeEa'[u] = writeEa[u]
  BY <1>3, <1>4, <1>6 DEF TypeOK
<1>9. TypeOK'
  <2>1. pc' \in [Threads -> {"next", "before", "after"}]
    BY <1>3, <1>4 DEF TypeOK
  <2>2. passes' \in [Threads -> Seq(Passes)]
    <3> QED
      BY <1>3, <1>4, <1>7 DEF TypeOK
  <2>3. log' \in [Threads -> Seq(Ops)]
    <3> QED
      BY <1>3, <1>4, <1>7 DEF TypeOK
  <2>4. writeEa' \in [Threads -> Addrs \cup {Null}]
    BY <1>4, <1>5, <1>6 DEF TypeOK
  <2>5. memory' \in [Addrs -> Values] /\ unmapped' \in SUBSET Addrs
    <3> QED
      BY <1>3, <1>4 DEF TypeOK
  <2>6. \A u \in Threads : pc'[u] # "next" => Len(passes'[u]) > 0
    <3>1. Len(passes'[t]) > 0
      BY <1>7
    <3>2. \A u \in Threads : pc[u] # "next" => Len(passes[u]) > 0
      BY <1>4 DEF TypeOK
    <3> QED
      BY <1>8, <3>1, <3>2
  <2> QED
    BY <2>1, <2>2, <2>3, <2>4, <2>5, <2>6 DEF TypeOK
<1>10. ASSUME NEW u \in Threads \ {t} PROVE PassOK(u)' /\ \E f : CutAt(u, f)'
  <2>1. PICK f : CutAt(u, f)
    BY <1>4
  <2>2. CutAt(u, f)'
    BY <1>8, <2>1, KeepGroups DEF IsOver
  <2>3. PassOK(u)'
    <3>1. PassOK(u)
      BY <1>4
    <3> QED
      BY <1>3, <1>8, <3>1 DEF PassOK, Pass
  <2> QED
    BY <2>2, <2>3
<1>11. PassOK(t)'
  <2>1. Pass(t)' = p
    BY <1>7 DEF Pass
  <2>2. Target(p) = ea[WriteAt(ins)]
    BY <1>1 DEF Target, WriteAt
  <2>3. Written(ins) # {} => writeEa'[t] = ea[WriteAt(ins)]
    BY <1>4, <1>6 DEF TypeOK
  <2> QED
    BY <1>1, <1>7, <2>1, <2>2, <2>3 DEF PassOK
<1>12. \E f : CutAt(t, f)'
  <2>1. PICK f : CutAt(t, f)
    BY <1>4
  <2>2. log'[t] = log[t] \o Before(p.ins, p.ea, p.true)
    BY <1>1, <1>7 DEF b
  <2> QED
    BY <1>1, <1>3, <1>4, <1>7, <2>1, <2>2, AddGroup
<1> QED
  BY <1>9, <1>10, <1>11, <1>12 DEF IInv

(* A pass that another thread raced tells what it told: its write is not   *)
(* logged yet.                                                             *)
LEMMA RacedGroups ==
    ASSUME TypeOK, NEW u \in Threads, NEW f, CutAt(u, f), NEW U \in SUBSET Threads, NEW a,
           log'[u] = log[u], pc'[u] = pc[u], passes'[u] = Race(U, a)[u]
    PROVE  CutAt(u, f)'
<1>1. Len(passes'[u]) = Len(passes[u]) /\ Len(passes[u]) \in Nat
  <2>1. Len(Race(U, a)[u]) = Len(passes[u])
    BY RaceMarks
  <2> QED
    BY <2>1 DEF TypeOK
<1>2. ASSUME NEW j \in 1 .. Len(passes[u]), NEW g, Tells(g, passes[u][j], IsOver(u, j), <<u, j>>)
      PROVE  Tells(g, passes'[u][j], IsOver(u, j)', <<u, j>>)
  <2>1. IsOver(u, j)' = IsOver(u, j)
    BY <1>1 DEF IsOver
  <2>2. CASE passes'[u][j] = passes[u][j]
    BY <1>2, <2>1, <2>2
  <2>3. CASE passes'[u][j] # passes[u][j]
    <3>1. /\ pc[u] = "after" /\ j = Len(passes[u])
          /\ passes'[u][j] = Raced(passes[u][j])
      <4>1. u \in U /\ RacedAt(u, a)
        BY <2>3, RaceMarks
      <4>2. passes'[u][j] = IF j = Len(passes[u]) THEN Raced(passes[u][j]) ELSE passes[u][j]
        <5>1. Race(U, a)[u][j] = IF j = Len(passes[u]) THEN Raced(passes[u][j]) ELSE passes[u][j]
          BY <4>1, RaceMarks
        <5> QED
          BY <5>1
      <4> QED
        BY <2>3, <4>1, <4>2 DEF RacedAt
    <3>2. IsOver(u, j) = FALSE
      BY <1>1, <3>1 DEF IsOver
    <3>3. passes[u][j] \in Passes
      BY <3>1, LastPass
    <3>4. /\ passes'[u][j].ins = passes[u][j].ins /\ passes'[u][j].ea = passes[u][j].ea
          /\ passes'[u][j].true = passes[u][j].true
      BY <3>1, <3>3, MarkPass
    <3> QED
      BY <1>2, <2>1, <3>2, <3>4 DEF Tells
  <2> QED
    BY <2>2, <2>3
<1> QED
  BY <1>1, <1>2, KeepGroups

(* What a pass that is not raced has written is still there.               *)
LEMMA RacedPassOK ==
    ASSUME TypeOK, NEW u \in Threads, PassOK(u), NEW U \in SUBSET Threads, u \in U, NEW a,
           pc'[u] = pc[u], passes'[u] = Race(U, a)[u], writeEa'[u] = writeEa[u],
           \A c \in Addrs \ {a} : memory'[c] = memory[c] /\ (c \in unmapped' => c \in unmapped)
    PROVE  PassOK(u)'
<1>1. Len(passes'[u]) = Len(passes[u]) /\ Len(passes[u]) \in Nat
  <2>1. Len(Race(U, a)[u]) = Len(passes[u])
    BY RaceMarks
  <2> QED
    BY <2>1 DEF TypeOK
<1>2. CASE pc[u] = "next"
  BY <1>2 DEF PassOK
<1>3. CASE pc[u] # "next"
  <2>1. Len(passes[u]) \in 1 .. Len(passes[u]) /\ Pass(u) = passes[u][Len(passes[u])] /\ Pass(u) \in Passes
    BY <1>3, LastPass
  <2>2. Pass(u)' = passes'[u][Len(passes[u])]
    BY <1>1 DEF Pass
  <2>3. CASE RacedAt(u, a)
    <3>1. Pass(u)' = Raced(Pass(u))
      <4>1. \A j \in 1 .. Len(passes[u]) :
              passes'[u][j] = IF j = Len(passes[u]) THEN Raced(passes[u][j]) ELSE passes[u][j]
        BY <2>3, RaceMarks
      <4> QED
        BY <2>1, <2>2, <4>1
    <3>2. /\ Pass(u)'.ins = Pass(u).ins /\ Pass(u)'.ea = Pass(u).ea /\ Pass(u)'.done = Pass(u).done
          /\ Pass(u)'.raced
      BY <2>1, <3>1, MarkPass
    <3>3. Target(Pass(u)') = Target(Pass(u))
      BY <3>2 DEF Target
    <3> QED
      BY <1>1, <3>2, <3>3 DEF PassOK
  <2>4. CASE ~RacedAt(u, a)
    <3>1. passes'[u] = passes[u] /\ Pass(u)' = Pass(u)
      BY <2>1, <2>2, <2>4, RaceMarks
    <3>2. pc[u] = "after" /\ Writes(Pass(u)) => Target(Pass(u)) \in Addrs \ {a}
      BY <2>1, <2>4, PassTypes DEF RacedAt, Writes
    <3> QED
      BY <1>1, <3>1, <3>2 DEF PassOK
  <2> QED
    BY <2>3, <2>4
<1> QED
  BY <1>2, <1>3

LEMMA ExecuteIInv ==
    ASSUME IInv, NEW t \in Threads, Execute(t)
    PROVE  IInv'
<1> DEFINE n == Len(passes[t])
           others == IF Writes(Pass(t)) THEN Race(Threads \ {t}, Target(Pass(t))) ELSE passes
<1>1. TypeOK /\ \A u \in Threads : PassOK(u) /\ \E f : CutAt(u, f)
  BY DEF IInv
<1>2. /\ pc[t] = "before" /\ pc' = [pc EXCEPT ![t] = "after"]
      /\ Touched(Pass(t)) \cap unmapped = {}
      /\ passes' = [others EXCEPT ![t] = [others[t] EXCEPT ![n] = Done(others[t][n])]]
      /\ memory' = IF Writes(Pass(t)) THEN [memory EXCEPT ![Target(Pass(t))] = <<t, n>>] ELSE memory
      /\ UNCHANGED <<log, writeEa, unmapped, aborted>>
  BY DEF Execute, Done
<1>3. n \in 1 .. n /\ Pass(t) = passes[t][n] /\ Pass(t) \in Passes /\ n \in Nat /\ passes[t] \in Seq(Passes)
  <2>1. n \in Nat /\ passes[t] \in Seq(Passes)
    BY <1>1 DEF TypeOK
  <2> QED
    BY <1>1, <1>2, <2>1, LastPass
<1>4. /\ others \in [Threads -> Seq(Passes)]
      /\ others[t] = passes[t]
      /\ \A u \in Threads : Len(others[u]) = Len(passes[u])
  <2>1. CASE Writes(Pass(t))
    <3>1. PICK U, a : U = Threads \ {t} /\ a = Target(Pass(t))
      OBVIOUS
    <3>2. U \in SUBSET Threads /\ t \notin U
      BY <3>1
    <3>3. Race(U, a) \in [Threads -> Seq(Passes)]
      BY <1>1, <3>2, RaceTypes
    <3>4. ASSUME NEW u \in Threads PROVE Len(Race(U, a)[u]) = Len(passes[u])
      <4>1. TypeOK
        BY <1>1
      <4> QED
        BY <3>2, <4>1, RaceMarks
    <3>5. Race(U, a)[t] = passes[t]
      BY <1>1, <3>2, RaceMarks
    <3> QED
      BY <2>1, <3>1, <3>3, <3>4, <3>5
  <2>2. CASE ~Writes(Pass(t))
    BY <1>1, <2>2 DEF TypeOK
  <2> QED
    BY <2>1, <2>2
<1>5. Writes(Pass(t)) => Target(Pass(t)) \in Addrs /\ Target(Pass(t)) \notin unmapped
  <2> SUFFICES ASSUME Writes(Pass(t)) PROVE Target(Pass(t)) \in Addrs /\ Target(Pass(t)) \notin unmapped
    OBVIOUS
  <2>1. Pass(t).ins \in Program /\ Written(Pass(t).ins) # {} /\ Pass(t).true /\ Pass(t).ea \in Eas(Pass(t).ins)
    BY <1>3, PassTypes DEF Writes
  <2>2. Target(Pass(t)) = Pass(t).ea[WriteAt(Pass(t).ins)] /\ Target(Pass(t)) \in Addrs
    BY <1>3, <2>1, PassTypes
  <2>3. WriteAt(Pass(t).ins) \in DOMAIN Pass(t).ea
    BY <2>1, WriteAtWritten DEF Eas
  <2>4. Target(Pass(t)) \in Touched(Pass(t))
    BY <2>1, <2>2, <2>3 DEF Touched, Range
  <2> QED
    BY <1>2, <2>2, <2>4
<1> HIDE DEF others
<1>6. /\ passes'[t] \in Seq(Passes) /\ Len(passes'[t]) = n
      /\ passes'[t][n] = Done(Pass(t))
      /\ \A j \in 1 .. n : j # n => passes'[t][j] = passes[t][j]
  <2>1. Done(Pass(t)) \in Passes
    BY <1>3, MarkPass
  <2>2. PICK q : q = Done(Pass(t))
    OBVIOUS
  <2>3. q \in Passes /\ passes'[t] = [passes[t] EXCEPT ![n] = q]
    BY <1>2, <1>3, <1>4, <2>1, <2>2
  <2>4. passes'[t] \in Seq(Passes) /\ Len(passes'[t]) = n /\ passes'[t][n] = q
        /\ \A j \in 1 .. n : j # n => passes'[t][j] = passes[t][j]
    BY <1>3, <2>3
  <2> QED
    BY <2>2, <2>4
<1>7. \A u \in Threads \ {t} : /\ pc'[u] = pc[u] /\ log'[u] = log[u] /\ writeEa'[u] = writeEa[u]
                               /\ passes'[u] = others[u]
  <2>1. DOMAIN others = Threads /\ DOMAIN pc = Threads
    BY <1>1, <1>4 DEF TypeOK
  <2> QED
    BY <1>2, <2>1
<1>8. TypeOK'
  <2>1. pc' \in [Threads -> {"next", "before", "after"}]
    BY <1>1, <1>2 DEF TypeOK
  <2>2. passes' \in [Threads -> Seq(Passes)]
    <3>1. DOMAIN passes' = Threads /\ passes' = [u \in DOMAIN passes' |-> passes'[u]]
      BY <1>2, <1>4
    <3>2. \A u \in Threads : passes'[u] \in Seq(Passes)
      BY <1>4, <1>6, <1>7
    <3> QED
      BY <3>1, <3>2
  <2>3. log' \in [Threads -> Seq(Ops)] /\ writeEa' \in [Threads -> Addrs \cup {Null}]
    BY <1>1, <1>2 DEF TypeOK
  <2>4. memory' \in [Addrs -> Values] /\ unmapped' \in SUBSET Addrs
    <3>1. <<t, n>> \in Values
      BY <1>3 DEF Values
    <3> QED
      BY <1>1, <1>2, <3>1 DEF TypeOK
  <2>5. \A u \in Threads : pc'[u] # "next" => Len(passes'[u]) > 0
    <3>1. Len(passes'[t]) > 0
      BY <1>3, <1>6
    <3>2. \A u \in Threads : pc[u] # "next" => Len(passes[u]) > 0
      BY <1>1 DEF TypeOK
    <3> QED
      BY <1>4, <1>7, <3>1, <3>2
  <2> QED
    BY <2>1, <2>2, <2>3, <2>4, <2>5 DEF TypeOK
<1>9. ASSUME NEW u \in Threads \ {t} PROVE PassOK(u)' /\ \E f : CutAt(u, f)'
  <2>1. PassOK(u) /\ \E f : CutAt(u, f)
    BY <1>1
  <2>2. PICK f : CutAt(u, f)
    BY <2>1
  <2>3. CASE Writes(Pass(t))
    <3>1. PICK a : a = Target(Pass(t))
      OBVIOUS
    <3>2. passes'[u] = Race(Threads \ {t}, a)[u]
      BY <1>7, <2>3, <3>1 DEF others
    <3>3. PICK U : U = Threads \ {t}
      OBVIOUS
    <3>4. CutAt(u, f)'
      <4>1. U \in SUBSET Threads /\ passes'[u] = Race(U, a)[u]
        BY <3>2, <3>3
      <4> QED
        BY <1>1, <1>7, <2>2, <4>1, RacedGroups
    <3>5. \A c \in Addrs \ {a} : memory'[c] = memory[c] /\ (c \in unmapped' => c \in unmapped)
      BY <1>1, <1>2, <2>3, <3>1 DEF TypeOK
    <3>6. PassOK(u)'
      <4>1. U \in SUBSET Threads /\ u \in U /\ passes'[u] = Race(U, a)[u]
        BY <3>2, <3>3
      <4> QED
        BY <1>1, <1>7, <2>1, <3>5, <4>1, RacedPassOK
    <3> QED
      BY <3>4, <3>6
  <2>4. CASE ~Writes(Pass(t))
    <3>1. passes'[u] = passes[u]
      BY <1>7, <2>4 DEF others
    <3>2. CutAt(u, f)'
      BY <1>7, <2>2, <3>1, KeepGroups DEF IsOver
    <3>3. PassOK(u)'
      BY <1>2, <1>7, <2>1, <2>4, <3>1 DEF PassOK, Pass
    <3> QED
      BY <3>2, <3>3
  <2> QED
    BY <2>3, <2>4
<1>10. PassOK(t)'
  <2>1. Pass(t)' = Done(Pass(t))
    BY <1>6 DEF Pass
  <2>2. Pass(t)'.done /\ Pass(t)'.ins = Pass(t).ins /\ Pass(t)'.ea = Pass(t).ea /\ Pass(t)'.true = Pass(t).true
    BY <1>3, <2>1, MarkPass
  <2>3. Target(Pass(t)') = Target(Pass(t))
    BY <2>2 DEF Target
  <2>4. Writes(Pass(t)') = Writes(Pass(t))
    BY <2>2 DEF Writes
  <2>5. pc'[t] = "after"
    BY <1>1, <1>2 DEF TypeOK
  <2>6. Written(Pass(t)'.ins) # {} => writeEa'[t] = Target(Pass(t)')
    <3>1. PassOK(t)
      BY <1>1
    <3> QED
      BY <1>2, <2>2, <2>3, <3>1 DEF PassOK
  <2>7. Writes(Pass(t)') => /\ Target(Pass(t)') \notin unmapped'
                            /\ memory'[Target(Pass(t)')] = <<t, Len(passes'[t])>>
    <3> SUFFICES ASSUME Writes(Pass(t)')
                 PROVE  /\ Target(Pass(t)') \notin unmapped'
                        /\ memory'[Target(Pass(t)')] = <<t, Len(passes'[t])>>
      OBVIOUS
    <3>1. Writes(Pass(t))
      BY <2>4
    <3>2. memory' = [memory EXCEPT ![Target(Pass(t))] = <<t, n>>] /\ Target(Pass(t)) \in Addrs
      BY <1>2, <1>5, <3>1
    <3>3. memory'[Target(Pass(t))] = <<t, n>>
      BY <1>1, <3>2 DEF TypeOK
    <3> QED
      BY <1>2, <1>5, <1>6, <2>3, <3>1, <3>3
  <2> QED
    BY <2>2, <2>5, <2>6, <2>7 DEF PassOK
<1>11. \E f : CutAt(t, f)'
  <2>1. PICK f : CutAt(t, f)
    BY <1>1
  <2>2. pc'[t] = "after"
    BY <1>1, <1>2 DEF TypeOK
  <2>3. ASSUME NEW j \in 1 .. Len(passes[t]), NEW g, Tells(g, passes[t][j], IsOver(t, j), <<t, j>>)
        PROVE  Tells(g, passes'[t][j], IsOver(t, j)', <<t, j>>)
    <3>1. CASE j # n
      <4>1. IsOver(t, j) = TRUE /\ IsOver(t, j)' = TRUE
        BY <1>3, <1>6, <3>1 DEF IsOver
      <4> QED
        BY <1>6, <2>3, <3>1, <4>1
    <3>2. CASE j = n
      <4>1. IsOver(t, j) = FALSE /\ IsOver(t, j)' = FALSE
        BY <1>2, <1>3, <1>6, <2>2, <3>2 DEF IsOver
      <4>2. /\ passes'[t][j].ins = passes[t][j].ins /\ passes'[t][j].ea = passes[t][j].ea
            /\ passes'[t][j].true = passes[t][j].true
        BY <1>3, <1>6, <3>2, MarkPass
      <4> QED
        BY <2>3, <4>1, <4>2 DEF Tells
    <3> QED
      BY <3>1, <3>2
  <2>4. log'[t] = log[t] /\ Len(passes'[t]) = Len(passes[t])
    BY <1>2, <1>6
  <2>5. CutAt(t, f)'
    BY <2>1, <2>3, <2>4, KeepGroups
  <2> QED
    BY <2>5
<1> QED
  BY <1>8, <1>9, <1>10, <1>11 DEF IInv

LEMMA FaultIInv ==
    ASSUME IInv, NEW t \in Threads, Fault(t)
    PROVE  IInv'
<1>1. TypeOK /\ \A u \in Threads : PassOK(u) /\ \E f : CutAt(u, f)
  BY DEF IInv
<1>2. /\ pc[t] = "before" /\ pc' = [pc EXCEPT ![t] = "next"]
      /\ UNCHANGED <<passes, log, writeEa, memory, unmapped, aborted>>
  BY DEF Fault
<1>3. TypeOK'
  BY <1>1, <1>2 DEF TypeOK
<1>4. pc'[t] = "next" /\ \A u \in Threads \ {t} : pc'[u] = pc[u]
  BY <1>1, <1>2 DEF TypeOK
<1>5. ASSUME NEW u \in Threads PROVE PassOK(u)'
  <2>1. PassOK(u)
    BY <1>1
  <2> QED
    BY <1>2, <1>4, <2>1 DEF PassOK, Pass
<1>6. ASSUME NEW u \in Threads PROVE \E f : CutAt(u, f)'
  <2>1. PICK f : CutAt(u, f)
    BY <1>1
  <2>2. ASSUME NEW j \in 1 .. Len(passes[u]), NEW g, Tells(g, passes[u][j], IsOver(u, j), <<u, j>>)
        PROVE  Tells(g, passes'[u][j], IsOver(u, j)', <<u, j>>)
    <3>1. CASE u # t \/ j # Len(passes[u])
      <4>1. Len(passes[u]) \in Nat
        BY <1>1 DEF TypeOK
      <4>2. IsOver(u, j)' = IsOver(u, j)
        BY <1>2, <1>4, <3>1, <4>1 DEF IsOver
      <4> QED
        BY <1>2, <2>2, <4>2
    <3>2. CASE u = t /\ j = Len(passes[u])
      <4>1. Len(passes[u]) \in Nat
        BY <1>1 DEF TypeOK
      <4>2. IsOver(u, j) = FALSE
        BY <1>2, <3>2, <4>1 DEF IsOver
      <4>3. ~passes[u][j].done
        BY <1>1, <1>2, <3>2 DEF PassOK, Pass
      <4> QED
        BY <1>2, <2>2, <4>2, <4>3 DEF Tells
    <3> QED
      BY <3>1, <3>2
  <2>3. CutAt(u, f)'
    BY <1>2, <2>1, <2>2, KeepGroups
  <2> QED
    BY <2>3
<1> QED
  BY <1>3, <1>5, <1>6 DEF IInv

LEMMA EndIInv ==
    ASSUME IInv, NEW t \in Threads, EndPass(t)
    PROVE  IInv'
<1> DEFINE p    == Pass(t)
           n    == Len(passes[t])
           size == p.ins.operands[WriteAt(p.ins)].size
           w    == [op |-> "write", ea |-> writeEa[t],
                    size |-> IF writeEa[t] \in unmapped THEN 0 ELSE size,
                    data |-> IF writeEa[t] \in unmapped THEN <<>> ELSE memory[writeEa[t]]]
<1>1. TypeOK /\ \A u \in Threads : PassOK(u) /\ \E f : CutAt(u, f)
  BY DEF IInv
<1>2. /\ pc[t] = "after" /\ UNCHANGED <<passes, writeEa, memory, unmapped>>
      /\ \/ /\ ~LogsWrite(p.ins, p.true)
            /\ pc' = [pc EXCEPT ![t] = "next"] /\ UNCHANGED log
         \/ /\ LogsWrite(p.ins, p.true) /\ ~TooLong(size)
            /\ log' = [log EXCEPT ![t] = Append(log[t], w)]
            /\ pc' = [pc EXCEPT ![t] = "next"]
         \/ UNCHANGED <<pc, log>>
  BY DEF EndPass, WriteAt
<1>3. n \in 1 .. n /\ Pass(t) = passes[t][n] /\ Pass(t) \in Passes /\ n \in Nat
  <2>1. n \in Nat
    BY <1>1 DEF TypeOK
  <2> QED
    BY <1>1, <1>2, <2>1, LastPass
<1>4. p.done /\ p.ins \in Program /\ p.true \in BOOLEAN
  BY <1>1, <1>2, <1>3, PassTypes DEF PassOK
<1> HIDE DEF w
<1>5. CASE UNCHANGED <<pc, log>>
  <2>1. TypeOK'
    BY <1>1, <1>2, <1>5 DEF TypeOK
  <2>2. ASSUME NEW u \in Threads PROVE PassOK(u)' /\ \E f : CutAt(u, f)'
    <3>1. PassOK(u)
      BY <1>1
    <3>2. PassOK(u)'
      BY <1>2, <1>5, <3>1 DEF PassOK, Pass
    <3>3. PICK f : CutAt(u, f)
      BY <1>1
    <3>4. CutAt(u, f)'
      BY <1>2, <1>5, <3>3 DEF CutAt, IsOver
    <3> QED
      BY <3>2, <3>4
  <2> QED
    BY <2>1, <2>2 DEF IInv
<1>6. CASE ~LogsWrite(p.ins, p.true) /\ pc' = [pc EXCEPT ![t] = "next"] /\ UNCHANGED log
  <2>1. ~Writes(p)
    <3>1. p.ins.kind \in Kinds /\ (p.ins.kind = "ret" => Written(p.ins) = {})
      <4>1. p.ins \in Instruction
        BY <1>4, OperandTypes
      <4> QED
        BY <1>4, <4>1, ProgramAssumption DEF Instruction
    <3> QED
      BY <1>6, <3>1 DEF LogsWrite, HasFallThrough, IsBranchOrCall, Kinds, Writes
  <2>2. TypeOK'
    BY <1>1, <1>2, <1>6 DEF TypeOK
  <2>3. pc'[t] = "next" /\ \A u \in Threads \ {t} : pc'[u] = pc[u]
    BY <1>1, <1>6 DEF TypeOK
  <2>4. ASSUME NEW u \in Threads PROVE PassOK(u)'
    <3>1. PassOK(u)
      BY <1>1
    <3> QED
      BY <1>2, <2>3, <3>1 DEF PassOK, Pass
  <2>5. ASSUME NEW u \in Threads PROVE \E f : CutAt(u, f)'
    <3>1. PICK f : CutAt(u, f)
      BY <1>1
    <3>2. ASSUME NEW j \in 1 .. Len(passes[u]), NEW g, Tells(g, passes[u][j], IsOver(u, j), <<u, j>>)
          PROVE  Tells(g, passes'[u][j], IsOver(u, j)', <<u, j>>)
      <4>1. Len(passes[u]) \in Nat
        BY <1>1 DEF TypeOK
      <4>2. CASE u # t \/ j # n
        <5>1. IsOver(u, j)' = IsOver(u, j)
          BY <1>2, <2>3, <4>1, <4>2 DEF IsOver
        <5> QED
          BY <1>2, <3>2, <5>1
      <4>3. CASE u = t /\ j = n
        <5>1. IsOver(u, j) = FALSE /\ passes[u][j] = p
          BY <1>2, <1>3, <4>1, <4>3 DEF IsOver
        <5> QED
          BY <1>2, <2>1, <3>2, <5>1 DEF Tells
      <4> QED
        BY <4>2, <4>3
    <3>3. CutAt(u, f)'
      BY <1>2, <1>6, <3>1, <3>2, KeepGroups
    <3> QED
      BY <3>3
  <2> QED
    BY <2>2, <2>4, <2>5 DEF IInv
<1>7. CASE /\ LogsWrite(p.ins, p.true) /\ ~TooLong(size)
           /\ log' = [log EXCEPT ![t] = Append(log[t], w)]
           /\ pc' = [pc EXCEPT ![t] = "next"]
  <2>1. Writes(p) /\ Written(p.ins) # {}
    BY <1>7 DEF LogsWrite, Writes
  <2>2. writeEa[t] = Target(p) /\ Target(p) \in Addrs
    BY <1>1, <1>2, <1>3, <2>1, PassTypes DEF PassOK
  <2>3. WriteAt(p.ins) \in Written(p.ins) /\ size \in Nat
    BY <1>4, <2>1, WriteAtWritten
  <2>4. size <= MaxWriteSize /\ MaxWriteSize \in Nat
    BY <1>7, <2>3, ProgramAssumption DEF TooLong
  <2>5. WriteOf(w, p, <<t, n>>)
    <3>1. memory[writeEa[t]] \in Values /\ <<>> \in Values
      BY <1>1, <2>2 DEF TypeOK, Values
    <3>2. PICK v : v = IF writeEa[t] \in unmapped THEN <<>> ELSE memory[writeEa[t]]
      OBVIOUS
    <3>3. PICK s : s = IF writeEa[t] \in unmapped THEN 0 ELSE size
      OBVIOUS
    <3>4. v \in Values
      BY <3>1, <3>2
    <3>5. s \in Nat /\ s <= MaxWriteSize
      BY <2>3, <2>4, <3>3
    <3>6. w = [op |-> "write", ea |-> Target(p), size |-> s, data |-> v]
      BY <2>2, <3>2, <3>3 DEF w
    <3>7. w \in WriteOps
      BY <2>2, <3>4, <3>5, <3>6 DEF WriteOps
    <3>8. w.ea = Target(p) /\ w.size = s /\ w.data = v
      BY <3>6
    <3>9. ~p.raced => v = <<t, n>> /\ s = size
      <4> SUFFICES ASSUME ~p.raced PROVE v = <<t, n>> /\ s = size
        OBVIOUS
      <4>1. Target(p) \notin unmapped /\ memory[Target(p)] = <<t, n>>
        BY <1>1, <1>2, <2>1 DEF PassOK
      <4> QED
        BY <2>2, <3>2, <3>3, <4>1
    <3> QED
      BY <2>3, <3>5, <3>7, <3>8, <3>9 DEF WriteOf
  <2>6. w \in Ops
    BY <2>5 DEF WriteOf, Ops
  <2>7. /\ pc'[t] = "next" /\ log'[t] = Append(log[t], w)
        /\ \A u \in Threads \ {t} : pc'[u] = pc[u] /\ log'[u] = log[u]
    BY <1>1, <1>7 DEF TypeOK
  <2>8. TypeOK'
    <3>1. Append(log[t], w) \in Seq(Ops)
      BY <1>1, <2>6 DEF TypeOK
    <3>2. log' \in [Threads -> Seq(Ops)]
      BY <1>1, <1>7, <3>1 DEF TypeOK
    <3> QED
      BY <1>1, <1>2, <1>7, <3>2 DEF TypeOK
  <2>9. ASSUME NEW u \in Threads PROVE PassOK(u)'
    <3>1. PassOK(u)
      BY <1>1
    <3> QED
      BY <1>2, <2>7, <3>1 DEF PassOK, Pass
  <2>10. ASSUME NEW u \in Threads \ {t} PROVE \E f : CutAt(u, f)'
    <3>1. PICK f : CutAt(u, f)
      BY <1>1
    <3>2. CutAt(u, f)'
      BY <1>2, <2>7, <3>1, KeepGroups DEF IsOver
    <3> QED
      BY <3>2
  <2>11. \E f : CutAt(t, f)'
    <3>1. PICK f : CutAt(t, f)
      BY <1>1
    <3>2. WriteOf(w, Pass(t), <<t, Len(passes[t])>>) /\ Pass(t).done /\ Writes(Pass(t))
      BY <1>4, <2>1, <2>5
    <3>3. passes'[t] = passes[t]
      BY <1>2
    <3>4. PICK x : x = w
      OBVIOUS
    <3>5. WriteOf(x, Pass(t), <<t, Len(passes[t])>>) /\ log'[t] = Append(log[t], x)
      BY <2>7, <3>2, <3>4
    <3> QED
      BY <1>1, <1>2, <2>7, <3>1, <3>2, <3>3, <3>5, AddWrite
  <2> QED
    BY <2>8, <2>9, <2>10, <2>11 DEF IInv
<1> QED
  BY <1>2, <1>5, <1>6, <1>7

LEMMA UnmapIInv ==
    ASSUME IInv, NEW a \in Addrs, Unmap(a)
    PROVE  IInv'
<1>1. TypeOK /\ \A u \in Threads : PassOK(u) /\ \E f : CutAt(u, f)
  BY DEF IInv
<1>2. /\ unmapped' = unmapped \cup {a} /\ passes' = Race(Threads, a)
      /\ UNCHANGED <<pc, log, writeEa, memory, aborted>>
  BY DEF Unmap
<1>3. /\ Race(Threads, a) \in [Threads -> Seq(Passes)]
      /\ \A u \in Threads : Len(Race(Threads, a)[u]) = Len(passes[u])
  <2>1. PICK U : U = Threads
    OBVIOUS
  <2>2. U \in SUBSET Threads
    BY <2>1
  <2>3. Race(U, a) \in [Threads -> Seq(Passes)]
    BY <1>1, <2>2, RaceTypes
  <2>4. ASSUME NEW u \in Threads PROVE Len(Race(U, a)[u]) = Len(passes[u])
    <3>1. TypeOK
      BY <1>1
    <3> QED
      BY <2>2, <3>1, RaceMarks
  <2> QED
    BY <2>1, <2>3, <2>4
<1>4. TypeOK'
  <2>1. \A u \in Threads : pc[u] # "next" => Len(passes[u]) > 0
    BY <1>1 DEF TypeOK
  <2>2. \A u \in Threads : pc'[u] # "next" => Len(passes'[u]) > 0
    BY <1>2, <1>3, <2>1
  <2>3. passes' \in [Threads -> Seq(Passes)]
    BY <1>2, <1>3
  <2>4. unmapped' \in SUBSET Addrs
    BY <1>1, <1>2 DEF TypeOK
  <2> QED
    BY <1>1, <1>2, <2>2, <2>3, <2>4 DEF TypeOK
<1>5. ASSUME NEW u \in Threads PROVE PassOK(u)' /\ \E f : CutAt(u, f)'
  <2>1. PICK U : U = Threads
    OBVIOUS
  <2>2. U \in SUBSET Threads /\ u \in U /\ passes'[u] = Race(U, a)[u]
    BY <1>2, <2>1
  <2>3. PICK f : CutAt(u, f)
    BY <1>1
  <2>4. log'[u] = log[u] /\ pc'[u] = pc[u] /\ writeEa'[u] = writeEa[u]
    BY <1>2
  <2>5. CutAt(u, f)'
    BY <1>1, <2>2, <2>3, <2>4, RacedGroups
  <2>6. \A c \in Addrs \ {a} : memory'[c] = memory[c] /\ (c \in unmapped' => c \in unmapped)
    BY <1>2
  <2>7. PassOK(u)'
    BY <1>1, <2>2, <2>4, <2>6, RacedPassOK
  <2> QED
    BY <2>5, <2>7
<1> QED
  BY <1>4, <1>5 DEF IInv

LEMMA MapIInv ==
    ASSUME IInv, NEW a \in Addrs, Map(a)
    PROVE  IInv'
<1>1. TypeOK /\ \A u \in Threads : PassOK(u) /\ \E f : CutAt(u, f)
  BY DEF IInv
<1>2. unmapped' = unmapped \ {a} /\ UNCHANGED <<pc, passes, log, writeEa, memory, aborted>>
  BY DEF Map
<1>3. TypeOK'
  BY <1>1, <1>2 DEF TypeOK
<1>4. ASSUME NEW u \in Threads PROVE PassOK(u)' /\ \E f : CutAt(u, f)'
  <2>1. PassOK(u)
    BY <1>1
  <2>2. PassOK(u)'
    BY <1>2, <2>1 DEF PassOK, Pass
  <2>3. PICK f : CutAt(u, f)
    BY <1>1
  <2>4. CutAt(u, f)'
    BY <1>2, <2>3 DEF CutAt, IsOver
  <2> QED
    BY <2>2, <2>4
<1> QED
  BY <1>3, <1>4 DEF IInv

LEMMA SameIInv ==
    ASSUME IInv, UNCHANGED vars
    PROVE  IInv'
<1>1. TypeOK /\ \A u \in Threads : PassOK(u) /\ \E f : CutAt(u, f)
  BY DEF IInv
<1>2. UNCHANGED <<pc, passes, writeEa, log, memory, unmapped, aborted>>
  BY DEF vars
<1>3. TypeOK'
  BY <1>1, <1>2 DEF TypeOK
<1>4. ASSUME NEW u \in Threads PROVE PassOK(u)' /\ \E f : CutAt(u, f)'
  <2>1. PassOK(u)
    BY <1>1
  <2>2. PassOK(u)'
    BY <1>2, <2>1 DEF PassOK, Pass
  <2>3. PICK f : CutAt(u, f)
    BY <1>1
  <2>4. CutAt(u, f)'
    BY <1>2, <2>3 DEF CutAt, IsOver
  <2> QED
    BY <2>2, <2>4
<1> QED
  BY <1>3, <1>4 DEF IInv

LEMMA NextIInv == IInv /\ [Next]_vars => IInv'
<1> SUFFICES ASSUME IInv, [Next]_vars PROVE IInv'
  OBVIOUS
<1>1. ASSUME NEW t \in Threads, NEW ins \in Program, NEW ea \in [DOMAIN ins.operands -> Addrs],
             NEW true \in IF ins.predicated THEN BOOLEAN ELSE {TRUE}, BeginPass(t, ins, ea, true)
      PROVE  IInv'
  <2>1. true \in BOOLEAN /\ ea \in Eas(ins)
    BY <1>1 DEF Eas
  <2> QED
    BY <1>1, <2>1, BeginIInv
<1>2. ASSUME NEW t \in Threads, Execute(t) \/ Fault(t) \/ EndPass(t)
      PROVE  IInv'
  BY <1>2, ExecuteIInv, FaultIInv, EndIInv
<1>3. ASSUME NEW a \in Addrs, Unmap(a) \/ Map(a) PROVE IInv'
  BY <1>3, UnmapIInv, MapIInv
<1>4. CASE Over \/ UNCHANGED vars
  BY <1>4, SameIInv DEF Over
<1> QED
  BY <1>1, <1>2, <1>3, <1>4 DEF Next

(* Logs are cut into the groups of their passes at every moment.           *)
THEOREM Invariance == Spec => []IInv
BY InitIInv, NextIInv, PTL DEF Spec

----------------------------------------------------------------------------
(* The groups that the properties speak of are those of the invariant.     *)

LEMMA TellsShape ==
    ASSUME NEW p \in Passes, NEW over \in BOOLEAN, NEW mine, NEW g, Tells(g, p, over, mine)
    PROVE  LET b == Before(p.ins, p.ea, p.true) IN
           /\ g \in Seq(Ops) /\ Len(g) \in Nat \ {0} /\ DOMAIN g = 1 .. Len(g)
           /\ \A i \in 1 .. Len(b) : i \in 1 .. Len(g) /\ g[i] = b[i]
           /\ \A i \in 2 .. Len(g) : g[i].op \in {"read", "call", "ret", "write"}
           /\ \A op \in {"read", "call", "ret"} : Of(g, op) = Of(b, op)
           /\ \/ g = b /\ Of(g, "write") = {} /\ (over => ~(p.done /\ Writes(p)))
              \/ /\ Len(g) = Len(b) + 1 /\ Of(g, "write") = {Len(g)}
                 /\ over /\ p.done /\ Writes(p) /\ WriteOf(g[Len(g)], p, mine)
<1> DEFINE b == Before(p.ins, p.ea, p.true)
<1>1. /\ b \in Seq(Ops) /\ Len(b) \in Nat \ {0}
      /\ b[1].op = "pc"
      /\ \A i \in 2 .. Len(b) : b[i].op \in {"read", "call", "ret"}
  <2>1. /\ b \in Seq(Ops) /\ Len(b) \in Nat \ {0}
        /\ b[1] = [op |-> "pc", ins |-> p.ins]
        /\ \A i \in 2 .. Len(b) : b[i].op \in {"read", "call", "ret"}
    BY BeforeCounts
  <2> QED
    BY <2>1
<1> HIDE DEF b
<1>2. DOMAIN b = 1 .. Len(b)
  BY <1>1
<1>3. \A i \in 1 .. Len(b) : b[i].op \in {"pc", "read", "call", "ret"}
  <2> TAKE i \in 1 .. Len(b)
  <2>1. CASE i = 1
    BY <1>1, <2>1
  <2>2. CASE i # 1
    BY <1>1, <2>2
  <2> QED
    BY <2>1, <2>2
<1>4. CASE g = b /\ (over => ~(p.done /\ Writes(p)))
  <2>1. Of(g, "write") = {}
    BY <1>2, <1>3, <1>4 DEF Of
  <2>2. \A i \in 2 .. Len(g) : g[i].op \in {"read", "call", "ret", "write"}
    BY <1>1, <1>4
  <2> QED
    BY <1>1, <1>2, <1>4, <2>1, <2>2 DEF b
<1>5. CASE \E w : g = Append(b, w) /\ over /\ p.done /\ Writes(p) /\ WriteOf(w, p, mine)
  <2>1. PICK w : g = Append(b, w) /\ over /\ p.done /\ Writes(p) /\ WriteOf(w, p, mine)
    BY <1>5
  <2>2. w \in WriteOps /\ w \in Ops
    BY <2>1 DEF WriteOf, Ops
  <2>3. w.op = "write"
    BY <2>2 DEF WriteOps
  <2>4. /\ g \in Seq(Ops) /\ Len(g) = Len(b) + 1 /\ g[Len(b) + 1] = w
        /\ \A i \in 1 .. Len(b) : g[i] = b[i]
    BY <1>1, <2>1, <2>2, AppendProperties
  <2>5. DOMAIN g = 1 .. Len(g) /\ Len(g) \in Nat \ {0}
    BY <1>1, <2>4
  <2>6. Of(g, "write") = {Len(g)}
    BY <1>1, <1>3, <2>3, <2>4, <2>5 DEF Of
  <2>7. ASSUME NEW op \in {"read", "call", "ret"} PROVE Of(g, op) = Of(b, op)
    <3>1. \A i \in 1 .. Len(g) : i \in 1 .. Len(b) \/ i = Len(b) + 1
      BY <1>1, <2>4
    <3>2. \A i \in 1 .. Len(b) : i \in 1 .. Len(g)
      BY <1>1, <2>4
    <3>3. g[Len(b) + 1].op # op
      BY <2>3, <2>4, <2>7
    <3> QED
      BY <1>2, <2>4, <2>5, <3>1, <3>2, <3>3 DEF Of
  <2>8. \A i \in 2 .. Len(g) : g[i].op \in {"read", "call", "ret", "write"}
    <3> TAKE i \in 2 .. Len(g)
    <3>1. CASE i = Len(b) + 1
      BY <2>3, <2>4, <3>1
    <3>2. CASE i # Len(b) + 1
      <4>1. i \in 2 .. Len(b) /\ i \in 1 .. Len(b)
        BY <1>1, <2>4, <3>2
      <4> QED
        BY <1>1, <2>4, <4>1
    <3> QED
      BY <3>1, <3>2
  <2>9. \A i \in 1 .. Len(b) : i \in 1 .. Len(g) /\ g[i] = b[i]
    BY <1>1, <2>4
  <2>10. WriteOf(g[Len(g)], p, mine)
    BY <2>1, <2>4
  <2> QED
    BY <2>1, <2>4, <2>5, <2>6, <2>7, <2>8, <2>9, <2>10 DEF b
<1> QED
  BY <1>4, <1>5 DEF Tells, b

(* Every micro-op is in a group. *)
LEMMA InGroup ==
    ASSUME NEW l \in Nat, NEW n \in Nat, NEW f, Cut(f, l, n), NEW i \in 1 .. l
    PROVE  \E j \in 1 .. n : f[j] <= i /\ i <= f[j + 1] - 1
<1> DEFINE T == {k \in 1 .. n + 1 : i < f[k]}
<1>1. T \in SUBSET Nat /\ n + 1 \in T
  BY DEF Cut
<1>2. PICK k \in T : \A m \in T : k <= m
  <2> HIDE DEF T
  <2> QED
    BY <1>1, LeastNat
<1>3. f \in [1 .. n + 1 -> Nat] /\ f[1] = 1 /\ 1 \in 1 .. n + 1
  BY DEF Cut
<1>4. k # 1
  BY <1>2, <1>3
<1>5. k - 1 \in 1 .. n /\ k - 1 \in 1 .. n + 1 /\ (k - 1) + 1 = k /\ k - 1 \notin T
  BY <1>2, <1>4
<1>6. f[k - 1] \in Nat /\ f[k] \in Nat
  BY <1>2, <1>3, <1>5
<1>7. f[k - 1] <= i /\ i <= f[k] - 1
  BY <1>2, <1>5, <1>6
<1> QED
  BY <1>5, <1>7

LEMMA GroupAt ==
    ASSUME TypeOK, NEW t \in Threads, NEW f, CutAt(t, f), NEW j \in 1 .. Len(passes[t])
    PROVE  LET g == SubSeq(log[t], f[j], f[j + 1] - 1) IN
           /\ passes[t][j] \in Passes /\ IsOver(t, j) \in BOOLEAN
           /\ Tells(g, passes[t][j], IsOver(t, j), <<t, j>>)
           /\ f[j] \in 1 .. Len(log[t]) /\ f[j] <= f[j + 1] - 1 /\ f[j + 1] \in Nat
           /\ Len(g) = f[j + 1] - f[j]
           /\ \A i \in 1 .. Len(g) : g[i] = log[t][f[j] + i - 1]
<1> DEFINE l == Len(log[t])
           n == Len(passes[t])
           g == SubSeq(log[t], f[j], f[j + 1] - 1)
<1>1. l \in Nat /\ n \in Nat /\ log[t] \in Seq(Ops) /\ passes[t] \in Seq(Passes)
  BY DEF TypeOK
<1>2. passes[t][j] \in Passes
  BY <1>1
<1>3. IsOver(t, j) \in BOOLEAN
  BY DEF IsOver
<1>4. Cut(f, l, n) /\ Tells(g, passes[t][j], IsOver(t, j), <<t, j>>)
  BY DEF CutAt
<1>5. f[j] \in 1 .. l /\ f[j + 1] - 1 \in 1 .. l /\ f[j] <= f[j + 1] - 1 /\ f[j + 1] \in Nat
  BY <1>1, <1>4, CutBounds
<1>6. \A i \in f[j] .. f[j + 1] - 1 : log[t][i] \in Ops
  <2>1. \A i \in 1 .. l : log[t][i] \in Ops
    BY <1>1
  <2> QED
    BY <1>1, <1>5, <2>1
<1>7. PICK x, m, k : x = log[t] /\ m = f[j] /\ k = f[j + 1] - 1
  OBVIOUS
<1>8. m \in Int /\ k \in Int /\ m <= k /\ \A i \in m .. k : x[i] \in Ops
  BY <1>1, <1>5, <1>6, <1>7
<1>9. Len(SubSeq(x, m, k)) = k - m + 1 /\ \A i \in 1 .. k - m + 1 : SubSeq(x, m, k)[i] = x[m + i - 1]
  BY <1>8, SubSeqProperties
<1>10. (f[j + 1] - 1) - f[j] + 1 = f[j + 1] - f[j]
  BY <1>1, <1>5
<1>11. Len(g) = f[j + 1] - f[j] /\ \A i \in 1 .. Len(g) : g[i] = log[t][f[j] + i - 1]
  BY <1>7, <1>9, <1>10
<1> QED
  BY <1>2, <1>3, <1>4, <1>5, <1>11

LEMMA HeadsAre ==
    ASSUME TypeOK, NEW t \in Threads, NEW f, CutAt(t, f)
    PROVE  Heads(t) = {f[j] : j \in 1 .. Len(passes[t])}
<1> DEFINE l == Len(log[t])
           n == Len(passes[t])
           G(j) == SubSeq(log[t], f[j], f[j + 1] - 1)
<1>1. l \in Nat /\ n \in Nat /\ DOMAIN log[t] = 1 .. l /\ Cut(f, l, n)
  BY DEF TypeOK, CutAt
<1>2. ASSUME NEW j \in 1 .. n
      PROVE  /\ f[j] \in 1 .. l /\ f[j + 1] \in Nat /\ Len(G(j)) = f[j + 1] - f[j]
             /\ \A i \in 1 .. Len(G(j)) : G(j)[i] = log[t][f[j] + i - 1]
             /\ Len(G(j)) \in Nat \ {0} /\ G(j)[1].op = "pc"
             /\ \A i \in 2 .. Len(G(j)) : G(j)[i].op # "pc"
  <2> DEFINE p == passes[t][j]
             b == Before(p.ins, p.ea, p.true)
  <2>1. /\ p \in Passes /\ IsOver(t, j) \in BOOLEAN
        /\ Tells(G(j), p, IsOver(t, j), <<t, j>>)
        /\ f[j] \in 1 .. l /\ f[j + 1] \in Nat /\ Len(G(j)) = f[j + 1] - f[j]
        /\ \A i \in 1 .. Len(G(j)) : G(j)[i] = log[t][f[j] + i - 1]
    BY GroupAt
  <2> HIDE DEF p
  <2>2. /\ Len(G(j)) \in Nat \ {0}
        /\ \A i \in 1 .. Len(b) : G(j)[i] = b[i]
        /\ \A i \in 2 .. Len(G(j)) : G(j)[i].op \in {"read", "call", "ret", "write"}
    <3> HIDE DEF G
    <3> QED
      BY <2>1, TellsShape
  <2>3. b[1].op = "pc" /\ 1 \in 1 .. Len(b)
    <3>1. b[1] = [op |-> "pc", ins |-> p.ins] /\ Len(b) \in Nat \ {0}
      BY <2>1, BeforeCounts
    <3> QED
      BY <3>1
  <2> HIDE DEF G, b
  <2>4. G(j)[1].op = "pc"
    BY <2>2, <2>3
  <2>5. \A i \in 2 .. Len(G(j)) : G(j)[i].op # "pc"
    BY <2>2
  <2> QED
    BY <2>1, <2>2, <2>4, <2>5
<1> HIDE DEF G
<1>3. ASSUME NEW j \in 1 .. n PROVE f[j] \in Heads(t)
  <2>1. G(j)[1] = log[t][f[j] + 1 - 1] /\ f[j] + 1 - 1 = f[j]
    BY <1>2
  <2> QED
    BY <1>1, <1>2, <2>1 DEF Heads
<1>4. ASSUME NEW i \in Heads(t) PROVE \E j \in 1 .. n : i = f[j]
  <2>1. i \in 1 .. l /\ log[t][i].op = "pc"
    BY <1>1 DEF Heads
  <2>2. PICK j \in 1 .. n : f[j] <= i /\ i <= f[j + 1] - 1
    BY <1>1, <2>1, InGroup
  <2>3. i - f[j] + 1 \in 1 .. Len(G(j)) /\ f[j] + (i - f[j] + 1) - 1 = i
    <3>1. f[j] \in Nat /\ f[j + 1] \in Nat /\ i \in Nat
      BY <1>1, <1>2, <2>1
    <3>2. Len(G(j)) = f[j + 1] - f[j]
      BY <1>2
    <3> QED
      BY <2>2, <3>1, <3>2
  <2>4. G(j)[i - f[j] + 1].op = "pc"
    BY <1>2, <2>1, <2>3
  <2>5. i - f[j] + 1 = 1
    BY <1>2, <2>3, <2>4
  <2>6. i = f[j]
    BY <1>1, <1>2, <2>1, <2>5
  <2> QED
    BY <2>6
<1> QED
  BY <1>3, <1>4

LEMMA HeadsUpTo ==
    ASSUME NEW n \in Nat, NEW l \in Nat, NEW f, Cut(f, l, n), NEW j \in 0 .. n
    PROVE  Cardinality({f[k] : k \in 1 .. j}) = j
<1> DEFINE h == [k \in 1 .. j |-> f[k]]
           S == {f[k] : k \in 1 .. j}
<1>1. \A k, m \in 1 .. j : f[k] = f[m] => k = m
  <2> SUFFICES ASSUME NEW k \in 1 .. j, NEW m \in 1 .. j, f[k] = f[m] PROVE k = m
    OBVIOUS
  <2>1. k \in 1 .. n + 1 /\ m \in 1 .. n + 1
    OBVIOUS
  <2>2. f[k] \in Nat /\ f[m] \in Nat
    BY <2>1 DEF Cut
  <2>3. ~(k < m) /\ ~(m < k)
    BY <2>1, <2>2 DEF Cut
  <2> QED
    BY <2>3
<1>2. h \in Bijection(1 .. j, S)
  BY <1>1 DEF Bijection, Injection, Surjection, IsInjective
<1>3. ExistsBijection(1 .. j, S)
  <2> HIDE DEF h, S
  <2> QED
    BY <1>2 DEF ExistsBijection
<1> HIDE DEF S
<1> QED
  BY <1>3, FS_CountingElements DEF S

LEMMA GroupIs ==
    ASSUME TypeOK, NEW t \in Threads, NEW f, CutAt(t, f), NEW j \in 1 .. Len(passes[t])
    PROVE  Group(t, j) = SubSeq(log[t], f[j], f[j + 1] - 1)
<1> DEFINE l == Len(log[t])
           n == Len(passes[t])
           from == CHOOSE i \in Heads(t) : Cardinality({h \in Heads(t) : h <= i}) = j
           to == {h \in Heads(t) : h > from}
<1>1. l \in Nat /\ n \in Nat /\ Cut(f, l, n)
  BY DEF TypeOK, CutAt
<1>2. Heads(t) = {f[k] : k \in 1 .. n}
  BY HeadsAre
<1>3. \A k \in 1 .. n + 1 : f[k] \in Nat
  BY DEF Cut, CutAt
<1>4. \A k, m \in 1 .. n + 1 : f[k] <= f[m] <=> k <= m
  <2> SUFFICES ASSUME NEW k \in 1 .. n + 1, NEW m \in 1 .. n + 1 PROVE f[k] <= f[m] <=> k <= m
    OBVIOUS
  <2>1. f[k] \in Nat /\ f[m] \in Nat
    BY <1>3
  <2>2. k < m => f[k] < f[m]
    BY <1>1 DEF Cut
  <2>3. m < k => f[m] < f[k]
    BY <1>1 DEF Cut
  <2> QED
    BY <1>1, <2>1, <2>2, <2>3
<1>5. ASSUME NEW k \in 1 .. n PROVE Cardinality({h \in Heads(t) : h <= f[k]}) = k
  <2>1. k \in 1 .. n + 1 /\ \A m \in 1 .. n : m \in 1 .. n + 1
    BY <1>1
  <2>2. {h \in Heads(t) : h <= f[k]} = {f[m] : m \in {m \in 1 .. n : f[m] <= f[k]}}
    BY <1>2
  <2>3. {m \in 1 .. n : f[m] <= f[k]} = 1 .. k
    BY <1>1, <1>4, <2>1
  <2>4. {h \in Heads(t) : h <= f[k]} = {f[m] : m \in 1 .. k}
    BY <2>2, <2>3
  <2> QED
    BY <1>1, <2>4, HeadsUpTo
<1>6. from = f[j]
  <2>1. f[j] \in Heads(t) /\ Cardinality({h \in Heads(t) : h <= f[j]}) = j
    BY <1>2, <1>5
  <2>2. from \in Heads(t) /\ Cardinality({h \in Heads(t) : h <= from}) = j
    BY <2>1
  <2> HIDE DEF from
  <2>3. PICK k \in 1 .. n : from = f[k]
    BY <1>2, <2>2
  <2> QED
    BY <1>5, <2>2, <2>3
<1> HIDE DEF from
<1>7. to = {f[k] : k \in {k \in 1 .. n : k > j}}
  <2>1. \A k \in 1 .. n : f[k] > f[j] <=> k > j
    <3> TAKE k \in 1 .. n
    <3>1. k \in 1 .. n + 1 /\ j \in 1 .. n + 1
      BY <1>1
    <3>2. f[k] <= f[j] <=> k <= j
      BY <1>4, <3>1
    <3> QED
      BY <1>1, <1>3, <3>1, <3>2
  <2> QED
    BY <1>2, <1>6, <2>1
<1>8. Group(t, j) = SubSeq(log[t], f[j], IF to = {} THEN l ELSE (CHOOSE h \in to : \A g \in to : h <= g) - 1)
  BY <1>6 DEF Group, from
<1> HIDE DEF to
<1>9. CASE j = n
  <2>1. to = {}
    BY <1>1, <1>7, <1>9
  <2>2. f[j + 1] - 1 = l
    BY <1>1, <1>9 DEF Cut
  <2> QED
    BY <1>8, <2>1, <2>2
<1>10. CASE j < n
  <2>1. j + 1 \in 1 .. n /\ j + 1 > j
    BY <1>1, <1>10
  <2>2. f[j + 1] \in to
    BY <1>7, <2>1
  <2>3. \A g \in to : f[j + 1] <= g
    <3> TAKE g \in to
    <3>1. PICK k \in 1 .. n : k > j /\ g = f[k]
      BY <1>7
    <3>2. j + 1 \in 1 .. n + 1 /\ k \in 1 .. n + 1 /\ j + 1 <= k
      BY <1>1, <2>1, <3>1
    <3> QED
      BY <1>4, <3>1, <3>2
  <2>4. to \in SUBSET Nat
    BY <1>1, <1>3, <1>7
  <2> DEFINE least == CHOOSE h \in to : \A g \in to : h <= g
  <2>5. least \in to /\ \A g \in to : least <= g
    BY <2>2, <2>3
  <2> HIDE DEF least
  <2>6. least = f[j + 1]
    <3>1. least \in Nat /\ f[j + 1] \in Nat
      BY <2>2, <2>4, <2>5
    <3>2. least <= f[j + 1] /\ f[j + 1] <= least
      BY <2>2, <2>3, <2>5
    <3> QED
      BY <3>1, <3>2
  <2> QED
    BY <1>8, <2>2, <2>6 DEF least
<1> QED
  BY <1>1, <1>9, <1>10

----------------------------------------------------------------------------
(* The properties.                                                         *)

(* What a thread's group tells is what its pass did.                       *)
LEMMA GroupTells ==
    ASSUME TypeOK, NEW t \in Threads, NEW f, CutAt(t, f), NEW j \in 1 .. Len(passes[t])
    PROVE  LET p == passes[t][j] IN
           p \in Passes /\ IsOver(t, j) \in BOOLEAN /\ Tells(Group(t, j), p, IsOver(t, j), <<t, j>>)
<1>1. Group(t, j) = SubSeq(log[t], f[j], f[j + 1] - 1)
  BY GroupIs
<1>2. /\ passes[t][j] \in Passes /\ IsOver(t, j) \in BOOLEAN
      /\ Tells(SubSeq(log[t], f[j], f[j + 1] - 1), passes[t][j], IsOver(t, j), <<t, j>>)
  BY GroupAt
<1> QED
  BY <1>1, <1>2

LEMMA GroupsComplete == IInv => GroupPerPass
<1> SUFFICES ASSUME IInv, NEW t \in Threads
             PROVE  /\ Cardinality(Heads(t)) = Len(passes[t])
                    /\ \A j \in DOMAIN passes[t] :
                         LET g == Group(t, j)
                             p == passes[t][j]
                             n == Len(p.ins.operands)
                         IN  /\ g[1] = [op |-> "pc", ins |-> p.ins]
                             /\ ~p.true => Len(g) = 1
                             /\ p.true =>
                                  /\ Cardinality(Of(g, "read")) = Cardinality({k \in 1 .. n : p.ins.operands[k].read})
                                  /\ \A k \in 1 .. n : p.ins.operands[k].read =>
                                       \E i \in Of(g, "read") : g[i].ea = p.ea[k] /\ g[i].size = p.ins.operands[k].size
                                  /\ Cardinality(Of(g, "ret")) = (IF p.ins.kind = "ret" THEN 1 ELSE 0)
                                  /\ Cardinality(Of(g, "call")) =
                                       (IF p.ins.kind = "call" /\ ~(p.ins.plt /\ ~p.ins.direct) THEN 1 ELSE 0)
                             /\ \A i \in Of(g, "write") : i = Len(g)
  BY DEF GroupPerPass
<1>1. TypeOK /\ \E f : CutAt(t, f)
  BY DEF IInv
<1>2. PICK f : CutAt(t, f)
  BY <1>1
<1>3. Cardinality(Heads(t)) = Len(passes[t])
  <2>1. /\ Len(passes[t]) \in Nat /\ Len(log[t]) \in Nat /\ Len(passes[t]) \in 0 .. Len(passes[t])
        /\ Cut(f, Len(log[t]), Len(passes[t]))
    BY <1>1, <1>2 DEF TypeOK, CutAt
  <2>2. Heads(t) = {f[k] : k \in 1 .. Len(passes[t])}
    BY <1>1, <1>2, HeadsAre
  <2> QED
    BY <2>1, <2>2, HeadsUpTo
<1>4. ASSUME NEW j \in DOMAIN passes[t]
      PROVE  LET g == Group(t, j)
                 p == passes[t][j]
                 n == Len(p.ins.operands)
             IN  /\ g[1] = [op |-> "pc", ins |-> p.ins]
                 /\ ~p.true => Len(g) = 1
                 /\ p.true =>
                      /\ Cardinality(Of(g, "read")) = Cardinality({k \in 1 .. n : p.ins.operands[k].read})
                      /\ \A k \in 1 .. n : p.ins.operands[k].read =>
                           \E i \in Of(g, "read") : g[i].ea = p.ea[k] /\ g[i].size = p.ins.operands[k].size
                      /\ Cardinality(Of(g, "ret")) = (IF p.ins.kind = "ret" THEN 1 ELSE 0)
                      /\ Cardinality(Of(g, "call")) =
                           (IF p.ins.kind = "call" /\ ~(p.ins.plt /\ ~p.ins.direct) THEN 1 ELSE 0)
                 /\ \A i \in Of(g, "write") : i = Len(g)
  <2>1. j \in 1 .. Len(passes[t])
    BY <1>1 DEF TypeOK
  <2>2. PICK p, g, over : p = passes[t][j] /\ g = Group(t, j) /\ over = IsOver(t, j)
    OBVIOUS
  <2>3. p \in Passes /\ over \in BOOLEAN /\ Tells(g, p, over, <<t, j>>)
    BY <1>1, <1>2, <2>1, <2>2, GroupTells
  <2> DEFINE b == Before(p.ins, p.ea, p.true)
             n == Len(p.ins.operands)
  <2>4. /\ Len(b) \in Nat \ {0}
        /\ b[1] = [op |-> "pc", ins |-> p.ins]
        /\ ~p.true => Len(b) = 1
        /\ p.true =>
             /\ Cardinality(Of(b, "read")) = Cardinality(ReadAt(p.ins))
             /\ \A k \in ReadAt(p.ins) : \E i \in Of(b, "read") :
                  b[i].ea = p.ea[k] /\ b[i].size = p.ins.operands[k].size
             /\ Cardinality(Of(b, "ret")) = (IF p.ins.kind = "ret" THEN 1 ELSE 0)
             /\ Cardinality(Of(b, "call")) =
                  (IF p.ins.kind = "call" /\ ~(p.ins.plt /\ ~p.ins.direct) THEN 1 ELSE 0)
    BY <2>3, BeforeCounts
  <2>5. DOMAIN b = 1 .. Len(b)
    BY <2>3, BeforeCounts
  <2>6. /\ \A i \in 1 .. Len(b) : g[i] = b[i]
        /\ \A op \in {"read", "call", "ret"} : Of(g, op) = Of(b, op)
        /\ \/ g = b /\ Of(g, "write") = {}
           \/ Len(g) = Len(b) + 1 /\ Of(g, "write") = {Len(g)} /\ Writes(p)
    BY <2>3, TellsShape
  <2>7. ReadAt(p.ins) = {k \in 1 .. n : p.ins.operands[k].read}
    BY <2>3, PassTypes, OperandTypes DEF ReadAt
  <2> HIDE DEF b, n
  <2>8. g[1] = [op |-> "pc", ins |-> p.ins]
    BY <2>4, <2>6
  <2>9. ~p.true => Len(g) = 1
    BY <2>4, <2>6 DEF Writes
  <2>10. \A i \in Of(g, "write") : i = Len(g)
    BY <2>6
  <2>11. ASSUME p.true, NEW k \in 1 .. n, p.ins.operands[k].read
         PROVE  \E i \in Of(g, "read") : g[i].ea = p.ea[k] /\ g[i].size = p.ins.operands[k].size
    <3>1. k \in ReadAt(p.ins)
      BY <2>7, <2>11
    <3>2. PICK i \in Of(b, "read") : b[i].ea = p.ea[k] /\ b[i].size = p.ins.operands[k].size
      BY <2>4, <2>11, <3>1
    <3>3. i \in 1 .. Len(b) /\ i \in Of(g, "read") /\ g[i] = b[i]
      BY <2>5, <2>6 DEF Of
    <3> QED
      BY <3>2, <3>3
  <2>12. p.true =>
           /\ Cardinality(Of(g, "read")) = Cardinality({k \in 1 .. n : p.ins.operands[k].read})
           /\ Cardinality(Of(g, "ret")) = (IF p.ins.kind = "ret" THEN 1 ELSE 0)
           /\ Cardinality(Of(g, "call")) = (IF p.ins.kind = "call" /\ ~(p.ins.plt /\ ~p.ins.direct) THEN 1 ELSE 0)
    BY <2>4, <2>6, <2>7
  <2> QED
    BY <2>2, <2>8, <2>9, <2>10, <2>11, <2>12 DEF n
<1> QED
  BY <1>3, <1>4

LEMMA WritesTold == IInv => WriteTold
<1> SUFFICES ASSUME IInv, NEW t \in Threads, NEW j \in DOMAIN passes[t]
             PROVE  LET g == Group(t, j)
                        p == passes[t][j]
                    IN  /\ IsOver(t, j) => Cardinality(Of(g, "write")) = (IF p.done /\ Writes(p) THEN 1 ELSE 0)
                        /\ \A i \in Of(g, "write") :
                              /\ p.done
                              /\ g[i].ea = Target(p)
                              /\ ~p.raced => /\ g[i].data = <<t, j>>
                                             /\ \E k \in Written(p.ins) : g[i].size = p.ins.operands[k].size
  BY DEF WriteTold
<1>1. TypeOK /\ \E f : CutAt(t, f)
  BY DEF IInv
<1>2. PICK f : CutAt(t, f)
  BY <1>1
<1>3. j \in 1 .. Len(passes[t])
  BY <1>1 DEF TypeOK
<1>4. PICK p, g, over, mine : p = passes[t][j] /\ g = Group(t, j) /\ over = IsOver(t, j) /\ mine = <<t, j>>
  OBVIOUS
<1>5. p \in Passes /\ over \in BOOLEAN /\ Tells(g, p, over, mine)
  BY <1>1, <1>2, <1>3, <1>4, GroupTells
<1>6. \/ Of(g, "write") = {} /\ (over => ~(p.done /\ Writes(p)))
      \/ /\ Of(g, "write") = {Len(g)}
         /\ over /\ p.done /\ Writes(p) /\ WriteOf(g[Len(g)], p, mine)
  BY <1>5, TellsShape
<1>7. Cardinality({}) = 0 /\ Cardinality({Len(g)}) = 1
  BY FS_EmptySet, FS_Singleton
<1>8. over => Cardinality(Of(g, "write")) = (IF p.done /\ Writes(p) THEN 1 ELSE 0)
  BY <1>6, <1>7
<1>9. ASSUME NEW i \in Of(g, "write")
      PROVE  /\ p.done /\ g[i].ea = Target(p)
             /\ ~p.raced => g[i].data = mine /\ \E k \in Written(p.ins) : g[i].size = p.ins.operands[k].size
  <2>1. i = Len(g) /\ p.done /\ WriteOf(g[i], p, mine)
    BY <1>6
  <2> QED
    BY <2>1 DEF WriteOf
<1> QED
  BY <1>4, <1>8, <1>9

(* A thread's log has the micro-ops of every instruction it began, in      *)
(* order, and only those, whatever the threads do to each other's memory.  *)
THEOREM LogComplete == Spec => []GroupPerPass
BY Invariance, GroupsComplete, PTL

(* Every write is logged, once, where this pass wrote.                     *)
THEOREM WritesLogged == Spec => []WriteTold
BY Invariance, WritesTold, PTL

(* The space that the micro-ops g take. *)
GroupSize(g) == FoldFunction(LAMBDA o, n : Bytes(o) + n, 0, g)

(* iter sums up the micro-ops of a set of positions, one after the other.  *)
SumsUp(iter, g, m) ==
    /\ iter[{}] = 0
    /\ \A s \in SUBSET (1 .. m) : s # {} => \E x \in s : iter[s] = Bytes(g[x]) + iter[s \ {x}]

(* The fold over a group is the recursion that its definition chooses.     *)
LEMMA GroupFold ==
    ASSUME NEW m \in Nat, NEW g, DOMAIN g = 1 .. m
    PROVE  \E iter : GroupSize(g) = iter[1 .. m] /\ SumsUp(iter, g, m)
<1> DEFINE Any(s) == CHOOSE x \in s : TRUE
           Turned(h, s) == IF s = {} THEN 0 ELSE Bytes(g[Any(s)]) + h[s \ {Any(s)}]
           Upto(h, k) == /\ h = [s \in SUBSET (1 .. m) |-> h[s]]
                         /\ \A s \in SUBSET (1 .. m) : Cardinality(s) <= k => h[s] = Turned(h, s)
           S == {k \in Nat : \E h : Upto(h, k)}
<1>1. \A s \in SUBSET (1 .. m) : /\ IsFiniteSet(s) /\ Cardinality(s) \in Nat /\ Cardinality(s) <= m
                                 /\ Cardinality(s) = 0 <=> s = {}
                                 /\ \A x \in s : Cardinality(s \ {x}) = Cardinality(s) - 1
  <2>1. IsFiniteSet(1 .. m) /\ Cardinality(1 .. m) = m
    <3>1. IsFiniteSet(1 .. m) /\ Cardinality(1 .. m) = IF 1 > m THEN 0 ELSE m - 1 + 1
      BY FS_Interval
    <3> QED
      BY <3>1
  <2> TAKE s \in SUBSET (1 .. m)
  <2>2. IsFiniteSet(s) /\ Cardinality(s) <= m
    <3>1. PICK all : all = 1 .. m
      OBVIOUS
    <3>2. IsFiniteSet(s) /\ Cardinality(s) <= Cardinality(all)
      <4>1. s \in SUBSET all /\ IsFiniteSet(all)
        BY <2>1, <3>1
      <4> QED
        BY <4>1, FS_Subset
    <3> QED
      BY <2>1, <3>1, <3>2
  <2>3. Cardinality(s) \in Nat
    BY <2>2, FS_CardinalityType
  <2>4. Cardinality(s) = 0 <=> s = {}
    BY <2>2, FS_EmptySet
  <2>5. \A x \in s : Cardinality(s \ {x}) = Cardinality(s) - 1
    BY <2>2, FS_RemoveElement
  <2> QED
    BY <2>2, <2>3, <2>4, <2>5
<1>2. \A s \in SUBSET (1 .. m) : s # {} => Any(s) \in s
  OBVIOUS
<1> HIDE DEF Any
<1>3. 0 \in S
  <2> DEFINE h == [s \in SUBSET (1 .. m) |-> 0]
  <2>1. Upto(h, 0)
    BY <1>1
  <2> HIDE DEF h, Upto
  <2> QED
    BY <2>1
<1>4. ASSUME NEW k \in Nat, k \in S PROVE k + 1 \in S
  <2>1. PICK h : Upto(h, k)
    BY <1>4
  <2> DEFINE hh == [s \in SUBSET (1 .. m) |-> Turned(h, s)]
  <2>2. \A s \in SUBSET (1 .. m) : Cardinality(s) <= k => hh[s] = h[s]
    BY <2>1
  <2>3. ASSUME NEW s \in SUBSET (1 .. m), Cardinality(s) <= k + 1
        PROVE  hh[s] = Turned(hh, s)
    <3>1. hh[s] = Turned(h, s)
      OBVIOUS
    <3>2. CASE s = {}
      BY <3>1, <3>2
    <3>3. CASE s # {}
      <4>1. Any(s) \in s /\ s \ {Any(s)} \in SUBSET (1 .. m)
        BY <1>2, <3>3
      <4>2. Cardinality(s \ {Any(s)}) = Cardinality(s) - 1 /\ Cardinality(s) \in Nat
        BY <1>1, <4>1
      <4>3. Cardinality(s \ {Any(s)}) <= k
        BY <2>3, <4>2
      <4>4. hh[s \ {Any(s)}] = h[s \ {Any(s)}]
        BY <2>2, <4>1, <4>3
      <4> HIDE DEF hh
      <4> QED
        BY <3>1, <3>3, <4>4
    <3> QED
      BY <3>2, <3>3
  <2>4. Upto(hh, k + 1)
    <3>1. hh = [s \in SUBSET (1 .. m) |-> hh[s]]
      OBVIOUS
    <3> HIDE DEF hh
    <3> QED
      BY <2>3, <3>1
  <2> HIDE DEF hh, Upto
  <2> QED
    BY <2>4
<1>5. PICK h : Upto(h, m)
  <2>1. m \in S
    <3> HIDE DEF S
    <3> QED
      BY <1>3, <1>4, Induction
  <2> HIDE DEF Upto
  <2> QED
    BY <2>1
<1>6. h = [s \in SUBSET (1 .. m) |-> Turned(h, s)]
  <2>1. \A s \in SUBSET (1 .. m) : h[s] = Turned(h, s)
    BY <1>1, <1>5
  <2>2. h = [s \in SUBSET (1 .. m) |-> h[s]]
    BY <1>5
  <2> HIDE DEF Turned
  <2> QED
    BY <2>1, <2>2
<1> DEFINE It == CHOOSE iter : iter = [s \in SUBSET (1 .. m) |-> Turned(iter, s)]
<1>7. It = [s \in SUBSET (1 .. m) |-> Turned(It, s)]
  <2> HIDE DEF Turned
  <2> QED
    BY <1>6
<1>8. GroupSize(g) = It[1 .. m]
  BY DEF GroupSize, FoldFunction, FoldFunctionOnSet, MapThenFoldSet, Any
<1> HIDE DEF It
<1>9. \A s \in SUBSET (1 .. m) : It[s] = Turned(It, s)
  <2> HIDE DEF Turned
  <2> QED
    BY <1>7
<1>10. It[{}] = 0
  BY <1>9
<1>11. ASSUME NEW s \in SUBSET (1 .. m), s # {} PROVE \E x \in s : It[s] = Bytes(g[x]) + It[s \ {x}]
  <2>1. It[s] = Bytes(g[Any(s)]) + It[s \ {Any(s)}] /\ Any(s) \in s
    BY <1>2, <1>9, <1>11
  <2> QED
    BY <2>1
<1>12. SumsUp(It, g, m)
  BY <1>10, <1>11 DEF SumsUp
<1> QED
  BY <1>8, <1>12

(* A group of m micro-ops, the c-th of which may be a call and the w-th a  *)
(* write: none but these takes more than 13 bytes, and the first takes 9.  *)
MostAt(i, c, w) == 13 + (IF i = c THEN 5 ELSE 0) + (IF i = w THEN MaxWriteSize ELSE 0)
                      - (IF i = 1 THEN 4 ELSE 0)

Capped(g, m, c, w) == \A i \in 1 .. m : Bytes(g[i]) \in Nat /\ Bytes(g[i]) <= MostAt(i, c, w)

Most(s, c, w) == 13 * Cardinality(s) + (IF c \in s THEN 5 ELSE 0) + (IF w \in s THEN MaxWriteSize ELSE 0)
                    - (IF 1 \in s THEN 4 ELSE 0)

LEMMA GroupBytes ==
    ASSUME NEW m \in Nat, m > 0, NEW g, DOMAIN g = 1 .. m, NEW c, NEW w, Capped(g, m, c, w)
    PROVE  GroupSize(g) \in Int /\ GroupSize(g) <= Most(1 .. m, c, w)
<1> PICK iter : GroupSize(g) = iter[1 .. m] /\ SumsUp(iter, g, m)
  BY GroupFold
<1>1. /\ GroupSize(g) = iter[1 .. m]
      /\ iter[{}] = 0
      /\ \A s \in SUBSET (1 .. m) : s # {} => \E x \in s : iter[s] = Bytes(g[x]) + iter[s \ {x}]
  BY DEF SumsUp
<1>2. MaxWriteSize \in Nat
  BY ProgramAssumption
<1>3. IsFiniteSet(1 .. m) /\ Cardinality(1 .. m) = m
  <2>1. IsFiniteSet(1 .. m) /\ Cardinality(1 .. m) = IF 1 > m THEN 0 ELSE m - 1 + 1
    BY FS_Interval
  <2> QED
    BY <2>1
<1>4. \A s \in SUBSET (1 .. m) : IsFiniteSet(s) /\ Cardinality(s) \in Nat
  <2> TAKE s \in SUBSET (1 .. m)
  <2>1. PICK all : all = 1 .. m
    OBVIOUS
  <2>2. IsFiniteSet(s)
    <3>1. s \in SUBSET all /\ IsFiniteSet(all)
      BY <1>3, <2>1
    <3> QED
      BY <3>1, FS_Subset
  <2> QED
    BY <2>2, FS_CardinalityType
<1> DEFINE S == {k \in Nat : \A s \in SUBSET (1 .. m) :
                   Cardinality(s) = k => iter[s] \in Int /\ iter[s] <= Most(s, c, w)}
<1>5. 0 \in S
  <2>1. ASSUME NEW s \in SUBSET (1 .. m), Cardinality(s) = 0 PROVE s = {}
    BY <1>4, <2>1, FS_EmptySet
  <2>2. Cardinality({}) = 0
    BY FS_EmptySet
  <2>3. Most({}, c, w) = 0
    BY <2>2 DEF Most
  <2>4. iter[{}] \in Int /\ iter[{}] <= Most({}, c, w)
    BY <1>1, <2>3
  <2> QED
    BY <2>1, <2>4
<1>6. ASSUME NEW k \in Nat, k \in S PROVE k + 1 \in S
  <2> SUFFICES ASSUME NEW s \in SUBSET (1 .. m), Cardinality(s) = k + 1
               PROVE  iter[s] \in Int /\ iter[s] <= Most(s, c, w)
    OBVIOUS
  <2>1. s # {}
    <3>1. IsFiniteSet(s) /\ Cardinality(s) # 0
      BY <1>4
    <3> QED
      BY <3>1, FS_EmptySet
  <2>2. PICK x \in s : iter[s] = Bytes(g[x]) + iter[s \ {x}]
    BY <1>1, <2>1
  <2>3. PICK r : r = s \ {x}
    OBVIOUS
  <2>4. r \in SUBSET (1 .. m) /\ Cardinality(r) = k
    <3>1. Cardinality(s \ {x}) = Cardinality(s) - 1
      BY <1>4, FS_RemoveElement
    <3> QED
      BY <2>3, <3>1
  <2>5. iter[r] \in Int /\ iter[r] <= Most(r, c, w)
    BY <1>6, <2>4
  <2>6. x \in 1 .. m /\ Bytes(g[x]) \in Nat
        /\ Bytes(g[x]) <= 13 + (IF x = c THEN 5 ELSE 0) + (IF x = w THEN MaxWriteSize ELSE 0)
                              - (IF x = 1 THEN 4 ELSE 0)
    BY DEF Capped, MostAt
  <2>7. (c \in s <=> c \in r \/ c = x) /\ (w \in s <=> w \in r \/ w = x) /\ (1 \in s <=> 1 \in r \/ 1 = x)
        /\ x \notin r
    BY <2>3
  <2>8. Most(r, c, w) = 13 * k + (IF c \in r THEN 5 ELSE 0)
                         + (IF w \in r THEN MaxWriteSize ELSE 0) - (IF 1 \in r THEN 4 ELSE 0)
    BY <2>4 DEF Most
  <2>9. Most(s, c, w) = 13 * (k + 1) + (IF c \in s THEN 5 ELSE 0)
                         + (IF w \in s THEN MaxWriteSize ELSE 0) - (IF 1 \in s THEN 4 ELSE 0)
    BY DEF Most
  <2>10. iter[s] = Bytes(g[x]) + iter[r]
    BY <2>2, <2>3
  <2> HIDE DEF S
  <2> QED
    BY <1>2, <2>5, <2>6, <2>7, <2>8, <2>9, <2>10
<1>7. m \in S
  <2> HIDE DEF S
  <2> QED
    BY <1>5, <1>6, Induction
<1> QED
  BY <1>1, <1>3, <1>7

LEMMA GroupsSmall == IInv => GroupFits
<1> SUFFICES ASSUME IInv, NEW t \in Threads, NEW j \in DOMAIN passes[t]
             PROVE  GroupSize(Group(t, j)) <= MinFree
  BY DEF GroupFits, GroupSize
<1>1. TypeOK /\ \E f : CutAt(t, f)
  BY DEF IInv
<1>2. PICK f : CutAt(t, f)
  BY <1>1
<1>3. j \in 1 .. Len(passes[t])
  BY <1>1 DEF TypeOK
<1>4. PICK p, g, over, mine : p = passes[t][j] /\ g = Group(t, j) /\ over = IsOver(t, j) /\ mine = <<t, j>>
  OBVIOUS
<1>5. p \in Passes /\ over \in BOOLEAN /\ Tells(g, p, over, mine)
  BY <1>1, <1>2, <1>3, <1>4, GroupTells
<1> PICK b, m, c, k : /\ b = Before(p.ins, p.ea, p.true) /\ m = Len(g)
                      /\ c = Len(b) /\ k = Cardinality(ReadAt(p.ins))
  OBVIOUS
<1>6. /\ b \in Seq(Ops) /\ c \in Nat \ {0}
      /\ b[1] = [op |-> "pc", ins |-> p.ins]
      /\ \A i \in 2 .. c : b[i].op \in {"read", "call", "ret"}
      /\ \A i \in 1 .. c - 1 : b[i].op \in {"pc", "read"}
  BY <1>5, BeforeCounts
<1>7. c <= k + 2 /\ k \in Nat
  <2>1. p.ins \in Program /\ p.ea \in Eas(p.ins) /\ p.true \in BOOLEAN
    BY <1>5, PassTypes
  <2>2. PICK r, d : r = Len(LogReads(p.ins, p.ea)) /\ d = Len(LogCallOrRet(p.ins))
    OBVIOUS
  <2>3. r = k /\ k \in Nat
    <3>1. r = Cardinality(ReadAt(p.ins)) /\ IsFiniteSet(ReadAt(p.ins))
      BY <2>1, <2>2, ReadsLogged DEF Eas
    <3> QED
      BY <3>1, FS_CardinalityType
  <2>4. c = (IF p.true THEN 1 + r + d ELSE 1) /\ d \in 0 .. 1
    BY <2>1, <2>2, BeforeShape
  <2>5. c = 1 + r + d \/ c = 1
    BY <2>1, <2>4
  <2> QED
    BY <2>3, <2>4, <2>5
<1>8. /\ g \in Seq(Ops) /\ m \in Nat \ {0} /\ DOMAIN g = 1 .. m
      /\ \A i \in 1 .. c : g[i] = b[i]
      /\ m = c \/ (m = c + 1 /\ WriteOf(g[m], p, mine))
  BY <1>5, TellsShape
<1>9. MaxWriteSize \in Nat /\ MinFree \in Nat /\ c \in Nat /\ c > 0 /\ m \in Nat /\ m > 0 /\ (m = c \/ m = c + 1)
  BY <1>6, <1>8, ProgramAssumption
<1>10. ASSUME NEW i \in 1 .. m
       PROVE  /\ Bytes(g[i]) \in Nat
              /\ Bytes(g[i]) <= MostAt(i, c, c + 1)
  <2> USE DEF MostAt
  <2>1. CASE i = c + 1
    <3>0. i = m /\ m = c + 1 /\ c \in Nat \ {0}
      BY <1>6, <1>8, <2>1
    <3>1. WriteOf(g[i], p, mine) /\ i # 1 /\ i # c /\ i = c + 1
      BY <1>8, <3>0
    <3>2. g[i] \in WriteOps /\ g[i].size <= MaxWriteSize
      BY <3>1 DEF WriteOf
    <3>3. g[i].op = "write" /\ g[i].size \in Nat
      BY <3>2 DEF WriteOps
    <3>4. Bytes(g[i]) = 13 + g[i].size
      BY <3>3 DEF Bytes, Word
    <3> QED
      BY <1>9, <3>1, <3>2, <3>3, <3>4
  <2>2. CASE i # c + 1
    <3>0. m = c \/ m = c + 1
      BY <1>8
    <3>1. i \in 1 .. c /\ g[i] = b[i] /\ i # c + 1
      BY <1>6, <1>8, <2>2, <3>0
    <3>2. CASE i = 1
      <4>1. g[i].op = "pc"
        BY <1>6, <3>1, <3>2
      <4>2. Bytes(g[i]) = 9
        BY <4>1 DEF Bytes, Word
      <4> QED
        BY <3>1, <3>2, <4>2
    <3>3. CASE i # 1 /\ i # c
      <4>1. i \in 1 .. c - 1 /\ i \in 2 .. c
        BY <1>6, <3>1, <3>3
      <4>2. g[i].op \in {"pc", "read"} /\ g[i].op \in {"read", "call", "ret"}
        BY <1>6, <3>1, <4>1
      <4>3. Bytes(g[i]) = 13
        BY <4>2 DEF Bytes, Word
      <4> QED
        BY <3>1, <3>3, <4>3
    <3>5. i # 1 => i \in 2 .. c
      BY <1>6, <3>1
    <3>4. CASE i # 1 /\ i = c
      <4>1. i \in 2 .. c
        BY <3>4, <3>5
      <4>2. g[i].op \in {"read", "call", "ret"}
        BY <1>6, <3>1, <4>1
      <4>3. Bytes(g[i]) \in {9, 13, 18}
        BY <4>2 DEF Bytes, Word
      <4> QED
        BY <3>1, <3>4, <4>3
    <3> QED
      BY <3>2, <3>3, <3>4
  <2> QED
    BY <2>1, <2>2
<1>11. GroupSize(g) \in Int /\ GroupSize(g) <= Most(1 .. m, c, c + 1)
  <2>1. Capped(g, m, c, c + 1)
    BY <1>10 DEF Capped
  <2> QED
    BY <1>8, <1>9, <2>1, GroupBytes
<1>12. 13 * k + 40 + MaxWriteSize <= MinFree
  <2>1. p.ins \in Program
    BY <1>5, PassTypes
  <2> QED
    BY <2>1, FewReads DEF ReadAt
<1>13. GroupSize(g) <= MinFree
  <2>1. Cardinality(1 .. m) = m
    <3>1. Cardinality(1 .. m) = IF 1 > m THEN 0 ELSE m - 1 + 1
      BY <1>9, FS_Interval
    <3> QED
      BY <1>9, <3>1
  <2>2. c \in 1 .. m /\ 1 \in 1 .. m /\ (c + 1 \in 1 .. m <=> m = c + 1)
    BY <1>9
  <2>3. Most(1 .. m, c, c + 1) = 13 * m + 5 + (IF m = c + 1 THEN MaxWriteSize ELSE 0) - 4
    BY <2>1, <2>2 DEF Most
  <2>4. PICK x : x = GroupSize(g)
    OBVIOUS
  <2>5. x \in Int /\ x <= 13 * m + 1 + (IF m = c + 1 THEN MaxWriteSize ELSE 0)
    BY <1>9, <1>11, <2>3, <2>4
  <2>6. x <= 13 * k + 40 + MaxWriteSize
    BY <1>7, <1>9, <2>5
  <2>7. x <= MinFree
    BY <1>7, <1>9, <1>12, <2>5, <2>6
  <2> QED
    BY <2>4, <2>7
<1> QED
  BY <1>4, <1>13

(* A flush before an instruction leaves room for all of its micro-ops.     *)
THEOREM GroupsFit == Spec => []GroupFits
BY Invariance, GroupsSmall, PTL
============================================================================
