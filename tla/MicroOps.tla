------------------------------ MODULE MicroOps ------------------------------
(***************************************************************************)
(* The binary form of micro-ops: written by MicroEventLog                  *)
(* (src/src/MicroEventLog.h), read by MicroOpDecoder and put together into *)
(* instructions by split_stream (src/src/tools/ztrace/micro_ops.py,        *)
(* instruction_ops.py, util.py), and written again, with the word size of  *)
(* the database, by InstructionOps.encode.                                 *)
(*                                                                         *)
(* split_stream pulls the same generator through two iterators, one of     *)
(* them one micro-op ahead of the other; a step is one next() of either.   *)
(* After the log has been read, its instructions are encoded and what      *)
(* comes out is read by the same code.  Bytes are numbers below Base.      *)
(***************************************************************************)
EXTENDS Integers, Sequences, SequencesExt, FiniteSetsExt

CONSTANTS Base,       \* 2^8
          TraceWord,  \* bytes of an ADDRINT: 4 or 8
          DbWord,     \* bytes of a word written by IO_DB: 8
          SizeBytes,  \* bytes of a UINT32: 4
          Words,      \* addresses
          DataSets,   \* what a memory write writes
          MaxOps      \* bound: micro-ops of a log

NEWPC    == 1
MEMREAD  == 2
MEMWRITE == 4
CALL     == 32
RET      == 64

OpCodes == {NEWPC, MEMREAD, MEMWRITE, CALL, RET}

(* What is left of v without its lowest byte, its two lowest, up to n. *)
Rests(v, n) ==
    LET rest[i \in 0 .. n] == IF i = 0 THEN v ELSE rest[i - 1] \div Base IN rest

(* v is below Base^n. *)
Fits(v, n) == Rests(v, n)[n] = 0

ASSUME CodecAssumption ==
    /\ Base \in Nat /\ Base > RET
    /\ {TraceWord, DbWord, SizeBytes} \subseteq Nat \ {0}
    /\ TraceWord <= DbWord
    /\ \A v \in Words : v \in Nat /\ Fits(v, TraceWord)
    /\ \A d \in DataSets : d \in Seq(0 .. (Base - 1)) /\ Fits(Len(d), SizeBytes)
    /\ MaxOps \in Nat

OP_NEWPC(pc)              == [opcode |-> NEWPC, pc |-> pc]
OP_MEMREAD(ea, size)      == [opcode |-> MEMREAD, ea |-> ea, size |-> size]
OP_MEMWRITE(ea, data)     == [opcode |-> MEMWRITE, ea |-> ea, data |-> data]
OP_CALL(target, sp, flag) == [opcode |-> CALL, target |-> target, sp |-> sp, is_direct |-> flag]
OP_RET(sp)                == [opcode |-> RET, sp |-> sp]

MicroOp == {OP_NEWPC(v) : v \in Words}
           \cup {OP_MEMREAD(v, Len(d)) : v \in Words, d \in DataSets}
           \cup {OP_MEMWRITE(v, d) : v \in Words, d \in DataSets}
           \cup {OP_CALL(v, u, b) : v \in Words, u \in Words, b \in BOOLEAN}
           \cup {OP_RET(v) : v \in Words}

VARIABLES
    input,    \* the micro-ops that were logged
    bytes,    \* what is being decoded
    width,    \* bytes of its words
    at,       \* the position in it
    decoded,  \* the micro-ops decoded: what peek_it has returned
    taken,    \* how many of them it has returned
    group,    \* split_stream's group
    groups,   \* the instructions it has yielded
    pass,     \* 1: the log is read, 2: its encoded instructions
    phase     \* where split_stream is

decodeVars == <<input, bytes, width, at, decoded, taken, group, groups, pass, phase>>

----------------------------------------------------------------------------
(* Fields. *)

(* The n bytes of v, the lowest first. *)
Bytes(v, n) == [i \in 1 .. n |-> Rests(v, n)[i - 1] % Base]

(* The number that bytes stand for: number[k] is that of the last k. *)
Number(s) ==
    LET number[k \in 0 .. Len(s)] ==
            IF k = 0 THEN 0 ELSE s[Len(s) - k + 1] + Base * number[k - 1]
    IN  number[Len(s)]

Bool(b) == <<IF b THEN 1 ELSE 0>>

(* What MicroEventLog puts into its buffer. *)
Logged(op) ==
    <<op.opcode>> \o
    CASE op.opcode = NEWPC    -> Bytes(op.pc, TraceWord)
      [] op.opcode = MEMREAD  -> Bytes(op.ea, TraceWord) \o Bytes(op.size, SizeBytes)
      [] op.opcode = MEMWRITE -> Bytes(op.ea, TraceWord) \o Bytes(Len(op.data), SizeBytes) \o op.data
      [] op.opcode = CALL     -> Bytes(op.target, TraceWord) \o Bytes(op.sp, TraceWord) \o Bool(op.is_direct)
      [] op.opcode = RET      -> Bytes(op.sp, TraceWord)

(* Mutant: the words have the size they have in the log. *)
EncodedNarrow(op) ==
    <<op.opcode>> \o
    CASE op.opcode = NEWPC    -> Bytes(op.pc, TraceWord)
      [] op.opcode = MEMREAD  -> Bytes(op.ea, TraceWord) \o Bytes(op.size, SizeBytes)
      [] op.opcode = MEMWRITE -> Bytes(op.ea, TraceWord) \o Bytes(Len(op.data), SizeBytes) \o op.data
      [] op.opcode = CALL     -> Bytes(op.target, TraceWord) \o Bool(op.is_direct)
      [] op.opcode = RET      -> Bytes(op.sp, TraceWord)

(* What InstructionOps.encode writes; OP_CALL.encode leaves out sp. *)
Encoded(op) ==
    <<op.opcode>> \o
    CASE op.opcode = NEWPC    -> Bytes(op.pc, DbWord)
      [] op.opcode = MEMREAD  -> Bytes(op.ea, DbWord) \o Bytes(op.size, SizeBytes)
      [] op.opcode = MEMWRITE -> Bytes(op.ea, DbWord) \o Bytes(Len(op.data), SizeBytes) \o op.data
      [] op.opcode = CALL     -> Bytes(op.target, DbWord) \o Bool(op.is_direct)
      [] op.opcode = RET      -> Bytes(op.sp, DbWord)

Concat(f(_), ops) == FlattenSeq([i \in 1 .. Len(ops) |-> f(ops[i])])

(* A log starts with an OP_NEWPC (InstructionsWhole of ZTracer.tla), or is *)
(* empty.                                                                  *)
DecodeInit ==
    /\ \E n \in 0 .. MaxOps : input \in [1 .. n -> MicroOp]
    /\ input # <<>> => input[1].opcode = NEWPC
    /\ bytes = Concat(Logged, input)
    /\ width = TraceWord
    /\ at = 0
    /\ decoded = <<>>
    /\ taken = 0
    /\ group = <<>>
    /\ groups = <<>>
    /\ pass = 1
    /\ phase = "first"

----------------------------------------------------------------------------
(* Decoding. *)

(* io.read(n), k bytes further on: fewer bytes if there are no more. *)
Ahead(k, n) == SubSeq(bytes, at + k + 1, Min({at + k + n, Len(bytes)}))

Word(k) == Number(Ahead(k, width))
Size(k) == Number(Ahead(k, SizeBytes))
Flag(k) == Number(Ahead(k, 1)) # 0
Data(k) == Ahead(k + SizeBytes, Size(k))

(* A micro-op and the bytes it takes. *)
Item(n, op) == [length |-> n, op |-> op]

(* Mutant: the size of a memory write is read, its data is not. *)
DecodeDataless ==
    LET opcode == bytes[at + 1] IN
    CASE opcode = NEWPC    -> Item(1 + width, OP_NEWPC(Word(1)))
      [] opcode = MEMREAD  -> Item(1 + width + SizeBytes, OP_MEMREAD(Word(1), Size(1 + width)))
      [] opcode = MEMWRITE -> Item(1 + width + SizeBytes, OP_MEMWRITE(Word(1), Data(1 + width)))
      [] opcode = CALL     -> Item(2 + 2 * width, OP_CALL(Word(1), Word(1 + width), Flag(1 + 2 * width)))
      [] opcode = RET      -> Item(1 + width, OP_RET(Word(1)))

(* What decode makes of the bytes after a known opcode. *)
Decode ==
    LET opcode == bytes[at + 1] IN
    CASE opcode = NEWPC    -> Item(1 + width, OP_NEWPC(Word(1)))
      [] opcode = MEMREAD  -> Item(1 + width + SizeBytes, OP_MEMREAD(Word(1), Size(1 + width)))
      [] opcode = MEMWRITE -> Item(1 + width + SizeBytes + Len(Data(1 + width)),
                                   OP_MEMWRITE(Word(1), Data(1 + width)))
      [] opcode = CALL     -> Item(2 + 2 * width, OP_CALL(Word(1), Word(1 + width), Flag(1 + 2 * width)))
      [] opcode = RET      -> Item(1 + width, OP_RET(Word(1)))

Stopped == at = Len(bytes)

(* An unknown opcode has no class; struct.unpack refuses a field that is   *)
(* cut short (the data of a memory write may be).                          *)
Fails == ~Stopped /\ (bytes[at + 1] \in OpCodes => at + Decode.length > Len(bytes))

(* peek_it.next() returns a micro-op, which the other iterator will get. *)
Peeks ==
    /\ ~Stopped /\ ~Fails
    /\ decoded' = Append(decoded, Decode.op)
    /\ at' = at + Decode.length

PeekFails ==
    /\ phase \in {"first", "peek"}
    /\ Fails
    /\ phase' = "error"
    /\ UNCHANGED <<input, bytes, width, at, decoded, taken, group, groups, pass>>

----------------------------------------------------------------------------
(* split_stream. *)

(* The second iterator goes one ahead; of nothing there are no groups. *)
First ==
    /\ phase = "first"
    /\ \/ Stopped /\ phase' = "done" /\ UNCHANGED <<at, decoded>>
       \/ Peeks /\ phase' = "take"
    /\ UNCHANGED <<input, bytes, width, taken, group, groups, pass>>

TakeOp ==
    /\ phase = "take"
    /\ taken' = taken + 1
    /\ group' = Append(group, decoded[taken + 1])
    /\ phase' = "peek"
    /\ UNCHANGED <<input, bytes, width, at, decoded, groups, pass>>

(* Mutant: the group goes on after it was yielded. *)
PeekKeepingGroup ==
    /\ phase = "peek"
    /\ Peeks
    /\ groups' = IF Decode.op.opcode = NEWPC THEN Append(groups, group) ELSE groups
    /\ phase' = "take"
    /\ UNCHANGED <<input, bytes, width, taken, group, pass>>

(* A new instruction ahead: the group is one, and is yielded. *)
Peek ==
    /\ phase = "peek"
    /\ Peeks
    /\ IF Decode.op.opcode = NEWPC
         THEN groups' = Append(groups, group) /\ group' = <<>>
         ELSE UNCHANGED <<groups, group>>
    /\ phase' = "take"
    /\ UNCHANGED <<input, bytes, width, taken, pass>>

(* Nothing ahead: the last group. *)
PeekEnd ==
    /\ phase = "peek"
    /\ Stopped
    /\ groups' = Append(groups, group)
    /\ phase' = "done"
    /\ UNCHANGED <<input, bytes, width, at, decoded, taken, group, pass>>

----------------------------------------------------------------------------
(* A client encodes the instructions with IO_DB and reads them again. *)
Reencode ==
    /\ phase = "done" /\ pass = 1
    /\ bytes' = Concat(Encoded, FlattenSeq(groups))
    /\ width' = DbWord
    /\ at' = 0
    /\ decoded' = <<>>
    /\ taken' = 0
    /\ group' = <<>>
    /\ groups' = <<>>
    /\ pass' = 2
    /\ phase' = "first"
    /\ UNCHANGED input

DecodeOver == (phase = "error" \/ (phase = "done" /\ pass = 2)) /\ UNCHANGED decodeVars

DecodeNext == First \/ TakeOp \/ Peek \/ PeekEnd \/ PeekFails \/ Reencode \/ DecodeOver

(* The names are others than those of TraceFile.tla, the other reader, so  *)
(* that a module can extend both.                                          *)
DecodeSpec == DecodeInit /\ [][DecodeNext]_decodeVars

----------------------------------------------------------------------------
(* The log is decoded without an error to the micro-ops that were logged,  *)
(* in their order: the writer in C++ and the reader in Python agree on     *)
(* every field (MicroEventLog.h, micro_ops.py).                            *)
DecodesLog ==
    pass = 1 =>
        /\ phase # "error"
        /\ IsPrefix(decoded, input)
        /\ phase = "done" => decoded = input

(* Where the instructions of a log start. *)
Starts == {i \in DOMAIN input : input[i].opcode = NEWPC}

(* The instructions of the log: each an OP_NEWPC and what follows it up to *)
(* the next one.                                                           *)
Instructions ==
    [k \in 1 .. Cardinality(Starts) |->
        LET first == CHOOSE i \in Starts : Cardinality({j \in Starts : j < i}) = k - 1
            after == Min({j \in Starts : j > first} \cup {Len(input) + 1})
        IN SubSeq(input, first, after - 1)]

(* split_stream yields the instructions of the log, none of them split,    *)
(* merged, lost or doubled, though it pulls its input through two          *)
(* iterators (util.py, instruction_ops.py:56-61).                          *)
GroupsAreInstructions ==
    pass = 1 =>
        /\ IsPrefix(groups, Instructions)
        /\ phase = "done" => groups = Instructions

NoCalls == \A i \in DOMAIN input : input[i].opcode # CALL

(* Instructions that call nothing can be read again after they have been   *)
(* encoded with other words than the log's (micro_ops_io.py:45).           *)
RoundTripButCalls ==
    pass = 2 /\ NoCalls =>
        /\ phase # "error"
        /\ phase = "done" => groups = Instructions
=============================================================================
