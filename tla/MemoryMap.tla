----------------------------- MODULE MemoryMap -----------------------------
(***************************************************************************)
(* The memory dump at exit: the scan of /proc/self/maps (MemoryMap.cpp),   *)
(* the dump of its writable regions and the end of the trace (ZTracer.cpp, *)
(* OnFinish).                                                              *)
(*                                                                         *)
(* fscanf does not tell a newline from a blank, so the map is to it one    *)
(* stream of words.  A line is an address range, a tail of four words      *)
(* (permissions, offset, device, inode) and the words of the region's      *)
(* name, of which there may be none.  A name's word counts for what        *)
(* "%llx" makes of it: "plain" is not a number, "number" is one, and       *)
(* "mixed" starts with one and goes on.                                    *)
(***************************************************************************)
EXTENDS Integers, Sequences

CONSTANTS Maps,      \* the memory maps a program may have at its end
          Fragment,  \* the number at the start of a word that is no address
          MaxAlloc   \* the largest buffer the tool can get

Words == {"plain", "mixed", "number"}

Line == [addr : Nat, endaddr : Nat, writable : BOOLEAN, name : Seq(Words)]

ASSUME MapAssumption ==
    /\ Maps \subseteq Seq(Line)
    /\ Fragment \in Nat
    /\ MaxAlloc \in Nat
    /\ \A m \in Maps : \A i \in DOMAIN m :
          /\ m[i].addr < m[i].endaddr
          /\ \A j \in DOMAIN m : i < j => m[i].endaddr <= m[j].addr

VARIABLES
    map,      \* /proc/self/maps
    at,       \* the word the file is at: <<line, word of the line>>
    scanned,  \* addr, endaddr, permissions: the locals, which keep their values
    regions,  \* the vector of regions
    pc,       \* where the process is
    next,     \* the iterator over regions
    dumps,    \* the memory_dump events in the trace
    closed    \* trace_end is written and the stream closed

vars == <<map, at, scanned, regions, pc, next, dumps, closed>>

Garbage == [addr |-> 0, endaddr |-> 0, writable |-> FALSE]

(* What a line says that goes into a region. *)
Extent(l) == [addr |-> l.addr, endaddr |-> l.endaddr, writable |-> l.writable]

(* What the word at p is. *)
Word(p) == IF p[1] > Len(map) THEN "eof"
           ELSE IF p[2] = 1 THEN "range"
           ELSE IF p[2] = 2 THEN "tail"
           ELSE map[p[1]].name[p[2] - 2]

After(p) == IF p[1] > Len(map) THEN p
            ELSE IF p[2] < 2 + Len(map[p[1]].name) THEN <<p[1], p[2] + 1>>
            ELSE <<p[1] + 1, 1>>

Init ==
    /\ map \in Maps
    /\ at = <<1, 1>>
    /\ scanned = Garbage
    /\ regions = <<>>
    /\ pc = "scan"
    /\ next = 1
    /\ dumps = <<>>
    /\ closed = FALSE

(* The fields of a region are in the locals and in the vector; the file is *)
(* at the word to.                                                         *)
Push(region, to) == /\ pc = "scan"
                    /\ scanned' = region
                    /\ regions' = Append(regions, region)
                    /\ at' = to
                    /\ UNCHANGED <<map, pc, next, dumps, closed>>

(* Mutant: a region without a name is not kept. *)
ScanRegionNamed ==
    /\ Word(at) = "range"
    /\ LET l == map[at[1]] IN
         IF l.name = <<>>
           THEN at' = After(After(at)) /\ UNCHANGED <<map, scanned, regions, pc, next, dumps, closed>>
           ELSE Push(Extent(l), After(After(After(at))))

(* Six fields, then "%s", which takes the next word whatever it is and     *)
(* wherever: without a name it is the next line's address range.           *)
ScanRegion ==
    /\ Word(at) = "range"
    /\ Push(Extent(map[at[1]]), After(After(After(at))))

(* A further word of a name that starts with a number: one field of six is *)
(* read, and "%s" takes the rest of the word, or the next word if there is *)
(* no rest.  The other locals are those of the region before.              *)
ScanFragment ==
    /\ \/ Word(at) = "mixed"  /\ Push([scanned EXCEPT !.addr = Fragment], After(at))
       \/ /\ Word(at) = "number"
          /\ Word(After(at)) # "eof"
          /\ Push([scanned EXCEPT !.addr = Fragment], After(After(at)))

(* No field was read, or the file is at its end.                           *)
StopScan ==
    /\ pc = "scan"
    /\ \/ Word(at) \in {"eof", "tail", "plain"}
       \/ Word(at) = "number" /\ Word(After(at)) = "eof"
    /\ pc' = "dump"
    /\ UNCHANGED <<map, at, scanned, regions, next, dumps, closed>>

(* Mutant: no map, and the rest of OnFinish is skipped. *)
OpenFailsReturning ==
    /\ pc = "scan"
    /\ at = <<1, 1>>
    /\ pc' = "exited"
    /\ UNCHANGED <<map, at, scanned, regions, next, dumps, closed>>

(* The map cannot be opened: read_memory_regions returns false.            *)
OpenFails ==
    /\ pc = "scan"
    /\ at = <<1, 1>>
    /\ pc' = "close"
    /\ UNCHANGED <<map, at, scanned, regions, next, dumps, closed>>

----------------------------------------------------------------------------
(* DumpAllWritableMemory, one region at a time. *)

Size(r) == r.endaddr - r.addr

(* Mutant: the size is that of the fields of the event. *)
MemoryDumpEmpty(r) == [addr |-> r.addr, endaddr |-> r.addr, size |-> 0]

(* DumpMemoryRegion's event: both ends are set to addr, the data go from   *)
(* there to the region's end.                                              *)
MemoryDump(r) == [addr |-> r.addr, endaddr |-> r.addr, size |-> Size(r)]

(* What DumpMemoryRegion asserts of a region, and that there is a buffer   *)
(* for it.                                                                 *)
CanDump(r) == Size(r) > 0 /\ Size(r) <= MaxAlloc

DumpRegion ==
    /\ pc = "dump"
    /\ next <= Len(regions)
    /\ regions[next].writable => CanDump(regions[next])
    /\ dumps' = IF regions[next].writable THEN Append(dumps, MemoryDump(regions[next])) ELSE dumps
    /\ next' = next + 1
    /\ UNCHANGED <<map, at, scanned, regions, pc, closed>>

(* The region ends before it starts, which the assertion refuses, or there *)
(* is no buffer for it, which throws: either ends the process.             *)
DumpFails ==
    /\ pc = "dump"
    /\ next <= Len(regions)
    /\ regions[next].writable
    /\ ~CanDump(regions[next])
    /\ pc' = "crashed"
    /\ UNCHANGED <<map, at, scanned, regions, next, dumps, closed>>

DumpEnds ==
    /\ pc = "dump"
    /\ next > Len(regions)
    /\ pc' = "close"
    /\ UNCHANGED <<map, at, scanned, regions, next, dumps, closed>>

CloseLog ==
    /\ pc = "close"
    /\ pc' = "exited"
    /\ closed' = TRUE
    /\ UNCHANGED <<map, at, scanned, regions, next, dumps>>

Over == pc \in {"exited", "crashed"} /\ UNCHANGED vars

Finish == \/ ScanRegion
          \/ ScanFragment
          \/ StopScan
          \/ DumpRegion
          \/ DumpFails
          \/ DumpEnds
          \/ CloseLog

Next == Finish \/ OpenFails \/ Over

Spec == Init /\ [][Next]_vars /\ WF_vars(Finish)

----------------------------------------------------------------------------
Region == [addr : Nat, endaddr : Nat, writable : BOOLEAN]

(* Every variable has its type, and the file is at a word of the map. *)
TypeOK ==
    /\ map \in Maps
    /\ at \in (1 .. (Len(map) + 1)) \X (Nat \ {0})
    /\ at[1] <= Len(map) => at[2] <= 2 + Len(map[at[1]].name)
    /\ scanned \in Region
    /\ regions \in Seq(Region)
    /\ pc \in {"scan", "dump", "close", "exited", "crashed"}
    /\ next \in 1 .. (Len(regions) + 1)
    /\ dumps \in Seq([addr : Nat, endaddr : Nat, size : Nat])
    /\ closed \in BOOLEAN

IsRead(l) == \E i \in DOMAIN regions : regions[i] = Extent(map[l])

(* The regions read are the map's, none left out before the last one and   *)
(* in its order; what is not a line's starts at a fragment of a name and   *)
(* ends, and may be written, as the line whose name that is, behind it.    *)
ReadsAPrefix ==
    /\ \A l \in DOMAIN map : IsRead(l) => \A k \in 1 .. (l - 1) : IsRead(k)
    /\ \A i, j \in DOMAIN regions :
          i < j => \/ regions[i].endaddr < regions[j].endaddr
                   \/ /\ regions[i].endaddr = regions[j].endaddr
                      /\ regions[j].addr = Fragment
    /\ \A i \in DOMAIN regions :
          \/ \E l \in DOMAIN map : regions[i] = Extent(map[l])
          \/ \E l \in DOMAIN map : /\ IsRead(l)
                                   /\ regions[i] = [Extent(map[l]) EXCEPT !.addr = Fragment]

Opened == at # <<1, 1>>

(* All regions before l have a name of one word, so that nothing keeps the *)
(* scan from l.                                                            *)
Reachable(l) == \A k \in 1 .. (l - 1) : Len(map[k].name) = 1

(* When the process has exited, the trace has the whole of every writable  *)
(* region that the scan could reach, though the event itself does not tell *)
(* where it ends (ZTracer.cpp:296); and every dump but a fragment's is of  *)
(* a whole writable region.                                                *)
WritableIsDumped ==
    pc = "exited" /\ Opened =>
        /\ \A l \in DOMAIN map : map[l].writable /\ Reachable(l) =>
              \E d \in DOMAIN dumps : /\ dumps[d].addr = map[l].addr
                                      /\ dumps[d].addr + dumps[d].size = map[l].endaddr
        /\ \A d \in DOMAIN dumps :
              \E l \in DOMAIN map : /\ map[l].writable
                                    /\ dumps[d].addr \in {map[l].addr, Fragment}
                                    /\ dumps[d].addr + dumps[d].size = map[l].endaddr

(* A name's further words that fscanf takes for the start of a region.     *)
Misread(name) == \E i \in 2 .. Len(name) : name[i] \in {"mixed", "number"}

(* The trace of a program is closed, whatever is wrong with the scan, if   *)
(* there is a buffer for every writable region, and for what a misread     *)
(* name makes of one, which must end behind its fragment.  If not, the     *)
(* assertion (ZTracer.cpp:299) or the allocation (ZTracer.cpp:302) may end *)
(* the process in OnFinish, before CloseLog.                               *)
TraceCloses ==
    (\A l \in DOMAIN map : map[l].writable =>
        /\ CanDump(map[l])
        /\ Misread(map[l].name) => CanDump([map[l] EXCEPT !.addr = Fragment])) ~> closed
=============================================================================
