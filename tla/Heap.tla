------------------------------- MODULE Heap -------------------------------
(***************************************************************************)
(* Allocation events (src/src/TraceMalloc.cpp) and the tool that rebuilds  *)
(* the heap from them (src/src/oldtools/dump_heap1.py).                    *)
(*                                                                         *)
(* Threads of the traced program call malloc, calloc, realloc and free.    *)
(* The tracer wraps the first three, so that their events come when the    *)
(* allocator has answered, and hooks free, so that its event comes before  *)
(* the allocator is asked.  Between two of these steps other threads run.  *)
(* The program may end anywhere; then the tool reads the trace.            *)
(*                                                                         *)
(* The traced program is a correct one: it frees and reallocates what it   *)
(* was given and has not given back.  Writing an event is one step, as     *)
(* ZTracer.tla shows; events of other kinds are left out, and so are the   *)
(* contents of chunks.                                                     *)
(***************************************************************************)
EXTENDS Integers, Sequences

CONSTANTS Threads,     \* of the traced program
          MainThread,  \* the one that runs before __libc_start_main
          Addrs,       \* where the allocator can put a chunk
          NULL,        \* the null pointer
          NoChunk,     \* "not in the map"
          Sizes,       \* what the program asks for
          Calls,       \* the allocator functions the program uses
          MaxCalls     \* bound: calls of them

Functions == {"malloc", "calloc", "realloc", "free"}

ChunkRecord == [n : Nat, by : {"malloc", "calloc", "realloc", "early"}]

ASSUME HeapAssumption ==
    /\ MainThread \in Threads
    /\ NULL \notin Addrs
    /\ Sizes \subseteq Nat
    /\ NoChunk \notin Nat \cup ChunkRecord
    /\ Calls \subseteq Functions
    /\ MaxCalls \in Nat

VARIABLES
    pc,         \* pc[t]: in the program ("app") or where in an allocator call
    call,       \* call[t]: t's call, its arguments and its result
    heap,       \* the allocator's map of chunks
    held,       \* the chunks the program has been given and not given back
    moved,      \* history: the addresses that realloc has had to do with
    startSeen,  \* start_seen
    trace,      \* the allocation events in the file
    calls,      \* calls made, for the bound
    ended,      \* the program is over
    pos,        \* events the tool has read
    chunks,     \* the tool's map from addresses to sizes
    warnings    \* the events the tool has warned about

program == <<pc, call, heap, held, moved, startSeen, trace, calls, ended>>
tool    == <<pos, chunks, warnings>>

vars == <<program, tool>>

NoCall == [fn |-> "none", p |-> NULL, n |-> 0, ret |-> NULL]

(* A chunk: its size, and what made it; one made before start_seen is      *)
(* "early".                                                                *)
Chunk(n, fn) == [n |-> n, by |-> IF startSeen THEN fn ELSE "early"]

Init ==
    /\ pc = [t \in Threads |-> "app"]
    /\ call = [t \in Threads |-> NoCall]
    /\ heap = [p \in Addrs |-> NoChunk]
    /\ held = {}
    /\ moved = {}
    /\ startSeen = FALSE
    /\ trace = <<>>
    /\ calls = 0
    /\ ended = FALSE
    /\ pos = 0
    /\ chunks = [p \in Addrs \cup {NULL} |-> NoChunk]
    /\ warnings = {}

Unused == {p \in Addrs : heap[p] = NoChunk}

(* t calls fn and gets to the place to; only the main thread runs before   *)
(* start_seen.                                                             *)
Enter(t, fn, to, c) ==
    /\ ~ended
    /\ pc[t] = "app"
    /\ fn \in Calls
    /\ startSeen \/ t = MainThread
    /\ calls < MaxCalls
    /\ calls' = calls + 1
    /\ pc' = [pc EXCEPT ![t] = to]
    /\ call' = [call EXCEPT ![t] = c]
    /\ UNCHANGED <<startSeen, ended, tool>>

Goto(t, from, to) ==
    /\ ~ended
    /\ pc[t] = from
    /\ pc' = [pc EXCEPT ![t] = to]
    /\ UNCHANGED <<startSeen, calls, ended, tool>>

Leave(t, from) == Goto(t, from, "app") /\ call' = [call EXCEPT ![t] = NoCall]

Log(e) == trace' = IF startSeen THEN Append(trace, e) ELSE trace

----------------------------------------------------------------------------
(* MainBefore *)
MainBefore ==
    /\ ~ended
    /\ ~startSeen
    /\ pc[MainThread] = "app"
    /\ startSeen' = TRUE
    /\ UNCHANGED <<pc, call, heap, held, moved, trace, calls, ended, tool>>

(* MallocWrapper up to the allocator's answer: a chunk or NULL. *)
Malloc(t) ==
    \E n \in Sizes, r \in Unused \cup {NULL} :
        /\ Enter(t, "malloc", "answered", [fn |-> "malloc", p |-> NULL, n |-> n, ret |-> r])
        /\ heap' = IF r = NULL THEN heap ELSE [heap EXCEPT ![r] = Chunk(n, "malloc")]
        /\ UNCHANGED <<held, moved, trace>>

(* CallocWrapper up to the allocator's answer.  The wrapper takes and      *)
(* passes on the first argument of calloc(k, s) only: the allocator's      *)
(* second argument is whatever is in that place, s or not.                 *)
Calloc(t) ==
    \E k, x \in Sizes, r \in Unused \cup {NULL} :
        /\ Enter(t, "calloc", "answered", [fn |-> "calloc", p |-> NULL, n |-> k, ret |-> r])
        /\ heap' = IF r = NULL THEN heap ELSE [heap EXCEPT ![r] = Chunk(k * x, "calloc")]
        /\ UNCHANGED <<held, moved, trace>>

(* ReallocWrapper up to the allocator's answer: the chunk is resized where *)
(* it is, moved, or left as it was.                                        *)
Realloc(t) ==
    \E p \in held \cup {NULL}, n \in Sizes : \E r \in Unused \cup {p, NULL} :
        /\ Enter(t, "realloc", "answered", [fn |-> "realloc", p |-> p, n |-> n, ret |-> r])
        /\ heap' = [q \in Addrs |->
                      IF r = NULL THEN heap[q]
                      ELSE IF q = r THEN Chunk(n, "realloc")
                      ELSE IF q = p THEN NoChunk ELSE heap[q]]
        /\ held' = held \ {p}
        /\ moved' = moved \cup ({p, r} \cap Addrs)
        /\ UNCHANGED trace

(* Mutant: the event is made and not written. *)
MallocReturnUnwritten(t) ==
    /\ call[t].fn = "malloc"
    /\ Leave(t, "answered")
    /\ held' = held \cup ({call[t].ret} \cap Addrs)
    /\ UNCHANGED <<heap, moved, trace>>

(* The rest of MallocWrapper: the event, and back to the program. *)
MallocReturn(t) ==
    /\ call[t].fn = "malloc"
    /\ Leave(t, "answered")
    /\ Log(call[t])
    /\ held' = held \cup ({call[t].ret} \cap Addrs)
    /\ UNCHANGED <<heap, moved>>

CallocReturn(t) ==
    /\ call[t].fn = "calloc"
    /\ Leave(t, "answered")
    /\ Log(call[t])
    /\ held' = held \cup ({call[t].ret} \cap Addrs)
    /\ UNCHANGED <<heap, moved>>

(* The chunk a call of realloc leaves the program with. *)
Kept(c) == IF c.ret = NULL THEN c.p ELSE c.ret

(* The rest of ReallocWrapper: the event is made and not written. *)
ReallocReturn(t) ==
    /\ call[t].fn = "realloc"
    /\ Leave(t, "answered")
    /\ held' = held \cup ({Kept(call[t])} \cap Addrs)
    /\ UNCHANGED <<heap, moved, trace>>

(* Mutant: the hook runs after the function, not before it. *)
FreeHookedAfter(t) ==
    \E p \in held \cup {NULL} :
        /\ Enter(t, "free", "free_before", [fn |-> "free", p |-> p, n |-> 0, ret |-> NULL])
        /\ held' = held \ {p}
        /\ heap' = [q \in Addrs |-> IF q = p THEN NoChunk ELSE heap[q]]
        /\ UNCHANGED <<moved, trace>>

(* The program calls free. *)
Free(t) ==
    \E p \in held \cup {NULL} :
        /\ Enter(t, "free", "free_before", [fn |-> "free", p |-> p, n |-> 0, ret |-> NULL])
        /\ held' = held \ {p}
        /\ UNCHANGED <<heap, moved, trace>>

(* FreeBefore *)
FreeBefore(t) ==
    /\ Goto(t, "free_before", "freeing")
    /\ IF call[t].p # NULL THEN Log(call[t]) ELSE UNCHANGED trace
    /\ UNCHANGED <<call, heap, held, moved>>

(* The allocator's free, and back to the program. *)
AllocatorFree(t) ==
    /\ Leave(t, "freeing")
    /\ heap' = [q \in Addrs |-> IF q = call[t].p THEN NoChunk ELSE heap[q]]
    /\ UNCHANGED <<held, moved, trace>>

(* The program exits: OnFinish closes the trace with all that was written  *)
(* to it.  (A killed one loses the stream's buffer: TraceFile.)            *)
End ==
    /\ ~ended
    /\ ended' = TRUE
    /\ UNCHANGED <<pc, call, heap, held, moved, startSeen, trace, calls, tool>>

----------------------------------------------------------------------------
(* main() of dump_heap1.py, one event at a time. *)

NextEvent(fn) ==
    /\ ended
    /\ pos < Len(trace)
    /\ trace[pos + 1].fn = fn
    /\ pos' = pos + 1
    /\ UNCHANGED program

ReadMalloc ==
    /\ NextEvent("malloc")
    /\ chunks' = [chunks EXCEPT ![trace[pos + 1].ret] = trace[pos + 1].n]
    /\ UNCHANGED warnings

(* Mutant: the freed chunk stays in the map. *)
ReadFreeKeeping ==
    /\ NextEvent("free")
    /\ warnings' = IF chunks[trace[pos + 1].p] = NoChunk THEN warnings \cup {pos + 1} ELSE warnings
    /\ UNCHANGED chunks

(* A free of an address that is not in the map gets a warning. *)
ReadFree ==
    /\ NextEvent("free")
    /\ LET p == trace[pos + 1].p IN
         IF chunks[p] = NoChunk
           THEN warnings' = warnings \cup {pos + 1} /\ UNCHANGED chunks
           ELSE chunks' = [chunks EXCEPT ![p] = NoChunk] /\ UNCHANGED warnings

(* The tool does not know calloc. *)
ReadCalloc ==
    /\ NextEvent("calloc")
    /\ UNCHANGED <<chunks, warnings>>

(* Everything is read; what is left in the map is dumped as leaked. *)
Finished == ended /\ pos = Len(trace)

Done == Finished /\ UNCHANGED vars

----------------------------------------------------------------------------
Next == \/ MainBefore
        \/ \E t \in Threads : \/ Malloc(t)
                              \/ MallocReturn(t)
                              \/ Calloc(t)
                              \/ CallocReturn(t)
                              \/ Realloc(t)
                              \/ ReallocReturn(t)
                              \/ Free(t)
                              \/ FreeBefore(t)
                              \/ AllocatorFree(t)
        \/ End
        \/ ReadMalloc
        \/ ReadFree
        \/ ReadCalloc
        \/ Done

Spec == Init /\ [][Next]_vars

----------------------------------------------------------------------------
Pointers == Addrs \cup {NULL}

CallRecord == [fn : Functions, p : Pointers, n : Nat, ret : Pointers]

Events == [fn : {"malloc", "calloc", "free"}, p : Pointers, n : Nat, ret : Pointers]

(* Every variable has its type, and a thread in a call has made one. *)
TypeOK ==
    /\ pc \in [Threads -> {"app", "answered", "free_before", "freeing"}]
    /\ call \in [Threads -> CallRecord \cup {NoCall}]
    /\ \A t \in Threads : /\ pc[t] = "answered" => call[t].fn \in {"malloc", "calloc", "realloc"}
                          /\ pc[t] \in {"free_before", "freeing"} => call[t].fn = "free"
    /\ heap \in [Addrs -> ChunkRecord \cup {NoChunk}]
    /\ held \subseteq Addrs
    /\ moved \subseteq Addrs
    /\ startSeen \in BOOLEAN
    /\ trace \in Seq(Events)
    /\ calls \in 0 .. MaxCalls
    /\ ended \in BOOLEAN
    /\ pos \in 0 .. Len(trace)
    /\ chunks \in [Pointers -> Nat \cup {NoChunk}]
    /\ warnings \subseteq 1 .. pos

Allocates(i, p) == trace[i].fn \in {"malloc", "calloc"} /\ trace[i].ret = p
Frees(i, p)     == trace[i].fn = "free" /\ trace[i].p = p

(* For each address the trace tells allocations and frees in turn, however *)
(* threads race for the address: the event of a free is in the file before *)
(* the allocator can hand the address out again, and that of an allocation *)
(* before the program can free it.  Not so if realloc was asked for the    *)
(* address or answered it.                                                 *)
EventsAlternate ==
    \A p \in Addrs \ moved : \A i, j \in DOMAIN trace : i < j =>
        /\ Allocates(i, p) /\ Allocates(j, p) => \E k \in (i + 1) .. (j - 1) : Frees(k, p)
        /\ Frees(i, p) /\ Frees(j, p) => \E k \in (i + 1) .. (j - 1) : Allocates(k, p)

(* A chunk of malloc or calloc that the program holds is in the trace, and *)
(* no free after it, whatever other calls went on when it was made.        *)
HeldIsAnnounced ==
    \A p \in held :
        heap[p].by \in {"malloc", "calloc"} =>
            \E i \in DOMAIN trace :
                /\ Allocates(i, p)
                /\ \A j \in DOMAIN trace : i < j => ~Frees(j, p)

(* The chunks whose call of free has not got to the hook. *)
Unhooked == {call[t].p : t \in {u \in Threads : pc[u] = "free_before"}} \cap Addrs

(* When the tool has read the trace, its map is the allocator's, sizes     *)
(* included, of the chunks that malloc made and the program has and has    *)
(* not begun to free, but for the addresses that realloc had to do with.   *)
ToolAgrees ==
    Finished =>
        \A p \in Addrs \ moved :
            chunks[p] = IF p \in held \cup Unhooked /\ heap[p].by = "malloc"
                          THEN heap[p].n ELSE NoChunk

(* What dump_heap1.py:103 calls its last list, "any leaked chunks", says:  *)
(* what is at such an address is a chunk that was never freed.             *)
LeaksAreAllocated ==
    Finished => \A p \in Addrs : chunks[p] # NoChunk => heap[p] # NoChunk
=============================================================================
