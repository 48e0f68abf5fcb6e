---------------------------- MODULE HeapProofs ----------------------------
(***************************************************************************)
(* Theorems about Heap, for any number of threads, addresses and calls.    *)
(***************************************************************************)
EXTENDS Heap, TLAPS

(* The chunk that t's call is about, or will hand to the program. *)
Carried(t) == IF pc[t] = "app" THEN {} ELSE {Kept(call[t])} \cap Addrs

(* Chunks that calls are about are allocated, out of the program's hands   *)
(* and each the business of one call.                                      *)
OwnInv ==
    /\ \A p \in held : heap[p] # NoChunk
    /\ \A t \in Threads : \A p \in Carried(t) : heap[p] # NoChunk /\ p \notin held
    /\ \A t, u \in Threads : t # u => Carried(t) \cap Carried(u) = {}

(* What a call's record says in each place. *)
CallInv ==
    \A t \in Threads :
        /\ pc[t] = "answered" /\ call[t].fn # "realloc" => call[t].p = NULL
        /\ pc[t] \in {"free_before", "freeing"} => call[t].ret = NULL
        /\ startSeen /\ pc[t] = "answered" /\ call[t].fn # "realloc" /\ call[t].ret # NULL
              => /\ heap[call[t].ret].by = call[t].fn
                 /\ call[t].fn = "malloc" => heap[call[t].ret].n = call[t].n

(* Before start_seen only the main thread calls, and nothing is written.   *)
(* Where realloc has not been there is nothing of it.                      *)
EarlyInv ==
    /\ ~startSeen => /\ trace = <<>>
                     /\ \A t \in Threads \ {MainThread} : pc[t] = "app"
                     /\ \A p \in Addrs : heap[p] # NoChunk => heap[p].by = "early"
    /\ \A p \in Addrs \ moved : heap[p] # NoChunk => heap[p].by # "realloc"

(* The allocation of p is still to be written, or its free has been. *)
UntoldBy(t, p) ==
    \/ pc[t] = "answered" /\ call[t].fn # "realloc" /\ call[t].ret = p
    \/ pc[t] = "freeing" /\ call[t].p = p

Told(p) == heap[p] # NoChunk /\ \A t \in Threads : ~UntoldBy(t, p)

(* The trace ends with p allocated; with p not allocated; without p. *)
Live(p) ==
    \E i \in DOMAIN trace :
        Allocates(i, p) /\ \A j \in DOMAIN trace : i < j => ~Frees(j, p)

Dead(p) ==
    \A i \in DOMAIN trace : Allocates(i, p) =>
        \E j \in DOMAIN trace : i < j /\ Frees(j, p)

Silent(p) == \A i \in DOMAIN trace : ~Allocates(i, p) /\ ~Frees(i, p)

Alternate(p) ==
    \A i, j \in DOMAIN trace : i < j =>
        /\ Allocates(i, p) /\ Allocates(j, p) => \E k \in (i + 1) .. (j - 1) : Frees(k, p)
        /\ Frees(i, p) /\ Frees(j, p) => \E k \in (i + 1) .. (j - 1) : Allocates(k, p)

LiveInv ==
    \A p \in Addrs : Told(p) /\ heap[p].by \in {"malloc", "calloc"} => Live(p)

DeadInv ==
    \A p \in Addrs \ moved :
        /\ ~Told(p) => Dead(p)
        /\ Told(p) /\ heap[p].by = "early" => Silent(p)
        /\ Alternate(p)

IInv == TypeOK /\ OwnInv /\ CallInv /\ EarlyInv /\ LiveInv /\ DeadInv

----------------------------------------------------------------------------
USE DEF Goto, Leave, Enter, Log, NextEvent, Pointers

LEMMA TypeInit == Init => TypeOK
<1> SUFFICES ASSUME Init PROVE TypeOK
  OBVIOUS
<1>1. trace \in Seq(Events) /\ Len(trace) = 0
  BY DEF Init
<1>2. call \in [Threads -> CallRecord \cup {NoCall}] /\ \A t \in Threads : pc[t] = "app"
  BY DEF Init
<1>3. heap \in [Addrs -> ChunkRecord \cup {NoChunk}] /\ chunks \in [Pointers -> Nat \cup {NoChunk}]
  BY DEF Init
<1>4. pos \in 0 .. Len(trace) /\ warnings \subseteq 1 .. pos /\ calls \in 0 .. MaxCalls
  BY <1>1, HeapAssumption DEF Init
<1>5. /\ pc \in [Threads -> {"app", "answered", "free_before", "freeing"}]
      /\ \A t \in Threads : pc[t] = "app"
      /\ held \subseteq Addrs /\ moved \subseteq Addrs /\ startSeen \in BOOLEAN /\ ended \in BOOLEAN
  BY DEF Init
<1> QED
  BY <1>1, <1>2, <1>3, <1>4, <1>5 DEF TypeOK

LEMMA ChunkType ==
    ASSUME TypeOK, NEW n \in Nat, NEW fn \in {"malloc", "calloc", "realloc"}
    PROVE  Chunk(n, fn) \in ChunkRecord
BY DEF Chunk, ChunkRecord

(* What is written to the trace by a call that has come so far. *)
LEMMA LogType ==
    ASSUME TypeOK, NEW t \in Threads, pc[t] # "app", call[t].fn # "realloc", Log(call[t])
    PROVE  trace' \in Seq(Events) /\ Len(trace) <= Len(trace')
<1>1. call[t] \in Events
  BY DEF TypeOK, Events, CallRecord, NoCall
<1> QED
  BY <1>1 DEF TypeOK

LEMMA TypeStep == TypeOK /\ [Next]_vars => TypeOK'
<1> SUFFICES ASSUME TypeOK, [Next]_vars PROVE TypeOK'
  OBVIOUS
<1> USE HeapAssumption
<1>1. CASE MainBefore
  BY <1>1 DEF MainBefore, TypeOK, tool
<1>2. ASSUME NEW t \in Threads, Malloc(t) PROVE TypeOK'
  <2>1. PICK n \in Sizes, r \in Unused \cup {NULL} :
          /\ Enter(t, "malloc", "answered", [fn |-> "malloc", p |-> NULL, n |-> n, ret |-> r])
          /\ heap' = IF r = NULL THEN heap ELSE [heap EXCEPT ![r] = Chunk(n, "malloc")]
          /\ UNCHANGED <<held, moved, trace>>
    BY <1>2 DEF Malloc
  <2>2. Chunk(n, "malloc") \in ChunkRecord
    BY ChunkType
  <2>3. heap' \in [Addrs -> ChunkRecord \cup {NoChunk}]
    BY <2>1, <2>2 DEF TypeOK
  <2>4. [fn |-> "malloc", p |-> NULL, n |-> n, ret |-> r] \in CallRecord
    BY DEF CallRecord, Functions, Unused
  <2> QED
    BY <2>1, <2>3, <2>4 DEF TypeOK, tool
<1>3. ASSUME NEW t \in Threads, Calloc(t) PROVE TypeOK'
  <2>1. PICK k \in Sizes, x \in Sizes, r \in Unused \cup {NULL} :
          /\ Enter(t, "calloc", "answered", [fn |-> "calloc", p |-> NULL, n |-> k, ret |-> r])
          /\ heap' = IF r = NULL THEN heap ELSE [heap EXCEPT ![r] = Chunk(k * x, "calloc")]
          /\ UNCHANGED <<held, moved, trace>>
    BY <1>3 DEF Calloc
  <2>2. k * x \in Nat
    OBVIOUS
  <2>3. Chunk(k * x, "calloc") \in ChunkRecord
    BY <2>2, ChunkType
  <2>4. heap' \in [Addrs -> ChunkRecord \cup {NoChunk}]
    BY <2>1, <2>3 DEF TypeOK
  <2>5. [fn |-> "calloc", p |-> NULL, n |-> k, ret |-> r] \in CallRecord
    BY DEF CallRecord, Functions, Unused
  <2> QED
    BY <2>1, <2>4, <2>5 DEF TypeOK, tool
<1>4. ASSUME NEW t \in Threads, Realloc(t) PROVE TypeOK'
  <2>1. PICK p \in held \cup {NULL}, n \in Sizes : \E r \in Unused \cup {p, NULL} :
          /\ Enter(t, "realloc", "answered", [fn |-> "realloc", p |-> p, n |-> n, ret |-> r])
          /\ heap' = [q \in Addrs |->
                        IF r = NULL THEN heap[q]
                        ELSE IF q = r THEN Chunk(n, "realloc")
                        ELSE IF q = p THEN NoChunk ELSE heap[q]]
          /\ held' = held \ {p}
          /\ moved' = moved \cup ({p, r} \cap Addrs)
          /\ UNCHANGED trace
    BY <1>4 DEF Realloc
  <2>2. Chunk(n, "realloc") \in ChunkRecord
    BY ChunkType
  <2>3. heap' \in [Addrs -> ChunkRecord \cup {NoChunk}]
    BY <2>1, <2>2 DEF TypeOK
  <2>4. \A r \in Unused \cup {p, NULL} : [fn |-> "realloc", p |-> p, n |-> n, ret |-> r] \in CallRecord
    BY DEF CallRecord, Functions, Unused, TypeOK
  <2> QED
    BY <2>1, <2>3, <2>4 DEF TypeOK, tool
<1>5. ASSUME NEW t \in Threads, MallocReturn(t) PROVE TypeOK'
  BY <1>5, LogType DEF MallocReturn, TypeOK, tool
<1>6. ASSUME NEW t \in Threads, CallocReturn(t) PROVE TypeOK'
  BY <1>6, LogType DEF CallocReturn, TypeOK, tool
<1>7. ASSUME NEW t \in Threads, ReallocReturn(t) PROVE TypeOK'
  BY <1>7 DEF ReallocReturn, TypeOK, tool
<1>8. ASSUME NEW t \in Threads, Free(t) PROVE TypeOK'
  <2>1. PICK p \in held \cup {NULL} :
          /\ Enter(t, "free", "free_before", [fn |-> "free", p |-> p, n |-> 0, ret |-> NULL])
          /\ held' = held \ {p}
          /\ UNCHANGED <<heap, moved, trace>>
    BY <1>8 DEF Free
  <2>2. [fn |-> "free", p |-> p, n |-> 0, ret |-> NULL] \in CallRecord
    BY DEF CallRecord, Functions, TypeOK
  <2> QED
    BY <2>1, <2>2 DEF TypeOK, tool
<1>9. ASSUME NEW t \in Threads, FreeBefore(t) PROVE TypeOK'
  <2>1. trace' \in Seq(Events) /\ Len(trace) <= Len(trace')
    <3>1. CASE call[t].p # NULL
      BY <1>9, <3>1, LogType DEF FreeBefore, TypeOK
    <3>2. CASE call[t].p = NULL
      BY <1>9, <3>2 DEF FreeBefore, TypeOK
    <3> QED
      BY <3>1, <3>2
  <2> QED
    BY <1>9, <2>1 DEF FreeBefore, TypeOK, tool
<1>10. ASSUME NEW t \in Threads, AllocatorFree(t) PROVE TypeOK'
  BY <1>10 DEF AllocatorFree, TypeOK, tool
<1>11. CASE End
  BY <1>11 DEF End, TypeOK, tool
<1>12. CASE ReadMalloc
  <2>1. trace[pos + 1] \in Events /\ pos + 1 \in 0 .. Len(trace)
    BY <1>12 DEF ReadMalloc, TypeOK
  <2> QED
    BY <1>12, <2>1 DEF ReadMalloc, TypeOK, program, Events
<1>13. CASE ReadFree
  <2>1. trace[pos + 1] \in Events /\ pos + 1 \in 0 .. Len(trace)
    BY <1>13 DEF ReadFree, TypeOK
  <2>2. chunks' \in [Pointers -> Nat \cup {NoChunk}]
    BY <1>13, <2>1 DEF ReadFree, TypeOK, Events
  <2>3. warnings' \subseteq 1 .. pos'
    <3>1. pos' = pos + 1 /\ warnings' \subseteq warnings \cup {pos + 1}
      BY <1>13 DEF ReadFree
    <3>2. 1 .. pos \subseteq 1 .. (pos + 1) /\ pos + 1 \in 1 .. (pos + 1)
      BY DEF TypeOK
    <3> QED
      BY <3>1, <3>2 DEF TypeOK
  <2> QED
    BY <1>13, <2>1, <2>2, <2>3 DEF ReadFree, TypeOK, program
<1>14. CASE ReadCalloc
  BY <1>14 DEF ReadCalloc, TypeOK, program
<1>15. CASE Done \/ UNCHANGED vars
  BY <1>15 DEF Done, vars, program, tool, TypeOK
<1> QED
  BY <1>1, <1>2, <1>3, <1>4, <1>5, <1>6, <1>7, <1>8, <1>9, <1>10, <1>11, <1>12, <1>13, <1>14, <1>15 DEF Next

(* Every variable of the tracer, the allocator and the tool keeps its type,*)
(* for any number of threads, addresses, sizes and calls.                  *)
THEOREM TypeCorrect == Spec => []TypeOK
<1> QED
  BY TypeInit, TypeStep, PTL DEF Spec

----------------------------------------------------------------------------
(* The steps that matter to the invariant: malloc and calloc differ only   *)
(* in the name of the function and in sizes.                               *)
core == <<pc, call, heap, held, moved, startSeen, trace>>

Answered(t) ==
    \E c \in CallRecord, h \in ChunkRecord :
        /\ c.fn \in {"malloc", "calloc"} /\ c.p = NULL /\ c.ret \in Unused \cup {NULL}
        /\ h.by = IF startSeen THEN c.fn ELSE "early"
        /\ c.fn = "malloc" => h.n = c.n
        /\ Enter(t, c.fn, "answered", c)
        /\ heap' = IF c.ret = NULL THEN heap ELSE [heap EXCEPT ![c.ret] = h]
        /\ UNCHANGED <<held, moved, trace>>

Returned(t) ==
    /\ call[t].fn \in {"malloc", "calloc"}
    /\ Leave(t, "answered")
    /\ Log(call[t])
    /\ held' = held \cup ({call[t].ret} \cap Addrs)
    /\ UNCHANGED <<heap, moved>>

Resized(t) ==
    \E c \in CallRecord, h \in ChunkRecord :
        /\ c.fn = "realloc" /\ c.p \in held \cup {NULL} /\ c.ret \in Unused \cup {c.p, NULL}
        /\ h.by = IF startSeen THEN "realloc" ELSE "early"
        /\ Enter(t, "realloc", "answered", c)
        /\ heap' = [q \in Addrs |->
                      IF c.ret = NULL THEN heap[q]
                      ELSE IF q = c.ret THEN h
                      ELSE IF q = c.p THEN NoChunk ELSE heap[q]]
        /\ held' = held \ {c.p}
        /\ moved' = moved \cup ({c.p, c.ret} \cap Addrs)
        /\ UNCHANGED trace

FreeCalled(t) ==
    \E c \in CallRecord :
        /\ c.fn = "free" /\ c.p \in held \cup {NULL} /\ c.ret = NULL
        /\ Enter(t, "free", "free_before", c)
        /\ held' = held \ {c.p}
        /\ UNCHANGED <<heap, moved, trace>>

Step(t) == \/ Answered(t)
           \/ Returned(t)
           \/ Resized(t)
           \/ ReallocReturn(t)
           \/ FreeCalled(t)
           \/ FreeBefore(t)
           \/ AllocatorFree(t)

LEMMA Steps ==
    TypeOK /\ [Next]_vars => MainBefore \/ (\E t \in Threads : Step(t)) \/ UNCHANGED core
<1> SUFFICES ASSUME TypeOK, [Next]_vars
             PROVE  MainBefore \/ (\E t \in Threads : Step(t)) \/ UNCHANGED core
  OBVIOUS
<1> USE HeapAssumption
<1>1. ASSUME NEW t \in Threads, Malloc(t) PROVE Answered(t)
  <2>1. PICK n \in Sizes, r \in Unused \cup {NULL} :
          /\ Enter(t, "malloc", "answered", [fn |-> "malloc", p |-> NULL, n |-> n, ret |-> r])
          /\ heap' = IF r = NULL THEN heap ELSE [heap EXCEPT ![r] = Chunk(n, "malloc")]
          /\ UNCHANGED <<held, moved, trace>>
    BY <1>1 DEF Malloc
  <2> DEFINE c == [fn |-> "malloc", p |-> NULL, n |-> n, ret |-> r]
             h == Chunk(n, "malloc")
  <2>2. c \in CallRecord /\ h \in ChunkRecord
    BY ChunkType DEF CallRecord, Functions, Unused
  <2>3. h.by = (IF startSeen THEN c.fn ELSE "early") /\ h.n = c.n
    BY DEF Chunk
  <2> QED
    BY <2>1, <2>2, <2>3 DEF Answered
<1>2. ASSUME NEW t \in Threads, Calloc(t) PROVE Answered(t)
  <2>1. PICK k \in Sizes, x \in Sizes, r \in Unused \cup {NULL} :
          /\ Enter(t, "calloc", "answered", [fn |-> "calloc", p |-> NULL, n |-> k, ret |-> r])
          /\ heap' = IF r = NULL THEN heap ELSE [heap EXCEPT ![r] = Chunk(k * x, "calloc")]
          /\ UNCHANGED <<held, moved, trace>>
    BY <1>2 DEF Calloc
  <2> DEFINE c == [fn |-> "calloc", p |-> NULL, n |-> k, ret |-> r]
             h == Chunk(k * x, "calloc")
  <2>2. k * x \in Nat
    OBVIOUS
  <2>3. c \in CallRecord /\ h \in ChunkRecord
    BY <2>2, ChunkType DEF CallRecord, Functions, Unused
  <2>4. h.by = (IF startSeen THEN c.fn ELSE "early") /\ c.fn = "calloc"
    BY DEF Chunk
  <2> QED
    BY <2>1, <2>3, <2>4 DEF Answered
<1>3. ASSUME NEW t \in Threads, Realloc(t) PROVE Resized(t)
  <2>1. PICK p \in held \cup {NULL}, n \in Sizes : \E r \in Unused \cup {p, NULL} :
          /\ Enter(t, "realloc", "answered", [fn |-> "realloc", p |-> p, n |-> n, ret |-> r])
          /\ heap' = [q \in Addrs |->
                        IF r = NULL THEN heap[q]
                        ELSE IF q = r THEN Chunk(n, "realloc")
                        ELSE IF q = p THEN NoChunk ELSE heap[q]]
          /\ held' = held \ {p}
          /\ moved' = moved \cup ({p, r} \cap Addrs)
          /\ UNCHANGED trace
    BY <1>3 DEF Realloc
  <2>2. PICK r \in Unused \cup {p, NULL} :
          /\ Enter(t, "realloc", "answered", [fn |-> "realloc", p |-> p, n |-> n, ret |-> r])
          /\ heap' = [q \in Addrs |->
                        IF r = NULL THEN heap[q]
                        ELSE IF q = r THEN Chunk(n, "realloc")
                        ELSE IF q = p THEN NoChunk ELSE heap[q]]
          /\ moved' = moved \cup ({p, r} \cap Addrs)
    BY <2>1
  <2> DEFINE c == [fn |-> "realloc", p |-> p, n |-> n, ret |-> r]
             h == Chunk(n, "realloc")
  <2>3. c \in CallRecord /\ h \in ChunkRecord
    BY ChunkType DEF CallRecord, Functions, Unused, TypeOK
  <2>4. h.by = IF startSeen THEN "realloc" ELSE "early"
    BY DEF Chunk
  <2>5. /\ c.fn = "realloc" /\ c.p \in held \cup {NULL} /\ c.ret \in Unused \cup {c.p, NULL}
        /\ held' = held \ {c.p} /\ UNCHANGED trace
        /\ moved' = moved \cup ({c.p, c.ret} \cap Addrs)
        /\ Enter(t, "realloc", "answered", c)
        /\ heap' = [q \in Addrs |->
                      IF c.ret = NULL THEN heap[q]
                      ELSE IF q = c.ret THEN h
                      ELSE IF q = c.p THEN NoChunk ELSE heap[q]]
    BY <2>1, <2>2
  <2> HIDE DEF c, h
  <2> QED
    BY <2>3, <2>4, <2>5 DEF Resized
<1>4. ASSUME NEW t \in Threads, Free(t) PROVE FreeCalled(t)
  <2>1. PICK p \in held \cup {NULL} :
          /\ Enter(t, "free", "free_before", [fn |-> "free", p |-> p, n |-> 0, ret |-> NULL])
          /\ held' = held \ {p}
          /\ UNCHANGED <<heap, moved, trace>>
    BY <1>4 DEF Free
  <2>2. [fn |-> "free", p |-> p, n |-> 0, ret |-> NULL] \in CallRecord
    BY DEF CallRecord, Functions, TypeOK
  <2> QED
    BY <2>1, <2>2 DEF FreeCalled
<1>5. ASSUME NEW t \in Threads, MallocReturn(t) \/ CallocReturn(t) PROVE Returned(t)
  BY <1>5 DEF MallocReturn, CallocReturn, Returned
<1>6. CASE End \/ ReadMalloc \/ ReadFree \/ ReadCalloc \/ Done \/ UNCHANGED vars
  BY <1>6 DEF End, ReadMalloc, ReadFree, ReadCalloc, Done, vars, program, core
<1> QED
  BY <1>1, <1>2, <1>3, <1>4, <1>5, <1>6 DEF Next, Step

----------------------------------------------------------------------------
(* The chunks that calls carry. *)

LEMMA Carries ==
    ASSUME TypeOK, NEW t \in Threads, NEW x, NEW c,
           pc' = [pc EXCEPT ![t] = x], call' = [call EXCEPT ![t] = c]
    PROVE  /\ \A u \in Threads \ {t} : Carried(u)' = Carried(u)
           /\ Carried(t)' = IF x = "app" THEN {} ELSE {Kept(c)} \cap Addrs
BY DEF Carried, Kept, TypeOK

LEMMA OwnStep ==
    ASSUME TypeOK, OwnInv, CallInv, MainBefore \/ (\E t \in Threads : Step(t)) \/ UNCHANGED core
    PROVE  OwnInv'
<1> USE HeapAssumption
<1>1. CASE MainBefore \/ UNCHANGED core
  BY <1>1 DEF MainBefore, core, OwnInv, Carried, Kept
<1>2. ASSUME NEW t \in Threads, Answered(t) PROVE OwnInv'
  <2>1. PICK c \in CallRecord, h \in ChunkRecord :
          /\ c.p = NULL /\ c.ret \in Unused \cup {NULL}
          /\ Enter(t, c.fn, "answered", c)
          /\ heap' = IF c.ret = NULL THEN heap ELSE [heap EXCEPT ![c.ret] = h]
          /\ UNCHANGED <<held, moved, trace>>
    BY <1>2 DEF Answered
  <2>2. /\ \A u \in Threads \ {t} : Carried(u)' = Carried(u)
        /\ Carried(t)' = {c.ret} \cap Addrs
    BY <2>1, Carries DEF Kept
  <2>3. h # NoChunk
    OBVIOUS
  <2>4. \A p \in Addrs : heap[p] # NoChunk => heap'[p] # NoChunk /\ p # c.ret
    BY <2>1, <2>3 DEF TypeOK, Unused
  <2>5. c.ret \in Addrs => heap'[c.ret] # NoChunk
    BY <2>1, <2>3 DEF TypeOK
  <2> QED
    BY <2>1, <2>2, <2>4, <2>5 DEF OwnInv, TypeOK, Carried
<1>3. ASSUME NEW t \in Threads, Returned(t) \/ ReallocReturn(t) PROVE OwnInv'
  <2>1. /\ \A u \in Threads \ {t} : Carried(u)' = Carried(u)
        /\ Carried(t)' = {}
    BY <1>3, Carries DEF Returned, ReallocReturn
  <2>2. held' = held \cup Carried(t)
    BY <1>3 DEF Returned, ReallocReturn, Carried, Kept, CallInv
  <2>3. UNCHANGED heap
    BY <1>3 DEF Returned, ReallocReturn
  <2> QED
    BY <2>1, <2>2, <2>3 DEF OwnInv
<1>4. ASSUME NEW t \in Threads, Resized(t) PROVE OwnInv'
  <2>1. PICK c \in CallRecord, h \in ChunkRecord :
          /\ c.p \in held \cup {NULL} /\ c.ret \in Unused \cup {c.p, NULL}
          /\ Enter(t, "realloc", "answered", c)
          /\ heap' = [q \in Addrs |->
                        IF c.ret = NULL THEN heap[q]
                        ELSE IF q = c.ret THEN h
                        ELSE IF q = c.p THEN NoChunk ELSE heap[q]]
          /\ held' = held \ {c.p}
    BY <1>4 DEF Resized
  <2>2. /\ \A u \in Threads \ {t} : Carried(u)' = Carried(u)
        /\ Carried(t)' = {Kept(c)} \cap Addrs
    BY <2>1, Carries
  <2>3. h # NoChunk
    OBVIOUS
  <2>4. \A p \in Addrs : heap[p] # NoChunk /\ p # c.p => heap'[p] # NoChunk /\ p # Kept(c)
    BY <2>1, <2>3 DEF TypeOK, Unused, Kept
  <2>5. \A p \in Carried(t)' : heap'[p] # NoChunk /\ p \notin held'
    BY <2>1, <2>2, <2>3 DEF TypeOK, OwnInv, Unused, Kept
  <2>6. \A u \in Threads \ {t} : c.p \notin Carried(u) /\ Carried(u) \subseteq Addrs
    BY <2>1 DEF OwnInv, Carried
  <2>7. \A u \in Threads \ {t} : Kept(c) \notin Carried(u)
    BY <2>4, <2>6 DEF OwnInv
  <2> QED
    BY <2>1, <2>2, <2>4, <2>5, <2>6, <2>7 DEF OwnInv, TypeOK
<1>5. ASSUME NEW t \in Threads, FreeCalled(t) PROVE OwnInv'
  <2>1. PICK c \in CallRecord :
          /\ c.p \in held \cup {NULL} /\ c.ret = NULL
          /\ Enter(t, "free", "free_before", c)
          /\ held' = held \ {c.p}
          /\ UNCHANGED <<heap, moved, trace>>
    BY <1>5 DEF FreeCalled
  <2>2. /\ \A u \in Threads \ {t} : Carried(u)' = Carried(u)
        /\ Carried(t)' = {c.p} \cap Addrs
    BY <2>1, Carries DEF Kept
  <2> QED
    BY <2>1, <2>2 DEF OwnInv, TypeOK
<1>6. ASSUME NEW t \in Threads, FreeBefore(t) PROVE OwnInv'
  <2>1. \A u \in Threads : Carried(u)' = Carried(u)
    BY <1>6 DEF FreeBefore, Carried, Kept, TypeOK
  <2> QED
    BY <1>6, <2>1 DEF FreeBefore, OwnInv
<1>7. ASSUME NEW t \in Threads, AllocatorFree(t) PROVE OwnInv'
  <2>1. /\ \A u \in Threads \ {t} : Carried(u)' = Carried(u)
        /\ Carried(t)' = {}
    BY <1>7, Carries DEF AllocatorFree
  <2>2. Carried(t) = {call[t].p} \cap Addrs
    BY <1>7 DEF AllocatorFree, Carried, Kept, CallInv
  <2>3. \A p \in Addrs : p # call[t].p => heap'[p] = heap[p]
    BY <1>7 DEF AllocatorFree
  <2>4. held' = held /\ \A u \in Threads : Carried(u) \subseteq Addrs
    BY <1>7 DEF AllocatorFree, Carried
  <2>5. \A p \in held : heap'[p] # NoChunk
    BY <2>2, <2>3, <2>4 DEF OwnInv, TypeOK
  <2>6. \A u \in Threads \ {t} : \A p \in Carried(u) : heap'[p] # NoChunk
    BY <2>2, <2>3, <2>4 DEF OwnInv
  <2> QED
    BY <2>1, <2>4, <2>5, <2>6 DEF OwnInv
<1> QED
  BY <1>1, <1>2, <1>3, <1>4, <1>5, <1>6, <1>7 DEF Step

(* A step of one thread leaves the others where they are, and the chunks   *)
(* they carry as they are.                                                 *)
LEMMA OthersKept ==
    ASSUME TypeOK, OwnInv, CallInv, NEW t \in Threads, Step(t)
    PROVE  /\ startSeen' = startSeen
           /\ \A u \in Threads \ {t} :
                 /\ pc'[u] = pc[u] /\ call'[u] = call[u]
                 /\ \A p \in Carried(u) : heap'[p] = heap[p]
<1> USE HeapAssumption
<1>1. startSeen' = startSeen /\ \A u \in Threads \ {t} : pc'[u] = pc[u] /\ call'[u] = call[u]
  BY DEF Step, Answered, Returned, Resized, ReallocReturn, FreeCalled, FreeBefore, AllocatorFree, TypeOK
<1>2. \A u \in Threads \ {t} : \A p \in Carried(u) : heap'[p] = heap[p]
  <2> SUFFICES ASSUME NEW u \in Threads \ {t}, NEW p \in Carried(u) PROVE heap'[p] = heap[p]
    OBVIOUS
  <2>1. p \in Addrs /\ p \notin held /\ p \notin Unused /\ p \notin Carried(t)
    BY DEF OwnInv, Carried, Unused
  <2>2. CASE Answered(t)
    BY <2>1, <2>2 DEF Answered, TypeOK
  <2>3. CASE Resized(t)
    BY <2>1, <2>3 DEF Resized, TypeOK
  <2>4. CASE AllocatorFree(t)
    <3>1. Carried(t) = {call[t].p} \cap Addrs
      BY <2>4 DEF AllocatorFree, Carried, Kept, CallInv
    <3> QED
      BY <2>1, <2>4, <3>1 DEF AllocatorFree
  <2> QED
    BY <2>2, <2>3, <2>4 DEF Step, Returned, ReallocReturn, FreeCalled, FreeBefore
<1> QED
  BY <1>1, <1>2

LEMMA CallStep ==
    ASSUME TypeOK, OwnInv, CallInv, EarlyInv,
           MainBefore \/ (\E t \in Threads : Step(t)) \/ UNCHANGED core
    PROVE  CallInv'
<1> USE HeapAssumption
<1> DEFINE Says(t) ==
      /\ pc[t] = "answered" /\ call[t].fn # "realloc" => call[t].p = NULL
      /\ pc[t] \in {"free_before", "freeing"} => call[t].ret = NULL
      /\ startSeen /\ pc[t] = "answered" /\ call[t].fn # "realloc" /\ call[t].ret # NULL
            => /\ heap[call[t].ret].by = call[t].fn
               /\ call[t].fn = "malloc" => heap[call[t].ret].n = call[t].n
<1>1. CASE UNCHANGED core
  BY <1>1 DEF core, CallInv
<1>2. CASE MainBefore
  <2>1. \A t \in Threads : pc[t] = "app"
    BY <1>2 DEF MainBefore, EarlyInv
  <2> QED
    BY <1>2, <2>1 DEF MainBefore, CallInv
<1>3. ASSUME NEW t \in Threads, Step(t) PROVE CallInv'
  <2>1. ASSUME NEW u \in Threads \ {t} PROVE Says(u)'
    <3>1. Says(u)
      BY DEF CallInv
    <3>2. pc[u] = "answered" /\ call[u].ret # NULL => call[u].ret \in Carried(u)
      BY DEF Carried, Kept, TypeOK, CallRecord, NoCall
    <3> QED
      BY <1>3, <3>1, <3>2, OthersKept
  <2>2. Says(t)'
    <3>1. CASE Answered(t)
      <4>1. PICK c \in CallRecord, h \in ChunkRecord :
              /\ c.p = NULL /\ c.ret \in Unused \cup {NULL}
              /\ h.by = IF startSeen THEN c.fn ELSE "early"
              /\ c.fn = "malloc" => h.n = c.n
              /\ Enter(t, c.fn, "answered", c)
              /\ heap' = IF c.ret = NULL THEN heap ELSE [heap EXCEPT ![c.ret] = h]
        BY <3>1 DEF Answered
      <4>2. pc'[t] = "answered" /\ call'[t] = c /\ startSeen' = startSeen /\ c.fn \in Calls
        BY <4>1 DEF TypeOK
      <4>3. c.ret # NULL => heap'[c.ret] = h
        BY <4>1 DEF TypeOK, Unused
      <4> QED
        BY <4>1, <4>2, <4>3
    <3>2. CASE Returned(t) \/ ReallocReturn(t) \/ AllocatorFree(t)
      BY <3>2 DEF Returned, ReallocReturn, AllocatorFree, TypeOK
    <3>3. CASE Resized(t)
      BY <3>3 DEF Resized, TypeOK
    <3>4. CASE FreeCalled(t)
      BY <3>4 DEF FreeCalled, TypeOK
    <3>5. CASE FreeBefore(t)
      BY <3>5 DEF FreeBefore, TypeOK, CallInv
    <3> QED
      BY <1>3, <3>1, <3>2, <3>3, <3>4, <3>5 DEF Step
  <2> QED
    BY <2>1, <2>2 DEF CallInv
<1> QED
  BY <1>1, <1>2, <1>3

LEMMA EarlyStep ==
    ASSUME TypeOK, OwnInv, CallInv, EarlyInv,
           MainBefore \/ (\E t \in Threads : Step(t)) \/ UNCHANGED core
    PROVE  EarlyInv'
<1> USE HeapAssumption
<1>1. CASE MainBefore \/ UNCHANGED core
  BY <1>1 DEF MainBefore, core, EarlyInv
<1>2. ASSUME NEW t \in Threads, Step(t) PROVE EarlyInv'
  <2>1. ~startSeen => t = MainThread
    BY <1>2 DEF Step, Answered, Returned, Resized, ReallocReturn, FreeCalled, FreeBefore, AllocatorFree, EarlyInv
  <2>2. ~startSeen' => /\ ~startSeen
                       /\ \A u \in Threads \ {MainThread} : pc'[u] = "app"
    BY <1>2, <2>1, OthersKept DEF EarlyInv
  <2>3. ~startSeen => trace' = <<>>
    BY <1>2 DEF Step, Answered, Returned, Resized, ReallocReturn, FreeCalled, FreeBefore, AllocatorFree, EarlyInv
  <2>4. /\ moved \subseteq moved'
        /\ \A p \in Addrs : heap'[p] = heap[p] \/ heap'[p] = NoChunk \/ heap'[p].by = "early"
                            \/ (startSeen /\ (heap'[p].by = "realloc" => p \in moved'))
    <3>1. CASE Answered(t)
      BY <3>1 DEF Answered, TypeOK
    <3>2. CASE Resized(t)
      BY <3>2 DEF Resized, TypeOK
    <3>3. CASE AllocatorFree(t)
      BY <3>3 DEF AllocatorFree
    <3> QED
      BY <1>2, <3>1, <3>2, <3>3 DEF Step, Returned, ReallocReturn, FreeCalled, FreeBefore
  <2> QED
    BY <2>2, <2>3, <2>4 DEF EarlyInv
<1> QED
  BY <1>1, <1>2

----------------------------------------------------------------------------
(* What writing an event does to the account the trace gives of p. *)

Opens(e, p)  == e.fn \in {"malloc", "calloc"} /\ e.ret = p
Closes(e, p) == e.fn = "free" /\ e.p = p

LEMMA Appending ==
    ASSUME TypeOK, NEW e, trace' = Append(trace, e), NEW p
    PROVE  /\ Opens(e, p) => Live(p)'
           /\ Closes(e, p) => Dead(p)'
           /\ ~Closes(e, p) /\ Live(p) => Live(p)'
           /\ ~Opens(e, p) /\ Dead(p) => Dead(p)'
           /\ ~Opens(e, p) /\ ~Closes(e, p) /\ Silent(p) => Silent(p)'
<1> PICK n \in Nat : n = Len(trace) + 1
  BY DEF TypeOK
<1>1. /\ n \in Nat /\ DOMAIN trace = 1 .. (n - 1) /\ DOMAIN trace' = 1 .. n
      /\ trace'[n] = e
      /\ \A i \in 1 .. (n - 1) : trace'[i] = trace[i]
  BY DEF TypeOK
<1>2. \A i \in 1 .. (n - 1) : /\ Allocates(i, p)' <=> Allocates(i, p)
                              /\ Frees(i, p)' <=> Frees(i, p)
  BY <1>1 DEF Allocates, Frees
<1>3. (Allocates(n, p)' <=> Opens(e, p)) /\ (Frees(n, p)' <=> Closes(e, p))
  BY <1>1 DEF Allocates, Frees, Opens, Closes
<1>4. \A i \in 1 .. n : i \in 1 .. (n - 1) \/ i = n
  BY <1>1
<1>5. n \in 1 .. n /\ \A i \in 1 .. (n - 1) : i \in 1 .. n /\ i < n
  BY <1>1
<1>6. \A i \in 1 .. n : ~(n < i)
  BY <1>1
<1>7. ~(Opens(e, p) /\ Closes(e, p))
  BY DEF Opens, Closes
<1>8. Opens(e, p) => Live(p)'
  BY <1>1, <1>3, <1>5, <1>6 DEF Live
<1>9. Closes(e, p) => Dead(p)'
  BY <1>1, <1>3, <1>4, <1>5, <1>7 DEF Dead
<1>10. ~Closes(e, p) /\ Live(p) => Live(p)'
  BY <1>1, <1>2, <1>3, <1>4, <1>5 DEF Live
<1>11. ~Opens(e, p) /\ Dead(p) => Dead(p)'
  BY <1>1, <1>2, <1>3, <1>4, <1>5 DEF Dead
<1>12. ~Opens(e, p) /\ ~Closes(e, p) /\ Silent(p) => Silent(p)'
  BY <1>1, <1>2, <1>3, <1>4 DEF Silent
<1> QED
  BY <1>8, <1>9, <1>10, <1>11, <1>12

LEMMA AppendingAlternates ==
    ASSUME TypeOK, NEW e, trace' = Append(trace, e), NEW p, Alternate(p),
           Opens(e, p) => Dead(p),
           Closes(e, p) => Live(p) \/ Silent(p)
    PROVE  Alternate(p)'
<1> PICK n \in Nat : n = Len(trace) + 1
  BY DEF TypeOK
<1>1. /\ n \in Nat /\ DOMAIN trace = 1 .. (n - 1) /\ DOMAIN trace' = 1 .. n
      /\ trace'[n] = e
      /\ \A i \in 1 .. (n - 1) : trace'[i] = trace[i]
  BY DEF TypeOK
<1>2. \A i \in 1 .. (n - 1) : /\ Allocates(i, p)' <=> Allocates(i, p)
                              /\ Frees(i, p)' <=> Frees(i, p)
  BY <1>1 DEF Allocates, Frees
<1>3. (Allocates(n, p)' <=> Opens(e, p)) /\ (Frees(n, p)' <=> Closes(e, p))
  BY <1>1 DEF Allocates, Frees, Opens, Closes
<1> SUFFICES ASSUME NEW i \in 1 .. n, NEW j \in 1 .. n, i < j
             PROVE  /\ Allocates(i, p)' /\ Allocates(j, p)' => \E k \in (i + 1) .. (j - 1) : Frees(k, p)'
                    /\ Frees(i, p)' /\ Frees(j, p)' => \E k \in (i + 1) .. (j - 1) : Allocates(k, p)'
  BY <1>1 DEF Alternate
<1>4. i \in 1 .. (n - 1) /\ \A k \in (i + 1) .. (j - 1) : k \in 1 .. (n - 1)
  BY <1>1
<1>5. CASE j # n
  <2>1. j \in 1 .. (n - 1)
    BY <1>1, <1>5
  <2> QED
    BY <1>1, <1>2, <1>4, <2>1 DEF Alternate
<1>6. CASE j = n
  <2>1. ASSUME Allocates(i, p)', Allocates(n, p)' PROVE \E k \in (i + 1) .. (n - 1) : Frees(k, p)'
    <3>1. PICK k \in 1 .. (n - 1) : i < k /\ Frees(k, p)
      BY <1>1, <1>2, <1>3, <1>4, <2>1 DEF Dead
    <3> QED
      BY <1>1, <1>2, <3>1
  <2>2. ASSUME Frees(i, p)', Frees(n, p)' PROVE \E k \in (i + 1) .. (n - 1) : Allocates(k, p)'
    <3>1. Frees(i, p) /\ Live(p)
      BY <1>1, <1>2, <1>3, <1>4, <2>2 DEF Silent
    <3>2. PICK k \in 1 .. (n - 1) : Allocates(k, p) /\ ~(k < i)
      BY <1>1, <1>4, <3>1 DEF Live
    <3>3. k # i
      BY <3>1, <3>2 DEF Allocates, Frees
    <3> QED
      BY <1>1, <1>2, <3>2, <3>3
  <2> QED
    BY <1>6, <2>1, <2>2
<1> QED
  BY <1>5, <1>6

----------------------------------------------------------------------------
(* The trace and the heap. *)

LEMMA UntoldIsCarried ==
    ASSUME TypeOK, CallInv, NEW t \in Threads, NEW p \in Addrs, UntoldBy(t, p)
    PROVE  p \in Carried(t)
BY HeapAssumption DEF UntoldBy, Carried, Kept, CallInv

(* As long as start_seen is not set there is nothing to show. *)
LEMMA EarlyTrace ==
    ASSUME TypeOK', EarlyInv', ~startSeen'
    PROVE  LiveInv' /\ DeadInv'
<1>1. DOMAIN trace' = {}
  BY DEF EarlyInv
<1>2. LiveInv'
  BY DEF LiveInv, EarlyInv, Told
<1>3. DeadInv'
  BY <1>1 DEF DeadInv, Dead, Silent, Alternate
<1> QED
  BY <1>2, <1>3

(* A step that writes nothing and tells nothing.                           *)
Quiet ==
    /\ UNCHANGED trace
    /\ moved \subseteq moved'
    /\ \A p \in Addrs : Told(p)' /\ heap'[p].by \in {"malloc", "calloc"}
                            => Told(p) /\ heap[p].by = heap'[p].by
    /\ \A p \in Addrs \ moved' : (Told(p)' <=> Told(p)) /\ (Told(p) => heap'[p] = heap[p])

(* A step that writes the event e, which tells what it does to a chunk.    *)
Tells(e) ==
    /\ trace' = Append(trace, e)
    /\ UNCHANGED <<heap, moved>>
    /\ \A p \in Addrs :
          /\ ~Opens(e, p) /\ ~Closes(e, p) => (Told(p)' <=> Told(p))
          /\ Opens(e, p) => /\ ~Closes(e, p) /\ ~Told(p) /\ Told(p)'
                            /\ heap[p].by = e.fn
                            /\ e.fn = "malloc" => heap[p].n = e.n
          /\ Closes(e, p) => ~Opens(e, p) /\ Told(p) /\ ~Told(p)'

LEMMA Effects ==
    ASSUME TypeOK, OwnInv, CallInv, NEW t \in Threads, Step(t), startSeen
    PROVE  Quiet \/ \E e : Tells(e)
<1> USE HeapAssumption
<1>1. \A u \in Threads \ {t}, p \in Addrs : UntoldBy(u, p)' <=> UntoldBy(u, p)
  BY OthersKept DEF UntoldBy
<1>2. \A u \in Threads, p \in Addrs : UntoldBy(u, p) => p \in Carried(u)
  BY UntoldIsCarried
<1>3. \A p \in Carried(t) : \A u \in Threads \ {t} : ~UntoldBy(u, p)
  BY <1>2 DEF OwnInv, Carried
<1>4. CASE Answered(t)
  <2>1. PICK c \in CallRecord, h \in ChunkRecord :
          /\ c.fn \in {"malloc", "calloc"} /\ c.ret \in Unused \cup {NULL}
          /\ Enter(t, c.fn, "answered", c)
          /\ heap' = IF c.ret = NULL THEN heap ELSE [heap EXCEPT ![c.ret] = h]
          /\ UNCHANGED <<moved, trace>>
    BY <1>4 DEF Answered
  <2>2. \A p \in Addrs : ~UntoldBy(t, p) /\ (UntoldBy(t, p)' <=> p = c.ret)
    BY <2>1 DEF UntoldBy, TypeOK
  <2>3. \A p \in Addrs : p # c.ret => heap'[p] = heap[p]
    BY <2>1 DEF TypeOK
  <2>4. \A p \in Addrs : p = c.ret => ~Told(p) /\ ~Told(p)'
    BY <2>1, <2>2 DEF Told, Unused
  <2>5. \A p \in Addrs : (Told(p)' <=> Told(p)) /\ (Told(p) => heap'[p] = heap[p])
    BY <1>1, <2>2, <2>3, <2>4 DEF Told
  <2> QED
    BY <2>1, <2>5 DEF Quiet
<1>5. CASE Returned(t)
  <2> DEFINE e == call[t]
  <2>1. trace' = Append(trace, e) /\ heap' = heap /\ moved' = moved
    BY <1>5 DEF Returned
  <2>2. \A p \in Addrs : (UntoldBy(t, p) <=> p = e.ret) /\ ~UntoldBy(t, p)'
    BY <1>5 DEF Returned, UntoldBy, TypeOK
  <2>3. \A p \in Addrs : ~Closes(e, p) /\ (Opens(e, p) <=> p = e.ret)
    BY <1>5 DEF Returned, Opens, Closes
  <2>4. \A p \in Addrs : p # e.ret => (Told(p)' <=> Told(p))
    BY <1>1, <2>1, <2>2 DEF Told
  <2>5. \A p \in Addrs : p = e.ret => /\ ~Told(p) /\ heap[p].by = e.fn
                                      /\ e.fn = "malloc" => heap[p].n = e.n
    BY <1>5, <2>2 DEF Told, CallInv, Returned
  <2>6. ASSUME NEW p \in Addrs, p = e.ret PROVE Told(p)'
    <3>1. p \in Carried(t)
      BY <1>2, <2>2, <2>6
    <3> QED
      BY <1>1, <1>3, <2>1, <2>2, <3>1 DEF Told, OwnInv
  <2> HIDE DEF e
  <2> QED
    BY <2>1, <2>3, <2>4, <2>5, <2>6 DEF Tells
<1>6. CASE Resized(t)
  <2>1. PICK c \in CallRecord, h \in ChunkRecord :
          /\ c.fn = "realloc" /\ c.ret \in Unused \cup {c.p, NULL}
          /\ h.by = IF startSeen THEN "realloc" ELSE "early"
          /\ Enter(t, "realloc", "answered", c)
          /\ heap' = [q \in Addrs |->
                        IF c.ret = NULL THEN heap[q]
                        ELSE IF q = c.ret THEN h
                        ELSE IF q = c.p THEN NoChunk ELSE heap[q]]
          /\ moved' = moved \cup ({c.p, c.ret} \cap Addrs)
          /\ UNCHANGED trace
    BY <1>6 DEF Resized
  <2>2. \A p \in Addrs : ~UntoldBy(t, p) /\ ~UntoldBy(t, p)'
    BY <2>1 DEF UntoldBy, TypeOK
  <2>3. \A p \in Addrs : heap'[p] = heap[p] \/ heap'[p] = NoChunk \/ heap'[p].by = "realloc"
    BY <2>1
  <2>4. \A p \in Addrs : Told(p)' /\ heap'[p].by \in {"malloc", "calloc"}
                         => Told(p) /\ heap[p].by = heap'[p].by
    BY <1>1, <2>2, <2>3 DEF Told
  <2>5. \A p \in Addrs \ moved' : heap'[p] = heap[p] /\ (Told(p)' <=> Told(p))
    BY <1>1, <2>1, <2>2 DEF Told
  <2> QED
    BY <2>1, <2>4, <2>5 DEF Quiet
<1>7. CASE ReallocReturn(t) \/ FreeCalled(t)
  <2>1. /\ UNCHANGED <<heap, moved, trace>>
        /\ \A p \in Addrs : ~UntoldBy(t, p) /\ ~UntoldBy(t, p)'
    BY <1>7 DEF ReallocReturn, FreeCalled, UntoldBy, TypeOK
  <2>2. \A p \in Addrs : Told(p)' <=> Told(p)
    BY <1>1, <2>1 DEF Told
  <2> QED
    BY <2>1, <2>2 DEF Quiet
<1>8. CASE FreeBefore(t)
  <2> DEFINE e == call[t]
  <2>1. /\ UNCHANGED <<heap, moved>>
        /\ \A p \in Addrs : ~UntoldBy(t, p) /\ (UntoldBy(t, p)' <=> p = e.p)
    BY <1>8 DEF FreeBefore, UntoldBy, TypeOK
  <2>2. \A p \in Addrs : p # e.p => (Told(p)' <=> Told(p))
    BY <1>1, <2>1 DEF Told
  <2>3. CASE e.p = NULL
    <3>1. UNCHANGED trace
      BY <1>8, <2>3 DEF FreeBefore
    <3> QED
      BY <2>1, <2>2, <2>3, <3>1 DEF Quiet
  <2>4. CASE e.p # NULL
    <3>1. trace' = Append(trace, e)
      BY <1>8, <2>4 DEF FreeBefore
    <3>2. \A p \in Addrs : ~Opens(e, p) /\ (Closes(e, p) <=> p = e.p)
      BY <1>8 DEF FreeBefore, Opens, Closes, TypeOK
    <3>3. ASSUME NEW p \in Addrs, p = e.p PROVE Told(p) /\ ~Told(p)'
      <4>1. p \in Carried(t)
        BY <1>8, <3>3 DEF FreeBefore, Carried, Kept, CallInv
      <4> QED
        BY <1>3, <2>1, <3>3, <4>1 DEF Told, OwnInv
    <3> HIDE DEF e
    <3> QED
      BY <2>1, <2>2, <3>1, <3>2, <3>3 DEF Tells
  <2> QED
    BY <2>3, <2>4
<1>9. CASE AllocatorFree(t)
  <2>1. \A p \in Addrs : (UntoldBy(t, p) <=> p = call[t].p) /\ ~UntoldBy(t, p)'
    BY <1>9 DEF AllocatorFree, UntoldBy, TypeOK
  <2>2. /\ UNCHANGED <<moved, trace>>
        /\ \A p \in Addrs : heap'[p] = IF p = call[t].p THEN NoChunk ELSE heap[p]
    BY <1>9 DEF AllocatorFree
  <2>3. ASSUME NEW p \in Addrs PROVE (Told(p)' <=> Told(p)) /\ (Told(p) => heap'[p] = heap[p])
    <3>1. CASE p = call[t].p
      BY <2>1, <2>2, <3>1 DEF Told
    <3>2. CASE p # call[t].p
      BY <1>1, <2>1, <2>2, <3>2 DEF Told
    <3> QED
      BY <3>1, <3>2
  <2> QED
    BY <2>2, <2>3 DEF Quiet
<1> QED
  BY <1>4, <1>5, <1>6, <1>7, <1>8, <1>9 DEF Step

LEMMA QuietStep ==
    ASSUME LiveInv, DeadInv, Quiet
    PROVE  LiveInv' /\ DeadInv'
<1>1. \A p : (Live(p)' <=> Live(p)) /\ (Dead(p)' <=> Dead(p)) /\ (Silent(p)' <=> Silent(p))
           /\ (Alternate(p)' <=> Alternate(p))
  BY DEF Quiet, Live, Dead, Silent, Alternate, Allocates, Frees
<1>2. LiveInv'
  BY <1>1 DEF LiveInv, Quiet
<1>3. DeadInv'
  BY <1>1 DEF DeadInv, Quiet
<1> QED
  BY <1>2, <1>3

LEMMA TellingStep ==
    ASSUME TypeOK, EarlyInv, LiveInv, DeadInv, NEW e, Tells(e)
    PROVE  LiveInv' /\ DeadInv'
<1>1. trace' = Append(trace, e) /\ heap' = heap /\ moved' = moved
  BY DEF Tells
<1>2. ASSUME NEW p \in Addrs, Told(p)', heap'[p].by \in {"malloc", "calloc"} PROVE Live(p)'
  BY <1>1, <1>2, Appending DEF LiveInv, Tells
<1>3. ASSUME NEW p \in Addrs \ moved'
      PROVE  /\ ~Told(p)' => Dead(p)'
             /\ Told(p)' /\ heap'[p].by = "early" => Silent(p)'
             /\ Alternate(p)'
  <2>1. Opens(e, p) => Dead(p) /\ heap[p].by # "early"
    BY <1>1, <1>3 DEF Tells, DeadInv, Opens
  <2>2. Closes(e, p) => Live(p) \/ Silent(p)
    <3>1. Told(p) => heap[p].by \in {"malloc", "calloc", "early"}
      BY <1>1, <1>3 DEF EarlyInv, TypeOK, ChunkRecord, Told
    <3> QED
      BY <1>1, <1>3, <3>1 DEF LiveInv, DeadInv, Tells
  <2>3. Alternate(p)'
    BY <1>1, <1>3, <2>1, <2>2, AppendingAlternates DEF DeadInv
  <2> QED
    BY <1>1, <1>3, <2>1, <2>3, Appending DEF DeadInv, Tells
<1> QED
  BY <1>2, <1>3 DEF LiveInv, DeadInv

LEMMA TraceStep ==
    ASSUME TypeOK, OwnInv, CallInv, EarlyInv, LiveInv, DeadInv, TypeOK', EarlyInv',
           MainBefore \/ (\E t \in Threads : Step(t)) \/ UNCHANGED core
    PROVE  LiveInv' /\ DeadInv'
<1>1. CASE MainBefore \/ UNCHANGED core
  BY <1>1, QuietStep DEF MainBefore, core, Told, UntoldBy, Quiet
<1>2. ASSUME NEW t \in Threads, Step(t) PROVE LiveInv' /\ DeadInv'
  <2>1. CASE ~startSeen'
    BY <2>1, EarlyTrace
  <2>2. CASE startSeen'
    <3>1. Quiet \/ \E e : Tells(e)
      BY <1>2, <2>2, OthersKept, Effects
    <3> QED
      BY <3>1, QuietStep, TellingStep
  <2> QED
    BY <2>1, <2>2
<1> QED
  BY <1>1, <1>2

----------------------------------------------------------------------------
LEMMA InvInit == Init => IInv
<1> SUFFICES ASSUME Init PROVE IInv
  OBVIOUS
<1>1. TypeOK
  BY TypeInit
<1>2. OwnInv /\ CallInv /\ EarlyInv
  BY HeapAssumption DEF Init, OwnInv, CallInv, EarlyInv, Carried
<1>3. DOMAIN trace = {} /\ \A p \in Addrs : ~Told(p)
  BY DEF Init, Told
<1>4. LiveInv /\ DeadInv
  BY <1>3 DEF LiveInv, DeadInv, Dead, Silent, Alternate
<1> QED
  BY <1>1, <1>2, <1>4 DEF IInv

LEMMA InvStep == IInv /\ [Next]_vars => IInv'
<1> SUFFICES ASSUME IInv, [Next]_vars PROVE IInv'
  OBVIOUS
<1>1. TypeOK'
  BY TypeStep DEF IInv
<1>2. MainBefore \/ (\E t \in Threads : Step(t)) \/ UNCHANGED core
  BY Steps DEF IInv
<1>3. OwnInv' /\ CallInv' /\ EarlyInv'
  BY <1>2, OwnStep, CallStep, EarlyStep DEF IInv
<1>4. LiveInv' /\ DeadInv'
  BY <1>1, <1>2, <1>3, TraceStep DEF IInv
<1> QED
  BY <1>1, <1>3, <1>4 DEF IInv

LEMMA Invariant == Spec => []IInv
BY InvInit, InvStep, PTL DEF Spec

(* In the trace allocations and frees of one address take turns, for any   *)
(* number of threads racing for it, unless realloc was asked for it or     *)
(* answered it.                                                            *)
THEOREM AllocationsAlternate == Spec => []EventsAlternate
<1>1. IInv => EventsAlternate
  BY DEF IInv, DeadInv, Alternate, EventsAlternate
<1> QED
  BY <1>1, Invariant, PTL

(* What malloc or calloc made and the program holds has its event in the   *)
(* trace and no free after it, in any program.                             *)
THEOREM HeldAnnounced == Spec => []HeldIsAnnounced
<1>1. IInv => HeldIsAnnounced
  <2> SUFFICES ASSUME IInv, NEW p \in held, heap[p].by \in {"malloc", "calloc"} PROVE Live(p)
    BY DEF HeldIsAnnounced, Live
  <2>1. p \in Addrs /\ heap[p] # NoChunk /\ \A t \in Threads : p \notin Carried(t)
    BY DEF IInv, TypeOK, OwnInv
  <2>2. Told(p)
    BY <2>1, UntoldIsCarried DEF IInv, Told
  <2> QED
    BY <2>1, <2>2 DEF IInv, LiveInv
<1> QED
  BY <1>1, Invariant, PTL

----------------------------------------------------------------------------
(* The tool, which replays the events one by one.                          *)

(* The first k events of s end, for p, with a malloc of size n; with no    *)
(* malloc that was not freed since.                                        *)
Mallocs(e, p) == e.fn = "malloc" /\ e.ret = p

Shows(s, k, p, n) ==
    \E i \in 1 .. k : /\ Mallocs(s[i], p) /\ s[i].n = n
                      /\ \A j \in 1 .. k : i < j => ~Mallocs(s[j], p) /\ ~Closes(s[j], p)

Hides(s, k, p) ==
    \A i \in 1 .. k : Mallocs(s[i], p) => \E j \in 1 .. k : i < j /\ Closes(s[j], p)

(* A chunk is in the program's hands or the business of a call; that of a  *)
(* realloc has been moved.                                                 *)
OwnedInv ==
    /\ \A p \in Addrs : heap[p] # NoChunk => p \in held \/ \E t \in Threads : p \in Carried(t)
    /\ \A t \in Threads : pc[t] = "answered" /\ call[t].fn = "realloc" => Carried(t) \subseteq moved

(* What the whole trace shows of p is what is there. *)
AccountInv ==
    \A p \in Addrs \ moved :
        IF Told(p) /\ heap[p].by = "malloc" THEN Shows(trace, Len(trace), p, heap[p].n)
                                            ELSE Hides(trace, Len(trace), p)

(* What the events read so far show of p is in the tool's map. *)
ToolInv ==
    /\ ~ended => pos = 0
    /\ \A p \in Addrs : IF chunks[p] = NoChunk THEN Hides(trace, pos, p)
                                               ELSE Shows(trace, pos, p, chunks[p])

LEMMA OwnedStep ==
    ASSUME TypeOK, OwnInv, CallInv, OwnedInv,
           MainBefore \/ (\E t \in Threads : Step(t)) \/ UNCHANGED core
    PROVE  OwnedInv'
<1> USE HeapAssumption
<1>1. CASE MainBefore \/ UNCHANGED core
  BY <1>1 DEF MainBefore, core, OwnedInv, Carried, Kept
<1>2. ASSUME NEW t \in Threads, Step(t), NEW p \in Addrs, heap'[p] # NoChunk
      PROVE  p \in held' \/ \E u \in Threads : p \in Carried(u)'
  <2>1. \A u \in Threads \ {t} : Carried(u)' = Carried(u)
    BY <1>2, OthersKept DEF Carried, Kept
  <2>2. CASE heap[p] = NoChunk
    <3>1. CASE Answered(t)
      BY <1>2, <2>2, <3>1 DEF Answered, Carried, Kept, TypeOK
    <3>2. CASE Resized(t)
      BY <1>2, <2>2, <3>2 DEF Resized, Carried, Kept, TypeOK
    <3> QED
      BY <1>2, <2>2, <3>1, <3>2 DEF Step, Returned, ReallocReturn, FreeCalled, FreeBefore, AllocatorFree
  <2>3. CASE heap[p] # NoChunk /\ p \in Carried(t)
    <3>1. CASE Returned(t) \/ ReallocReturn(t)
      BY <2>3, <3>1 DEF Returned, ReallocReturn, Carried, Kept, CallInv
    <3>2. CASE FreeBefore(t)
      BY <2>3, <3>2 DEF FreeBefore, Carried, Kept, TypeOK
    <3>3. CASE AllocatorFree(t)
      BY <1>2, <2>3, <3>3 DEF AllocatorFree, Carried, Kept, CallInv
    <3> QED
      BY <1>2, <2>3, <3>1, <3>2, <3>3 DEF Step, Answered, Resized, FreeCalled, Carried
  <2>4. CASE p \in held
    <3>1. CASE Resized(t)
      BY <1>2, <2>4, <3>1 DEF Resized, Carried, Kept, TypeOK
    <3>2. CASE FreeCalled(t)
      BY <1>2, <2>4, <3>2 DEF FreeCalled, Carried, Kept, TypeOK
    <3> QED
      BY <1>2, <2>4, <3>1, <3>2 DEF Step, Answered, Returned, ReallocReturn, FreeBefore, AllocatorFree
  <2> QED
    BY <2>1, <2>2, <2>3, <2>4 DEF OwnedInv
<1>3. ASSUME NEW t \in Threads, Step(t),
             NEW u \in Threads, pc'[u] = "answered", call'[u].fn = "realloc"
      PROVE  Carried(u)' \subseteq moved'
  <2>1. moved \subseteq moved'
    BY <1>3 DEF Step, Answered, Returned, Resized, ReallocReturn, FreeCalled, FreeBefore, AllocatorFree
  <2>2. CASE u # t
    <3>1. pc'[u] = pc[u] /\ call'[u] = call[u]
      BY <1>3, <2>2, OthersKept
    <3> QED
      BY <1>3, <2>1, <3>1 DEF OwnedInv, Carried, Kept
  <2>3. CASE u = t
    <3>1. Resized(t)
      BY <1>3, <2>3 DEF Step, Answered, Returned, ReallocReturn, FreeCalled, FreeBefore, AllocatorFree, TypeOK
    <3> QED
      BY <1>3, <2>3, <3>1 DEF Resized, Carried, Kept, TypeOK
  <2> QED
    BY <2>2, <2>3
<1> QED
  BY <1>1, <1>2, <1>3 DEF OwnedInv

(* One more event, whether the tracer writes it or the tool reads it. *)
LEMMA OneMore ==
    ASSUME NEW s, NEW k \in Nat, NEW p
    PROVE  /\ Mallocs(s[k + 1], p) => Shows(s, k + 1, p, s[k + 1].n)
           /\ Closes(s[k + 1], p) => Hides(s, k + 1, p)
           /\ ~Mallocs(s[k + 1], p) /\ Hides(s, k, p) => Hides(s, k + 1, p)
           /\ \A n : ~Mallocs(s[k + 1], p) /\ ~Closes(s[k + 1], p) /\ Shows(s, k, p, n)
                      => Shows(s, k + 1, p, n)
<1>1. k + 1 \in 1 .. (k + 1) /\ \A i \in 1 .. (k + 1) : i \in 1 .. k \/ i = k + 1
  OBVIOUS
<1>2. \A i \in 1 .. k : i \in 1 .. (k + 1) /\ i < k + 1
  OBVIOUS
<1>3. \A i \in 1 .. (k + 1) : ~(k + 1 < i)
  OBVIOUS
<1>4. ~(Closes(s[k + 1], p) /\ Mallocs(s[k + 1], p))
  BY DEF Closes, Mallocs
<1>5. Mallocs(s[k + 1], p) => Shows(s, k + 1, p, s[k + 1].n)
  BY <1>1, <1>3 DEF Shows
<1>6. Closes(s[k + 1], p) => Hides(s, k + 1, p)
  BY <1>1, <1>2, <1>4 DEF Hides
<1>7. ~Mallocs(s[k + 1], p) /\ Hides(s, k, p) => Hides(s, k + 1, p)
  BY <1>1, <1>2 DEF Hides
<1>8. \A n : ~Mallocs(s[k + 1], p) /\ ~Closes(s[k + 1], p) /\ Shows(s, k, p, n)
             => Shows(s, k + 1, p, n)
  BY <1>1, <1>2 DEF Shows
<1> QED
  BY <1>5, <1>6, <1>7, <1>8

(* What the first events show stays so when others are appended. *)
LEMMA Extending ==
    ASSUME NEW s, NEW u, NEW k \in Nat, \A i \in 1 .. k : u[i] = s[i], NEW p
    PROVE  /\ Hides(u, k, p) <=> Hides(s, k, p)
           /\ \A n : Shows(u, k, p, n) <=> Shows(s, k, p, n)
BY DEF Hides, Shows

LEMMA AccountStep ==
    ASSUME TypeOK, OwnInv, CallInv, EarlyInv, AccountInv, TypeOK', EarlyInv',
           MainBefore \/ (\E t \in Threads : Step(t)) \/ UNCHANGED core
    PROVE  AccountInv'
<1>1. ASSUME Quiet PROVE AccountInv'
  BY <1>1 DEF Quiet, AccountInv
<1>2. ASSUME NEW e, Tells(e) PROVE AccountInv'
  <2> DEFINE k == Len(trace)
  <2>1. trace' = Append(trace, e) /\ heap' = heap /\ moved' = moved
    BY <1>2 DEF Tells
  <2>2. /\ k \in Nat /\ Len(trace') = k + 1 /\ trace'[k + 1] = e
        /\ \A i \in 1 .. k : trace'[i] = trace[i]
    BY <2>1 DEF TypeOK
  <2> HIDE DEF k
  <2>3. ASSUME NEW p \in Addrs \ moved
        PROVE  IF Told(p)' /\ heap[p].by = "malloc" THEN Shows(trace', k + 1, p, heap[p].n)
                                                    ELSE Hides(trace', k + 1, p)
    <3>1. IF Told(p) /\ heap[p].by = "malloc" THEN Shows(trace', k, p, heap[p].n)
                                              ELSE Hides(trace', k, p)
      <4>1. IF Told(p) /\ heap[p].by = "malloc" THEN Shows(trace, k, p, heap[p].n)
                                                ELSE Hides(trace, k, p)
        BY DEF AccountInv, k
      <4> QED
        BY <2>2, <4>1, Extending
    <3>2. CASE Mallocs(e, p)
      <4>1. Told(p)' /\ heap[p].by = "malloc" /\ heap[p].n = e.n
        BY <1>2, <3>2 DEF Tells, Mallocs, Opens
      <4> QED
        BY <2>2, <3>2, <4>1, OneMore
    <3>3. CASE Closes(e, p)
      <4>1. ~Told(p)'
        BY <1>2, <3>3 DEF Tells
      <4> QED
        BY <2>2, <3>3, <4>1, OneMore
    <3>4. CASE ~Mallocs(e, p) /\ ~Closes(e, p)
      <4>1. (Told(p)' /\ heap[p].by = "malloc") <=> (Told(p) /\ heap[p].by = "malloc")
        BY <1>2, <3>4 DEF Tells, Mallocs, Opens
      <4> QED
        BY <2>2, <3>1, <3>4, <4>1, OneMore
    <3> QED
      BY <3>2, <3>3, <3>4
  <2> QED
    BY <2>1, <2>2, <2>3 DEF AccountInv
<1>3. CASE MainBefore \/ UNCHANGED core
  BY <1>1, <1>3 DEF MainBefore, core, Told, UntoldBy, Quiet
<1>4. ASSUME NEW t \in Threads, Step(t) PROVE AccountInv'
  <2>1. CASE ~startSeen'
    <3>1. Len(trace') = 0 /\ \A p \in Addrs : Told(p)' => heap'[p].by # "malloc"
      BY <2>1 DEF EarlyInv, Told
    <3> QED
      BY <3>1 DEF AccountInv, Hides
  <2>2. CASE startSeen'
    BY <1>1, <1>2, <1>4, <2>2, OthersKept, Effects
  <2> QED
    BY <2>1, <2>2
<1> QED
  BY <1>3, <1>4

LEMMA ToolStep == TypeOK /\ TypeOK' /\ ToolInv /\ [Next]_vars => ToolInv'
<1> SUFFICES ASSUME TypeOK, TypeOK', ToolInv, [Next]_vars PROVE ToolInv'
  OBVIOUS
<1> USE HeapAssumption
<1>1. CASE UNCHANGED tool /\ ~ended /\ Len(trace) <= Len(trace')
  <2>1. pos = 0 /\ pos' = 0 /\ chunks' = chunks
    BY <1>1 DEF ToolInv, tool
  <2>2. \A p \in Addrs : chunks[p] = NoChunk
    BY <2>1 DEF ToolInv, Shows
  <2> QED
    BY <2>1, <2>2 DEF ToolInv, Hides
<1>2. CASE UNCHANGED <<trace, ended, tool>>
  BY <1>2 DEF ToolInv, tool
<1> DEFINE e == trace[pos + 1]
<1>3. ASSUME ended, pos < Len(trace), pos' = pos + 1, UNCHANGED <<trace, ended>>,
             \A p \in Addrs : chunks'[p] = IF Mallocs(e, p) THEN e.n
                                           ELSE IF Closes(e, p) THEN NoChunk ELSE chunks[p]
      PROVE  ToolInv'
  <2>1. pos \in Nat /\ e \in Events
    BY <1>3 DEF TypeOK
  <2>2. e.n # NoChunk
    BY <2>1 DEF Events
  <2>3. ASSUME NEW p \in Addrs
        PROVE  IF chunks'[p] = NoChunk THEN Hides(trace, pos + 1, p)
                                       ELSE Shows(trace, pos + 1, p, chunks'[p])
    <3>1. IF chunks[p] = NoChunk THEN Hides(trace, pos, p) ELSE Shows(trace, pos, p, chunks[p])
      BY DEF ToolInv
    <3> QED
      BY <1>3, <2>1, <2>2, <3>1, OneMore
  <2> QED
    BY <1>3, <2>3 DEF ToolInv
<1>4. CASE ReadMalloc \/ ReadFree \/ ReadCalloc
  <2>1. ended /\ pos < Len(trace) /\ pos' = pos + 1 /\ UNCHANGED <<trace, ended>> /\ e \in Events
    BY <1>4 DEF ReadMalloc, ReadFree, ReadCalloc, program, TypeOK
  <2>2. ASSUME NEW p \in Addrs
        PROVE  chunks'[p] = IF Mallocs(e, p) THEN e.n
                            ELSE IF Closes(e, p) THEN NoChunk ELSE chunks[p]
    BY <1>4, <2>1 DEF ReadMalloc, ReadFree, ReadCalloc, Mallocs, Closes, TypeOK, Events
  <2> QED
    BY <1>3, <2>1, <2>2
<1>5. CASE MainBefore \/ End
  BY <1>1, <1>5 DEF MainBefore, End, tool, TypeOK
<1>6. CASE \E t \in Threads : \/ Malloc(t) \/ MallocReturn(t) \/ Calloc(t) \/ CallocReturn(t)
                              \/ Realloc(t) \/ ReallocReturn(t) \/ Free(t) \/ FreeBefore(t)
                              \/ AllocatorFree(t)
  <2>1. UNCHANGED tool /\ ~ended
    BY <1>6 DEF Malloc, MallocReturn, Calloc, CallocReturn, Realloc, ReallocReturn, Free, FreeBefore, AllocatorFree
  <2>2. UNCHANGED <<pos, chunks>>
    BY <2>1 DEF tool
  <2>3. pos = 0 /\ \A p \in Addrs : chunks[p] = NoChunk
    BY <2>1 DEF ToolInv, Shows
  <2> QED
    BY <2>2, <2>3 DEF ToolInv, Hides
<1>7. CASE Done \/ UNCHANGED vars
  BY <1>2, <1>7 DEF Done, vars, program
<1> QED
  BY <1>4, <1>5, <1>6, <1>7 DEF Next

ToolIInv == IInv /\ OwnedInv /\ AccountInv /\ ToolInv

LEMMA ToolInvariant == Spec => []ToolIInv
<1>1. Init => ToolIInv
  <2> SUFFICES ASSUME Init PROVE ToolIInv
    OBVIOUS
  <2>1. OwnedInv /\ \A p \in Addrs : ~Told(p) /\ chunks[p] = NoChunk
    BY DEF Init, OwnedInv, Told, Carried
  <2>2. pos = 0 /\ Len(trace) = 0
    BY DEF Init
  <2>3. AccountInv /\ ToolInv
    BY <2>1, <2>2 DEF AccountInv, ToolInv, Hides
  <2> QED
    BY <2>1, <2>3, InvInit DEF ToolIInv
<1>2. ToolIInv /\ [Next]_vars => ToolIInv'
  <2> SUFFICES ASSUME ToolIInv, [Next]_vars PROVE ToolIInv'
    OBVIOUS
  <2>1. IInv' /\ (MainBefore \/ (\E t \in Threads : Step(t)) \/ UNCHANGED core)
    BY InvStep, Steps DEF ToolIInv, IInv
  <2>2. OwnedInv' /\ AccountInv' /\ ToolInv'
    BY <2>1, OwnedStep, AccountStep, ToolStep DEF ToolIInv, IInv
  <2> QED
    BY <2>1, <2>2 DEF ToolIInv
<1> QED
  BY <1>1, <1>2, PTL DEF Spec

(* When dump_heap1 has read the trace, its map is that of the chunks malloc*)
(* made and the program has not begun to free, but for addresses realloc   *)
(* had to do with, for any number of threads racing for them.              *)
THEOREM MapIsTheHeap == Spec => []ToolAgrees
<1>1. ToolIInv => ToolAgrees
  <2> SUFFICES ASSUME ToolIInv, Finished, NEW p \in Addrs \ moved
               PROVE  chunks[p] = IF p \in held \cup Unhooked /\ heap[p].by = "malloc"
                                    THEN heap[p].n ELSE NoChunk
    BY DEF ToolAgrees
  <2> USE DEF ToolIInv, IInv
  <2>1. Told(p) <=> p \in held \cup Unhooked
    <3>1. p \in held => Told(p)
      BY UntoldIsCarried DEF Told, OwnInv
    <3>2. ASSUME NEW t \in Threads, pc[t] = "free_before", p = call[t].p PROVE Told(p)
      <4>1. p \in Carried(t) /\ ~UntoldBy(t, p)
        BY <3>2 DEF Carried, Kept, CallInv, UntoldBy
      <4> QED
        BY <4>1, UntoldIsCarried DEF Told, OwnInv
    <3>3. ASSUME Told(p), p \notin held PROVE p \in Unhooked
      <4>1. PICK t \in Threads : p \in Carried(t)
        BY <3>3 DEF OwnedInv, Told
      <4>2. ~UntoldBy(t, p) /\ pc[t] # "app" /\ p = Kept(call[t])
        BY <3>3, <4>1 DEF Told, Carried
      <4>3. pc[t] # "answered"
        BY <4>1, <4>2 DEF OwnedInv, UntoldBy, Kept, CallInv
      <4>4. CASE pc[t] \in {"free_before", "freeing"}
        BY <4>2, <4>4 DEF Kept, CallInv, UntoldBy, Unhooked
      <4> QED
        BY <4>2, <4>3, <4>4 DEF TypeOK
    <3> QED
      BY <3>1, <3>2, <3>3 DEF Unhooked
  <2>2. IF Told(p) /\ heap[p].by = "malloc" THEN Shows(trace, Len(trace), p, heap[p].n)
                                            ELSE Hides(trace, Len(trace), p)
    BY DEF AccountInv
  <2>3. IF chunks[p] = NoChunk THEN Hides(trace, Len(trace), p)
                               ELSE Shows(trace, Len(trace), p, chunks[p])
    BY DEF ToolInv, Finished
  <2>4. \A n : ~(Shows(trace, Len(trace), p, n) /\ Hides(trace, Len(trace), p))
    BY DEF Shows, Hides
  <2>5. \A m, n : Shows(trace, Len(trace), p, m) /\ Shows(trace, Len(trace), p, n) => m = n
    <3> SUFFICES ASSUME NEW m, NEW n, Shows(trace, Len(trace), p, m), Shows(trace, Len(trace), p, n)
                 PROVE  m = n
      OBVIOUS
    <3>1. Len(trace) \in Nat
      BY DEF TypeOK
    <3> QED
      BY <3>1 DEF Shows
  <2> QED
    BY <2>1, <2>2, <2>3, <2>4, <2>5
<1> QED
  BY <1>1, ToolInvariant, PTL
=============================================================================
