----------------------------- MODULE TraceCode -----------------------------
(***************************************************************************)
(* Code that comes and goes (src/src/TraceModules.cpp,                     *)
(* TraceDisassembly.cpp, registered in ZTracer::Instrument): the events    *)
(* that tell which image is where and what its instructions are, while     *)
(* threads execute them and write their micro-event logs much later.       *)
(*                                                                         *)
(* Pin is external.  It holds one lock around the callbacks for images and *)
(* for new code, compiles a trace of instructions when a thread comes to   *)
(* one it has no code for, and drops the code of an image that is          *)
(* unloaded.  The analysis routines, and so the flushes of logs, run       *)
(* without that lock.  The traced program is a correct one: it does not    *)
(* unload an image one of its threads is in.                               *)
(*                                                                         *)
(* Events are written as in ZTracer.tla, with every thread's counter read  *)
(* on its own.  An instruction is its address and the image it was loaded  *)
(* from, which stands for its text; the log and a block in the trace keep  *)
(* the image as history, for the program logs the address alone.           *)
(***************************************************************************)
EXTENDS Integers, Sequences, FiniteSets, FiniteSetsExt, Functions

CONSTANTS Threads,      \* threads of the traced program
          Nobody,       \* holder of a free lock
          Addrs,        \* addresses of instructions
          Nowhere,      \* no address
          Spans,        \* the sets of addresses an image may be loaded at
          LogCapacity,  \* instructions in a log when it is flushed
          MaxLoads,     \* bound: images loaded
          MaxIns        \* bound: instructions all threads execute

ASSUME CodeAssumption ==
    /\ Nobody \notin Threads
    /\ Nowhere \notin Addrs
    /\ Spans \subseteq SUBSET Addrs
    /\ LogCapacity \in Nat \ {0}
    /\ {MaxLoads, MaxIns} \subseteq Nat

VARIABLES
    images,   \* images loaded so far; they are numbered as they come
    mapped,   \* mapped[a]: the image at address a, or 0
    cache,    \* cache[a]: the image whose code Pin has compiled for a, or 0
    pinLock,  \* Pin's lock around callbacks: its holder or Nobody
    outLock,  \* output_lock_: its holder or Nobody
    doing,    \* doing[t]: "running" the program, or what t writes an event for
    event,    \* event[t]: that event
    at,       \* at[t]: the instruction t has come to and not logged
    count,    \* count[t]: insCounter_
    log,      \* log[t]: the instructions in t's log
    trace     \* the events in the trace file

code    == <<images, mapped, cache>>
threads == <<at, count, log>>

vars == <<code, threads, pinLock, outLock, doing, event, trace>>

Kinds == {"mod_load", "mod_symbols", "mod_unload", "trace_disasm", "micro_event_log"}

NoEvent == [kind |-> "none"]

(* MakeEvent, with what the kinds tell: the image i, the addresses pcs.    *)
MakeEvent(t, kind, i, pcs) ==
    [kind |-> kind, tid |-> t, image |-> i, pcs |-> pcs, start |-> 0, ins |-> <<>>, refs |-> {}]

(* The event of a log. *)
LogEvent(t) == [MakeEvent(t, "micro_event_log", 0, {}) EXCEPT
                   !.start = count[t] - Len(log[t]), !.ins = log[t]]

Init ==
    /\ images = 0
    /\ mapped = [a \in Addrs |-> 0]
    /\ cache = [a \in Addrs |-> 0]
    /\ pinLock = Nobody
    /\ outLock = Nobody
    /\ doing = [t \in Threads |-> "running"]
    /\ event = [t \in Threads |-> NoEvent]
    /\ at = [t \in Threads |-> Nowhere]
    /\ count = [t \in Threads |-> 0]
    /\ log = [t \in Threads |-> <<>>]
    /\ trace = <<>>

(* The bound: nothing happens after the last instruction. *)
GoesOn == FoldFunction(+, 0, count) < MaxIns

Span(i) == {a \in Addrs : mapped[a] = i}

(* The images that are being unloaded. *)
Leaving == {event[t].image : t \in {u \in Threads : doing[u] = "unload"}}

(* Where the program may go next: not into an image it is about to unload. *)
ComesTo(t, a) ==
    /\ GoesOn
    /\ at[t] \in {Nowhere, a}
    /\ mapped[a] \notin {0} \cup Leaving

----------------------------------------------------------------------------
(* WriteEvent, of a callback or a flush. *)

Begin(t, what, e) ==
    /\ doing[t] = "running"
    /\ doing' = [doing EXCEPT ![t] = what]
    /\ event' = [event EXCEPT ![t] = e]

(* Begin in a callback, for which Pin takes its lock. *)
Callback(t, what, e) ==
    /\ Begin(t, what, e)
    /\ pinLock = Nobody
    /\ pinLock' = t
    /\ UNCHANGED <<count, log, outLock, trace>>

Referred(e) == {r.tid : r \in e.refs}

WithXref(e, u, n) == [e EXCEPT !.refs = @ \cup {[tid |-> u, next |-> n]}]

(* Mutant: the reference is to the start of the block being filled. *)
XrefToBlock(u) == count[u] - Len(log[u])

(* getNextInstructionIndex *)
Xref(u) == count[u]

(* The lock is taken; the writer's own counter, which stands still until   *)
(* the event is written, is read with it.                                  *)
GetOutputLock(t) ==
    /\ doing[t] # "running"
    /\ outLock = Nobody
    /\ outLock' = t
    /\ event' = [event EXCEPT ![t] = WithXref(@, t, Xref(t))]
    /\ UNCHANGED <<code, threads, pinLock, doing, trace>>

(* Another thread's counter is added to the event. *)
XrefThread(t) ==
    /\ outLock = t
    /\ \E u \in Threads \ Referred(event[t]) :
          event' = [event EXCEPT ![t] = WithXref(@, u, Xref(u))]
    /\ UNCHANGED <<code, threads, pinLock, outLock, doing, trace>>

(* The event goes out. *)
PutEvent(t, what) ==
    /\ outLock = t
    /\ doing[t] = what
    /\ Referred(event[t]) = Threads
    /\ trace' = Append(trace, event[t])
    /\ outLock' = Nobody

Run(t) == /\ doing' = [doing EXCEPT ![t] = "running"]
          /\ event' = [event EXCEPT ![t] = NoEvent]

(* The callback returns. *)
Return(t, what) == /\ PutEvent(t, what)
                   /\ Run(t)
                   /\ pinLock' = Nobody
                   /\ UNCHANGED threads

----------------------------------------------------------------------------
(* Images. *)

(* The program loads an image, ImgTraceModuleLoad is called. *)
LoadImage(t) ==
    \E s \in Spans :
        /\ images < MaxLoads
        /\ GoesOn
        /\ \A a \in s : mapped[a] = 0
        /\ images' = images + 1
        /\ mapped' = [a \in Addrs |-> IF a \in s THEN images' ELSE mapped[a]]
        /\ at[t] = Nowhere
        /\ Callback(t, "load", MakeEvent(t, "mod_load", images', s))
        /\ UNCHANGED <<cache, at>>

(* The image's event is written, that of its symbols comes next. *)
EndLoad(t) ==
    /\ PutEvent(t, "load")
    /\ doing' = [doing EXCEPT ![t] = "symbols"]
    /\ event' = [event EXCEPT ![t] = MakeEvent(t, "mod_symbols", event[t].image, {})]
    /\ UNCHANGED <<code, threads, pinLock>>

EndSymbols(t) == Return(t, "symbols") /\ UNCHANGED code

(* The program unloads image i, ImgTraceModuleUnload is called.            *)
UnloadImage(t) ==
    \E i \in 1 .. images :
        /\ Span(i) # {}
        /\ GoesOn
        /\ at[t] = Nowhere
        /\ \A u \in Threads : at[u] \notin Span(i)
        /\ Callback(t, "unload", MakeEvent(t, "mod_unload", i, {}))
        /\ UNCHANGED <<code, at>>

(* What goes with an image. *)
DropImage(i) ==
    /\ mapped' = [a \in Addrs |-> IF a \in Span(i) THEN 0 ELSE mapped[a]]
    /\ cache' = [a \in Addrs |-> IF a \in Span(i) THEN 0 ELSE cache[a]]
    /\ UNCHANGED images

(* Mutant: IMG_AddUnloadFunction is not called. *)
EndUnloadUntold(t) ==
    /\ doing[t] = "unload"
    /\ Run(t)
    /\ outLock' = IF outLock = t THEN Nobody ELSE outLock
    /\ pinLock' = Nobody
    /\ DropImage(event[t].image)
    /\ UNCHANGED <<threads, trace>>

EndUnload(t) == Return(t, "unload") /\ DropImage(event[t].image)

----------------------------------------------------------------------------
(* Instructions. *)

(* Mutant: the code can be run before TraceDisassembly has returned. *)
CompileFirst(t) ==
    \E a \in Addrs : \E s \in SUBSET Span(mapped[a]) :
        /\ ComesTo(t, a)
        /\ cache[a] = 0
        /\ a \in s
        /\ at' = [at EXCEPT ![t] = a]
        /\ Callback(t, "compile", MakeEvent(t, "trace_disasm", mapped[a], s))
        /\ cache' = [b \in Addrs |-> IF b \in s THEN mapped[a] ELSE cache[b]]
        /\ UNCHANGED <<images, mapped>>

(* A thread gets to an address there is no code for: Pin puts a trace of   *)
(* the image's instructions together, TraceMicroEvent and TraceDisassembly *)
(* are called for all of it.                                               *)
Compile(t) ==
    \E a \in Addrs : \E s \in SUBSET Span(mapped[a]) :
        /\ ComesTo(t, a)
        /\ cache[a] = 0
        /\ a \in s
        /\ at' = [at EXCEPT ![t] = a]
        /\ Callback(t, "compile", MakeEvent(t, "trace_disasm", mapped[a], s))
        /\ UNCHANGED code

(* The code can be run. *)
EndCompile(t) ==
    /\ Return(t, "compile")
    /\ cache' = [a \in Addrs |-> IF a \in event[t].pcs THEN event[t].image ELSE cache[a]]
    /\ UNCHANGED <<images, mapped>>

Ins(a) == [pc |-> a, image |-> cache[a]]

(* LogPC where there is room. *)
Execute(t) ==
    \E a \in Addrs :
        /\ doing[t] = "running"
        /\ ComesTo(t, a)
        /\ cache[a] # 0
        /\ Len(log[t]) < LogCapacity
        /\ log' = [log EXCEPT ![t] = Append(@, Ins(a))]
        /\ count' = [count EXCEPT ![t] = @ + 1]
        /\ at' = [at EXCEPT ![t] = Nowhere]
        /\ UNCHANGED <<code, pinLock, outLock, doing, event, trace>>

(* LogPC where there is none: the log is written first. *)
Flush(t) ==
    \E a \in Addrs :
        /\ ComesTo(t, a)
        /\ cache[a] # 0
        /\ Len(log[t]) = LogCapacity
        /\ at' = [at EXCEPT ![t] = a]
        /\ Begin(t, "flush", LogEvent(t))
        /\ UNCHANGED <<code, count, log, pinLock, outLock, trace>>

EndFlush(t) ==
    /\ PutEvent(t, "flush")
    /\ Run(t)
    /\ log' = [log EXCEPT ![t] = <<Ins(at[t])>>]
    /\ count' = [count EXCEPT ![t] = @ + 1]
    /\ at' = [at EXCEPT ![t] = Nowhere]
    /\ UNCHANGED <<code, pinLock>>

----------------------------------------------------------------------------
WriteEvent(t) == \/ GetOutputLock(t)
                 \/ XrefThread(t)
                 \/ EndLoad(t)
                 \/ EndSymbols(t)
                 \/ EndUnload(t)
                 \/ EndCompile(t)
                 \/ EndFlush(t)

Program(t) == \/ LoadImage(t)
              \/ UnloadImage(t)
              \/ Compile(t)
              \/ Execute(t)
              \/ Flush(t)

(* The program is in its own code, where it may stay or end. *)
Rest == (\A t \in Threads : doing[t] = "running") /\ UNCHANGED vars

Next == \/ \E t \in Threads : WriteEvent(t) \/ Program(t)
        \/ Rest

Spec == Init /\ [][Next]_vars

----------------------------------------------------------------------------
Instruction == [pc : Addrs, image : Nat]

Event == [kind : Kinds, tid : Threads, image : Nat, pcs : SUBSET Addrs, start : Nat,
          ins : Seq(Instruction), refs : SUBSET [tid : Threads, next : Nat]]

(* Every variable has its type; an event gets its references, from nobody  *)
(* twice, under the lock and not before, those of an image's second event  *)
(* too.                                                                    *)
TypeOK ==
    /\ images \in 0 .. MaxLoads
    /\ mapped \in [Addrs -> 0 .. images]
    /\ cache \in [Addrs -> 0 .. images]
    /\ {pinLock, outLock} \subseteq Threads \cup {Nobody}
    /\ doing \in [Threads -> {"running", "load", "symbols", "unload", "compile", "flush"}]
    /\ event \in [Threads -> Event \cup {NoEvent}]
    /\ \A t \in Threads : (doing[t] = "running") <=> (event[t] = NoEvent)
    /\ \A t \in Threads : doing[t] # "running" /\ outLock # t => event[t].refs = {}
    /\ at \in [Threads -> Addrs \cup {Nowhere}]
    /\ count \in [Threads -> Nat]
    /\ log \in [Threads -> Seq(Instruction)]
    /\ trace \in Seq(Event)

(* What t has executed: in blocks of the trace and in its log.             *)
Executed(t) ==
    UNION {{[n |-> e.start + k - 1, ins |-> e.ins[k]] : k \in DOMAIN e.ins} :
             e \in {trace[i] : i \in {j \in DOMAIN trace : trace[j].tid = t}} \cup {LogEvent(t)}}

(* The events before t's instruction n, as their references to t tell.     *)
Before(t, n) == {i \in DOMAIN trace : \E r \in trace[i].refs : r.tid = t /\ r.next <= n}

OfKind(I, kind) == {i \in I : trace[i].kind = kind}

(* A reader who has an instruction's number finds its text, however late   *)
(* the log was flushed and whatever has been loaded at its address since:  *)
(* it is what the last disassembly of the address tells among the events   *)
(* that refer to the thread at that number or an earlier one.              *)
XrefsDateTheCode ==
    \A t \in Threads : \A x \in Executed(t) :
        LET D == {i \in OfKind(Before(t, x.n), "trace_disasm") : x.ins.pc \in trace[i].pcs}
        IN  D # {} /\ trace[Max(D)].image = x.ins.image

Images(I, kind) == {trace[i].image : i \in OfKind(I, kind)}

(* The images that are there after the events I: loaded and not unloaded.  *)
Present(I) == Images(I, "mod_load") \ Images(I, "mod_unload")

(* Where an image is, as its event tells. *)
Place(i) == UNION {trace[j].pcs : j \in {k \in OfKind(DOMAIN trace, "mod_load") : trace[k].image = i}}

(* The same for images: among those events the instruction's image has     *)
(* been loaded, its symbols are told and it is the only one at the place.  *)
XrefsDateTheImage ==
    \A t \in Threads : \A x \in Executed(t) :
        LET I == Before(t, x.n)
        IN  /\ {i \in Present(I) : x.ins.pc \in Place(i)} = {x.ins.image}
            /\ x.ins.image \in Images(I, "mod_symbols")

(* A reader who takes images in and out as events come knows one image for *)
(* any address, and for any code disassembled the one it is from.          *)
ModuleMapTrue ==
    \A j \in DOMAIN trace :
        LET P == Present(1 .. j)
        IN  /\ \A i, k \in P : i # k => Place(i) \cap Place(k) = {}
            /\ trace[j].kind = "trace_disasm" =>
                  /\ trace[j].image \in P \cap Images(1 .. j, "mod_symbols")
                  /\ trace[j].pcs \subseteq Place(trace[j].image)
=============================================================================
