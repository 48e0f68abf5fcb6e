------------------------------ MODULE ZTracer ------------------------------
(***************************************************************************)
(* The tracer's core: the ZTracer object, the MicroEventLog of each thread *)
(* and the event stream they share (src/src/ZTracer.cpp, MicroEventLog.*,  *)
(* ThreadData.*, and main() in ZTraceMain.cpp).                            *)
(*                                                                         *)
(* Application threads and the process's own callbacks (main() before the  *)
(* program starts, OnFinish after it ends) are actors.  An actor's pc says *)
(* where in the tracer it is; between two accesses to what actors share    *)
(* any other actor may run, because Pin may suspend a thread anywhere in   *)
(* its instrumentation (doc/THREADING.txt:11).  The thread counters are    *)
(* taken as AtomicCounters, which InstructionCounter.tla is shown to be.   *)
(*                                                                         *)
(* Data are abstracted to what the properties tell apart: a micro-op is    *)
(* "pc" (an OP_NEWPC) or "op" (any other), a log's size is its number of   *)
(* micro-ops, and every event a thread writes through WriteEvent that is   *)
(* neither a log nor a thread's start or end is a "macro" event.           *)
(***************************************************************************)
EXTENDS Integers, Sequences, FiniteSets

CONSTANTS Threads,      \* Pin's THREADIDs, natural numbers
          Process,      \* the actor of main() and of OnFinish
          NoOne,        \* the value of a lock nobody holds
          LogCapacity,  \* MAX_LOG_SIZE, in micro-ops
          MinFree,      \* MIN_LOG_FREE_SPACE, in micro-ops
          MaxOps,       \* micro-ops of an instruction, its OP_NEWPC not counted
          XrefRange,    \* 2^32: what a cross reference's next_instruction holds
          MaxEventId,   \* 2^32 - 1: the last event number
          MaxIns,       \* bound: instructions a thread executes
          MaxMacro,     \* bound: macro events a thread writes
          MaxDumps      \* bound: writable memory regions

Actors == Threads \cup {Process}

ASSUME TracerAssumption ==
    /\ Threads \subseteq Nat
    /\ Process \notin Threads
    /\ NoOne \notin Threads \cup {Process}
    /\ LogCapacity \in Nat
    /\ MinFree \in 1 .. LogCapacity
    /\ MaxOps \in 0 .. (MinFree - 1)      \* MicroEventLog.h:11-13
    /\ XrefRange \in Nat \ {0}
    /\ MaxEventId \in Nat
    /\ {MaxIns, MaxMacro, MaxDumps} \subseteq Nat

VARIABLES
    pc,            \* pc[a]: where actor a is
    ret,           \* ret[a]: where a goes on when its WriteEvent returns
    msg,           \* msg[a]: the event a is writing
    cursor,        \* cursor[a]: WriteEvent's iterator over live_threads_
    outputLock,    \* output_lock_: its holder or NoOne
    stateLock,     \* thread_state_lock_: its holder or NoOne
    liveThreads,   \* live_threads_
    logPtr,        \* logPtr[t]: t's MicroEventLog pointer in thread-local data
    insCounter,    \* insCounter[t]: insCounter_
    insStart,      \* insStart[t]: insStart_
    log,           \* log[t]: the micro-ops in log_
    macros,        \* macros[t]: macro events written, for the bound
    dumps,         \* memory regions dumped, for the bound
    eventId,       \* event_id_
    streamOpen,    \* output_stream_.is_open()
    trace,         \* the events in the trace file
    aborted        \* the assertion in WriteEvent has failed

locks    == <<outputLock, stateLock>>
registry == <<liveThreads, logPtr>>
logs     == <<insCounter, insStart, log>>
bounds   == <<macros, dumps>>
output   == <<eventId, streamOpen, trace, aborted>>

vars == <<pc, ret, msg, cursor, locks, registry, logs, bounds, output>>

Kinds == {"trace_start", "thread_start", "micro_event_log", "macro", "thread_end",
          "memory_dump", "trace_end"}

NoEvent == [kind |-> "none"]

(* MakeEvent: the event is stamped with its author; its number and its     *)
(* cross references come in WriteEvent.                                    *)
MakeEvent(a, kind) ==
    [kind |-> kind, tid |-> a, id |-> 0, start |-> 0, ops |-> <<>>, xrefs |-> {}]

LogEvent(t) ==
    [MakeEvent(t, "micro_event_log") EXCEPT !.start = insStart[t], !.ops = log[t]]

Init ==
    /\ pc = [a \in Actors |-> IF a = Process THEN "main" ELSE "unborn"]
    /\ ret = [a \in Actors |-> "none"]
    /\ msg = [a \in Actors |-> NoEvent]
    /\ cursor = [a \in Actors |-> -1]
    /\ outputLock = NoOne
    /\ stateLock = NoOne
    /\ liveThreads = {}
    /\ logPtr = [t \in Threads |-> "null"]
    /\ insCounter = [t \in Threads |-> 0]
    /\ insStart = [t \in Threads |-> 0]
    /\ log = [t \in Threads |-> <<>>]
    /\ macros = [t \in Threads |-> 0]
    /\ dumps = 0
    /\ eventId = 0
    /\ streamOpen = FALSE
    /\ trace = <<>>
    /\ aborted = FALSE

(* The process is over: nobody takes another step. *)
Over == aborted \/ pc[Process] = "exited"

Goto(a, from, to) == /\ ~Over
                     /\ pc[a] = from
                     /\ pc' = [pc EXCEPT ![a] = to]

(* Actor a, at from, calls WriteEvent(event) and goes on at next. *)
Call(a, from, event, next) == /\ Goto(a, from, "get_output")
                              /\ msg' = [msg EXCEPT ![a] = event]
                              /\ ret' = [ret EXCEPT ![a] = next]
                              /\ UNCHANGED cursor

AcquireOutput(a) == outputLock = NoOne /\ outputLock' = a
AcquireState(a)  == stateLock = NoOne /\ stateLock' = a

----------------------------------------------------------------------------
(* WriteEvent, by any actor. *)

(* Mutant: the output lock is not taken. *)
GetOutputLockNot(a) ==
    /\ Goto(a, "get_output", "get_state")
    /\ UNCHANGED <<ret, msg, cursor, locks, registry, logs, bounds, output>>

GetOutputLock(a) ==
    /\ Goto(a, "get_output", "get_state")
    /\ AcquireOutput(a)
    /\ UNCHANGED <<ret, msg, cursor, stateLock, registry, logs, bounds, output>>

GetStateLock(a) ==
    /\ Goto(a, "get_state", "xref")
    /\ AcquireState(a)
    /\ UNCHANGED <<ret, msg, cursor, outputLock, registry, logs, bounds, output>>

(* Mutant: the reference is to the start of the block being filled. *)
XrefToBlock(t) == [tid |-> t, next |-> insStart[t] % XrefRange]

(* What the loop adds for thread t: its counter, read through the pointer  *)
(* in t's thread-local data and stored in a field of XrefRange values.     *)
Xref(t) == [tid |-> t, next |-> insCounter[t] % XrefRange]

(* The next live thread the iterator comes to: a std::set ascends. *)
IsNextLive(a, t) == /\ t \in liveThreads
                    /\ cursor[a] < t
                    /\ \A u \in liveThreads : cursor[a] < u => t <= u

(* Mutant: an event does not refer to the thread that writes it. *)
XrefThreadButSelf(a) ==
    /\ ~Over
    /\ pc[a] = "xref"
    /\ \E t \in Threads :
          /\ IsNextLive(a, t)
          /\ cursor' = [cursor EXCEPT ![a] = t]
          /\ msg' = [msg EXCEPT ![a].xrefs = IF t = a THEN @ ELSE @ \cup {Xref(t)}]
    /\ UNCHANGED <<pc, ret, locks, registry, logs, bounds, output>>

(* Mutant: the iterator is not advanced. *)
XrefThreadForever(a) ==
    /\ ~Over
    /\ pc[a] = "xref"
    /\ \E t \in Threads :
          /\ IsNextLive(a, t)
          /\ msg' = [msg EXCEPT ![a].xrefs = @ \cup {Xref(t)}]
    /\ UNCHANGED <<pc, ret, cursor, locks, registry, logs, bounds, output>>

XrefThread(a) ==
    /\ ~Over
    /\ pc[a] = "xref"
    /\ \E t \in Threads :
          /\ IsNextLive(a, t)
          /\ cursor' = [cursor EXCEPT ![a] = t]
          /\ msg' = [msg EXCEPT ![a].xrefs = @ \cup {Xref(t)}]
    /\ UNCHANGED <<pc, ret, locks, registry, logs, bounds, output>>

PutStateLock(a) ==
    /\ \A t \in liveThreads : t <= cursor[a]
    /\ Goto(a, "xref", "stamp")
    /\ stateLock' = NoOne
    /\ cursor' = [cursor EXCEPT ![a] = -1]
    /\ UNCHANGED <<ret, msg, outputLock, registry, logs, bounds, output>>

(* Mutant: the output lock is let go when the event has its number. *)
StampEventUnlocking(a) ==
    /\ eventId < MaxEventId
    /\ Goto(a, "stamp", "write")
    /\ msg' = [msg EXCEPT ![a].id = eventId]
    /\ eventId' = eventId + 1
    /\ outputLock' = NoOne
    /\ UNCHANGED <<ret, cursor, stateLock, registry, logs, bounds, streamOpen, trace, aborted>>

(* Mutant: the limit of event numbers is not checked. *)
StampEventUnchecked(a) ==
    /\ Goto(a, "stamp", "write")
    /\ msg' = [msg EXCEPT ![a].id = eventId]
    /\ eventId' = eventId + 1
    /\ UNCHANGED <<ret, cursor, locks, registry, logs, bounds, streamOpen, trace, aborted>>

(* The number is stored in the event, then the limit is asserted. *)
StampEvent(a) ==
    /\ eventId < MaxEventId
    /\ Goto(a, "stamp", "write")
    /\ msg' = [msg EXCEPT ![a].id = eventId]
    /\ eventId' = eventId + 1
    /\ UNCHANGED <<ret, cursor, locks, registry, logs, bounds, streamOpen, trace, aborted>>

AbortAtLimit(a) ==
    /\ ~Over
    /\ eventId = MaxEventId
    /\ pc[a] = "stamp"
    /\ msg' = [msg EXCEPT ![a].id = eventId]
    /\ aborted' = TRUE
    /\ UNCHANGED <<pc, ret, cursor, locks, registry, logs, bounds, eventId, streamOpen, trace>>

(* WriteEventUnlocked; a stream that is not open swallows what it is given. *)
WriteEventUnlocked(a) ==
    /\ Goto(a, "write", "put_output")
    /\ trace' = IF streamOpen THEN Append(trace, msg[a]) ELSE trace
    /\ msg' = [msg EXCEPT ![a] = NoEvent]
    /\ UNCHANGED <<ret, cursor, locks, registry, logs, bounds, eventId, streamOpen, aborted>>

PutOutputLock(a) ==
    /\ Goto(a, "put_output", ret[a])
    /\ ret' = [ret EXCEPT ![a] = "none"]
    /\ outputLock' = NoOne
    /\ UNCHANGED <<msg, cursor, stateLock, registry, logs, bounds, output>>

WriteEvent(a) == \/ GetOutputLock(a)
                 \/ GetStateLock(a)
                 \/ XrefThread(a)
                 \/ PutStateLock(a)
                 \/ StampEvent(a)
                 \/ AbortAtLimit(a)
                 \/ WriteEventUnlocked(a)
                 \/ PutOutputLock(a)

----------------------------------------------------------------------------
(* An application thread: Pin's thread callbacks and the analysis routines *)
(* that the instrumentation calls.                                         *)

Finished(t) == pc[t] \in {"unborn", "ended"}

(* OnThreadStart of the first thread or of one that a running thread made. *)
StartThread(t) ==
    /\ pc[Process] = "running"
    /\ (\A u \in Threads : pc[u] = "unborn") \/ (\E u \in Threads : ~Finished(u))
    /\ Goto(t, "unborn", "start_new")
    /\ AcquireState(t)
    /\ UNCHANGED <<ret, msg, cursor, outputLock, registry, logs, bounds, output>>

(* new MicroEventLog, SetMicroEventLog *)
StartNewLog(t) ==
    /\ Goto(t, "start_new", "start_insert")
    /\ logPtr' = [logPtr EXCEPT ![t] = "valid"]
    /\ insCounter' = [insCounter EXCEPT ![t] = 0]
    /\ insStart' = [insStart EXCEPT ![t] = 0]
    /\ log' = [log EXCEPT ![t] = <<>>]
    /\ UNCHANGED <<ret, msg, cursor, locks, liveThreads, bounds, output>>

StartInsert(t) ==
    /\ Goto(t, "start_insert", "start_unlock")
    /\ liveThreads' = liveThreads \cup {t}
    /\ UNCHANGED <<ret, msg, cursor, locks, logPtr, logs, bounds, output>>

(* Mutant: thread_start is written under the state lock. *)
StartUnlockNot(t) ==
    /\ Call(t, "start_unlock", MakeEvent(t, "thread_start"), "run")
    /\ UNCHANGED <<locks, registry, logs, bounds, output>>

StartUnlock(t) ==
    /\ stateLock' = NoOne
    /\ Call(t, "start_unlock", MakeEvent(t, "thread_start"), "run")
    /\ UNCHANGED <<outputLock, registry, logs, bounds, output>>

(* Mutant: the space is compared off by one. *)
LogPCOffByOne(t) ==
    /\ insCounter[t] < MaxIns
    /\ IF LogCapacity - Len(log[t]) < MinFree - 1
         THEN Call(t, "run", LogEvent(t), "flushed")
         ELSE Goto(t, "run", "count") /\ UNCHANGED <<ret, msg, cursor>>
    /\ UNCHANGED <<locks, registry, logs, bounds, output>>

(* logPC up to the end of CheckFlush: a log with too little space left for *)
(* another instruction is flushed first.                                   *)
LogPC(t) ==
    /\ insCounter[t] < MaxIns
    /\ IF LogCapacity - Len(log[t]) < MinFree
         THEN Call(t, "run", LogEvent(t), "flushed")
         ELSE Goto(t, "run", "count") /\ UNCHANGED <<ret, msg, cursor>>
    /\ UNCHANGED <<locks, registry, logs, bounds, output>>

(* Mutant: a flush leaves the start of the block where it was. *)
ResetLogOnly(t) ==
    /\ log' = [log EXCEPT ![t] = <<>>]
    /\ UNCHANGED <<insStart, insCounter>>

(* Mutant: a flush starts the counter again. *)
ResetLogAndCounter(t) ==
    /\ insStart' = [insStart EXCEPT ![t] = insCounter[t]]
    /\ log' = [log EXCEPT ![t] = <<>>]
    /\ insCounter' = [insCounter EXCEPT ![t] = 0]

(* The rest of Flush, after its WriteEvent. *)
ResetLog(t) ==
    /\ insStart' = [insStart EXCEPT ![t] = insCounter[t]]
    /\ log' = [log EXCEPT ![t] = <<>>]
    /\ UNCHANGED insCounter

CheckFlushEnd(t) ==
    /\ Goto(t, "flushed", "count")
    /\ ResetLog(t)
    /\ UNCHANGED <<ret, msg, cursor, locks, registry, bounds, output>>

(* The rest of logPC: the counter, then the OP_NEWPC. *)
CountPC(t) ==
    /\ Goto(t, "count", "ops")
    /\ insCounter' = [insCounter EXCEPT ![t] = @ + 1]
    /\ log' = [log EXCEPT ![t] = Append(@, "pc")]
    /\ UNCHANGED <<ret, msg, cursor, locks, registry, insStart, bounds, output>>

(* logMemoryRead, logMemoryWrite, logCall, logRet for the instruction whose *)
(* OP_NEWPC is in the log.                                                  *)
LogOps(t) ==
    /\ Goto(t, "ops", "run")
    /\ \E n \in 0 .. MaxOps : log' = [log EXCEPT ![t] = @ \o [i \in 1 .. n |-> "op"]]
    /\ UNCHANGED <<ret, msg, cursor, locks, registry, insCounter, insStart, bounds, output>>

(* Mutant: a macro event flushes the log, the approach doc/THREADING.txt:8-9*)
(* gave up.                                                                 *)
MacroEventFlushing(t) ==
    /\ pc[t] \in {"run", "ops"}
    /\ macros[t] < MaxMacro
    /\ Call(t, pc[t], LogEvent(t), pc[t])
    /\ ResetLog(t)
    /\ macros' = [macros EXCEPT ![t] = @ + 1]
    /\ UNCHANGED <<locks, registry, dumps, output>>

(* A macro event: an allocation, a module, a disassembled block.  Analysis *)
(* routines of an instruction run one after another, so one may write an   *)
(* event when the micro-ops of the instruction are not all logged.         *)
MacroEvent(t) ==
    /\ pc[t] \in {"run", "ops"}
    /\ macros[t] < MaxMacro
    /\ Call(t, pc[t], MakeEvent(t, "macro"), pc[t])
    /\ macros' = [macros EXCEPT ![t] = @ + 1]
    /\ UNCHANGED <<locks, registry, logs, dumps, output>>

(* OnThreadFinish: Flush, then the log is destroyed under the state lock. *)
FinishThread(t) ==
    /\ Call(t, "run", LogEvent(t), "last_flushed")
    /\ UNCHANGED <<locks, registry, logs, bounds, output>>

FinishFlushEnd(t) ==
    /\ Goto(t, "last_flushed", "finish_lock")
    /\ ResetLog(t)
    /\ UNCHANGED <<ret, msg, cursor, locks, registry, bounds, output>>

(* Mutant: the log is destroyed without the state lock. *)
FinishLockNot(t) ==
    /\ Goto(t, "finish_lock", "finish_delete")
    /\ UNCHANGED <<ret, msg, cursor, locks, registry, logs, bounds, output>>

FinishLock(t) ==
    /\ Goto(t, "finish_lock", "finish_delete")
    /\ AcquireState(t)
    /\ UNCHANGED <<ret, msg, cursor, outputLock, registry, logs, bounds, output>>

FinishDelete(t) ==
    /\ Goto(t, "finish_delete", "finish_erase")
    /\ logPtr' = [logPtr EXCEPT ![t] = "dangling"]
    /\ UNCHANGED <<ret, msg, cursor, locks, liveThreads, logs, bounds, output>>

FinishErase(t) ==
    /\ Goto(t, "finish_erase", "finish_unlock")
    /\ liveThreads' = liveThreads \ {t}
    /\ logPtr' = [logPtr EXCEPT ![t] = "null"]
    /\ UNCHANGED <<ret, msg, cursor, locks, logs, bounds, output>>

FinishUnlock(t) ==
    /\ stateLock' = NoOne
    /\ Call(t, "finish_unlock", MakeEvent(t, "thread_end"), "ended")
    /\ UNCHANGED <<outputLock, registry, logs, bounds, output>>

Callback(t) == \/ StartNewLog(t)
               \/ StartInsert(t)
               \/ StartUnlock(t)
               \/ CheckFlushEnd(t)
               \/ CountPC(t)
               \/ LogOps(t)
               \/ FinishFlushEnd(t)
               \/ FinishLock(t)
               \/ FinishDelete(t)
               \/ FinishErase(t)
               \/ FinishUnlock(t)

(* What the application decides: when a thread starts, executes its next   *)
(* instruction, does something worth an event, and exits.                  *)
Application(t) == \/ StartThread(t)
                  \/ LogPC(t)
                  \/ MacroEvent(t)
                  \/ FinishThread(t)

----------------------------------------------------------------------------
(* main() and OnFinish. *)

OpenLog ==
    /\ streamOpen' = TRUE
    /\ Call(Process, "main", MakeEvent(Process, "trace_start"), "instrument")
    /\ UNCHANGED <<locks, registry, logs, bounds, eventId, trace, aborted>>

OpenLogFails ==
    /\ Goto(Process, "main", "exited")
    /\ UNCHANGED <<ret, msg, cursor, locks, registry, logs, bounds, output>>

(* Instrument(), PIN_StartProgram() *)
StartProgram ==
    /\ Goto(Process, "instrument", "running")
    /\ UNCHANGED <<ret, msg, cursor, locks, registry, logs, bounds, output>>

(* Pin calls the fini callback when the threads that were started have run *)
(* their own.                                                              *)
OnFinish ==
    /\ \A t \in Threads : Finished(t)
    /\ \E t \in Threads : pc[t] = "ended"
    /\ Goto(Process, "running", "dumping")
    /\ UNCHANGED <<ret, msg, cursor, locks, registry, logs, bounds, output>>

DumpMemoryRegion ==
    /\ dumps < MaxDumps
    /\ Call(Process, "dumping", MakeEvent(Process, "memory_dump"), "dumping")
    /\ dumps' = dumps + 1
    /\ UNCHANGED <<locks, registry, logs, macros, output>>

(* Mutant: the trace is ended before the memory is dumped. *)
CloseLogFirst ==
    /\ streamOpen
    /\ Call(Process, "dumping", MakeEvent(Process, "trace_end"),
            IF dumps < MaxDumps THEN "dumping" ELSE "closing")
    /\ UNCHANGED <<locks, registry, logs, bounds, output>>

(* No region left, or no memory map to be had. *)
CloseLog ==
    /\ streamOpen
    /\ Call(Process, "dumping", MakeEvent(Process, "trace_end"), "closing")
    /\ UNCHANGED <<locks, registry, logs, bounds, output>>

(* Mutant: the stream is left open. *)
CloseStreamNot ==
    /\ Goto(Process, "closing", "exited")
    /\ UNCHANGED <<ret, msg, cursor, locks, registry, logs, bounds, output>>

CloseStream ==
    /\ Goto(Process, "closing", "exited")
    /\ streamOpen' = FALSE
    /\ UNCHANGED <<ret, msg, cursor, locks, registry, logs, bounds, eventId, trace, aborted>>

ProcessStep == \/ StartProgram
               \/ OnFinish
               \/ DumpMemoryRegion
               \/ CloseLog
               \/ CloseStream

----------------------------------------------------------------------------
(* The process is gone. *)
Terminated == Over /\ UNCHANGED vars

Next == \/ OpenLog
        \/ OpenLogFails
        \/ ProcessStep
        \/ \E a \in Actors : WriteEvent(a)
        \/ \E t \in Threads : Callback(t) \/ Application(t)
        \/ Terminated

(* A thread inside the tracer keeps running, and so does the process once  *)
(* it has ended.  Whether the application goes on is the application's     *)
(* business, and a lock only promises that somebody gets it.               *)
Fairness == /\ \A a \in Actors : WF_vars(WriteEvent(a))
            /\ \A t \in Threads : WF_vars(Callback(t))
            /\ WF_vars(ProcessStep)

Spec == Init /\ [][Next]_vars /\ Fairness

----------------------------------------------------------------------------
WritePCs == {"get_output", "get_state", "xref", "stamp", "write", "put_output"}

ThreadPCs == WritePCs \cup
    {"unborn", "start_new", "start_insert", "start_unlock", "run", "flushed",
     "count", "ops", "last_flushed", "finish_lock", "finish_delete",
     "finish_erase", "finish_unlock", "ended"}

ProcessPCs == WritePCs \cup
    {"main", "instrument", "running", "dumping", "closing", "exited"}

ThreadRets  == {"run", "ops", "flushed", "last_flushed", "ended"}
ProcessRets == {"instrument", "dumping", "closing"}

MicroOps == {"pc", "op"}

Event == [kind : Kinds, tid : Actors, id : Nat, start : Nat, ops : Seq(MicroOps),
          xrefs : SUBSET [tid : Threads, next : Nat]]

PCsOf(a)  == IF a = Process THEN ProcessPCs ELSE ThreadPCs
RetsOf(a) == IF a = Process THEN ProcessRets ELSE ThreadRets

(* From the call of WriteEvent on an actor has a place to go on at, and up *)
(* to the write it has an event to write.                                  *)
ControlOK ==
    /\ pc \in [Actors -> ThreadPCs \cup ProcessPCs]
    /\ ret \in [Actors -> {"none"} \cup ThreadRets \cup ProcessRets]
    /\ msg \in [Actors -> Event \cup {NoEvent}]
    /\ \A a \in Actors : /\ pc[a] \in PCsOf(a)
                         /\ pc[a] \in WritePCs => ret[a] \in RetsOf(a)
                         /\ pc[a] \in WritePCs \ {"put_output"} => msg[a] \in Event

SharedOK ==
    /\ cursor \in [Actors -> Threads \cup {-1}]
    /\ outputLock \in Actors \cup {NoOne}
    /\ stateLock \in Actors \cup {NoOne}
    /\ liveThreads \subseteq Threads
    /\ logPtr \in [Threads -> {"null", "valid", "dangling"}]

LogsOK ==
    /\ insCounter \in [Threads -> Nat]
    /\ insStart \in [Threads -> Nat]
    /\ log \in [Threads -> Seq(MicroOps)]
    /\ macros \in [Threads -> Nat]
    /\ dumps \in Nat

OutputOK ==
    /\ eventId \in 0 .. MaxEventId
    /\ streamOpen \in BOOLEAN
    /\ trace \in Seq(Event)
    /\ aborted \in BOOLEAN

(* Every variable has its type, and nobody is in WriteEvent without an     *)
(* event to write and a place to return to.                                *)
TypeOK == ControlOK /\ SharedOK /\ LogsOK /\ OutputOK

----------------------------------------------------------------------------
(* Safety of the shared state. *)

(* The two writes an event is made of (its size, then its bytes) are never *)
(* mixed with another's: one actor at a time is between stamping an event  *)
(* and having written it.                                                  *)
OneWriter == \A a, b \in Actors :
    pc[a] \in {"stamp", "write"} /\ pc[b] \in {"stamp", "write"} => a = b

(* The file holds the events in the order of their numbers, none missing   *)
(* and none twice, whichever threads wrote them: what event_at(n) of the   *)
(* trace readers relies on.                                                *)
NumberedInOrder == \A i \in DOMAIN trace : trace[i].id = i - 1

(* A MicroEventLog is not read after it was deleted, or before it was made:*)
(* whenever an event's loop over the live threads comes to a thread, that  *)
(* thread's pointer is good, although threads start and finish meanwhile.  *)
NoDanglingLog ==
    \A a \in Actors, t \in Threads :
        pc[a] = "xref" /\ IsNextLive(a, t) => logPtr[t] = "valid"

(* Nobody waits for the output lock while holding the state lock, which    *)
(* every holder of the output lock comes to want.                          *)
LockOrder == \A a \in Actors : pc[a] = "get_output" => stateLock # a

(* The byte buffer never outgrows the size it was reserved with: the space *)
(* CheckFlush leaves is enough for any instruction.                        *)
LogFits == \A t \in Threads : Len(log[t]) <= LogCapacity

----------------------------------------------------------------------------
(* What the trace says about the threads. *)

At(kind, t)    == {i \in DOMAIN trace : trace[i].kind = kind /\ trace[i].tid = t}
Blocks(t)      == At("micro_event_log", t)
PCs(ops)       == Cardinality({i \in DOMAIN ops : ops[i] = "pc"})
BlockEnd(i)    == trace[i].start + PCs(trace[i].ops)
XrefsTo(i, t)  == {x \in trace[i].xrefs : x.tid = t}

(* An event refers to a thread at most once, to every thread between its   *)
(* thread_start and its last log, and to none from its thread_end on.      *)
XrefsCoverLifetimes ==
    \A t \in Threads, i \in DOMAIN trace :
        /\ Cardinality(XrefsTo(i, t)) <= 1
        /\ (\E s \in At("thread_start", t), f \in Blocks(t) : s <= i /\ i <= f)
               => XrefsTo(i, t) # {}
        /\ (\E e \in At("thread_end", t) : e <= i) => XrefsTo(i, t) = {}

(* In the order of the file, the references to a thread never go back. *)
XrefsMonotone ==
    \A i, j \in DOMAIN trace : i < j =>
        \A x \in trace[i].xrefs, y \in trace[j].xrefs : x.tid = y.tid => x.next <= y.next

(* The two streams agree on where a thread was (doc/THREADING.txt:42-44):  *)
(* an event written before a block of a thread's instructions refers to at *)
(* most the instruction the block ends with, one written after it to at    *)
(* least that, and the block itself to exactly that.                       *)
XrefsPlaceEvents ==
    \A t \in Threads : \A b \in Blocks(t), i \in DOMAIN trace : \A x \in XrefsTo(i, t) :
        /\ i <= b => x.next <= BlockEnd(b)
        /\ i >= b => x.next >= BlockEnd(b)

(* A block starts with an OP_NEWPC: "analysis tools don't have to track    *)
(* micro-ops across multiple event records" (MicroEventLog.h:50-52).       *)
InstructionsWhole ==
    \A t \in Threads : \A b \in Blocks(t) :
        trace[b].ops # <<>> => trace[b].ops[1] = "pc"

(* A thread's blocks tile its execution: each starts where the one before  *)
(* it ended, and when the thread has ended the last one ends with its last *)
(* instruction.                                                            *)
BlocksTile ==
    \A t \in Threads : \A b \in Blocks(t) :
        LET earlier == {c \in Blocks(t) : c < b}
            later   == {c \in Blocks(t) : c > b}
        IN  /\ earlier = {} => trace[b].start = 0
            /\ earlier # {} => \E c \in earlier : BlockEnd(c) = trace[b].start
            /\ At("thread_end", t) # {} /\ later = {} => BlockEnd(b) = insCounter[t]

(* The trace as EventStream sees it: its events, ... *)
StreamEvents == [i \in DOMAIN trace |-> [kind |-> trace[i].kind, tid |-> trace[i].tid]]

(* ... how far it has come, by its last event, ... *)
StreamPhase ==
    IF trace = <<>> THEN "none"
    ELSE CASE trace[Len(trace)].kind = "trace_end"   -> "ended"
           [] trace[Len(trace)].kind = "memory_dump" -> "dumping"
           [] OTHER                                  -> "tracing"

(* ... and its threads. *)
StreamStage ==
    [t \in Threads |-> IF At("thread_end", t) # {} THEN "ended"
                      ELSE IF At("thread_start", t) # {} THEN "live"
                      ELSE "unseen"]

Stream == INSTANCE EventStream WITH
    events <- StreamEvents, phase <- StreamPhase, stage <- StreamStage

(* The file is an event stream: trace_start first, every thread's events   *)
(* between its thread_start and thread_end, dumps and trace_end last.      *)
IsEventStream == Stream!Spec

(* An event that an actor sets out to write is written, unless the process *)
(* is over before.                                                         *)
WritesComplete == \A a \in Actors :
    (pc[a] = "get_output") ~> (pc[a] \notin WritePCs \/ Over)

(* A program that ends leaves a closed trace. *)
TraceCloses == (pc[Process] = "dumping") ~> (Over /\ (aborted \/ ~streamOpen))
=============================================================================
