# A TLA+ model of ztracer

ztracer is a Pin tool. It runs inside the traced program, is called at every
instruction, at every allocation, image load, thread start and thread exit, and
writes what it sees to one file, `run.trace.<pid>`. Offline tools (Python, in
`src/src/tools/ztrace` and `src/src/oldtools`) read the file back. What a file
says is only worth something if the events of all threads are whole, numbered,
in order, and placed correctly in each thread's stream of instructions. That is
what this project states and checks.

Paths below are relative to the repository's `src/`.

## Inventory

| Component (source) | State | Operations | Interacts with |
|---|---|---|---|
| InstructionCounter (`src/InstructionCounter.h`) | two 32-bit words, a lock | `inc`, `read` | incremented by its thread without the lock, read by whichever thread writes an event |
| MicroEventLog (`src/MicroEventLog.*`, `ByteSink.h`) | byte buffer, start of the current block, counter, OS thread id | `logPC`, `log*`, `CheckFlush`, `Flush` | its own thread only, except counter and id, which `WriteEvent` reads |
| ThreadData (`src/ThreadData.*`) | thread-local pointer to the log | set, get | set by thread start and finish, read by every `WriteEvent` |
| ZTracer (`src/ZTracer.*`, `ZTraceMain.cpp`) | output lock, thread state lock, event number, stream, set of live threads | `OpenLog`, `WriteEvent`, `OnThreadStart`, `OnThreadFinish`, `OnFinish`, `CloseLog` | called by Pin and by every tracer of events |
| TraceMicroEvent (`src/TraceMicroEvent.cpp`) | captured write address per thread | the analysis calls of each instruction | calls MicroEventLog |
| TraceMalloc (`src/TraceMalloc.cpp`) | "main has started" flag | one event per allocator call | calls `WriteEvent` |
| TraceModules, TraceDisassembly | none | events of images and of disassembled code | called by Pin under its own lock, call `WriteEvent` |
| MemoryMap (`src/MemoryMap.*`, `DumpAllWritableMemory`) | the locals of one scan | parses `/proc/self/maps`, dumps regions | called by `OnFinish` |
| Readers and codec (`src/tools/ztrace`) | file position | events by number, micro-ops, instructions | read the file |
| Old tools (`src/oldtools`) | shadow stacks, heap map | analyses | read the file |
| Process life | file name, inherited descriptors and locks | fork, exec, exit | the operating system |

What is hard here, and a test hardly reaches (the full list, with lines, is
`hazards` in `PROJECT.json`):

* a counter that is incremented without its lock and read by other threads, on
  a path that differs once in 2^32 increments;
* threads that start, flush, finish and delete their log while another thread's
  `WriteEvent` walks over all live threads' logs;
* three levels of locks (output, thread state, counter);
* two streams, events and micro-ops, that are written at different times and are
  only tied together by instruction indexes (`doc/THREADING.txt`, approach 3);
* a buffer whose only bound is a check before each instruction;
* an address saved before an instruction and used after it, with faults, handlers
  and other threads' `munmap` in between;
* code and images that are replaced while instructions executed from them are
  still in unflushed logs;
* a scan with `fscanf` that does not know where a line ends;
* limits (2^32 events, 32-bit references to a 64-bit index), kills, fork, exec.

What makes each component correct:

* **InstructionCounter**: a read is a value the counter had during the read.
* **ZTracer**: one writer at a time, events numbered in file order, no use of a
  deleted log, no deadlock, every begun event gets written, the file is
  trace_start ... trace_end with every thread's events bracketed.
* **MicroEventLog**: blocks tile a thread's execution and hold whole
  instructions; the references of all events are consistent with the blocks.
* **TraceMalloc / dump_heap1**: the order of events is an order the allocator
  could have had, and the tool's map is the allocator's.
* **TraceMicroEvent**: every pass through an instruction logs one OP_NEWPC and what
  the instruction did, at the address it did it, in the space kept free.
* **TraceModules, TraceDisassembly**: with the cross references a reader finds
  the code and the image an instruction was executed from.
* **MemoryMap**: what is read is the map's regions, every writable one of them is
  dumped whole, and the trace gets closed.
* **Codec and readers**: decoding undoes encoding; a file cut short yields its
  whole events, in order.
* **Process life**: a file that one process wrote is that process's trace.

## Modules

| Module | What it is |
|---|---|
| `AtomicCounter` | what the counter promises: a number, incremented and read atomically |
| `InstructionCounter` | the two words and the lock; one step is one access to a word or the lock |
| `MCInstructionCounter` | its instance for TLC |
| `InstructionCounterProofs` | theorems about it |
| `EventStream` | what a trace file promises: the grammar of the event stream |
| `ZTracer` | the tracer's core: `WriteEvent`, thread registry, logs, process callbacks |
| `MCZTracer` | its instance for TLC, with four configurations |
| `ZTracerProofs` | theorems about it, about what its trace says (blocks and references), and that it implements `EventStream` |
| `Heap` | allocator calls, their events, and `dump_heap1.py` as the events' reader |
| `MCHeap` | its instance for TLC, with two configurations |
| `HeapProofs` | theorems about it |
| `TraceMicroEvent` | the analysis calls of instructions, and threads that execute them |
| `MCTraceMicroEvent` | its instance for TLC, a program of six instructions |
| `TraceMicroEventProofs` | theorems about it |
| `TraceCode` | images and disassembled code coming and going, and what a reader makes of it |
| `MCTraceCode` | its instance for TLC |
| `TraceCodeProofs` | theorems about it |
| `MemoryMap` | the scan of `/proc/self/maps`, the dump of regions, the end of the trace |
| `MCMemoryMap` | its instance for TLC, with the set of maps |
| `MemoryMapProofs` | theorems about it |
| `TraceProcess` | fork, exec, exit and kill over trace files that processes share |
| `MCTraceProcess` | its instance for TLC |
| `TraceProcessProofs` | theorems about it |
| `TraceFile` | the stream's buffer, a kill at any time, and `TraceFileReader` |
| `MCTraceFile` | its instance for TLC |
| `MicroOps` | the binary form of micro-ops, their decoder, `split_stream`, and the encoder for the database |
| `MCMicroOps` | its instance for TLC |
| `ReaderProofs` | theorems about `TraceFile` and `MicroOps` |

How they fit together: `InstructionCounter` implements `AtomicCounter`, which is
what `ZTracer` takes the counter for. `ZTracer` implements `EventStream` (run and theorem) and shows
that an event is written whole and in order, which is why `Heap` writes one in one
step, why `TraceFile` has a single writer, and why `TraceCode` and `TraceProcess`
keep of `WriteEvent` only the output lock and what their properties need.
`ZTracer` also shows that a block starts with an OP_NEWPC and holds whole
instructions (`InstructionsWhole`), which is what `MicroOps` starts from, and that
references place an event in a thread's instructions (`XrefsPlaceEvents`), which
`TraceCode` carries on to what those instructions were. `TraceMicroEvent` shows
that one instruction's micro-ops fit the space that `ZTracer` assumes
(`MaxOps < MinFree`): that they do is its theorem `GroupsFit`.

### InstructionCounter

`inc()` is six actions: the test of the low word (`IncTest`), the lock-free
increment (`IncFast`), and the slow path's acquire, two stores and release.
`read()` is acquire, two loads in either order (C++ does not say which operand
of `|` is evaluated first), release. `Value` is the number the counter stands
for; between the two stores of a carry it counts the one that the high word
still lacks. `lo` and `hi` wrap at `WordMax` as the `UINT32`s do. `MaxIncs`
bounds the increments and must fit the two words, as 2^64 instructions do. The
accesses are sequentially consistent; x86 lets a store be seen late, which the
code's comment allows ("slightly out-of-date"); a model with store buffers is not here.

### ZTracer

The actors are the application threads, named by Pin's THREADIDs (numbers,
because `std::set` iterates in their order), and `Process`, which stands for
`main()` and for `OnFinish`. Each has a `pc`; a call of `WriteEvent` (`Call`)
puts the event into `msg` and the place to continue into `ret`.

| Code | Actions |
|---|---|
| `WriteEvent` | `GetOutputLock`, `GetStateLock`, `XrefThread` (one iteration of the loop), `PutStateLock`, `StampEvent` or `AbortAtLimit`, `WriteEventUnlocked`, `PutOutputLock` |
| `OnThreadStart` | `StartThread` (takes the lock), `StartNewLog`, `StartInsert`, `StartUnlock`, then `WriteEvent` |
| `logPC` | `LogPC` (with `CheckFlush`), `CheckFlushEnd` (the rest of `Flush`), `CountPC` |
| `log*` micro-ops | `LogOps` |
| `OnThreadFinish` | `FinishThread` (starts the flush), `FinishFlushEnd`, `FinishLock`, `FinishDelete`, `FinishErase`, `FinishUnlock`, then `WriteEvent` |
| allocation, module, code events | `MacroEvent`, also between the micro-ops of an instruction |
| `main`, `OnFinish` | `OpenLog`, `OpenLogFails`, `StartProgram`, `OnFinish`, `DumpMemoryRegion`, `CloseLog`, `CloseStream` |

A thread's `insCounter` is the abstract counter of `AtomicCounter`: one step
reads it. `InstructionCounterProofs` is the justification. Steps that touch only
what their thread owns (the counter's increment and the OP_NEWPC put after it;
the micro-ops of one instruction) are joined into one action.

Assumed of what is not in the repository (Pin, the kernel): `PIN_GetLock` is
mutual exclusion; thread start and finish callbacks run in the thread they are
about; the fini callback runs when all started threads have run theirs; a
THREADID and an OS thread id are not reused (so a reference's `tid` is the
thread); an allocation, module or code event is written in a thread that has had its
thread start callback and has not had its thread finish callback (`IsEventStream`
brackets them by that). Assertions are on, as the build files leave them: the limit of event
numbers aborts the process.

Abstracted: a micro-op is "pc" (OP_NEWPC) or "op"; sizes are counted in
micro-ops; compression, time stamps and the payload of macro events are left
out; the buffer of the C++ stream and a crash are in `TraceFile`, fork and exec in
`TraceProcess`.

### Heap

| Code | Actions |
|---|---|
| `MainBefore` | `MainBefore` |
| `MallocWrapper`, `CallocWrapper`, `ReallocWrapper` | `Malloc`, `Calloc`, `Realloc` up to the allocator's answer; `MallocReturn`, `CallocReturn`, `ReallocReturn` from there on |
| the hook of `free` | `Free` (the call), `FreeBefore` (the hook), `AllocatorFree` (external) |
| the end of the program | `End`, anywhere: the program exits, `OnFinish` closes the trace, so that it has every event written (a killed one loses the stream's buffer: `TraceFile`) |
| `main()` of `dump_heap1.py` | `ReadMalloc`, `ReadFree`, `ReadCalloc`, one event each; the leaks are what `chunks` holds when `Finished` |

The allocator is external: it may give any address that is not in use, or NULL;
realloc may resize, move or fail. The traced program is taken to be a correct
one: it passes to free and realloc what it was given and has not passed on
since. Before `start_seen` only the main thread runs. A chunk carries the
function that made it, which the allocator does not know. The second argument
that `CallocWrapper` does not pass on is any of `Sizes`: Pin's calling convention
leaves it unspecified. `moved` remembers the addresses realloc had to do with, of
which the trace says nothing. Contents of chunks are left out, and with them the
writes in micro-events.

### TraceMicroEvent

A thread passes through an instruction in three steps: `BeginPass` (the analysis
calls before it: the write address is captured, OP_NEWPC, then reads, call and
return are logged), `Execute` or `Fault` (external), `EndPass` (`LogMemoryWrite`, which
asserts a size of at most 32 and copies the data with `PIN_SafeCopy`). `Before`,
`LogsWrite` and `Captured` say which calls an instruction gets and which of them are
predicated. `Unmap` and `Map` are the program's other threads. A fault may end a
pass; the handler's instructions come next in the same thread and use the same
place of `WriteEa`.

Assumed of the program: an instruction writes one operand at most, and a return
writes none (one address is saved per thread, and `LogMemoryWrite` is inserted
only where the instruction falls through or branches); `FewReads`, an instruction
reads no more operands than the space has room for next to a call and a write of
`MAX_WRITE_SIZE`, which for the code's 512 bytes are 33.

### TraceCode

| Code | Actions |
|---|---|
| `ImgTraceModuleLoad` | `LoadImage`, `EndLoad` (the first event is written), `EndSymbols` (the second one) |
| `ImgTraceModuleUnload` | `UnloadImage`, `EndUnload` |
| `TraceDisassembly` | `Compile`, `EndCompile` |
| `logPC` with and without a flush | `Execute`; `Flush`, `EndFlush` |
| `WriteEvent` | `GetOutputLock`, `XrefThread`, `PutEvent` as part of each `End...` |

Pin is external: it calls the three callbacks one at a time (`pinLock`), gives
code to be run only when the callback for it has returned, drops an image's code
with the image, and does not unload an image a thread is in. An instruction
carries, as history, the image it was executed from. Live threads are `Threads`
throughout: starts and ends are `ZTracer`'s.

### MemoryMap

`at` is the word of the map the file is at; `fscanf` takes a newline for a blank.
`ScanRegion` reads six fields and one more word (`MemoryMap.cpp:26-30`), whatever it
is; `ScanFragment` is a further word of a name that `%llx` can start to read,
`StopScan` one it cannot, or the end. `DumpRegion` is one turn of the loop in
`DumpAllWritableMemory`. `DumpFails` is where it ends the process: `assert(endaddr >
addr)` (`ZTracer.cpp:299`) does not hold, or the vector of line 302 cannot be had. The
first happens to a region made up of a name's fragment that is not below the region's
end, the second to such a region, and to a mapping of the program, that is larger
than `MaxAlloc`; then there is neither a trace_end nor the rest of the stream's
buffer, and `TraceCloses` says for which maps this cannot happen. Nothing is assumed of a
fragment or of the size of a mapping, only that the kernel's lines are not empty, do
not overlap and are in order.

A name's words are "plain" ("[heap]", a path), "mixed" (a word that starts with
hexadecimal digits: `%llx` reads them) or "number" (hexadecimal digits only). All
fragments are the same number. Left out: a word of the form hex-hex, from which
`fscanf` takes the end address too, then permissions and further fields from what
follows; here the dash after the digits is taken to be missing.

### TraceProcess

A process's stream writes through a file description, which a forked child shares
with its offset. An event is a unit: that a buffer may be spilled in the middle of one is in
`TraceFile`. `spoiled` remembers the files that a process other than their own has
written to, `orphans` the processes that were forked while another thread was in the tracer.

| Code | Actions |
|---|---|
| `WriteEvent` | `BeginEvent` (the output lock), `LockThreads` (the thread state lock), `NumberEvent` (the references, under the counters' locks; the number), `EndEvent`; `Spill` when the stream's buffer is full |
| the locked parts of `OnThreadStart`, `OnThreadFinish` and of a carry in `InstructionCounter::inc` | `EnterThread`, `LeaveThread`, with the lock they take |
| fork, whose callbacks are commented out | `Fork`: the child has the buffer, the event number, the file description and the locks of its parent, of which none will be released that another thread held ("nobody") |
| `main()` after exec | `Exec`, which truncates the process's file; `OpenLogFails`, after which `main()` returns |
| `OnFinish` | `BeginExit`, `CloseLog`, which needs every lock, as trace_end goes through `WriteEvent` |
| a signal | `Kill`, which loses the buffer |

The locks of the threads' counters are one here: `WriteEvent` reads all counters, so
any of them that stays locked stops it. A thread that forks is not itself in the tracer.

### TraceFile

The file is a prefix of the bytes given to the stream, so an offset says all.
`PutSize` and `PutBody` are the two writes of an event, `Spill` passes any number
of buffered bytes on, `CloseLog` all of them, `Kill` none. Disk errors are left
out. The reader runs when the program is gone: `Open`, `GetArch`; then `Events`
and `NextEvent` are the steps of the generator `events()`, `CountEvents` and
`CountNext` the turns of `count_events`, `EventAt` a call of `event_at`. Protobuf
is external: a body that is cut short may or may not parse. `Interleaved` says
whether the client calls the other methods while it iterates: if it does,
`event_at` and `count_events` move the position from which `events()` goes on, and
`YieldsInOrder` does not hold.

### MicroOps

`DecodeInit` takes every block of at most `MaxOps` micro-ops that starts with an
OP_NEWPC, in the bytes that `log*` puts (`Logged`), the lowest first, as on x86. A step
is one `next()` of one of the two iterators of `split_stream`: `First`, `Peek`,
`PeekEnd` and `PeekFails` of the one ahead, `TakeOp` of the other. `Decode` is
`klass.decode`; a field that is cut short and an unknown opcode are errors,
except for the data of a memory write, which `io.read` may cut. Then `Reencode`
writes the instructions with `IO_DB` and they are read in the same way. Pin's
BOOL is taken to be one byte. Register writes are not logged (`TraceRegisters` is
not registered), and the decoder does not know them. A word or a size `Fits` its
bytes, which is said by dividing as `put` does, since the provers have no powers; the
names of the specification differ from `TraceFile`'s so that `ReaderProofs` can
extend both.

## Runs

| Run | Instance | What it shows |
|---|---|---|
| `counter` | owner and two readers, words of three values, 7 increments (two carries, the second from a high word that is not 0) | no torn read, reads never go back, refinement of `AtomicCounter`, the lock always comes free |
| `tracer_threads` | 2 threads, 2 instructions each, a log that flushes after every instruction | one writer, numbering, no dangling log, lock order; references cover lifetimes, are monotone and agree with the blocks; blocks tile each thread's execution |
| `tracer_log` | 1 thread, up to 4 instructions of 1 to 3 micro-ops, a log of 5 that must leave 3 free, a macro event anywhere, 2 dumps, 8 event numbers | types (event numbers within their limit), the log fits, instructions are whole |
| `tracer_stream` | 2 threads with a macro event each and a memory dump | the file is an `EventStream`; every begun event is written; the trace is closed |
| `heap` | 2 threads, 2 addresses, sizes 1 and 2, 4 calls of malloc, calloc, realloc, free | the events of an address alternate; a chunk that the program holds is announced; the tool's map is the allocator's |
| `heap_realloc` | 1 thread, 2 addresses, 3 calls of malloc and realloc | **violation**: a chunk that has moved is reported as leaked at its old address |
| `file_read` | 3 events with bodies of 1 and 3 bytes, killed anywhere | the reader yields what is there, in order, and `count_events` counts it; a closed trace is read without error |
| `ops_read` | all blocks of up to 4 micro-ops, words of 2 and 3 bytes, one of them with an opcode in it, writes of no data and of data that looks like an OP_NEWPC | decoding undoes logging; groups are instructions; without calls, the encoded form can be read again |
| `micro_events` | 2 threads, 2 addresses, 3 passes through 6 instructions (read-modify-write, a predicated one, one of 512 bytes, two calls, a return), faults, memory unmapped and mapped | a pass logs what it did; a write's address and data are the instruction's; a group fits `MIN_LOG_FREE_SPACE` |
| `code_events` | 2 threads, 2 addresses, images of one and of both, 2 loads, 3 instructions, logs of one instruction | references date code and images; in file order images and code are told in step |
| `memory_map` | all maps of up to 3 regions, each small or larger than a buffer, names of 0 to 3 words of 3 kinds, a fragment behind the first region's end and in the second one | what is read is the map's; what is writable and reachable is dumped whole; the trace is closed if every buffer can be had and every fragment is below its region's end |
| `process` | 2 processes, 3 programs, 2 event numbers each, one thread in `WriteEvent` and one at its start, its end or a carry | a file only its own process wrote to is a trace; sharers do not overwrite; events get written and traces closed; but after a fork with another thread in the tracer, none ever |

Why the bounds are enough: every hazard of the shared state needs two actors, one
in `WriteEvent` and one starting, executing or finishing, with at most one event
in between; two threads with a start, up to three blocks, and an end each give all of them, and `Process` is a third actor. A reference can only disagree
with a block next to it, so a thread needs two full blocks and the flush at its
end. In `tracer_log` the log passes through every fill level from 0 to its
capacity. `XrefRange` (2^32 in the code) is above any counter: the properties
about references hold for threads of fewer than 2^32 instructions, and their
theorems assume it.

A race for an address needs one thread between the free's event and the free
and one that allocates; `heap` has it, with a third call before and after, and an
address nobody races for. In `file_read` each of the first, a middle and the last
event can be the one that is cut, in its size or its body, of which there is a
shortest and a longer one. Four micro-ops make up to four instructions, among
them ones with a micro-op of each kind in front of each other kind. In `code_events`
an image can be replaced by another one at the same address after an instruction
of it was executed by a thread that flushes only later, while the other thread
executes on; that is all that dating needs. In `micro_events` a pass, a fault and
a handler's pass in between fit three passes. Three lines of a map have one
before and one behind any that goes wrong, and a fragment meets the assertion in the
first, fits in the second and is too far below the end of the third. Two processes are a parent and a
child, which may exchange roles with a program of their own each.

Deadlock is checked in every run; `Terminated` is the one step of a process that
is gone, so that only a real stop is reported.

**Fairness.** Weak fairness for a thread inside `WriteEvent` or inside a callback
and for the process's own callbacks: Pin schedules a thread that can run. None for
`StartThread`, `LogPC`, `MacroEvent` and `FinishThread`, which the application
decides, none for `OpenLog`, and none that prefers a particular waiter of a lock.
Pin's lock is a spin lock that promises no order, so `WritesComplete` relies on
the other threads writing finitely many events, which the bounds make so; without
that, a thread could wait for ever while others keep writing. In `TraceFile` nothing
is fair: all its properties are about what has happened so far. In `MemoryMap` the
process's own callbacks are fair. In `TraceProcess` whoever holds a lock goes on
(`EndEvent`, `LeaveThread`, `CloseLog`, weakly), and `WriteEvent` gets the thread state and
the counters' locks if they are free again and again (`LockThreads`, `NumberEvent`,
strongly: other threads may start, end and carry without end, and a spin lock that is
released over and over is got at some time). Nothing makes the program begin an
event, fork, execute, end or be killed.

**Mutants.** Each property is broken by a changed copy of one definition, defined
next to it and commented `Mutant:`; nothing else uses them.

## Findings

Shown by a run:

* `src/TraceMalloc.cpp:204-209`: `ReallocWrapper` makes its event and does not write
  it. A chunk that has moved is then reported as leaked where it was
  (`heap_realloc`; `dump_heap1.py:103`).

In the models, and met while writing them, without a run of their own:

* `src/ZTrace.proto:235` declares the index in a cross reference `uint32`, the
  counter is 64 bits wide (`start_instruction` of a block is `uint64`): after 2^32
  instructions of a thread the references to it are wrong (`Xref`, with an
  `XrefRange` of 2 in `tracer_threads`, breaks `XrefsPlaceEvents`).
* `src/tools/ztrace/trace_file.py:64`: `event_at` and `count_events` move the position
  from which `events()` goes on (line 50, "ordered sequence"; with `Interleaved`,
  `file_read` finds events skipped or repeated).
* `src/tools/ztrace/micro_ops.py:111-113`: `OP_CALL.encode` leaves out the stack
  pointer that `decode` reads, so calls in the database cannot be read again
  (`RoundTripButCalls` names them; `instruction_ops.py:51`).
* `src/MemoryMap.cpp:30`: a line without a file name (the comment on line 32 has such
  lines in mind) makes `%s` swallow the next line's range, and the scan ends there;
  a name with a blank in it ends the scan as well, or makes up a region. Nothing
  is reported; what is after that is not dumped (`ScanRegion`, `Reachable`).
* `src/ZTracer.cpp:299,302`: a writable region that ends before it starts, which only a
  name with a blank can make up, or one for which the tool gets no buffer, ends the
  process in `OnFinish`: the assertion fails or `std::bad_alloc` is thrown, and the
  trace has no trace_end and lacks what the stream had buffered (`DumpFails`).
* `src/ZTracer.cpp:296` sets a dump's end to its start (`MemoryDump`).
* `src/ZTracer.cpp:129`: the functions for forks are commented out. A child goes on
  writing to the parent's file with the parent's event numbers, writes what was in
  the parent's buffer and in its threads' logs again, and keeps the parent's
  `live_threads_`. If another thread was in `WriteEvent`, in the locked part of
  `OnThreadStart` or `OnThreadFinish` (lines 190-194, 213-217) or in a counter's carry,
  the child waits for ever in its first `WriteEvent`, at the latest at its end
  (`TraceProcess`, `OrphansAreSilent`; `ZTrace.proto:6-8` speaks of one process's trace).
* `src/ZTracer.cpp:49`: a program that executes another one in its process loses its
  trace: the new one truncates the file.
* `src/TraceMicroEvent.cpp:206,214`: `AddLogCall` always logs a call as not direct.
* `src/MicroEventLog.h:28-29` says a log is only read or written by its owner.
  `WriteEvent` reads the counter and the OS thread id of every live thread's log.
  The code is right, and needs the state lock because of it; the comment is out of
  date (`XrefThread`).
* `src/TraceMalloc.cpp:173-180`: `CallocWrapper` takes one argument of calloc's two and
  passes on one (`Calloc`). On x86-64 the register of the second may happen to keep
  its value.
* `src/oldtools/dump_heap1.py:69-77`: calloc's events are ignored, so the free of such
  a chunk gets the warning of line 77 (`ReadCalloc`); a malloc that failed becomes a
  chunk at the null pointer, and a leak (`ReadMalloc`).
* `src/oldtools/dump_ins_trace.py:32-38`: the text printed for an instruction is the
  last disassembly read of its address, which may be of code that came later than
  a late block's (`XrefsDateTheCode` says which one it should be); its format "%p"
  is not one of Python's. `dump_calls.py` keeps one shadow stack for all threads.
* `src/tools/ztrace/trace_file.py:45`: `count_events` counts an event whose body was
  not written (`CountNext`), which `events()` fails on or yields cut.

## Proofs

For all values of the constants that the named assumptions allow.

**`InstructionCounterProofs`** (any number of readers, any word size). `NoTornRead`
is not inductive: it says nothing about where the lock is. The invariant `IInv`
adds that a thread is in a critical section exactly if it holds the lock
(`LockInv`), what the owner knows of the low word between its test and its store
(`OwnerInv`), that the high word a reader has loaded is still the high word and
its low word at most the low word (`ReadInv`), and that the value fits the words
(`RangeInv`). From it follow `TypeCorrect`, `NeverTorn`, `ReadsMonotone`, and
`Refinement`: a step is an increment (the store of the low word), a read (the
load of the low word) or invisible. The arithmetic is in `WordIncrement`,
`Places` and `HighWordFits`.

**`ZTracerProofs`** (any number of threads, any capacities and bounds). `IInv` adds
to the types: each lock's holder is the actor in one of its sections
(`OutputInv`, `StateInv`); the stream is open and the process waits as long as a
thread is about (`StreamInv`); the file lacks exactly the stamped event
(`NumberInv`); a live thread's pointer is good unless that thread, with the state
lock, is destroying it (`RegistryInv`); the room left in a log at each place of
`logPC` (`RoomInv`). One lemma per part, one step per action. From it follow
`TypeCorrect`, `WritersExclude`, `EventsNumbered`, `LogsNotDangling`,
`LocksOrdered` and `LogsFit`. The last one rests on `MaxOps < MinFree`, the
assumption that `MicroEventLog.h:11-14` states in words.

Its second part is what the trace says of the execution.
Each step of the program is described once, as what it does to the blocks and logs
(`Steps`, with `Puts` and `Keeps`) and to the references being collected
(`Gathering`, with `Gathers`); the invariants below are then shown from these
descriptions. `PlaceInv` ties a thread's counter, log and registration to the place it
is at, and `MsgInv` the event being written to its writer. `TileInv` says that a
thread's blocks follow one another and that its log goes on where the last one ends,
also while a block is on its way to the file. `RefsInv` says that references in the file
are not ahead of the counters, and that those of the event about to be written are not behind
any in the file; it needs `MaxIns < XrefRange`, that is, no thread with 2^32
instructions. `CoverInv` says which live threads the cross-reference loop's cursor
has passed, and that whoever may still flush a block is referred to. From
these follow `BlocksWhole`, `ExecutionTiled`, `ReferencesOrdered`, `ReferencesPlace`
and `LifetimesCovered`.

Its third part is the refinement, `StreamImplemented`: `EventStream`'s variables are
read off the file, and each step of `ZTracer` writes nothing, or one event that the
grammar allows. `StoryInv` is what that needs: an actor about to write has the kind
of event that its place calls for (`KindOK`); a thread is between its thread_start and
its thread_end in the file exactly from the write of the one to the write of the
other (`BracketsOK`); and the process is as far with trace_start, dumps and trace_end
as the file is (`PhaseOK`).

**`HeapProofs`** (any number of threads, addresses, sizes and calls). What an address's
last event says lags behind the allocator while a call that has been answered
has not written its event, or a free that has written it has not freed. `IInv`
says so: such a call has its chunk to itself (`OwnInv`, `CallInv`); the trace
ends with an allocation of every chunk for which nothing is outstanding
(`LiveInv`), and, without realloc, with a free, or without any event, for every
other address (`DeadInv`); chunks made before `start_seen` are not in the trace
(`EarlyInv`). From it follow `TypeCorrect`, `AllocationsAlternate` and
`HeldAnnounced`, which holds for chunks of malloc and calloc whatever realloc does,
and, with the tool's map at each position of the trace (`SizeInv`, `MapInv`), `MapIsTheHeap`.

**`ReaderProofs`**, of `TraceFile` (any number and size of events, any bytes lost). The
invariant ties the reader's offset to a boundary between events as long as the calls
are not interleaved, and the file's length to the stream's. From it follow
`TypeCorrect`, `ReadInOrder`, `WholeEventsRead` and `ClosedTraceIsRead`, all under
`~Interleaved`, without which they do not hold.

Of `MicroOps` (words, sizes and bytes of any width, logs of any length), in the order in
which the module builds it. *The operators*: `Rests`, `Number` and the two folds are loops,
so `Loop` shows once that a recursive function over 0 to n is what its body says, and
`Induction` carries a statement along it. `NumberOfBytes`: what was put and fits is
read again. `Flatten`: of sequences laid behind each other, each lies at the sum of the
lengths before it. *The codec*: `OneField` to `ThreeFields` and the five lemmas
`Decodes...` show that `Decode` at a place where an encoded micro-op lies finds that
micro-op and its length, whatever follows. *The splitter*: the invariant `CodecInv` says
that the position is where the next micro-op lies (`Placed`); that the decoded ones are a
prefix of the input and the second iterator one behind or level, by the phase
(`Pulled`); and that there are places that cut what was taken into the groups and the
open group (`CutInto`, `GoesOn`), each starting at an OP_NEWPC and with none inside. After
`Reencode` the same holds of the encoded instructions, if none is a call: without calls
an encoded micro-op is a logged one with other widths. `GroupsPrefix` counts: a group
that was cut off at the k-th place is the instruction that `Instructions` finds by
counting k - 1 starts before it. From it follow `LogDecoded`, `LogSplit` and
`DatabaseRead`.

**`MemoryMapProofs`** (maps of any length, names of any number of words). The
invariant says which regions the ones read so far stand for, that the scan is at
the first word of a line exactly if all names before it had one word, and which
regions are dumped so far. Regions are told apart by their ends, which are the lines'
ends, in order, whatever number a fragment is. From it follow `TypeCorrect`, `PrefixIsRead` and
`ReachableIsDumped`.

**`TraceProcessProofs`** (any number of processes, programs and events). The invariant
relates a file to the description of its own process, whose offset is the file's
length, and to its buffer, which goes on where the file stops; a description is
never behind one of another process that shares it. From it follow `TypeCorrect`,
`FilesAreTraces` and `SharersAppend`. `ForkedInsideIsSilent` has an invariant of its own,
`LockInv`: a thread in `WriteEvent` has the output lock, and in an orphan an
event cannot get past a lock that is nobody's (`Blocked`).

**`TraceCodeProofs`** (any number of threads, images, addresses and instructions, logs
of any size). `XrefsDateTheCode` speaks of a reader who has the whole trace, so it
must survive every later event: the invariant says that an event in the trace or
at work refers to each thread at most at its counter (`RefsInv`), so that what is
added later is not before any instruction executed; that the code cache holds
what the last disassembly told of each address (`CacheInv`), and the mapping what
the images' events told (`ImagesInv`), up to the one callback that is not finished
(`PendingInv`); and that for each executed instruction the statement holds
(`ExecutedInv`). `MapInv` is the same for file order. From these follow
`TypeCorrect`, `CodeIsDated`, `ImagesAreDated` and `MapIsTrue`.

**`TraceMicroEventProofs`** (any instructions, threads, addresses and passes). The
properties find the group of a pass by counting OP_NEWPCs in the log, which an
invariant about steps cannot use. `IInv` says instead that the log can be cut, at
places that exist, into one piece for each pass (`CutAt`), that a piece tells what its
pass did (`Tells`), that a write in it is that pass's (`WriteOf`), and what holds of a
pass that is not over (`PassOK`: its address is still the saved one, whatever a fault
and a handler did in between). That the pieces are the groups is a lemma about
counting. From it follow `LogComplete`, `WritesLogged` and `GroupsFit`, which rests on
`FewReads`. The loop over the operands (`LogReads`) and the sum of sizes
(`FoldFunction`) are recursive functions; what they compute is shown by induction
from the least-number principle, which the module derives for itself (`LeastNat`,
`Induction`) since the library's theorems take operators as parameters.

Only model-checked: liveness (`LockReleased`, `WritesComplete`, both `TraceCloses`,
`EventsEnd`), since the prover has no support for fairness. Every other
property of a passing run is stated by a theorem.

## Not modelled

* `TraceRegisters` is not registered by `Instrument`, and its logging calls are
  commented out. `Log` and `Helpers` are diagnostics and conversions for display.
* `module_map.py` is empty, the event collectors are stubs, the counting tools print
  what the reader yields. `ZTrace.py` is an older reader; `dump_calls.py` and
  `dump_ins_trace.py` print as they read, and what is wrong with them is under
  Findings.
* Protobuf's encoding of events, snappy's compression and the file system's errors
  are external.
* Writes in micro-events against the heap map of `dump_heap1.py`: it takes the
  blocks of `ZTracer` and the allocations of `Heap` in one state, which is out of
  TLC's reach where both a flush and a reuse of an address happen. `TraceCode` has
  the same question for code and images, with its answer: the references.
* Store buffers of the processor in the counter.
