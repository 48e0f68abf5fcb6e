--------------------------- MODULE TraceProcess ---------------------------
(***************************************************************************)
(* Processes that fork, execute other programs and end, and the files they *)
(* trace to (main() in src/src/ZTraceMain.cpp, ZTracer::OpenLog, CloseLog, *)
(* Instrument and OnFollowChildProcess in ZTracer.cpp).                    *)
(*                                                                         *)
(* The functions for forks are commented out in Instrument, so a child     *)
(* goes on with what it has inherited: the stream with its unwritten       *)
(* buffer, the event counter, a file description whose offset it shares    *)
(* with its parent, and the locks as they were, although the threads that  *)
(* may hold them are not in the child.  A program that is executed in a    *)
(* process is traced (OnFollowChildProcess) to the file of the process,    *)
(* which OpenLog truncates.                                                *)
(*                                                                         *)
(* A file is a sequence of events; that the buffer may be written in the   *)
(* middle of one is TraceFile's matter.  The events between trace_start    *)
(* and trace_end are alike.                                                *)
(***************************************************************************)
EXTENDS Integers, Sequences

CONSTANTS Pids,         \* processes
          First,        \* the one that is started under Pin
          Hole,         \* what is in a file where nothing was written
          MaxPrograms,  \* bound: programs, with the first one
          MaxEvents     \* bound: event numbers a program uses

(* An event in the stream or the file. *)
Unit == [pid : Pids, program : Nat, kind : {"trace_start", "event", "trace_end"}, id : Nat]

(* output_lock_, thread_state_lock_ and the locks of the threads'          *)
(* instruction counters, which are alike.                                  *)
Locks == {"output", "state", "counter"}

ASSUME ProcessAssumption ==
    /\ First \in Pids
    /\ Hole \notin Unit
    /\ {MaxPrograms, MaxEvents} \subseteq Nat

VARIABLES
    state,     \* state[p]: "none" yet, "running", "exiting", "exited", "killed", "failed"
    program,   \* program[p]: the number of p's program
    programs,  \* programs so far
    eventId,   \* eventId[p]: event_id_
    lock,      \* lock[p][l]: "free", "held" by a thread of p or by "nobody" there
    event,     \* event[p]: what the thread in WriteEvent has: the "output" lock, also
               \* the thread "state" lock, the event "numbered"; or "none" is there
    orphans,   \* history: processes forked while another thread was in the tracer
    buffer,    \* buffer[p]: the events in output_stream_'s buffer
    stream,    \* stream[p]: the number of the description output_stream_ writes to
    descs,     \* the file descriptions: whose file, which program's, the offset
    disk,      \* disk[p]: the contents of run.trace.<p>
    spoiled    \* history: trace files other processes wrote to since they were opened

locking == <<lock, event, orphans>>
tracer == <<program, programs, eventId, locking, buffer, stream>>
files  == <<descs, disk, spoiled>>

vars == <<state, tracer, files>>

Event(p, kind, id) == [pid |-> p, program |-> program[p], kind |-> kind, id |-> id]

----------------------------------------------------------------------------
(* The stream. *)

(* The contents of a file after the events es are written at an offset. *)
Overwritten(contents, offset, es) ==
    LET end == offset + Len(es)
    IN  [i \in 1 .. (IF end > Len(contents) THEN end ELSE Len(contents)) |->
            IF offset < i /\ i <= end THEN es[i - offset]
            ELSE IF i <= Len(contents) THEN contents[i] ELSE Hole]

(* p writes the events es to its file, where its description has got to. *)
Write(p, es) ==
    LET d == stream[p]
        f == descs[d].file
    IN  /\ disk' = [disk EXCEPT ![f] = Overwritten(@, descs[d].offset, es)]
        /\ descs' = [descs EXCEPT ![d].offset = @ + Len(es)]
        /\ spoiled' = IF f = p THEN spoiled ELSE spoiled \cup {f}

(* Mutant: what is in the file stays there. *)
OpenLogAppending(p) ==
    /\ descs' = Append(descs, [file |-> p, by |-> programs + 1, offset |-> Len(disk[p])])
    /\ UNCHANGED disk
    /\ spoiled' = spoiled \ {p}

(* ofstream::open *)
OpenLog(p) ==
    /\ descs' = Append(descs, [file |-> p, by |-> programs + 1, offset |-> 0])
    /\ disk' = [disk EXCEPT ![p] = <<>>]
    /\ spoiled' = spoiled \ {p}

(* main(): a new program, whose tracer opens the file of its process and   *)
(* begins with trace_start.                                                *)
Main(p) ==
    /\ OpenLog(p)
    /\ programs' = programs + 1
    /\ program' = [program EXCEPT ![p] = programs']
    /\ stream' = [stream EXCEPT ![p] = Len(descs')]
    /\ eventId' = [eventId EXCEPT ![p] = 1]
    /\ lock' = [lock EXCEPT ![p] = [l \in Locks |-> "free"]]
    /\ event' = [event EXCEPT ![p] = "none"]
    /\ orphans' = orphans \ {p}
    /\ buffer' = [buffer EXCEPT ![p] =
           <<[pid |-> p, program |-> programs', kind |-> "trace_start", id |-> 0]>>]

Init ==
    /\ state = [p \in Pids |-> IF p = First THEN "running" ELSE "none"]
    /\ programs = 1
    /\ program = [p \in Pids |-> IF p = First THEN 1 ELSE 0]
    /\ eventId = [p \in Pids |-> IF p = First THEN 1 ELSE 0]
    /\ lock = [p \in Pids |-> [l \in Locks |-> "free"]]
    /\ event = [p \in Pids |-> "none"]
    /\ orphans = {}
    /\ buffer = [p \in Pids |-> IF p = First THEN <<Event(First, "trace_start", 0)>> ELSE <<>>]
    /\ stream = [p \in Pids |-> IF p = First THEN 1 ELSE 0]
    /\ descs = <<[file |-> First, by |-> 1, offset |-> 0]>>
    /\ disk = [p \in Pids |-> <<>>]
    /\ spoiled = {}

----------------------------------------------------------------------------
(* Two threads' ways into the tracer: WriteEvent, whose thread takes the   *)
(* output lock, the thread state lock and the counters' locks one within   *)
(* the other, and all that takes one of the latter two by itself.          *)

Acquire(p, l) == lock[p][l] = "free" /\ lock' = [lock EXCEPT ![p][l] = "held"]
Release(p, l) == lock' = [lock EXCEPT ![p][l] = "free"]

(* WriteEvent in some thread of p: the output lock, ...                    *)
BeginEvent(p) ==
    /\ state[p] = "running"
    /\ eventId[p] < MaxEvents
    /\ Acquire(p, "output")
    /\ event' = [event EXCEPT ![p] = "output"]
    /\ UNCHANGED <<state, program, programs, eventId, orphans, buffer, stream, files>>

(* ... the thread state lock for the cross references, ...                 *)
LockThreads(p) ==
    /\ state[p] = "running"
    /\ event[p] = "output"
    /\ Acquire(p, "state")
    /\ event' = [event EXCEPT ![p] = "state"]
    /\ UNCHANGED <<state, program, programs, eventId, orphans, buffer, stream, files>>

(* ... which read every counter under its lock, the event's number ...     *)
NumberEvent(p) ==
    /\ state[p] = "running"
    /\ event[p] = "state"
    /\ lock[p]["counter"] = "free"
    /\ Release(p, "state")
    /\ event' = [event EXCEPT ![p] = "numbered"]
    /\ eventId' = [eventId EXCEPT ![p] = @ + 1]
    /\ UNCHANGED <<state, program, programs, orphans, buffer, stream, files>>

(* ... and the event into the stream, the output lock back.                *)
EndEvent(p) ==
    /\ state[p] = "running"
    /\ event[p] = "numbered"
    /\ Release(p, "output")
    /\ event' = [event EXCEPT ![p] = "none"]
    /\ buffer' = [buffer EXCEPT ![p] = Append(@, Event(p, "event", eventId[p] - 1))]
    /\ UNCHANGED <<state, program, programs, eventId, orphans, stream, files>>

(* The stream's buffer is full before the event is all in it. *)
Spill(p) ==
    /\ state[p] = "running"
    /\ event[p] = "numbered"
    /\ buffer[p] # <<>>
    /\ Write(p, buffer[p])
    /\ buffer' = [buffer EXCEPT ![p] = <<>>]
    /\ UNCHANGED <<state, program, programs, eventId, locking, stream>>

(* OnThreadStart and OnThreadFinish take the thread state lock, the carry  *)
(* of an instruction counter takes the counter's, ...                      *)
EnterThread(p, l) ==
    /\ state[p] = "running"
    /\ Acquire(p, l)
    /\ UNCHANGED <<state, program, programs, eventId, event, orphans, buffer, stream, files>>

(* ... and they give it back. *)
LeaveThread(p, l) ==
    /\ state[p] = "running"
    /\ lock[p][l] = "held"
    /\ ~(l = "state" /\ event[p] = "state")
    /\ Release(p, l)
    /\ UNCHANGED <<state, program, programs, eventId, event, orphans, buffer, stream, files>>

(* A thread of p is in one of these. *)
Inside(p) == event[p] # "none" \/ \E l \in {"state", "counter"} : lock[p][l] = "held"

(* What a child of p has from its parent but what its own functions set. *)
Inherit(p, q) ==
    /\ state[p] = "running"
    /\ state[q] = "none"
    /\ state' = [state EXCEPT ![q] = "running"]
    /\ program' = [program EXCEPT ![q] = program[p]]
    /\ eventId' = [eventId EXCEPT ![q] = eventId[p]]
    /\ orphans' = IF Inside(p) \/ p \in orphans THEN orphans \cup {q} ELSE orphans
    /\ UNCHANGED <<programs, event, spoiled>>

(* A lock in the child: its holder is not there. *)
Inherited(p) == [l \in Locks |-> IF lock[p][l] = "free" THEN "free" ELSE "nobody"]

(* Mutant: a function for the child opens the file again. *)
ForkOpening(p, q) ==
    /\ Inherit(p, q)
    /\ lock' = [lock EXCEPT ![q] = Inherited(p)]
    /\ descs' = Append(descs, [descs[stream[p]] EXCEPT !.offset = 0])
    /\ stream' = [stream EXCEPT ![q] = Len(descs')]
    /\ disk' = [disk EXCEPT ![descs[stream[p]].file] = <<>>]
    /\ UNCHANGED buffer

(* Mutant: a function before the fork takes the output lock, the one for   *)
(* the parent releases it, and there is none for the child.                *)
ForkPrepared(p, q) ==
    /\ lock[p]["output"] = "free"
    /\ Inherit(p, q)
    /\ lock' = [lock EXCEPT ![q] = [Inherited(p) EXCEPT !["output"] = "nobody"]]
    /\ buffer' = [buffer EXCEPT ![q] = buffer[p]]
    /\ stream' = [stream EXCEPT ![q] = stream[p]]
    /\ UNCHANGED <<descs, disk>>

(* Mutant: a function for the child initializes the output lock, and no    *)
(* other one.                                                              *)
ForkUnlocking(p, q) ==
    /\ Inherit(p, q)
    /\ lock' = [lock EXCEPT ![q] = [Inherited(p) EXCEPT !["output"] = "free"]]
    /\ buffer' = [buffer EXCEPT ![q] = buffer[p]]
    /\ stream' = [stream EXCEPT ![q] = stream[p]]
    /\ UNCHANGED <<descs, disk>>

(* A thread of p that is not in the tracer forks; the child has this       *)
(* thread alone.                                                           *)
Fork(p, q) ==
    /\ Inherit(p, q)
    /\ lock' = [lock EXCEPT ![q] = Inherited(p)]
    /\ buffer' = [buffer EXCEPT ![q] = buffer[p]]
    /\ stream' = [stream EXCEPT ![q] = stream[p]]
    /\ UNCHANGED <<descs, disk>>

(* p executes another program: Pin follows, main() runs anew; the stream   *)
(* of the program before is gone with its buffer.                          *)
Exec(p) ==
    /\ state[p] = "running"
    /\ programs < MaxPrograms
    /\ Main(p)
    /\ UNCHANGED state

(* p is gone, with what it had in memory. *)
Die(p, how) ==
    /\ state' = [state EXCEPT ![p] = how]
    /\ lock' = [lock EXCEPT ![p] = [l \in Locks |-> "free"]]
    /\ event' = [event EXCEPT ![p] = "none"]
    /\ orphans' = orphans \ {p}
    /\ buffer' = [buffer EXCEPT ![p] = <<>>]
    /\ UNCHANGED <<program, programs, eventId, stream, files>>

(* OpenLog fails in the program p executes: main() returns 1. *)
OpenLogFails(p) == state[p] = "running" /\ Die(p, "failed")

(* The program ends, no thread is in it any more: OnFinish. *)
BeginExit(p) ==
    /\ state[p] = "running"
    /\ ~Inside(p)
    /\ state' = [state EXCEPT ![p] = "exiting"]
    /\ UNCHANGED <<tracer, files>>

(* CloseLog: WriteEvent for trace_end, for which each lock must be had. *)
CloseLog(p) ==
    /\ state[p] = "exiting"
    /\ \A l \in Locks : lock[p][l] = "free"
    /\ state' = [state EXCEPT ![p] = "exited"]
    /\ eventId' = [eventId EXCEPT ![p] = @ + 1]
    /\ Write(p, Append(buffer[p], Event(p, "trace_end", eventId[p])))
    /\ buffer' = [buffer EXCEPT ![p] = <<>>]
    /\ UNCHANGED <<program, programs, locking, stream>>

(* p dies of a signal. *)
Kill(p) ==
    /\ state[p] \in {"running", "exiting"}
    /\ Die(p, "killed")

(* Nobody is left. *)
Over == (\A p \in Pids : state[p] \notin {"running", "exiting"}) /\ UNCHANGED vars

Next == \/ \E p \in Pids : \/ BeginEvent(p)
                           \/ LockThreads(p)
                           \/ NumberEvent(p)
                           \/ EndEvent(p)
                           \/ Spill(p)
                           \/ \E l \in {"state", "counter"} : EnterThread(p, l) \/ LeaveThread(p, l)
                           \/ \E q \in Pids : Fork(p, q)
                           \/ Exec(p)
                           \/ OpenLogFails(p)
                           \/ BeginExit(p)
                           \/ CloseLog(p)
                           \/ Kill(p)
        \/ Over

(* What is inside the tracer goes on, and gets a lock that is free again   *)
(* and again; what the program does is its own business.                   *)
Spec == /\ Init /\ [][Next]_vars
        /\ \A p \in Pids :
              /\ WF_vars(EndEvent(p)) /\ WF_vars(CloseLog(p))
              /\ SF_vars(LockThreads(p)) /\ SF_vars(NumberEvent(p))
              /\ \A l \in {"state", "counter"} : WF_vars(LeaveThread(p, l))

----------------------------------------------------------------------------
(* Every variable has its type, and a process that exists has a stream to  *)
(* which trace_start was written.                                          *)
TypeOK ==
    /\ state \in [Pids -> {"none", "running", "exiting", "exited", "killed", "failed"}]
    /\ programs \in Nat
    /\ program \in [Pids -> 0 .. programs]
    /\ eventId \in [Pids -> Nat]
    /\ lock \in [Pids -> [Locks -> {"free", "held", "nobody"}]]
    /\ event \in [Pids -> {"none", "output", "state", "numbered"}]
    /\ orphans \subseteq Pids
    /\ buffer \in [Pids -> Seq(Unit)]
    /\ descs \in Seq([file : Pids, by : Nat, offset : Nat])
    /\ stream \in [Pids -> 0 .. Len(descs)]
    /\ disk \in [Pids -> Seq(Unit \cup {Hole})]
    /\ spoiled \subseteq Pids
    /\ \A p \in Pids : state[p] # "none" => stream[p] # 0 /\ eventId[p] # 0

(* p writes to its own trace file. *)
Owns(p) == state[p] # "none" /\ descs[stream[p]].file = p

(* The file of a process that no other one has written to holds the events *)
(* of its last program, all from trace_start to the last one written, in   *)
(* order and once, and up to trace_end if that program ended by itself:    *)
(* also if it forked and the children executed programs or were killed     *)
(* before they wrote anything, and if it executed programs before.         *)
OwnFileIsATrace ==
    \A p \in Pids \ spoiled :
        /\ \A i \in DOMAIN disk[p] :
              /\ disk[p][i] # Hole
              /\ disk[p][i].id = i - 1
              /\ disk[p][i].pid = p
              /\ disk[p][i].program = program[p]
              /\ (disk[p][i].kind = "trace_start") <=> (i = 1)
              /\ disk[p][i].kind = "trace_end" => i = eventId[p]
        /\ state[p] = "exited" /\ Owns(p) =>
              /\ Len(disk[p]) = eventId[p]
              /\ disk[p][eventId[p]].kind = "trace_end"

(* However many processes share a file, and whichever program they are in  *)
(* by now, nobody overwrites what another one has written, as long as the  *)
(* file was opened by one program only.                                    *)
WritesAppend ==
    [][\A p \in Pids :
          (\A d, e \in DOMAIN descs' : descs'[d].file = p /\ descs'[e].file = p =>
               descs'[d].by = descs'[e].by)
          => /\ Len(disk[p]) <= Len(disk'[p])
             /\ SubSeq(disk'[p], 1, Len(disk[p])) = disk[p]]_vars

(* In the tracer: in WriteEvent, or in OnFinish. *)
Busy(p) == state[p] = "exiting" \/ (state[p] = "running" /\ event[p] # "none")

(* A process that writes an event or ends by itself gets done with it,     *)
(* whichever of its threads start, finish or carry meanwhile, and also in  *)
(* a child, of a child, that was forked while no other thread was in the   *)
(* tracer.                                                                 *)
EventsEnd == \A p \in Pids : Busy(p) /\ p \notin orphans ~> ~Busy(p)

(* A child that was forked while another thread was in the tracer, in      *)
(* WriteEvent, at its start or end or at a carry, and the children of such *)
(* a child: not one event of theirs is numbered or gets into a stream, and *)
(* they never end by themselves.  So what the other thread had not done is *)
(* in no file, and only what they execute is traced.                       *)
OrphansAreSilent ==
    [][\A p \in orphans \cap orphans' : /\ eventId'[p] = eventId[p]
                                        /\ buffer'[p] = buffer[p] /\ stream'[p] = stream[p]
                                        /\ state'[p] # "exited"]_vars
=============================================================================
