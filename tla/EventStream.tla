---------------------------- MODULE EventStream ----------------------------
(***************************************************************************)
(* What a trace file promises to the tools that read it, with nothing said *)
(* of locks, buffers and cross references: a stream of events that starts  *)
(* with a trace_start and ends with a trace_end, in which the events of a  *)
(* thread are bracketed by its thread_start and its thread_end, and in     *)
(* which memory is dumped only when all threads have ended.                *)
(***************************************************************************)
EXTENDS Sequences

CONSTANTS Threads,     \* the application's threads
          Process      \* the author of the events no thread writes

VARIABLES events,      \* the stream: a sequence of [kind, tid]
          phase,       \* of the trace: "none", "tracing", "dumping", "ended"
          stage        \* of each thread: "unseen", "live", "ended"

vars == <<events, phase, stage>>

Append1(kind, tid) == events' = Append(events, [kind |-> kind, tid |-> tid])

Init == /\ events = <<>>
        /\ phase = "none"
        /\ stage = [t \in Threads |-> "unseen"]

TraceStart == /\ phase = "none"
              /\ phase' = "tracing"
              /\ Append1("trace_start", Process)
              /\ UNCHANGED stage

ThreadStart(t) == /\ phase = "tracing"
                  /\ stage[t] = "unseen"
                  /\ stage' = [stage EXCEPT ![t] = "live"]
                  /\ Append1("thread_start", t)
                  /\ UNCHANGED phase

ThreadEvent(t) == /\ phase = "tracing"
                  /\ stage[t] = "live"
                  /\ \E kind \in {"micro_event_log", "macro"} : Append1(kind, t)
                  /\ UNCHANGED <<phase, stage>>

ThreadEnd(t) == /\ phase = "tracing"
                /\ stage[t] = "live"
                /\ stage' = [stage EXCEPT ![t] = "ended"]
                /\ Append1("thread_end", t)
                /\ UNCHANGED phase

MemoryDump == /\ phase \in {"tracing", "dumping"}
              /\ \A t \in Threads : stage[t] # "live"
              /\ phase' = "dumping"
              /\ Append1("memory_dump", Process)
              /\ UNCHANGED stage

TraceEnd == /\ phase \in {"tracing", "dumping"}
            /\ \A t \in Threads : stage[t] # "live"
            /\ phase' = "ended"
            /\ Append1("trace_end", Process)
            /\ UNCHANGED stage

Next == \/ TraceStart
        \/ MemoryDump
        \/ TraceEnd
        \/ \E t \in Threads : ThreadStart(t) \/ ThreadEvent(t) \/ ThreadEnd(t)

Spec == Init /\ [][Next]_vars
=============================================================================
