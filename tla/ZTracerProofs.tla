--------------------------- MODULE ZTracerProofs ---------------------------
(***************************************************************************)
(* Theorems about ZTracer, for any number of threads, instructions, events *)
(* and memory regions, in three parts: type correctness and the safety of  *)
(* what the actors share; what the trace says of the threads' execution;   *)
(* and that the file of events is the stream that EventStream promises.    *)
(*                                                                         *)
(* NumberedInOrder and NoDanglingLog are not inductive.  What makes them   *)
(* true is which actor may be where when a lock is held (OutputInv,        *)
(* StateInv), when the stream is open (StreamInv), how the number of       *)
(* events relates to the events in the file (NumberInv), and what the      *)
(* registry of threads looks like whenever the state lock is free          *)
(* (RegistryInv).                                                          *)
(***************************************************************************)
EXTENDS ZTracer, FiniteSetTheorems, SequenceTheorems, TLAPS

HoldsOutput == WritePCs \ {"get_output"}
HoldsState  == {"xref", "start_new", "start_insert", "start_unlock",
                "finish_delete", "finish_erase", "finish_unlock"}

(* Each lock is held by the actor that is in one of its sections, if any. *)
OutputInv == \A a \in Actors : outputLock = a <=> pc[a] \in HoldsOutput
StateInv  == \A a \in Actors : stateLock = a <=> pc[a] \in HoldsState

(* The stream is open as long as anybody could write, and threads are only *)
(* about while the process is waiting for them.                            *)
StreamInv == /\ pc[Process] \notin {"main", "exited"} => streamOpen
             /\ \A t \in Threads : ~Finished(t) => pc[Process] = "running"

(* The file lacks exactly the events that are stamped and not yet written, *)
(* of which there is at most one.                                          *)
NumberInv == /\ (\A a \in Actors : pc[a] # "write") => Len(trace) = eventId
             /\ \A a \in Actors : pc[a] = "write" => /\ Len(trace) + 1 = eventId
                                                     /\ msg[a].id = Len(trace)
             /\ NumberedInOrder

(* A live thread's pointer is good except while its thread, which holds    *)
(* the state lock, destroys the log.                                       *)
RegistryInv == \A t \in Threads :
    /\ pc[t] = "start_insert" => logPtr[t] = "valid"
    /\ t \in liveThreads => logPtr[t] = "valid" \/ pc[t] = "finish_erase"

(* Room in the log for what the thread may still put into it. *)
RoomInv == \A t \in Threads :
    /\ Len(log[t]) <= LogCapacity
    /\ pc[t] = "count" => Len(log[t]) <= LogCapacity - MinFree
    /\ pc[t] = "ops" \/ (pc[t] \in WritePCs /\ ret[t] = "ops")
          => Len(log[t]) <= LogCapacity - MinFree + 1

IInv == /\ TypeOK
        /\ OutputInv
        /\ StateInv
        /\ StreamInv
        /\ NumberInv
        /\ RegistryInv
        /\ RoomInv
----------------------------------------------------------------------------
(* Events. *)

LEMMA MakeEventType ==
    ASSUME NEW a \in Actors, NEW kind \in Kinds
    PROVE  MakeEvent(a, kind) \in Event
BY DEF MakeEvent, Event, MicroOps

LEMMA LogEventType ==
    ASSUME LogsOK, NEW t \in Threads
    PROVE  LogEvent(t) \in Event
<1>1. MakeEvent(t, "micro_event_log") \in Event
  BY MakeEventType DEF Actors, Kinds
<1>2. insStart[t] \in Nat /\ log[t] \in Seq(MicroOps)
  BY DEF LogsOK
<1> QED
  BY <1>1, <1>2 DEF LogEvent, Event

(* What logMemoryRead and its like do to the log. *)
LEMMA OpsAppended ==
    ASSUME NEW s \in Seq(MicroOps), NEW n \in Nat
    PROVE  /\ s \o [i \in 1 .. n |-> "op"] \in Seq(MicroOps)
           /\ Len(s \o [i \in 1 .. n |-> "op"]) = Len(s) + n
<1> DEFINE more == [i \in 1 .. n |-> "op"]
<1>1. more \in [1 .. n -> MicroOps]
  BY DEF MicroOps
<1>2. more \in Seq(MicroOps) /\ Len(more) = n
  BY <1>1
<1> HIDE DEF more
<1>3. s \o more \in Seq(MicroOps) /\ Len(s \o more) = Len(s) + Len(more)
  BY <1>2, ConcatProperties
<1> QED
  BY <1>2, <1>3 DEF more

(* A step that neither enters WriteEvent nor has anything to do with what   *)
(* is written keeps control as it should be.                                *)
LEMMA GotoControl ==
    ASSUME ControlOK, NEW a \in Actors, NEW from, NEW to \in PCsOf(a),
           Goto(a, from, to), UNCHANGED <<ret, msg>>,
           to \in WritePCs => from \in WritePCs,
           to \in WritePCs \ {"put_output"} => from # "put_output"
    PROVE  ControlOK'
<1>1. to \in ThreadPCs \cup ProcessPCs
  BY DEF PCsOf
<1> QED
  BY <1>1 DEF ControlOK, Goto

(* A call of WriteEvent with an event and a place to return to. *)
LEMMA CallControl ==
    ASSUME ControlOK, NEW a \in Actors, NEW from, NEW event \in Event,
           NEW next \in RetsOf(a), Call(a, from, event, next)
    PROVE  ControlOK' /\ cursor' = cursor
<1>1. "get_output" \in ThreadPCs /\ "get_output" \in ProcessPCs
  BY DEF WritePCs, ThreadPCs, ProcessPCs
<1>2. "get_output" \in PCsOf(a)
  BY <1>1 DEF PCsOf
<1>3. next \in ThreadRets \cup ProcessRets
  BY DEF RetsOf
<1> QED
  BY <1>1, <1>2, <1>3 DEF Call, Goto, ControlOK

(* A step inside WriteEvent that turns the event into e. *)
LEMMA WriteControl ==
    ASSUME ControlOK, NEW a \in Actors, NEW to \in WritePCs, NEW e \in Event \cup {NoEvent},
           pc[a] \in WritePCs \ {"put_output"},
           e \in Event \/ to = "put_output",
           pc' = [pc EXCEPT ![a] = to], msg' = [msg EXCEPT ![a] = e], ret' = ret
    PROVE  ControlOK'
<1>1. to \in ThreadPCs /\ to \in ProcessPCs
  BY DEF ThreadPCs, ProcessPCs
<1>2. to \in PCsOf(a)
  BY <1>1 DEF PCsOf
<1> QED
  BY <1>1, <1>2 DEF ControlOK

LEMMA XrefType ==
    ASSUME LogsOK, NEW t \in Threads
    PROVE  Xref(t) \in [tid : Threads, next : Nat]
<1>1. insCounter[t] \in Nat /\ XrefRange \in Nat \ {0}
  BY TracerAssumption DEF LogsOK
<1>2. insCounter[t] % XrefRange \in Nat
  BY <1>1
<1> QED
  BY <1>2 DEF Xref

----------------------------------------------------------------------------
(* Type correctness is inductive. *)

LEMMA TypeStep ==
    ASSUME TypeOK, [Next]_vars
    PROVE  TypeOK'
<1> USE TracerAssumption DEF Actors, Goto, TypeOK
<1>1. ASSUME NEW a \in Actors, GetOutputLock(a) PROVE TypeOK'
  <2>1. ControlOK'
    BY <1>1, GotoControl DEF GetOutputLock, PCsOf, WritePCs, ThreadPCs, ProcessPCs
  <2>2. SharedOK'
    BY <1>1 DEF SharedOK, locks, registry, GetOutputLock, AcquireOutput
  <2>3. LogsOK'
    BY <1>1 DEF LogsOK, logs, bounds, GetOutputLock
  <2>4. OutputOK'
    BY <1>1 DEF OutputOK, output, GetOutputLock
  <2> QED
    BY <2>1, <2>2, <2>3, <2>4
<1>2. ASSUME NEW a \in Actors, GetStateLock(a) PROVE TypeOK'
  <2>1. ControlOK'
    BY <1>2, GotoControl DEF GetStateLock, PCsOf, WritePCs, ThreadPCs, ProcessPCs
  <2>2. SharedOK'
    BY <1>2 DEF SharedOK, locks, registry, GetStateLock, AcquireState
  <2>3. LogsOK'
    BY <1>2 DEF LogsOK, logs, bounds, GetStateLock
  <2>4. OutputOK'
    BY <1>2 DEF OutputOK, output, GetStateLock
  <2> QED
    BY <2>1, <2>2, <2>3, <2>4
<1>3. ASSUME NEW a \in Actors, XrefThread(a) PROVE TypeOK'
  <2>1. ControlOK'
    <3>1. pc[a] = "xref" /\ "xref" \in WritePCs \ {"put_output"} /\ msg[a] \in Event
      BY <1>3 DEF XrefThread, ControlOK, WritePCs
    <3>2. PICK t \in Threads : msg' = [msg EXCEPT ![a].xrefs = @ \cup {Xref(t)}]
      BY <1>3 DEF XrefThread
    <3>3. [msg[a] EXCEPT !.xrefs = @ \cup {Xref(t)}] \in Event
      BY <3>1, XrefType DEF Event
    <3>4. msg' = [msg EXCEPT ![a] = [msg[a] EXCEPT !.xrefs = @ \cup {Xref(t)}]]
      BY <3>2
    <3>5. pc' = [pc EXCEPT ![a] = "xref"] /\ ret' = ret
      BY <1>3, <3>1 DEF XrefThread, ControlOK
    <3> QED
      BY <3>1, <3>3, <3>4, <3>5, WriteControl
  <2>2. SharedOK'
    BY <1>3 DEF SharedOK, locks, registry, XrefThread
  <2>3. LogsOK'
    BY <1>3 DEF LogsOK, logs, bounds, XrefThread
  <2>4. OutputOK'
    BY <1>3 DEF OutputOK, output, XrefThread
  <2> QED
    BY <2>1, <2>2, <2>3, <2>4
<1>4. ASSUME NEW a \in Actors, PutStateLock(a) PROVE TypeOK'
  <2>1. ControlOK'
    BY <1>4, GotoControl DEF PutStateLock, PCsOf, WritePCs, ThreadPCs, ProcessPCs
  <2>2. SharedOK'
    BY <1>4 DEF SharedOK, locks, registry, PutStateLock
  <2>3. LogsOK'
    BY <1>4 DEF LogsOK, logs, bounds, PutStateLock
  <2>4. OutputOK'
    BY <1>4 DEF OutputOK, output, PutStateLock
  <2> QED
    BY <2>1, <2>2, <2>3, <2>4
<1>5. ASSUME NEW a \in Actors, StampEvent(a) PROVE TypeOK'
  <2>1. ControlOK'
    <3>1. pc[a] = "stamp" /\ "stamp" \in WritePCs \ {"put_output"} /\ msg[a] \in Event
      BY <1>5 DEF StampEvent, ControlOK, WritePCs
    <3>0. eventId \in Nat
      BY DEF OutputOK
    <3>2. [msg[a] EXCEPT !.id = eventId] \in Event
      BY <3>0, <3>1 DEF Event
    <3>3. msg' = [msg EXCEPT ![a] = [msg[a] EXCEPT !.id = eventId]]
      BY <1>5 DEF StampEvent
    <3>4. pc' = [pc EXCEPT ![a] = "write"] /\ ret' = ret /\ "write" \in WritePCs
      BY <1>5, <3>1 DEF StampEvent, ControlOK, WritePCs
    <3> QED
      BY <3>1, <3>2, <3>3, <3>4, WriteControl
  <2>2. SharedOK'
    BY <1>5 DEF SharedOK, locks, registry, StampEvent
  <2>3. LogsOK'
    BY <1>5 DEF LogsOK, logs, bounds, StampEvent
  <2>4. OutputOK'
    BY <1>5 DEF OutputOK, output, StampEvent
  <2> QED
    BY <2>1, <2>2, <2>3, <2>4
<1>6. ASSUME NEW a \in Actors, AbortAtLimit(a) PROVE TypeOK'
  <2>1. ControlOK'
    <3>1. pc[a] = "stamp" /\ "stamp" \in WritePCs \ {"put_output"} /\ msg[a] \in Event
      BY <1>6 DEF AbortAtLimit, ControlOK, WritePCs
    <3>0. eventId \in Nat
      BY DEF OutputOK
    <3>2. [msg[a] EXCEPT !.id = eventId] \in Event
      BY <3>0, <3>1 DEF Event
    <3>3. msg' = [msg EXCEPT ![a] = [msg[a] EXCEPT !.id = eventId]]
      BY <1>6 DEF AbortAtLimit
    <3>4. pc' = [pc EXCEPT ![a] = "stamp"] /\ ret' = ret /\ "stamp" \in WritePCs
      BY <1>6, <3>1 DEF AbortAtLimit, ControlOK, WritePCs
    <3> QED
      BY <3>1, <3>2, <3>3, <3>4, WriteControl
  <2>2. SharedOK'
    BY <1>6 DEF SharedOK, locks, registry, AbortAtLimit
  <2>3. LogsOK'
    BY <1>6 DEF LogsOK, logs, bounds, AbortAtLimit
  <2>4. OutputOK'
    BY <1>6 DEF OutputOK, output, AbortAtLimit
  <2> QED
    BY <2>1, <2>2, <2>3, <2>4
<1>7. ASSUME NEW a \in Actors, WriteEventUnlocked(a) PROVE TypeOK'
  <2>1. ControlOK'
    <3>1. pc[a] = "write" /\ "write" \in WritePCs \ {"put_output"} /\ "put_output" \in WritePCs
      BY <1>7 DEF WriteEventUnlocked, WritePCs
    <3> QED
      BY <1>7, <3>1, WriteControl DEF WriteEventUnlocked
  <2>2. SharedOK'
    BY <1>7 DEF SharedOK, locks, registry, WriteEventUnlocked
  <2>3. LogsOK'
    BY <1>7 DEF LogsOK, logs, bounds, WriteEventUnlocked
  <2>4. OutputOK'
    <3>1. msg[a] \in Event
      BY <1>7 DEF WriteEventUnlocked, ControlOK, WritePCs
    <3>2. trace' \in Seq(Event)
      BY <1>7, <3>1 DEF WriteEventUnlocked, OutputOK
    <3> QED
      BY <1>7, <3>2 DEF WriteEventUnlocked, OutputOK
  <2> QED
    BY <2>1, <2>2, <2>3, <2>4
<1>8. ASSUME NEW a \in Actors, PutOutputLock(a) PROVE TypeOK'
  <2>1. ControlOK'
    <3>1. ret[a] \in RetsOf(a)
      BY <1>8 DEF PutOutputLock, ControlOK, WritePCs
    <3>2. ret[a] \in PCsOf(a) /\ ret[a] \notin WritePCs /\ ret[a] \in ThreadPCs \cup ProcessPCs
      BY <3>1 DEF RetsOf, PCsOf, ThreadRets, ProcessRets, ThreadPCs, ProcessPCs, WritePCs
    <3> QED
      BY <1>8, <3>2 DEF PutOutputLock, ControlOK
  <2>2. SharedOK'
    BY <1>8 DEF SharedOK, locks, registry, PutOutputLock
  <2>3. LogsOK'
    BY <1>8 DEF LogsOK, logs, bounds, PutOutputLock
  <2>4. OutputOK'
    BY <1>8 DEF OutputOK, output, PutOutputLock
  <2> QED
    BY <2>1, <2>2, <2>3, <2>4
<1>9. ASSUME NEW t \in Threads, StartNewLog(t) PROVE TypeOK'
  <2>1. ControlOK'
    BY <1>9, GotoControl DEF StartNewLog, PCsOf, WritePCs, ThreadPCs, ProcessPCs
  <2>2. SharedOK'
    BY <1>9 DEF SharedOK, locks, registry, StartNewLog
  <2>3. LogsOK'
    BY <1>9 DEF LogsOK, logs, bounds, StartNewLog
  <2>4. OutputOK'
    BY <1>9 DEF OutputOK, output, StartNewLog
  <2> QED
    BY <2>1, <2>2, <2>3, <2>4
<1>10. ASSUME NEW t \in Threads, StartInsert(t) PROVE TypeOK'
  <2>1. ControlOK'
    BY <1>10, GotoControl DEF StartInsert, PCsOf, WritePCs, ThreadPCs, ProcessPCs
  <2>2. SharedOK'
    BY <1>10 DEF SharedOK, locks, registry, StartInsert
  <2>3. LogsOK'
    BY <1>10 DEF LogsOK, logs, bounds, StartInsert
  <2>4. OutputOK'
    BY <1>10 DEF OutputOK, output, StartInsert
  <2> QED
    BY <2>1, <2>2, <2>3, <2>4
<1>11. ASSUME NEW t \in Threads, StartUnlock(t) PROVE TypeOK'
  <2>1. ControlOK'
    BY <1>11, CallControl, MakeEventType DEF StartUnlock, Kinds, RetsOf, ThreadRets
  <2>2. SharedOK'
    BY <1>11 DEF SharedOK, locks, registry, StartUnlock, Call
  <2>3. LogsOK'
    BY <1>11 DEF LogsOK, logs, bounds, StartUnlock
  <2>4. OutputOK'
    BY <1>11 DEF OutputOK, output, StartUnlock
  <2> QED
    BY <2>1, <2>2, <2>3, <2>4
<1>12. ASSUME NEW t \in Threads, CheckFlushEnd(t) PROVE TypeOK'
  <2>1. ControlOK'
    BY <1>12, GotoControl DEF CheckFlushEnd, PCsOf, WritePCs, ThreadPCs, ProcessPCs
  <2>2. SharedOK'
    BY <1>12 DEF SharedOK, locks, registry, CheckFlushEnd
  <2>3. LogsOK'
    BY <1>12 DEF LogsOK, logs, bounds, CheckFlushEnd, ResetLog
  <2>4. OutputOK'
    BY <1>12 DEF OutputOK, output, CheckFlushEnd
  <2> QED
    BY <2>1, <2>2, <2>3, <2>4
<1>13. ASSUME NEW t \in Threads, CountPC(t) PROVE TypeOK'
  <2>1. ControlOK'
    BY <1>13, GotoControl DEF CountPC, PCsOf, WritePCs, ThreadPCs, ProcessPCs
  <2>2. SharedOK'
    BY <1>13 DEF SharedOK, locks, registry, CountPC
  <2>3. LogsOK'
    <3>1. log[t] \in Seq(MicroOps) /\ "pc" \in MicroOps
      BY DEF LogsOK, MicroOps
    <3>2. Append(log[t], "pc") \in Seq(MicroOps)
      BY <3>1, AppendProperties
    <3>3. log' \in [Threads -> Seq(MicroOps)]
      BY <1>13, <3>2 DEF LogsOK, CountPC
    <3>4. insCounter' \in [Threads -> Nat]
      BY <1>13 DEF LogsOK, CountPC
    <3> QED
      BY <1>13, <3>3, <3>4 DEF LogsOK, bounds, CountPC
  <2>4. OutputOK'
    BY <1>13 DEF OutputOK, output, CountPC
  <2> QED
    BY <2>1, <2>2, <2>3, <2>4
<1>14. ASSUME NEW t \in Threads, LogOps(t) PROVE TypeOK'
  <2>1. ControlOK'
    BY <1>14, GotoControl DEF LogOps, PCsOf, WritePCs, ThreadPCs, ProcessPCs
  <2>2. SharedOK'
    BY <1>14 DEF SharedOK, locks, registry, LogOps
  <2>3. LogsOK'
    <3>1. PICK n \in 0 .. MaxOps : log' = [log EXCEPT ![t] = @ \o [i \in 1 .. n |-> "op"]]
      BY <1>14 DEF LogOps
    <3>2. log[t] \in Seq(MicroOps) /\ n \in Nat
      BY DEF LogsOK
    <3>3. log[t] \o [i \in 1 .. n |-> "op"] \in Seq(MicroOps)
      BY <3>2, OpsAppended
    <3> QED
      BY <1>14, <3>1, <3>3 DEF LogsOK, logs, bounds, LogOps
  <2>4. OutputOK'
    BY <1>14 DEF OutputOK, output, LogOps
  <2> QED
    BY <2>1, <2>2, <2>3, <2>4
<1>15. ASSUME NEW t \in Threads, FinishFlushEnd(t) PROVE TypeOK'
  <2>1. ControlOK'
    BY <1>15, GotoControl DEF FinishFlushEnd, PCsOf, WritePCs, ThreadPCs, ProcessPCs
  <2>2. SharedOK'
    BY <1>15 DEF SharedOK, locks, registry, FinishFlushEnd
  <2>3. LogsOK'
    BY <1>15 DEF LogsOK, logs, bounds, FinishFlushEnd, ResetLog
  <2>4. OutputOK'
    BY <1>15 DEF OutputOK, output, FinishFlushEnd
  <2> QED
    BY <2>1, <2>2, <2>3, <2>4
<1>16. ASSUME NEW t \in Threads, FinishLock(t) PROVE TypeOK'
  <2>1. ControlOK'
    BY <1>16, GotoControl DEF FinishLock, PCsOf, WritePCs, ThreadPCs, ProcessPCs
  <2>2. SharedOK'
    BY <1>16 DEF SharedOK, locks, registry, FinishLock, AcquireState
  <2>3. LogsOK'
    BY <1>16 DEF LogsOK, logs, bounds, FinishLock
  <2>4. OutputOK'
    BY <1>16 DEF OutputOK, output, FinishLock
  <2> QED
    BY <2>1, <2>2, <2>3, <2>4
<1>17. ASSUME NEW t \in Threads, FinishDelete(t) PROVE TypeOK'
  <2>1. ControlOK'
    BY <1>17, GotoControl DEF FinishDelete, PCsOf, WritePCs, ThreadPCs, ProcessPCs
  <2>2. SharedOK'
    BY <1>17 DEF SharedOK, locks, registry, FinishDelete
  <2>3. LogsOK'
    BY <1>17 DEF LogsOK, logs, bounds, FinishDelete
  <2>4. OutputOK'
    BY <1>17 DEF OutputOK, output, FinishDelete
  <2> QED
    BY <2>1, <2>2, <2>3, <2>4
<1>18. ASSUME NEW t \in Threads, FinishErase(t) PROVE TypeOK'
  <2>1. ControlOK'
    BY <1>18, GotoControl DEF FinishErase, PCsOf, WritePCs, ThreadPCs, ProcessPCs
  <2>2. SharedOK'
    BY <1>18 DEF SharedOK, locks, registry, FinishErase
  <2>3. LogsOK'
    BY <1>18 DEF LogsOK, logs, bounds, FinishErase
  <2>4. OutputOK'
    BY <1>18 DEF OutputOK, output, FinishErase
  <2> QED
    BY <2>1, <2>2, <2>3, <2>4
<1>19. ASSUME NEW t \in Threads, FinishUnlock(t) PROVE TypeOK'
  <2>1. ControlOK'
    BY <1>19, CallControl, MakeEventType DEF FinishUnlock, Kinds, RetsOf, ThreadRets
  <2>2. SharedOK'
    BY <1>19 DEF SharedOK, locks, registry, FinishUnlock, Call
  <2>3. LogsOK'
    BY <1>19 DEF LogsOK, logs, bounds, FinishUnlock
  <2>4. OutputOK'
    BY <1>19 DEF OutputOK, output, FinishUnlock
  <2> QED
    BY <2>1, <2>2, <2>3, <2>4
<1>20. ASSUME NEW t \in Threads, StartThread(t) PROVE TypeOK'
  <2>1. ControlOK'
    BY <1>20, GotoControl DEF StartThread, PCsOf, WritePCs, ThreadPCs, ProcessPCs
  <2>2. SharedOK'
    BY <1>20 DEF SharedOK, locks, registry, StartThread, AcquireState
  <2>3. LogsOK'
    BY <1>20 DEF LogsOK, logs, bounds, StartThread
  <2>4. OutputOK'
    BY <1>20 DEF OutputOK, output, StartThread
  <2> QED
    BY <2>1, <2>2, <2>3, <2>4
<1>21. ASSUME NEW t \in Threads, LogPC(t) PROVE TypeOK'
  <2>1. ControlOK'
    BY <1>21, CallControl, GotoControl, LogEventType
    DEF LogPC, RetsOf, ThreadRets, PCsOf, WritePCs, ThreadPCs, ProcessPCs
  <2>2. SharedOK'
    BY <1>21 DEF SharedOK, locks, registry, LogPC, Call
  <2>3. LogsOK'
    BY <1>21 DEF LogsOK, logs, bounds, LogPC
  <2>4. OutputOK'
    BY <1>21 DEF OutputOK, output, LogPC
  <2> QED
    BY <2>1, <2>2, <2>3, <2>4
<1>22. ASSUME NEW t \in Threads, MacroEvent(t) PROVE TypeOK'
  <2>1. ControlOK'
    BY <1>22, CallControl, MakeEventType DEF MacroEvent, Kinds, RetsOf, ThreadRets
  <2>2. SharedOK'
    BY <1>22 DEF SharedOK, locks, registry, MacroEvent, Call
  <2>3. LogsOK'
    BY <1>22 DEF LogsOK, logs, bounds, MacroEvent
  <2>4. OutputOK'
    BY <1>22 DEF OutputOK, output, MacroEvent
  <2> QED
    BY <2>1, <2>2, <2>3, <2>4
<1>23. ASSUME NEW t \in Threads, FinishThread(t) PROVE TypeOK'
  <2>1. ControlOK'
    BY <1>23, CallControl, LogEventType DEF FinishThread, RetsOf, ThreadRets
  <2>2. SharedOK'
    BY <1>23 DEF SharedOK, locks, registry, FinishThread, Call
  <2>3. LogsOK'
    BY <1>23 DEF LogsOK, logs, bounds, FinishThread
  <2>4. OutputOK'
    BY <1>23 DEF OutputOK, output, FinishThread
  <2> QED
    BY <2>1, <2>2, <2>3, <2>4
<1>24. CASE OpenLog
  <2>1. ControlOK'
    BY <1>24, CallControl, MakeEventType DEF OpenLog, Kinds, RetsOf, ProcessRets
  <2>2. SharedOK'
    BY <1>24 DEF SharedOK, locks, registry, OpenLog, Call
  <2>3. LogsOK'
    BY <1>24 DEF LogsOK, logs, bounds, OpenLog
  <2>4. OutputOK'
    BY <1>24 DEF OutputOK, output, OpenLog
  <2> QED
    BY <2>1, <2>2, <2>3, <2>4
<1>25. CASE OpenLogFails
  <2>1. ControlOK'
    BY <1>25, GotoControl DEF OpenLogFails, PCsOf, WritePCs, ThreadPCs, ProcessPCs
  <2>2. SharedOK'
    BY <1>25 DEF SharedOK, locks, registry, OpenLogFails
  <2>3. LogsOK'
    BY <1>25 DEF LogsOK, logs, bounds, OpenLogFails
  <2>4. OutputOK'
    BY <1>25 DEF OutputOK, output, OpenLogFails
  <2> QED
    BY <2>1, <2>2, <2>3, <2>4
<1>26. CASE StartProgram
  <2>1. ControlOK'
    BY <1>26, GotoControl DEF StartProgram, PCsOf, WritePCs, ThreadPCs, ProcessPCs
  <2>2. SharedOK'
    BY <1>26 DEF SharedOK, locks, registry, StartProgram
  <2>3. LogsOK'
    BY <1>26 DEF LogsOK, logs, bounds, StartProgram
  <2>4. OutputOK'
    BY <1>26 DEF OutputOK, output, StartProgram
  <2> QED
    BY <2>1, <2>2, <2>3, <2>4
<1>27. CASE OnFinish
  <2>1. ControlOK'
    BY <1>27, GotoControl DEF OnFinish, PCsOf, WritePCs, ThreadPCs, ProcessPCs
  <2>2. SharedOK'
    BY <1>27 DEF SharedOK, locks, registry, OnFinish
  <2>3. LogsOK'
    BY <1>27 DEF LogsOK, logs, bounds, OnFinish
  <2>4. OutputOK'
    BY <1>27 DEF OutputOK, output, OnFinish
  <2> QED
    BY <2>1, <2>2, <2>3, <2>4
<1>28. CASE DumpMemoryRegion
  <2>1. ControlOK'
    BY <1>28, CallControl, MakeEventType DEF DumpMemoryRegion, Kinds, RetsOf, ProcessRets
  <2>2. SharedOK'
    BY <1>28 DEF SharedOK, locks, registry, DumpMemoryRegion, Call
  <2>3. LogsOK'
    BY <1>28 DEF LogsOK, logs, bounds, DumpMemoryRegion
  <2>4. OutputOK'
    BY <1>28 DEF OutputOK, output, DumpMemoryRegion
  <2> QED
    BY <2>1, <2>2, <2>3, <2>4
<1>29. CASE CloseLog
  <2>1. ControlOK'
    BY <1>29, CallControl, MakeEventType DEF CloseLog, Kinds, RetsOf, ProcessRets
  <2>2. SharedOK'
    BY <1>29 DEF SharedOK, locks, registry, CloseLog, Call
  <2>3. LogsOK'
    BY <1>29 DEF LogsOK, logs, bounds, CloseLog
  <2>4. OutputOK'
    BY <1>29 DEF OutputOK, output, CloseLog
  <2> QED
    BY <2>1, <2>2, <2>3, <2>4
<1>30. CASE CloseStream
  <2>1. ControlOK'
    BY <1>30, GotoControl DEF CloseStream, PCsOf, WritePCs, ThreadPCs, ProcessPCs
  <2>2. SharedOK'
    BY <1>30 DEF SharedOK, locks, registry, CloseStream
  <2>3. LogsOK'
    BY <1>30 DEF LogsOK, logs, bounds, CloseStream
  <2>4. OutputOK'
    BY <1>30 DEF OutputOK, output, CloseStream
  <2> QED
    BY <2>1, <2>2, <2>3, <2>4
<1>31. CASE UNCHANGED vars
  BY <1>31 DEF vars, ControlOK, SharedOK, LogsOK, OutputOK, locks, registry, logs, bounds, output
<1> QED
  BY <1>1, <1>2, <1>3, <1>4, <1>5, <1>6, <1>7, <1>8,
     <1>9, <1>10, <1>11, <1>12, <1>13, <1>14, <1>15, <1>16,
     <1>17, <1>18, <1>19, <1>20, <1>21, <1>22, <1>23, <1>24,
     <1>25, <1>26, <1>27, <1>28, <1>29, <1>30, <1>31
  DEF Next, WriteEvent, Callback, Application, ProcessStep, Terminated

(* The holder of the output lock is the actor between taking and releasing  *)
(* it.                                                                      *)
LEMMA OutputStep ==
    ASSUME TypeOK, OutputInv, [Next]_vars
    PROVE  OutputInv'
<1> USE TracerAssumption DEF Actors, Goto, OutputInv, HoldsOutput, WritePCs, locks
<1>0. /\ pc \in [Actors -> ThreadPCs \cup ProcessPCs]
      /\ \A a \in Actors : pc[a] \in WritePCs => ret[a] \in ThreadRets \cup ProcessRets
  BY DEF TypeOK, ControlOK, RetsOf
<1>1. ASSUME NEW a \in Actors, GetOutputLock(a) PROVE OutputInv'
  BY <1>1, <1>0 DEF GetOutputLock, AcquireOutput
<1>2. ASSUME NEW a \in Actors, GetStateLock(a) PROVE OutputInv'
  BY <1>2, <1>0 DEF GetStateLock, AcquireState
<1>3. ASSUME NEW a \in Actors, XrefThread(a) PROVE OutputInv'
  BY <1>3, <1>0 DEF XrefThread
<1>4. ASSUME NEW a \in Actors, PutStateLock(a) PROVE OutputInv'
  BY <1>4, <1>0 DEF PutStateLock
<1>5. ASSUME NEW a \in Actors, StampEvent(a) PROVE OutputInv'
  BY <1>5, <1>0 DEF StampEvent
<1>6. ASSUME NEW a \in Actors, AbortAtLimit(a) PROVE OutputInv'
  BY <1>6, <1>0 DEF AbortAtLimit
<1>7. ASSUME NEW a \in Actors, WriteEventUnlocked(a) PROVE OutputInv'
  BY <1>7, <1>0 DEF WriteEventUnlocked
<1>8. ASSUME NEW a \in Actors, PutOutputLock(a) PROVE OutputInv'
  <2>1. ret[a] \notin WritePCs
    BY <1>8, <1>0 DEF PutOutputLock, ThreadRets, ProcessRets
  <2> QED
    BY <1>8, <1>0, <2>1 DEF PutOutputLock
<1>9. ASSUME NEW t \in Threads, StartNewLog(t) PROVE OutputInv'
  BY <1>9, <1>0 DEF StartNewLog
<1>10. ASSUME NEW t \in Threads, StartInsert(t) PROVE OutputInv'
  BY <1>10, <1>0 DEF StartInsert
<1>11. ASSUME NEW t \in Threads, StartUnlock(t) PROVE OutputInv'
  BY <1>11, <1>0 DEF StartUnlock, Call
<1>12. ASSUME NEW t \in Threads, CheckFlushEnd(t) PROVE OutputInv'
  BY <1>12, <1>0 DEF CheckFlushEnd
<1>13. ASSUME NEW t \in Threads, CountPC(t) PROVE OutputInv'
  BY <1>13, <1>0 DEF CountPC
<1>14. ASSUME NEW t \in Threads, LogOps(t) PROVE OutputInv'
  BY <1>14, <1>0 DEF LogOps
<1>15. ASSUME NEW t \in Threads, FinishFlushEnd(t) PROVE OutputInv'
  BY <1>15, <1>0 DEF FinishFlushEnd
<1>16. ASSUME NEW t \in Threads, FinishLock(t) PROVE OutputInv'
  BY <1>16, <1>0 DEF FinishLock, AcquireState
<1>17. ASSUME NEW t \in Threads, FinishDelete(t) PROVE OutputInv'
  BY <1>17, <1>0 DEF FinishDelete
<1>18. ASSUME NEW t \in Threads, FinishErase(t) PROVE OutputInv'
  BY <1>18, <1>0 DEF FinishErase
<1>19. ASSUME NEW t \in Threads, FinishUnlock(t) PROVE OutputInv'
  BY <1>19, <1>0 DEF FinishUnlock, Call
<1>20. ASSUME NEW t \in Threads, StartThread(t) PROVE OutputInv'
  BY <1>20, <1>0 DEF StartThread, AcquireState
<1>21. ASSUME NEW t \in Threads, LogPC(t) PROVE OutputInv'
  BY <1>21, <1>0 DEF LogPC, Call
<1>22. ASSUME NEW t \in Threads, MacroEvent(t) PROVE OutputInv'
  BY <1>22, <1>0 DEF MacroEvent, Call
<1>23. ASSUME NEW t \in Threads, FinishThread(t) PROVE OutputInv'
  BY <1>23, <1>0 DEF FinishThread, Call
<1>24. CASE OpenLog
  BY <1>24, <1>0 DEF OpenLog, Call
<1>25. CASE OpenLogFails
  BY <1>25, <1>0 DEF OpenLogFails
<1>26. CASE StartProgram
  BY <1>26, <1>0 DEF StartProgram
<1>27. CASE OnFinish
  BY <1>27, <1>0 DEF OnFinish
<1>28. CASE DumpMemoryRegion
  BY <1>28, <1>0 DEF DumpMemoryRegion, Call
<1>29. CASE CloseLog
  BY <1>29, <1>0 DEF CloseLog, Call
<1>30. CASE CloseStream
  BY <1>30, <1>0 DEF CloseStream
<1>31. CASE UNCHANGED vars
  BY <1>31, <1>0 DEF vars
<1> QED
  BY <1>1, <1>2, <1>3, <1>4, <1>5, <1>6, <1>7, <1>8,
     <1>9, <1>10, <1>11, <1>12, <1>13, <1>14, <1>15, <1>16,
     <1>17, <1>18, <1>19, <1>20, <1>21, <1>22, <1>23, <1>24,
     <1>25, <1>26, <1>27, <1>28, <1>29, <1>30, <1>31
  DEF Next, WriteEvent, Callback, Application, ProcessStep, Terminated

(* The holder of the state lock is the actor in one of its three sections. *)
LEMMA StateStep ==
    ASSUME TypeOK, StateInv, [Next]_vars
    PROVE  StateInv'
<1> USE TracerAssumption DEF Actors, Goto, StateInv, HoldsState, locks
<1>0. /\ pc \in [Actors -> ThreadPCs \cup ProcessPCs]
      /\ \A a \in Actors : pc[a] \in WritePCs => ret[a] \in ThreadRets \cup ProcessRets
  BY DEF TypeOK, ControlOK, RetsOf
<1>1. ASSUME NEW a \in Actors, GetOutputLock(a) PROVE StateInv'
  BY <1>1, <1>0 DEF GetOutputLock, AcquireOutput
<1>2. ASSUME NEW a \in Actors, GetStateLock(a) PROVE StateInv'
  BY <1>2, <1>0 DEF GetStateLock, AcquireState
<1>3. ASSUME NEW a \in Actors, XrefThread(a) PROVE StateInv'
  BY <1>3, <1>0 DEF XrefThread
<1>4. ASSUME NEW a \in Actors, PutStateLock(a) PROVE StateInv'
  BY <1>4, <1>0 DEF PutStateLock
<1>5. ASSUME NEW a \in Actors, StampEvent(a) PROVE StateInv'
  BY <1>5, <1>0 DEF StampEvent
<1>6. ASSUME NEW a \in Actors, AbortAtLimit(a) PROVE StateInv'
  BY <1>6, <1>0 DEF AbortAtLimit
<1>7. ASSUME NEW a \in Actors, WriteEventUnlocked(a) PROVE StateInv'
  BY <1>7, <1>0 DEF WriteEventUnlocked
<1>8. ASSUME NEW a \in Actors, PutOutputLock(a) PROVE StateInv'
  <2>1. ret[a] \notin HoldsState
    BY <1>8, <1>0 DEF PutOutputLock, ThreadRets, ProcessRets, WritePCs
  <2> QED
    BY <1>8, <1>0, <2>1 DEF PutOutputLock
<1>9. ASSUME NEW t \in Threads, StartNewLog(t) PROVE StateInv'
  BY <1>9, <1>0 DEF StartNewLog
<1>10. ASSUME NEW t \in Threads, StartInsert(t) PROVE StateInv'
  BY <1>10, <1>0 DEF StartInsert
<1>11. ASSUME NEW t \in Threads, StartUnlock(t) PROVE StateInv'
  BY <1>11, <1>0 DEF StartUnlock, Call
<1>12. ASSUME NEW t \in Threads, CheckFlushEnd(t) PROVE StateInv'
  BY <1>12, <1>0 DEF CheckFlushEnd
<1>13. ASSUME NEW t \in Threads, CountPC(t) PROVE StateInv'
  BY <1>13, <1>0 DEF CountPC
<1>14. ASSUME NEW t \in Threads, LogOps(t) PROVE StateInv'
  BY <1>14, <1>0 DEF LogOps
<1>15. ASSUME NEW t \in Threads, FinishFlushEnd(t) PROVE StateInv'
  BY <1>15, <1>0 DEF FinishFlushEnd
<1>16. ASSUME NEW t \in Threads, FinishLock(t) PROVE StateInv'
  BY <1>16, <1>0 DEF FinishLock, AcquireState
<1>17. ASSUME NEW t \in Threads, FinishDelete(t) PROVE StateInv'
  BY <1>17, <1>0 DEF FinishDelete
<1>18. ASSUME NEW t \in Threads, FinishErase(t) PROVE StateInv'
  BY <1>18, <1>0 DEF FinishErase
<1>19. ASSUME NEW t \in Threads, FinishUnlock(t) PROVE StateInv'
  BY <1>19, <1>0 DEF FinishUnlock, Call
<1>20. ASSUME NEW t \in Threads, StartThread(t) PROVE StateInv'
  BY <1>20, <1>0 DEF StartThread, AcquireState
<1>21. ASSUME NEW t \in Threads, LogPC(t) PROVE StateInv'
  BY <1>21, <1>0 DEF LogPC, Call
<1>22. ASSUME NEW t \in Threads, MacroEvent(t) PROVE StateInv'
  BY <1>22, <1>0 DEF MacroEvent, Call
<1>23. ASSUME NEW t \in Threads, FinishThread(t) PROVE StateInv'
  BY <1>23, <1>0 DEF FinishThread, Call
<1>24. CASE OpenLog
  BY <1>24, <1>0 DEF OpenLog, Call
<1>25. CASE OpenLogFails
  BY <1>25, <1>0 DEF OpenLogFails
<1>26. CASE StartProgram
  BY <1>26, <1>0 DEF StartProgram
<1>27. CASE OnFinish
  BY <1>27, <1>0 DEF OnFinish
<1>28. CASE DumpMemoryRegion
  BY <1>28, <1>0 DEF DumpMemoryRegion, Call
<1>29. CASE CloseLog
  BY <1>29, <1>0 DEF CloseLog, Call
<1>30. CASE CloseStream
  BY <1>30, <1>0 DEF CloseStream
<1>31. CASE UNCHANGED vars
  BY <1>31, <1>0 DEF vars
<1> QED
  BY <1>1, <1>2, <1>3, <1>4, <1>5, <1>6, <1>7, <1>8,
     <1>9, <1>10, <1>11, <1>12, <1>13, <1>14, <1>15, <1>16,
     <1>17, <1>18, <1>19, <1>20, <1>21, <1>22, <1>23, <1>24,
     <1>25, <1>26, <1>27, <1>28, <1>29, <1>30, <1>31
  DEF Next, WriteEvent, Callback, Application, ProcessStep, Terminated

(* The stream is open while anybody may write, and threads run only while  *)
(* the process does.                                                       *)
LEMMA StreamStep ==
    ASSUME TypeOK, StreamInv, [Next]_vars
    PROVE  StreamInv'
<1> USE TracerAssumption DEF Actors, Goto, StreamInv, Finished, output
<1>0. /\ pc \in [Actors -> ThreadPCs \cup ProcessPCs]
      /\ \A a \in Actors : pc[a] \in PCsOf(a)
      /\ \A a \in Actors : pc[a] \in WritePCs => ret[a] \in RetsOf(a)
  BY DEF TypeOK, ControlOK
<1>1. ASSUME NEW a \in Actors, GetOutputLock(a) PROVE StreamInv'
  BY <1>1, <1>0 DEF GetOutputLock
<1>2. ASSUME NEW a \in Actors, GetStateLock(a) PROVE StreamInv'
  BY <1>2, <1>0 DEF GetStateLock
<1>3. ASSUME NEW a \in Actors, XrefThread(a) PROVE StreamInv'
  BY <1>3, <1>0 DEF XrefThread
<1>4. ASSUME NEW a \in Actors, PutStateLock(a) PROVE StreamInv'
  BY <1>4, <1>0 DEF PutStateLock
<1>5. ASSUME NEW a \in Actors, StampEvent(a) PROVE StreamInv'
  BY <1>5, <1>0 DEF StampEvent
<1>6. ASSUME NEW a \in Actors, AbortAtLimit(a) PROVE StreamInv'
  BY <1>6, <1>0 DEF AbortAtLimit
<1>7. ASSUME NEW a \in Actors, WriteEventUnlocked(a) PROVE StreamInv'
  BY <1>7, <1>0 DEF WriteEventUnlocked
<1>8. ASSUME NEW a \in Actors, PutOutputLock(a) PROVE StreamInv'
  <2>1. a = Process => ret[a] \notin {"main", "exited"} /\ pc[Process] # "running"
    BY <1>8, <1>0 DEF PutOutputLock, RetsOf, ProcessRets, WritePCs
  <2>2. a # Process => ~Finished(a)
    BY <1>8 DEF PutOutputLock
  <2>3. pc[a] # "main" /\ pc[a] # "exited" /\ streamOpen' = streamOpen
    BY <1>8 DEF PutOutputLock
  <2> QED
    BY <1>8, <1>0, <2>1, <2>2, <2>3 DEF PutOutputLock
<1>9. ASSUME NEW t \in Threads, StartNewLog(t) PROVE StreamInv'
  BY <1>9, <1>0 DEF StartNewLog
<1>10. ASSUME NEW t \in Threads, StartInsert(t) PROVE StreamInv'
  BY <1>10, <1>0 DEF StartInsert
<1>11. ASSUME NEW t \in Threads, StartUnlock(t) PROVE StreamInv'
  BY <1>11, <1>0 DEF StartUnlock, Call
<1>12. ASSUME NEW t \in Threads, CheckFlushEnd(t) PROVE StreamInv'
  BY <1>12, <1>0 DEF CheckFlushEnd
<1>13. ASSUME NEW t \in Threads, CountPC(t) PROVE StreamInv'
  BY <1>13, <1>0 DEF CountPC
<1>14. ASSUME NEW t \in Threads, LogOps(t) PROVE StreamInv'
  BY <1>14, <1>0 DEF LogOps
<1>15. ASSUME NEW t \in Threads, FinishFlushEnd(t) PROVE StreamInv'
  BY <1>15, <1>0 DEF FinishFlushEnd
<1>16. ASSUME NEW t \in Threads, FinishLock(t) PROVE StreamInv'
  BY <1>16, <1>0 DEF FinishLock
<1>17. ASSUME NEW t \in Threads, FinishDelete(t) PROVE StreamInv'
  BY <1>17, <1>0 DEF FinishDelete
<1>18. ASSUME NEW t \in Threads, FinishErase(t) PROVE StreamInv'
  BY <1>18, <1>0 DEF FinishErase
<1>19. ASSUME NEW t \in Threads, FinishUnlock(t) PROVE StreamInv'
  BY <1>19, <1>0 DEF FinishUnlock, Call
<1>20. ASSUME NEW t \in Threads, StartThread(t) PROVE StreamInv'
  BY <1>20, <1>0 DEF StartThread
<1>21. ASSUME NEW t \in Threads, LogPC(t) PROVE StreamInv'
  BY <1>21, <1>0 DEF LogPC, Call
<1>22. ASSUME NEW t \in Threads, MacroEvent(t) PROVE StreamInv'
  BY <1>22, <1>0 DEF MacroEvent, Call
<1>23. ASSUME NEW t \in Threads, FinishThread(t) PROVE StreamInv'
  BY <1>23, <1>0 DEF FinishThread, Call
<1>24. CASE OpenLog
  BY <1>24, <1>0 DEF OpenLog, Call
<1>25. CASE OpenLogFails
  BY <1>25, <1>0 DEF OpenLogFails
<1>26. CASE StartProgram
  BY <1>26, <1>0 DEF StartProgram
<1>27. CASE OnFinish
  BY <1>27, <1>0 DEF OnFinish
<1>28. CASE DumpMemoryRegion
  BY <1>28, <1>0 DEF DumpMemoryRegion, Call
<1>29. CASE CloseLog
  BY <1>29, <1>0 DEF CloseLog, Call
<1>30. CASE CloseStream
  BY <1>30, <1>0 DEF CloseStream
<1>31. CASE UNCHANGED vars
  BY <1>31, <1>0 DEF vars
<1> QED
  BY <1>1, <1>2, <1>3, <1>4, <1>5, <1>6, <1>7, <1>8,
     <1>9, <1>10, <1>11, <1>12, <1>13, <1>14, <1>15, <1>16,
     <1>17, <1>18, <1>19, <1>20, <1>21, <1>22, <1>23, <1>24,
     <1>25, <1>26, <1>27, <1>28, <1>29, <1>30, <1>31
  DEF Next, WriteEvent, Callback, Application, ProcessStep, Terminated

(* Numbers are given out and used up under the output lock, to an open     *)
(* stream.                                                                 *)
LEMMA NumberStep ==
    ASSUME TypeOK, OutputInv, StreamInv, NumberInv, [Next]_vars
    PROVE  NumberInv'
<1> USE TracerAssumption DEF Actors, Goto, NumberInv, NumberedInOrder, output
<1>0. /\ pc \in [Actors -> ThreadPCs \cup ProcessPCs]
      /\ \A a \in Actors : pc[a] \in WritePCs => ret[a] \in ThreadRets \cup ProcessRets
      /\ msg \in [Actors -> Event \cup {NoEvent}]
      /\ \A a \in Actors : pc[a] \in WritePCs \ {"put_output"} => msg[a] \in Event
      /\ trace \in Seq(Event) /\ Len(trace) \in Nat /\ eventId \in Nat
  BY DEF TypeOK, ControlOK, RetsOf, OutputOK
<1>a. \A a, b \in Actors : pc[a] \in HoldsOutput /\ pc[b] \in HoldsOutput => a = b
  BY DEF OutputInv
<1>1. ASSUME NEW a \in Actors, GetOutputLock(a) PROVE NumberInv'
  BY <1>1, <1>0 DEF GetOutputLock
<1>2. ASSUME NEW a \in Actors, GetStateLock(a) PROVE NumberInv'
  BY <1>2, <1>0 DEF GetStateLock
<1>3. ASSUME NEW a \in Actors, XrefThread(a) PROVE NumberInv'
  BY <1>3, <1>0 DEF XrefThread
<1>4. ASSUME NEW a \in Actors, PutStateLock(a) PROVE NumberInv'
  BY <1>4, <1>0 DEF PutStateLock
<1>5. ASSUME NEW a \in Actors, StampEvent(a) PROVE NumberInv'
  <2>1. pc[a] = "stamp" /\ pc' = [pc EXCEPT ![a] = "write"]
    BY <1>5 DEF StampEvent
  <2>2. \A b \in Actors : pc[b] # "write"
    BY <2>1, <1>a DEF HoldsOutput, WritePCs
  <2>3. msg[a] \in Event
    BY <2>1, <1>0 DEF WritePCs
  <2>4. msg'[a].id = eventId
    BY <1>5, <1>0, <2>3 DEF StampEvent, Event
  <2>5. eventId' = eventId + 1 /\ trace' = trace
    BY <1>5 DEF StampEvent
  <2>6. \A b \in Actors : pc'[b] = "write" <=> b = a
    BY <1>0, <2>1, <2>2
  <2> QED
    BY <1>0, <2>2, <2>4, <2>5, <2>6
<1>6. ASSUME NEW a \in Actors, AbortAtLimit(a) PROVE NumberInv'
  BY <1>6, <1>0 DEF AbortAtLimit
<1>7. ASSUME NEW a \in Actors, WriteEventUnlocked(a) PROVE NumberInv'
  <2>1. pc[a] = "write" /\ pc' = [pc EXCEPT ![a] = "put_output"] /\ msg[a] \in Event
    BY <1>7, <1>0 DEF WriteEventUnlocked, WritePCs
  <2>2. streamOpen
    <3>1. CASE a = Process
      BY <2>1, <3>1 DEF StreamInv
    <3>2. CASE a \in Threads
      BY <2>1, <3>2 DEF StreamInv, Finished
    <3> QED
      BY <3>1, <3>2
  <2>3. trace' = Append(trace, msg[a]) /\ eventId' = eventId
    BY <1>7, <2>2 DEF WriteEventUnlocked
  <2>4. Len(trace) + 1 = eventId /\ msg[a].id = Len(trace)
    BY <2>1
  <2>5. /\ trace' \in Seq(Event)
        /\ Len(trace') = Len(trace) + 1
        /\ \A i \in 1 .. Len(trace) : trace'[i] = trace[i]
        /\ trace'[Len(trace) + 1] = msg[a]
    BY <1>0, <2>1, <2>3, AppendProperties
  <2>6. NumberedInOrder'
    <3> SUFFICES ASSUME NEW i \in DOMAIN trace' PROVE trace'[i].id = i - 1
      BY DEF NumberedInOrder
    <3>1. i \in 1 .. (Len(trace) + 1) /\ DOMAIN trace = 1 .. Len(trace)
      BY <1>0, <2>5
    <3>2. CASE i = Len(trace) + 1
      BY <1>0, <2>4, <2>5, <3>2
    <3>3. CASE i \in 1 .. Len(trace)
      BY <1>0, <2>5, <3>1, <3>3
    <3>4. Len(trace) \in Nat
      BY <1>0
    <3>5. i = Len(trace) + 1 \/ i \in 1 .. Len(trace)
      BY <3>1, <3>4
    <3> QED
      BY <3>2, <3>3, <3>5
  <2>7. \A b \in Actors : pc'[b] # "write"
    BY <1>0, <1>a, <2>1 DEF HoldsOutput, WritePCs
  <2> QED
    BY <1>0, <2>3, <2>4, <2>5, <2>6, <2>7
<1>8. ASSUME NEW a \in Actors, PutOutputLock(a) PROVE NumberInv'
  <2>1. ret[a] # "write"
    BY <1>8, <1>0 DEF PutOutputLock, ThreadRets, ProcessRets, WritePCs
  <2> QED
    BY <1>8, <1>0, <2>1 DEF PutOutputLock
<1>9. ASSUME NEW t \in Threads, StartNewLog(t) PROVE NumberInv'
  BY <1>9, <1>0 DEF StartNewLog
<1>10. ASSUME NEW t \in Threads, StartInsert(t) PROVE NumberInv'
  BY <1>10, <1>0 DEF StartInsert
<1>11. ASSUME NEW t \in Threads, StartUnlock(t) PROVE NumberInv'
  BY <1>11, <1>0 DEF StartUnlock, Call
<1>12. ASSUME NEW t \in Threads, CheckFlushEnd(t) PROVE NumberInv'
  BY <1>12, <1>0 DEF CheckFlushEnd
<1>13. ASSUME NEW t \in Threads, CountPC(t) PROVE NumberInv'
  BY <1>13, <1>0 DEF CountPC
<1>14. ASSUME NEW t \in Threads, LogOps(t) PROVE NumberInv'
  BY <1>14, <1>0 DEF LogOps
<1>15. ASSUME NEW t \in Threads, FinishFlushEnd(t) PROVE NumberInv'
  BY <1>15, <1>0 DEF FinishFlushEnd
<1>16. ASSUME NEW t \in Threads, FinishLock(t) PROVE NumberInv'
  BY <1>16, <1>0 DEF FinishLock
<1>17. ASSUME NEW t \in Threads, FinishDelete(t) PROVE NumberInv'
  BY <1>17, <1>0 DEF FinishDelete
<1>18. ASSUME NEW t \in Threads, FinishErase(t) PROVE NumberInv'
  BY <1>18, <1>0 DEF FinishErase
<1>19. ASSUME NEW t \in Threads, FinishUnlock(t) PROVE NumberInv'
  BY <1>19, <1>0 DEF FinishUnlock, Call
<1>20. ASSUME NEW t \in Threads, StartThread(t) PROVE NumberInv'
  BY <1>20, <1>0 DEF StartThread
<1>21. ASSUME NEW t \in Threads, LogPC(t) PROVE NumberInv'
  BY <1>21, <1>0 DEF LogPC, Call
<1>22. ASSUME NEW t \in Threads, MacroEvent(t) PROVE NumberInv'
  BY <1>22, <1>0 DEF MacroEvent, Call
<1>23. ASSUME NEW t \in Threads, FinishThread(t) PROVE NumberInv'
  BY <1>23, <1>0 DEF FinishThread, Call
<1>24. CASE OpenLog
  BY <1>24, <1>0 DEF OpenLog, Call
<1>25. CASE OpenLogFails
  BY <1>25, <1>0 DEF OpenLogFails
<1>26. CASE StartProgram
  BY <1>26, <1>0 DEF StartProgram
<1>27. CASE OnFinish
  BY <1>27, <1>0 DEF OnFinish
<1>28. CASE DumpMemoryRegion
  BY <1>28, <1>0 DEF DumpMemoryRegion, Call
<1>29. CASE CloseLog
  BY <1>29, <1>0 DEF CloseLog, Call
<1>30. CASE CloseStream
  BY <1>30, <1>0 DEF CloseStream
<1>31. CASE UNCHANGED vars
  BY <1>31, <1>0 DEF vars
<1> QED
  BY <1>1, <1>2, <1>3, <1>4, <1>5, <1>6, <1>7, <1>8,
     <1>9, <1>10, <1>11, <1>12, <1>13, <1>14, <1>15, <1>16,
     <1>17, <1>18, <1>19, <1>20, <1>21, <1>22, <1>23, <1>24,
     <1>25, <1>26, <1>27, <1>28, <1>29, <1>30, <1>31
  DEF Next, WriteEvent, Callback, Application, ProcessStep, Terminated

(* Only a thread that is destroying its log leaves a bad pointer in the    *)
(* registry.                                                               *)
LEMMA RegistryStep ==
    ASSUME TypeOK, RegistryInv, [Next]_vars
    PROVE  RegistryInv'
<1> USE TracerAssumption DEF Actors, Goto, RegistryInv, registry
<1>0. /\ pc \in [Actors -> ThreadPCs \cup ProcessPCs]
      /\ \A a \in Actors : pc[a] \in WritePCs => ret[a] \in ThreadRets \cup ProcessRets
      /\ liveThreads \subseteq Threads
      /\ logPtr \in [Threads -> {"null", "valid", "dangling"}]
  BY DEF TypeOK, ControlOK, RetsOf, SharedOK
<1>1. ASSUME NEW a \in Actors, GetOutputLock(a) PROVE RegistryInv'
  BY <1>1, <1>0 DEF GetOutputLock
<1>2. ASSUME NEW a \in Actors, GetStateLock(a) PROVE RegistryInv'
  BY <1>2, <1>0 DEF GetStateLock
<1>3. ASSUME NEW a \in Actors, XrefThread(a) PROVE RegistryInv'
  BY <1>3, <1>0 DEF XrefThread
<1>4. ASSUME NEW a \in Actors, PutStateLock(a) PROVE RegistryInv'
  BY <1>4, <1>0 DEF PutStateLock
<1>5. ASSUME NEW a \in Actors, StampEvent(a) PROVE RegistryInv'
  BY <1>5, <1>0 DEF StampEvent
<1>6. ASSUME NEW a \in Actors, AbortAtLimit(a) PROVE RegistryInv'
  BY <1>6, <1>0 DEF AbortAtLimit
<1>7. ASSUME NEW a \in Actors, WriteEventUnlocked(a) PROVE RegistryInv'
  BY <1>7, <1>0 DEF WriteEventUnlocked
<1>8. ASSUME NEW a \in Actors, PutOutputLock(a) PROVE RegistryInv'
  <2>1. ret[a] # "start_insert" /\ pc[a] # "finish_erase"
    BY <1>8, <1>0 DEF PutOutputLock, ThreadRets, ProcessRets, WritePCs
  <2> QED
    BY <1>8, <1>0, <2>1 DEF PutOutputLock
<1>9. ASSUME NEW t \in Threads, StartNewLog(t) PROVE RegistryInv'
  BY <1>9, <1>0 DEF StartNewLog
<1>10. ASSUME NEW t \in Threads, StartInsert(t) PROVE RegistryInv'
  BY <1>10, <1>0 DEF StartInsert
<1>11. ASSUME NEW t \in Threads, StartUnlock(t) PROVE RegistryInv'
  BY <1>11, <1>0 DEF StartUnlock, Call
<1>12. ASSUME NEW t \in Threads, CheckFlushEnd(t) PROVE RegistryInv'
  BY <1>12, <1>0 DEF CheckFlushEnd
<1>13. ASSUME NEW t \in Threads, CountPC(t) PROVE RegistryInv'
  BY <1>13, <1>0 DEF CountPC
<1>14. ASSUME NEW t \in Threads, LogOps(t) PROVE RegistryInv'
  BY <1>14, <1>0 DEF LogOps
<1>15. ASSUME NEW t \in Threads, FinishFlushEnd(t) PROVE RegistryInv'
  BY <1>15, <1>0 DEF FinishFlushEnd
<1>16. ASSUME NEW t \in Threads, FinishLock(t) PROVE RegistryInv'
  BY <1>16, <1>0 DEF FinishLock
<1>17. ASSUME NEW t \in Threads, FinishDelete(t) PROVE RegistryInv'
  BY <1>17, <1>0 DEF FinishDelete
<1>18. ASSUME NEW t \in Threads, FinishErase(t) PROVE RegistryInv'
  BY <1>18, <1>0 DEF FinishErase
<1>19. ASSUME NEW t \in Threads, FinishUnlock(t) PROVE RegistryInv'
  BY <1>19, <1>0 DEF FinishUnlock, Call
<1>20. ASSUME NEW t \in Threads, StartThread(t) PROVE RegistryInv'
  BY <1>20, <1>0 DEF StartThread
<1>21. ASSUME NEW t \in Threads, LogPC(t) PROVE RegistryInv'
  BY <1>21, <1>0 DEF LogPC, Call
<1>22. ASSUME NEW t \in Threads, MacroEvent(t) PROVE RegistryInv'
  BY <1>22, <1>0 DEF MacroEvent, Call
<1>23. ASSUME NEW t \in Threads, FinishThread(t) PROVE RegistryInv'
  BY <1>23, <1>0 DEF FinishThread, Call
<1>24. CASE OpenLog
  BY <1>24, <1>0 DEF OpenLog, Call
<1>25. CASE OpenLogFails
  BY <1>25, <1>0 DEF OpenLogFails
<1>26. CASE StartProgram
  BY <1>26, <1>0 DEF StartProgram
<1>27. CASE OnFinish
  BY <1>27, <1>0 DEF OnFinish
<1>28. CASE DumpMemoryRegion
  BY <1>28, <1>0 DEF DumpMemoryRegion, Call
<1>29. CASE CloseLog
  BY <1>29, <1>0 DEF CloseLog, Call
<1>30. CASE CloseStream
  BY <1>30, <1>0 DEF CloseStream
<1>31. CASE UNCHANGED vars
  BY <1>31, <1>0 DEF vars
<1> QED
  BY <1>1, <1>2, <1>3, <1>4, <1>5, <1>6, <1>7, <1>8,
     <1>9, <1>10, <1>11, <1>12, <1>13, <1>14, <1>15, <1>16,
     <1>17, <1>18, <1>19, <1>20, <1>21, <1>22, <1>23, <1>24,
     <1>25, <1>26, <1>27, <1>28, <1>29, <1>30, <1>31
  DEF Next, WriteEvent, Callback, Application, ProcessStep, Terminated

(* CheckFlush leaves room for the instruction that follows it. *)
LEMMA RoomStep ==
    ASSUME TypeOK, RoomInv, [Next]_vars
    PROVE  RoomInv'
<1> USE TracerAssumption DEF Actors, Goto, RoomInv, WritePCs, logs
<1>0. /\ pc \in [Actors -> ThreadPCs \cup ProcessPCs]
      /\ \A a \in Actors : pc[a] \in WritePCs => ret[a] \in ThreadRets \cup ProcessRets
      /\ ret \in [Actors -> {"none"} \cup ThreadRets \cup ProcessRets]
      /\ log \in [Threads -> Seq(MicroOps)]
      /\ \A t \in Threads : Len(log[t]) \in Nat
  BY DEF TypeOK, ControlOK, RetsOf, LogsOK
<1>1. ASSUME NEW a \in Actors, GetOutputLock(a) PROVE RoomInv'
  BY <1>1, <1>0 DEF GetOutputLock
<1>2. ASSUME NEW a \in Actors, GetStateLock(a) PROVE RoomInv'
  BY <1>2, <1>0 DEF GetStateLock
<1>3. ASSUME NEW a \in Actors, XrefThread(a) PROVE RoomInv'
  BY <1>3, <1>0 DEF XrefThread
<1>4. ASSUME NEW a \in Actors, PutStateLock(a) PROVE RoomInv'
  BY <1>4, <1>0 DEF PutStateLock
<1>5. ASSUME NEW a \in Actors, StampEvent(a) PROVE RoomInv'
  BY <1>5, <1>0 DEF StampEvent
<1>6. ASSUME NEW a \in Actors, AbortAtLimit(a) PROVE RoomInv'
  BY <1>6, <1>0 DEF AbortAtLimit
<1>7. ASSUME NEW a \in Actors, WriteEventUnlocked(a) PROVE RoomInv'
  BY <1>7, <1>0 DEF WriteEventUnlocked
<1>8. ASSUME NEW a \in Actors, PutOutputLock(a) PROVE RoomInv'
  <2>1. ret[a] # "count" /\ ret[a] \notin WritePCs
    BY <1>8, <1>0 DEF PutOutputLock, ThreadRets, ProcessRets
  <2> QED
    BY <1>8, <1>0, <2>1 DEF PutOutputLock
<1>9. ASSUME NEW t \in Threads, StartNewLog(t) PROVE RoomInv'
  BY <1>9, <1>0 DEF StartNewLog
<1>10. ASSUME NEW t \in Threads, StartInsert(t) PROVE RoomInv'
  BY <1>10, <1>0 DEF StartInsert
<1>11. ASSUME NEW t \in Threads, StartUnlock(t) PROVE RoomInv'
  BY <1>11, <1>0 DEF StartUnlock, Call
<1>12. ASSUME NEW t \in Threads, CheckFlushEnd(t) PROVE RoomInv'
  BY <1>12, <1>0 DEF CheckFlushEnd, ResetLog
<1>13. ASSUME NEW t \in Threads, CountPC(t) PROVE RoomInv'
  <2>1. log[t] \in Seq(MicroOps) /\ Len(log[t]) <= LogCapacity - MinFree
    BY <1>13, <1>0 DEF CountPC
  <2>2. Len(Append(log[t], "pc")) = Len(log[t]) + 1
    BY <2>1, AppendProperties
  <2>3. log' = [log EXCEPT ![t] = Append(log[t], "pc")]
    BY <1>13 DEF CountPC
  <2> QED
    BY <1>13, <1>0, <2>1, <2>2, <2>3 DEF CountPC
<1>14. ASSUME NEW t \in Threads, LogOps(t) PROVE RoomInv'
  <2>1. PICK n \in 0 .. MaxOps : log' = [log EXCEPT ![t] = log[t] \o [i \in 1 .. n |-> "op"]]
    BY <1>14 DEF LogOps
  <2>2. Len(log[t] \o [i \in 1 .. n |-> "op"]) = Len(log[t]) + n
    BY <1>0, OpsAppended
  <2>3. Len(log[t]) <= LogCapacity - MinFree + 1 /\ n <= MinFree - 1 /\ n \in Nat
    BY <1>14 DEF LogOps
  <2>4. Len(log'[t]) <= LogCapacity /\ pc'[t] = "run"
    BY <1>14, <1>0, <2>1, <2>2, <2>3 DEF LogOps
  <2>5. \A u \in Threads \ {t} : log'[u] = log[u] /\ pc'[u] = pc[u] /\ ret'[u] = ret[u]
    BY <1>14, <1>0, <2>1 DEF LogOps
  <2> QED
    BY <2>4, <2>5
<1>15. ASSUME NEW t \in Threads, FinishFlushEnd(t) PROVE RoomInv'
  BY <1>15, <1>0 DEF FinishFlushEnd, ResetLog
<1>16. ASSUME NEW t \in Threads, FinishLock(t) PROVE RoomInv'
  BY <1>16, <1>0 DEF FinishLock
<1>17. ASSUME NEW t \in Threads, FinishDelete(t) PROVE RoomInv'
  BY <1>17, <1>0 DEF FinishDelete
<1>18. ASSUME NEW t \in Threads, FinishErase(t) PROVE RoomInv'
  BY <1>18, <1>0 DEF FinishErase
<1>19. ASSUME NEW t \in Threads, FinishUnlock(t) PROVE RoomInv'
  BY <1>19, <1>0 DEF FinishUnlock, Call
<1>20. ASSUME NEW t \in Threads, StartThread(t) PROVE RoomInv'
  BY <1>20, <1>0 DEF StartThread
<1>21. ASSUME NEW t \in Threads, LogPC(t) PROVE RoomInv'
  BY <1>21, <1>0 DEF LogPC, Call
<1>22. ASSUME NEW t \in Threads, MacroEvent(t) PROVE RoomInv'
  BY <1>22, <1>0 DEF MacroEvent, Call
<1>23. ASSUME NEW t \in Threads, FinishThread(t) PROVE RoomInv'
  BY <1>23, <1>0 DEF FinishThread, Call
<1>24. CASE OpenLog
  BY <1>24, <1>0 DEF OpenLog, Call
<1>25. CASE OpenLogFails
  BY <1>25, <1>0 DEF OpenLogFails
<1>26. CASE StartProgram
  BY <1>26, <1>0 DEF StartProgram
<1>27. CASE OnFinish
  BY <1>27, <1>0 DEF OnFinish
<1>28. CASE DumpMemoryRegion
  BY <1>28, <1>0 DEF DumpMemoryRegion, Call
<1>29. CASE CloseLog
  BY <1>29, <1>0 DEF CloseLog, Call
<1>30. CASE CloseStream
  BY <1>30, <1>0 DEF CloseStream
<1>31. CASE UNCHANGED vars
  BY <1>31, <1>0 DEF vars
<1> QED
  BY <1>1, <1>2, <1>3, <1>4, <1>5, <1>6, <1>7, <1>8,
     <1>9, <1>10, <1>11, <1>12, <1>13, <1>14, <1>15, <1>16,
     <1>17, <1>18, <1>19, <1>20, <1>21, <1>22, <1>23, <1>24,
     <1>25, <1>26, <1>27, <1>28, <1>29, <1>30, <1>31
  DEF Next, WriteEvent, Callback, Application, ProcessStep, Terminated

----------------------------------------------------------------------------
LEMMA InductiveInit == Init => IInv
<1> SUFFICES ASSUME Init PROVE IInv
  OBVIOUS
<1> USE TracerAssumption DEF Actors
<1>1. TypeOK
  <2>1. ControlOK
    BY DEF Init, ControlOK, PCsOf, WritePCs, ThreadPCs, ProcessPCs
  <2>2. SharedOK
    BY DEF Init, SharedOK
  <2>3. LogsOK
    BY DEF Init, LogsOK
  <2>4. OutputOK
    <3>1. <<>> \in Seq(Event)
      BY EmptySeq
    <3>2. 0 \in 0 .. MaxEventId
      OBVIOUS
    <3> QED
      BY <3>1, <3>2 DEF Init, OutputOK
  <2> QED
    BY <2>1, <2>2, <2>3, <2>4 DEF TypeOK
<1>2. OutputInv /\ StateInv
  BY DEF Init, OutputInv, StateInv, HoldsOutput, HoldsState, WritePCs
<1>3. StreamInv /\ RegistryInv
  BY DEF Init, StreamInv, RegistryInv, Finished
<1>4. NumberInv
  BY DEF Init, NumberInv, NumberedInOrder
<1>5. RoomInv
  <2>1. \A t \in Threads : Len(log[t]) = 0 /\ pc[t] = "unborn"
    BY DEF Init
  <2> QED
    BY <2>1 DEF RoomInv, WritePCs
<1> QED
  BY <1>1, <1>2, <1>3, <1>4, <1>5 DEF IInv

LEMMA Inductive == Spec => []IInv
<1>1. IInv /\ [Next]_vars => IInv'
  BY TypeStep, OutputStep, StateStep, StreamStep, NumberStep, RegistryStep, RoomStep DEF IInv
<1> QED
  BY <1>1, InductiveInit, PTL DEF Spec

----------------------------------------------------------------------------
(* Every variable keeps its type; whoever is in WriteEvent has an event to *)
(* write and a place to return to.                                         *)
THEOREM TypeCorrect == Spec => []TypeOK
<1>1. IInv => TypeOK
  BY DEF IInv
<1> QED
  BY <1>1, Inductive, PTL

(* No two actors are ever between stamping an event and having written it, *)
(* for any number of threads.                                              *)
THEOREM WritersExclude == Spec => []OneWriter
<1>1. IInv => OneWriter
  BY DEF IInv, OutputInv, OneWriter, HoldsOutput, WritePCs
<1> QED
  BY <1>1, Inductive, PTL

(* The events of the file are numbered 0, 1, 2, ... in the order they are  *)
(* in, whichever threads wrote them and however they raced.                *)
THEOREM EventsNumbered == Spec => []NumberedInOrder
<1>1. IInv => NumberedInOrder
  BY DEF IInv, NumberInv
<1> QED
  BY <1>1, Inductive, PTL

(* WriteEvent never follows a pointer to a log that is not there: a thread *)
(* in the loop holds the state lock, so no thread is destroying its log.   *)
THEOREM LogsNotDangling == Spec => []NoDanglingLog
<1>1. IInv => NoDanglingLog
  <2> SUFFICES ASSUME IInv, NEW a \in Actors, NEW t \in Threads,
                      pc[a] = "xref", IsNextLive(a, t)
               PROVE  logPtr[t] = "valid"
    BY DEF NoDanglingLog
  <2>1. t \in liveThreads
    BY DEF IsNextLive
  <2>2. pc[t] # "finish_erase"
    BY DEF IInv, StateInv, HoldsState, Actors
  <2> QED
    BY <2>1, <2>2 DEF IInv, RegistryInv
<1> QED
  BY <1>1, Inductive, PTL

(* Nobody waits for the output lock with the state lock in hand, so the    *)
(* two locks cannot deadlock.                                              *)
THEOREM LocksOrdered == Spec => []LockOrder
<1>1. IInv => LockOrder
  BY DEF IInv, StateInv, HoldsState, LockOrder
<1> QED
  BY <1>1, Inductive, PTL

(* A log never outgrows its buffer, whatever the sizes, as long as an      *)
(* instruction's micro-ops fit into the space CheckFlush leaves.           *)
THEOREM LogsFit == Spec => []LogFits
<1>1. IInv => LogFits
  BY DEF IInv, RoomInv, LogFits
<1> QED
  BY <1>1, Inductive, PTL

----------------------------------------------------------------------------
(* What the trace says: how the blocks of a thread tile its execution, and *)
(* how the references of events place them in it.                          *)
(*                                                                         *)
(* The invariants follow an event on its way.  PlaceInv is about a thread: *)
(* its counter, its log and its membership in liveThreads at each place of *)
(* its callbacks.  MsgInv is about the event an actor is writing: what of  *)
(* its thread it carries.  TileInv, RefsInv and CoverInv are about the     *)
(* events in the file, and what an event that already has references may   *)
(* say of them.                                                            *)

Referring == {"xref", "stamp", "write"}
Flushing  == {"flushed", "last_flushed"}

(* t is in a call of WriteEvent that returns to one of places. *)
Within(t, places) == pc[t] \in WritePCs /\ ret[t] \in places

(* t is at one of places, or will be when its WriteEvent has returned. *)
AtOrTo(t, places) == pc[t] \in places \/ Within(t, places)

(* What a thread's place tells of its counter, its log and the registry. *)
PlaceOK(t) ==
    /\ pc[t] \in {"unborn", "start_new"} =>
          insCounter[t] = 0 /\ insStart[t] = 0 /\ log[t] = <<>>
    /\ insCounter[t] = insStart[t] + PCs(log[t])
    /\ insCounter[t] <= MaxIns
    /\ AtOrTo(t, {"count", "flushed"}) => insCounter[t] < MaxIns
    /\ log[t] # <<>> => log[t][1] = "pc"
    /\ AtOrTo(t, {"ops"}) => log[t] # <<>>
    /\ AtOrTo(t, {"finish_lock", "finish_delete", "finish_erase", "finish_unlock", "ended"})
          => insStart[t] = insCounter[t]
    /\ t \in liveThreads <=>
          \/ pc[t] \in {"start_unlock", "finish_lock", "finish_delete", "finish_erase"}
          \/ AtOrTo(t, {"run", "ops", "count", "flushed", "last_flushed"})

PlaceInv == \A t \in Threads : PlaceOK(t)

(* What is in an event before it is written. *)
MsgOK(a) ==
    /\ pc[a] \in WritePCs \ {"put_output"} =>
          /\ msg[a].tid = a
          /\ msg[a].kind = "micro_event_log" <=> ret[a] \in Flushing
          /\ msg[a].kind = "thread_end" <=> ret[a] = "ended"
          /\ msg[a].kind = "micro_event_log" => /\ msg[a].start = insStart[a]
                                                /\ msg[a].ops = log[a]
    /\ pc[a] \in {"get_output", "get_state"} => msg[a].xrefs = {}

MsgInv == \A a \in Actors : MsgOK(a)

(* t's last block is in the file and its log is not yet reset. *)
Pending(t) == pc[t] \in Flushing \/ (pc[t] = "put_output" /\ ret[t] \in Flushing)

(* Where t's next block starts. *)
NextStart(t) == IF Pending(t) THEN insCounter[t] ELSE insStart[t]

(* t's thread_end is in the file. *)
Ended(t) == pc[t] = "ended" \/ (pc[t] = "put_output" /\ ret[t] = "ended")

TileOK(t) ==
    /\ Pending(t) => Blocks(t) # {}
    /\ Blocks(t) = {} => insStart[t] = 0
    /\ Blocks(t) # {} => \E c \in Blocks(t) : /\ BlockEnd(c) = NextStart(t)
                                              /\ \A d \in Blocks(t) : d <= c
    /\ \A b \in Blocks(t) :
          /\ BlockEnd(b) <= insCounter[t]
          /\ (\A c \in Blocks(t) : b <= c) => trace[b].start = 0
          /\ \/ \A c \in Blocks(t) : b <= c
             \/ \E c \in Blocks(t) : c < b /\ BlockEnd(c) = trace[b].start
          /\ trace[b].ops # <<>> => trace[b].ops[1] = "pc"
    /\ At("thread_end", t) # {} => Ended(t)

TileInv == \A t \in Threads : TileOK(t)

(* References grow with the file: those in it are behind the counters and  *)
(* those of the event that is next are not behind any in it.               *)
Newest(a) ==
    \A x \in msg[a].xrefs :
       /\ x.next <= insCounter[x.tid]
       /\ x.tid = a => x.next = insCounter[a]
       /\ \A i \in DOMAIN trace : \A y \in trace[i].xrefs : y.tid = x.tid => y.next <= x.next
       /\ \A b \in Blocks(x.tid) : BlockEnd(b) <= x.next

RefsInv ==
    /\ \A i \in DOMAIN trace : \A x \in trace[i].xrefs : x.next <= insCounter[x.tid]
    /\ \A a \in Actors : pc[a] \in Referring => Newest(a)
    /\ XrefsMonotone
    /\ XrefsPlaceEvents

Early == {"unborn", "start_new", "start_insert", "start_unlock"}

(* A block of t may still come. *)
MayBlock(t) == \/ AtOrTo(t, {"run", "ops", "count", "flushed"})
               \/ Within(t, {"last_flushed"}) /\ pc[t] # "put_output"

RefersTo(e, t) == \E x \in e.xrefs : x.tid = t

(* What a is about to write refers to whom it should. *)
NextCovers(a) ==
    /\ pc[a] # "xref" => cursor[a] = -1
    /\ pc[a] = "xref" => /\ \A x \in msg[a].xrefs : x.tid <= cursor[a]
                         /\ \A t \in liveThreads : t <= cursor[a] => RefersTo(msg[a], t)
    /\ pc[a] \in {"stamp", "write"} =>
          \A t \in Threads : MayBlock(t) /\ (At("thread_start", t) # {} \/ t = a)
                                => RefersTo(msg[a], t)
    /\ pc[a] \in Referring => /\ \A x, y \in msg[a].xrefs : x.tid = y.tid => x = y
                              /\ \A x \in msg[a].xrefs : At("thread_end", x.tid) = {}
                              /\ ret[a] = "ended" => ~RefersTo(msg[a], a)

(* So do the events in the file, to t. *)
FileCovers(t) ==
    /\ pc[t] \in Early => At("thread_start", t) = {}
    /\ \A i \in DOMAIN trace :
          /\ \A x, y \in XrefsTo(i, t) : x = y
          /\ MayBlock(t) /\ (\E s \in At("thread_start", t) : s <= i) => XrefsTo(i, t) # {}
          /\ (\E s \in At("thread_start", t), f \in Blocks(t) : s <= i /\ i <= f)
                => XrefsTo(i, t) # {}
          /\ (\E e \in At("thread_end", t) : e <= i) => XrefsTo(i, t) = {}

CoverInv == /\ \A a \in Actors : NextCovers(a)
            /\ \A t \in Threads : FileCovers(t)

(* The steps, as far as the file and what it says are concerned: actor a   *)
(* writes its event, ...                                                   *)
Puts(a) ==
    /\ pc[a] = "write" /\ pc' = [pc EXCEPT ![a] = "put_output"]
    /\ trace' = Append(trace, msg[a])
    /\ \A b \in Actors \ {a} : msg'[b] = msg[b]
    /\ UNCHANGED <<ret, cursor, liveThreads, logs>>

(* ... or the file stays, t goes on, ...                                   *)
Keeps(t) ==
    /\ \/ insCounter'[t] = insCounter[t]
       \/ pc[t] = "count" /\ pc'[t] = "ops" /\ insCounter'[t] = insCounter[t] + 1
    /\ Pending(t)' => Pending(t)
    /\ NextStart(t)' = NextStart(t)
    /\ ~Pending(t) => insStart'[t] = insStart[t]
    /\ Ended(t) => Ended(t)'
    /\ MayBlock(t)' => MayBlock(t) \/ pc[t] = "start_unlock"
    /\ pc'[t] \in Early => pc[t] \in Early

(* ... and a gathers the references of its event.                          *)
Visits(a) == \E t \in Threads :
    /\ IsNextLive(a, t)
    /\ cursor'[a] = t
    /\ msg'[a].xrefs = msg[a].xrefs \cup {Xref(t)}
    /\ insCounter' = insCounter

Gathers(a) ==
    /\ pc'[a] # "xref" => cursor'[a] = -1 \/ (pc[a] # "xref" /\ cursor'[a] = cursor[a])
    /\ pc'[a] = "xref" =>
          /\ liveThreads' = liveThreads
          /\ \/ pc[a] = "get_state" /\ cursor'[a] = cursor[a] /\ msg'[a].xrefs = msg[a].xrefs
             \/ pc[a] = "xref" /\ cursor'[a] = cursor[a] /\ msg'[a].xrefs = msg[a].xrefs
             \/ pc[a] = "xref" /\ Visits(a)
    /\ pc'[a] \in {"stamp", "write"} =>
          /\ pc[a] \in Referring /\ msg'[a].xrefs = msg[a].xrefs
          /\ pc[a] = "xref" => \A t \in liveThreads : t <= cursor[a]
    /\ pc'[a] \in Referring => ret'[a] = ret[a]


----------------------------------------------------------------------------
(* The instructions that start in a log. *)

LEMMA PCsNone == PCs(<<>>) = 0
<1>1. {i \in DOMAIN <<>> : <<>>[i] = "pc"} = {}
  OBVIOUS
<1> QED
  BY <1>1, FS_EmptySet DEF PCs

LEMMA PCsFinite ==
    ASSUME NEW s \in Seq(MicroOps)
    PROVE  IsFiniteSet({i \in DOMAIN s : s[i] = "pc"}) /\ PCs(s) \in Nat
<1>1. Len(s) \in Nat /\ DOMAIN s = 1 .. Len(s)
  OBVIOUS
<1>2. IsFiniteSet(1 .. Len(s))
  BY <1>1, FS_Interval
<1>3. {i \in DOMAIN s : s[i] = "pc"} \in SUBSET (1 .. Len(s))
  BY <1>1
<1>4. IsFiniteSet({i \in DOMAIN s : s[i] = "pc"})
  BY <1>2, <1>3, FS_Subset
<1> QED
  BY <1>4, FS_CardinalityType DEF PCs

LEMMA PCsOneMore ==
    ASSUME NEW s \in Seq(MicroOps)
    PROVE  PCs(Append(s, "pc")) = PCs(s) + 1
<1> DEFINE S == {i \in DOMAIN s : s[i] = "pc"}
           new == Append(s, "pc")
<1>1. /\ Len(s) \in Nat /\ DOMAIN s = 1 .. Len(s)
      /\ DOMAIN new = 1 .. (Len(s) + 1) /\ new[Len(s) + 1] = "pc"
      /\ \A i \in 1 .. Len(s) : new[i] = s[i]
  OBVIOUS
<1> HIDE DEF new
<1>2. {i \in DOMAIN new : new[i] = "pc"} = S \cup {Len(s) + 1}
  BY <1>1
<1>3. Len(s) + 1 \notin S
  BY <1>1
<1> HIDE DEF S
<1>4. Cardinality(S \cup {Len(s) + 1}) = Cardinality(S) + 1
  BY <1>3, PCsFinite, FS_AddElement DEF S
<1> QED
  BY <1>2, <1>4 DEF PCs, new, S

LEMMA PCsOps ==
    ASSUME NEW s \in Seq(MicroOps), NEW n \in Nat
    PROVE  /\ PCs(s \o [i \in 1 .. n |-> "op"]) = PCs(s)
           /\ s # <<>> => /\ s \o [i \in 1 .. n |-> "op"] # <<>>
                          /\ (s \o [i \in 1 .. n |-> "op"])[1] = s[1]
<1> DEFINE more == [i \in 1 .. n |-> "op"]
           all  == s \o more
<1>1. more \in Seq(MicroOps) /\ Len(more) = n /\ \A i \in 1 .. n : more[i] = "op"
  <2>1. more \in [1 .. n -> MicroOps]
    BY DEF MicroOps
  <2> QED
    BY <2>1
<1> HIDE DEF more
<1>2. /\ all \in Seq(MicroOps) /\ Len(all) = Len(s) + n /\ Len(s) \in Nat
      /\ \A i \in 1 .. (Len(s) + n) : all[i] = IF i <= Len(s) THEN s[i] ELSE more[i - Len(s)]
  BY <1>1, ConcatProperties
<1>3. DOMAIN all = 1 .. (Len(s) + n) /\ DOMAIN s = 1 .. Len(s)
  BY <1>2
<1> HIDE DEF all
<1>4. \A i \in DOMAIN all : all[i] = "pc" <=> i \in DOMAIN s /\ s[i] = "pc"
  <2> TAKE i \in DOMAIN all
  <2>1. CASE i <= Len(s)
    BY <1>2, <1>3, <2>1
  <2>2. CASE i > Len(s)
    <3>1. i - Len(s) \in 1 .. n
      BY <1>2, <1>3, <2>2
    <3>2. all[i] = "op"
      BY <1>1, <1>2, <1>3, <2>2, <3>1
    <3> QED
      BY <1>2, <1>3, <2>2, <3>2
  <2> QED
    BY <1>2, <1>3, <2>1, <2>2
<1>5. DOMAIN s \subseteq DOMAIN all
  BY <1>2, <1>3
<1>6. {i \in DOMAIN all : all[i] = "pc"} = {i \in DOMAIN s : s[i] = "pc"}
  BY <1>4, <1>5
<1>7. s # <<>> => all # <<>> /\ all[1] = s[1]
  BY <1>2, <1>3
<1> QED
  BY <1>6, <1>7 DEF PCs, all, more

----------------------------------------------------------------------------
(* What happens to others leaves a thread's place as it is. *)
Stays(t) ==
    /\ pc'[t] = pc[t] /\ ret'[t] = ret[t]
    /\ insCounter'[t] = insCounter[t] /\ insStart'[t] = insStart[t] /\ log'[t] = log[t]
    /\ t \in liveThreads' <=> t \in liveThreads

LEMMA PlaceStays ==
    ASSUME PlaceInv, NEW a, \A u \in Threads \ {a} : Stays(u), a \in Threads => PlaceOK(a)'
    PROVE  PlaceInv'
<1>1. ASSUME NEW u \in Threads \ {a} PROVE PlaceOK(u)'
  <2>1. PlaceOK(u) /\ Stays(u)
    BY DEF PlaceInv
  <2> QED
    BY <2>1 DEF PlaceOK, Stays, AtOrTo, Within
<1> QED
  BY <1>1 DEF PlaceInv

(* So does a step inside WriteEvent. *)
LEMMA PlaceWithin ==
    ASSUME PlaceInv, NEW a \in Actors, pc[a] \in WritePCs, NEW to \in WritePCs,
           pc \in [Actors -> ThreadPCs \cup ProcessPCs],
           pc' = [pc EXCEPT ![a] = to],
           UNCHANGED <<ret, insCounter, insStart, log, liveThreads>>
    PROVE  PlaceInv'
<1>1. \A u \in Threads \ {a} : Stays(u)
  BY DEF Stays, Actors
<1>2. ASSUME a \in Threads PROVE PlaceOK(a)'
  <2>1. PlaceOK(a) /\ pc'[a] = to
    BY <1>2 DEF PlaceInv
  <2> QED
    BY <2>1 DEF PlaceOK, AtOrTo, Within, WritePCs
<1> QED
  BY <1>1, <1>2, PlaceStays

(* Where a thread is tells what its counter and its log are. *)
LEMMA PlaceStep ==
    ASSUME IInv, PlaceInv, [Next]_vars
    PROVE  PlaceInv'
<1> USE TracerAssumption DEF Actors, Goto, logs, registry
<1>0. /\ pc \in [Actors -> ThreadPCs \cup ProcessPCs]
      /\ \A t \in Threads : pc[t] \in WritePCs => ret[t] \in ThreadRets
      /\ ret \in [Actors -> {"none"} \cup ThreadRets \cup ProcessRets]
      /\ insCounter \in [Threads -> Nat] /\ insStart \in [Threads -> Nat]
      /\ log \in [Threads -> Seq(MicroOps)]
      /\ liveThreads \subseteq Threads
  BY DEF IInv, TypeOK, ControlOK, RetsOf, LogsOK, SharedOK
<1>p. ASSUME NEW t \in Threads
      PROVE  PlaceOK(t) /\ log[t] \in Seq(MicroOps) /\ PCs(log[t]) \in Nat /\ PCs(<<>>) = 0
  BY <1>0, PCsFinite, PCsNone DEF PlaceInv
<1>1. ASSUME NEW a \in Actors, GetOutputLock(a) PROVE PlaceInv'
  <2>1. /\ pc[a] = "get_output" /\ pc' = [pc EXCEPT ![a] = "get_state"]
        /\ UNCHANGED <<ret, insCounter, insStart, log, liveThreads>>
    BY <1>1, <1>0 DEF GetOutputLock
  <2> QED
    BY <1>0, <2>1, PlaceWithin DEF WritePCs
<1>2. ASSUME NEW a \in Actors, GetStateLock(a) PROVE PlaceInv'
  <2>1. /\ pc[a] = "get_state" /\ pc' = [pc EXCEPT ![a] = "xref"]
        /\ UNCHANGED <<ret, insCounter, insStart, log, liveThreads>>
    BY <1>2, <1>0 DEF GetStateLock
  <2> QED
    BY <1>0, <2>1, PlaceWithin DEF WritePCs
<1>3. ASSUME NEW a \in Actors, XrefThread(a) PROVE PlaceInv'
  <2>1. /\ pc[a] = "xref" /\ pc' = [pc EXCEPT ![a] = "xref"]
        /\ UNCHANGED <<ret, insCounter, insStart, log, liveThreads>>
    BY <1>3, <1>0 DEF XrefThread
  <2> QED
    BY <1>0, <2>1, PlaceWithin DEF WritePCs
<1>4. ASSUME NEW a \in Actors, PutStateLock(a) PROVE PlaceInv'
  <2>1. /\ pc[a] = "xref" /\ pc' = [pc EXCEPT ![a] = "stamp"]
        /\ UNCHANGED <<ret, insCounter, insStart, log, liveThreads>>
    BY <1>4, <1>0 DEF PutStateLock
  <2> QED
    BY <1>0, <2>1, PlaceWithin DEF WritePCs
<1>5. ASSUME NEW a \in Actors, StampEvent(a) PROVE PlaceInv'
  <2>1. /\ pc[a] = "stamp" /\ pc' = [pc EXCEPT ![a] = "write"]
        /\ UNCHANGED <<ret, insCounter, insStart, log, liveThreads>>
    BY <1>5, <1>0 DEF StampEvent
  <2> QED
    BY <1>0, <2>1, PlaceWithin DEF WritePCs
<1>6. ASSUME NEW a \in Actors, AbortAtLimit(a) PROVE PlaceInv'
  <2>1. /\ pc[a] = "stamp" /\ pc' = [pc EXCEPT ![a] = "stamp"]
        /\ UNCHANGED <<ret, insCounter, insStart, log, liveThreads>>
    BY <1>6, <1>0 DEF AbortAtLimit
  <2> QED
    BY <1>0, <2>1, PlaceWithin DEF WritePCs
<1>7. ASSUME NEW a \in Actors, WriteEventUnlocked(a) PROVE PlaceInv'
  <2>1. /\ pc[a] = "write" /\ pc' = [pc EXCEPT ![a] = "put_output"]
        /\ UNCHANGED <<ret, insCounter, insStart, log, liveThreads>>
    BY <1>7, <1>0 DEF WriteEventUnlocked
  <2> QED
    BY <1>0, <2>1, PlaceWithin DEF WritePCs
<1>8. ASSUME NEW a \in Actors, PutOutputLock(a) PROVE PlaceInv'
  <2>1. \A u \in Threads \ {a} : Stays(u)
    BY <1>8, <1>0 DEF PutOutputLock, Stays
  <2>2. ASSUME a \in Threads PROVE PlaceOK(a)'
    BY <1>8, <1>0, <1>p, <2>2 DEF PutOutputLock, ThreadRets, PlaceOK, AtOrTo, Within, WritePCs
  <2> QED
    BY <2>1, <2>2, PlaceStays
<1>9. ASSUME NEW t \in Threads, StartNewLog(t) PROVE PlaceInv'
  <2>1. \A u \in Threads \ {t} : Stays(u)
    BY <1>9, <1>0 DEF StartNewLog, Stays
  <2>2. /\ pc[t] = "start_new" /\ pc'[t] = "start_insert" /\ ret'[t] = ret[t]
        /\ insCounter'[t] = 0 /\ insStart'[t] = 0 /\ log'[t] = <<>> /\ liveThreads' = liveThreads
    BY <1>9, <1>0 DEF StartNewLog
  <2>3. t \notin liveThreads /\ PCs(log'[t]) = 0 /\ insCounter'[t] <= MaxIns
    BY <1>p, <2>2 DEF PlaceOK, AtOrTo, Within, WritePCs
  <2>4. PlaceOK(t)'
    BY <2>2, <2>3 DEF PlaceOK, AtOrTo, Within, WritePCs
  <2> QED
    BY <2>1, <2>4, PlaceStays
<1>10. ASSUME NEW t \in Threads, StartInsert(t) PROVE PlaceInv'
  <2>1. \A u \in Threads \ {t} : Stays(u)
    BY <1>10, <1>0 DEF StartInsert, Stays
  <2>2. PlaceOK(t)'
    BY <1>10, <1>0, <1>p DEF StartInsert, PlaceOK, AtOrTo, Within, WritePCs
  <2> QED
    BY <2>1, <2>2, PlaceStays
<1>11. ASSUME NEW t \in Threads, StartUnlock(t) PROVE PlaceInv'
  <2>1. \A u \in Threads \ {t} : Stays(u)
    BY <1>11, <1>0 DEF StartUnlock, Call, Stays
  <2>2. PlaceOK(t)'
    BY <1>11, <1>0, <1>p DEF StartUnlock, Call, PlaceOK, AtOrTo, Within, WritePCs
  <2> QED
    BY <2>1, <2>2, PlaceStays
<1>12. ASSUME NEW t \in Threads, CheckFlushEnd(t) PROVE PlaceInv'
  <2>1. \A u \in Threads \ {t} : Stays(u)
    BY <1>12, <1>0 DEF CheckFlushEnd, ResetLog, Stays
  <2>2. PlaceOK(t)'
    BY <1>12, <1>0, <1>p DEF CheckFlushEnd, ResetLog, PlaceOK, AtOrTo, Within, WritePCs
  <2> QED
    BY <2>1, <2>2, PlaceStays
<1>13. ASSUME NEW t \in Threads, CountPC(t) PROVE PlaceInv'
  <2>1. \A u \in Threads \ {t} : Stays(u)
    BY <1>13, <1>0 DEF CountPC, Stays
  <2> DEFINE new == Append(log[t], "pc")
  <2>2. PCs(new) = PCs(log[t]) + 1
    BY <1>p, PCsOneMore
  <2>3. new # <<>> /\ new[1] = IF log[t] = <<>> THEN "pc" ELSE log[t][1]
    <3>1. Len(new) = Len(log[t]) + 1 /\ Len(log[t]) \in Nat /\ Len(<<>>) = 0
      BY <1>p
    <3>2. new[1] = IF log[t] = <<>> THEN "pc" ELSE log[t][1]
      BY <1>p
    <3> HIDE DEF new
    <3>3. new # <<>>
      BY <3>1
    <3> QED
      BY <3>2, <3>3
  <2> HIDE DEF new
  <2>4. /\ pc[t] = "count" /\ pc'[t] = "ops" /\ ret'[t] = ret[t]
        /\ insCounter'[t] = insCounter[t] + 1 /\ insStart'[t] = insStart[t]
        /\ log'[t] = new /\ liveThreads' = liveThreads
    BY <1>13, <1>0 DEF CountPC, new
  <2>5. /\ insCounter[t] = insStart[t] + PCs(log[t]) /\ insCounter[t] < MaxIns /\ t \in liveThreads
        /\ log[t] # <<>> => log[t][1] = "pc"
    BY <1>p, <2>4 DEF PlaceOK, AtOrTo
  <2>6. insCounter'[t] = insStart'[t] + PCs(log'[t]) /\ insCounter'[t] <= MaxIns
    <3>1. /\ insCounter[t] \in Nat /\ insStart[t] \in Nat /\ PCs(log[t]) \in Nat /\ MaxIns \in Nat
      BY <1>0, <1>p
    <3> QED
      BY <2>2, <2>4, <2>5, <3>1
  <2>7. PlaceOK(t)'
    BY <2>3, <2>4, <2>5, <2>6 DEF PlaceOK, AtOrTo, Within, WritePCs
  <2> QED
    BY <2>1, <2>7, PlaceStays
<1>14. ASSUME NEW t \in Threads, LogOps(t) PROVE PlaceInv'
  <2>1. \A u \in Threads \ {t} : Stays(u)
    BY <1>14, <1>0 DEF LogOps, Stays
  <2>2. PICK n \in 0 .. MaxOps : log' = [log EXCEPT ![t] = log[t] \o [i \in 1 .. n |-> "op"]]
    BY <1>14 DEF LogOps
  <2> DEFINE new == log[t] \o [i \in 1 .. n |-> "op"]
  <2>3. log[t] # <<>> /\ n \in Nat
    BY <1>14, <1>p DEF LogOps, PlaceOK, AtOrTo
  <2>4. PCs(new) = PCs(log[t]) /\ new # <<>> /\ new[1] = log[t][1]
    BY <1>p, <2>3, PCsOps
  <2>5. /\ log'[t] = new /\ pc[t] = "ops" /\ pc'[t] = "run" /\ ret'[t] = ret[t]
        /\ insCounter'[t] = insCounter[t] /\ insStart'[t] = insStart[t] /\ liveThreads' = liveThreads
    BY <1>14, <1>0, <2>2 DEF LogOps
  <2> HIDE DEF new
  <2>6. PlaceOK(t)'
    BY <1>p, <2>3, <2>4, <2>5 DEF PlaceOK, AtOrTo, Within, WritePCs
  <2> QED
    BY <2>1, <2>6, PlaceStays
<1>15. ASSUME NEW t \in Threads, FinishFlushEnd(t) PROVE PlaceInv'
  <2>1. \A u \in Threads \ {t} : Stays(u)
    BY <1>15, <1>0 DEF FinishFlushEnd, ResetLog, Stays
  <2>2. PlaceOK(t)'
    BY <1>15, <1>0, <1>p DEF FinishFlushEnd, ResetLog, PlaceOK, AtOrTo, Within, WritePCs
  <2> QED
    BY <2>1, <2>2, PlaceStays
<1>16. ASSUME NEW t \in Threads, FinishLock(t) PROVE PlaceInv'
  <2>1. \A u \in Threads \ {t} : Stays(u)
    BY <1>16, <1>0 DEF FinishLock, Stays
  <2>2. PlaceOK(t)'
    BY <1>16, <1>0, <1>p DEF FinishLock, PlaceOK, AtOrTo, Within, WritePCs
  <2> QED
    BY <2>1, <2>2, PlaceStays
<1>17. ASSUME NEW t \in Threads, FinishDelete(t) PROVE PlaceInv'
  <2>1. \A u \in Threads \ {t} : Stays(u)
    BY <1>17, <1>0 DEF FinishDelete, Stays
  <2>2. PlaceOK(t)'
    BY <1>17, <1>0, <1>p DEF FinishDelete, PlaceOK, AtOrTo, Within, WritePCs
  <2> QED
    BY <2>1, <2>2, PlaceStays
<1>18. ASSUME NEW t \in Threads, FinishErase(t) PROVE PlaceInv'
  <2>1. \A u \in Threads \ {t} : Stays(u)
    BY <1>18, <1>0 DEF FinishErase, Stays
  <2>2. PlaceOK(t)'
    BY <1>18, <1>0, <1>p DEF FinishErase, PlaceOK, AtOrTo, Within, WritePCs
  <2> QED
    BY <2>1, <2>2, PlaceStays
<1>19. ASSUME NEW t \in Threads, FinishUnlock(t) PROVE PlaceInv'
  <2>1. \A u \in Threads \ {t} : Stays(u)
    BY <1>19, <1>0 DEF FinishUnlock, Call, Stays
  <2>2. PlaceOK(t)'
    BY <1>19, <1>0, <1>p DEF FinishUnlock, Call, PlaceOK, AtOrTo, Within, WritePCs
  <2> QED
    BY <2>1, <2>2, PlaceStays
<1>20. ASSUME NEW t \in Threads, StartThread(t) PROVE PlaceInv'
  <2>1. \A u \in Threads \ {t} : Stays(u)
    BY <1>20, <1>0 DEF StartThread, Stays
  <2>2. PlaceOK(t)'
    BY <1>20, <1>0, <1>p DEF StartThread, PlaceOK, AtOrTo, Within, WritePCs
  <2> QED
    BY <2>1, <2>2, PlaceStays
<1>21. ASSUME NEW t \in Threads, LogPC(t) PROVE PlaceInv'
  <2>1. \A u \in Threads \ {t} : Stays(u)
    BY <1>21, <1>0 DEF LogPC, Call, Stays
  <2>2. /\ pc[t] = "run" /\ insCounter[t] < MaxIns
        /\ \/ pc'[t] = "get_output" /\ ret'[t] = "flushed"
           \/ pc'[t] = "count" /\ ret'[t] = ret[t]
        /\ UNCHANGED <<insCounter, insStart, log, liveThreads>>
    BY <1>21, <1>0 DEF LogPC, Call
  <2>3. PlaceOK(t)'
    BY <1>p, <2>2 DEF PlaceOK, AtOrTo, Within, WritePCs
  <2> QED
    BY <2>1, <2>3, PlaceStays
<1>22. ASSUME NEW t \in Threads, MacroEvent(t) PROVE PlaceInv'
  <2>1. \A u \in Threads \ {t} : Stays(u)
    BY <1>22, <1>0 DEF MacroEvent, Call, Stays
  <2>2. PlaceOK(t)'
    BY <1>22, <1>0, <1>p DEF MacroEvent, Call, PlaceOK, AtOrTo, Within, WritePCs
  <2> QED
    BY <2>1, <2>2, PlaceStays
<1>23. ASSUME NEW t \in Threads, FinishThread(t) PROVE PlaceInv'
  <2>1. \A u \in Threads \ {t} : Stays(u)
    BY <1>23, <1>0 DEF FinishThread, Call, Stays
  <2>2. PlaceOK(t)'
    BY <1>23, <1>0, <1>p DEF FinishThread, Call, PlaceOK, AtOrTo, Within, WritePCs
  <2> QED
    BY <2>1, <2>2, PlaceStays
<1>24. CASE OpenLog
  <2>1. \A u \in Threads \ {Process} : Stays(u)
    BY <1>24, <1>0 DEF OpenLog, Call, Stays
  <2> QED
    BY <2>1, PlaceStays
<1>25. CASE OpenLogFails
  <2>1. \A u \in Threads \ {Process} : Stays(u)
    BY <1>25, <1>0 DEF OpenLogFails, Stays
  <2> QED
    BY <2>1, PlaceStays
<1>26. CASE StartProgram
  <2>1. \A u \in Threads \ {Process} : Stays(u)
    BY <1>26, <1>0 DEF StartProgram, Stays
  <2> QED
    BY <2>1, PlaceStays
<1>27. CASE OnFinish
  <2>1. \A u \in Threads \ {Process} : Stays(u)
    BY <1>27, <1>0 DEF OnFinish, Stays
  <2> QED
    BY <2>1, PlaceStays
<1>28. CASE DumpMemoryRegion
  <2>1. \A u \in Threads \ {Process} : Stays(u)
    BY <1>28, <1>0 DEF DumpMemoryRegion, Call, Stays
  <2> QED
    BY <2>1, PlaceStays
<1>29. CASE CloseLog
  <2>1. \A u \in Threads \ {Process} : Stays(u)
    BY <1>29, <1>0 DEF CloseLog, Call, Stays
  <2> QED
    BY <2>1, PlaceStays
<1>30. CASE CloseStream
  <2>1. \A u \in Threads \ {Process} : Stays(u)
    BY <1>30, <1>0 DEF CloseStream, Stays
  <2> QED
    BY <2>1, PlaceStays
<1>31. CASE UNCHANGED vars
  <2>1. \A u \in Threads \ {Process} : Stays(u)
    BY <1>31, <1>0 DEF vars, Stays
  <2> QED
    BY <2>1, PlaceStays
<1> QED
  BY <1>1, <1>2, <1>3, <1>4, <1>5, <1>6, <1>7, <1>8,
     <1>9, <1>10, <1>11, <1>12, <1>13, <1>14, <1>15, <1>16,
     <1>17, <1>18, <1>19, <1>20, <1>21, <1>22, <1>23, <1>24,
     <1>25, <1>26, <1>27, <1>28, <1>29, <1>30, <1>31
  DEF Next, WriteEvent, Callback, Application, ProcessStep, Terminated

(* What happens to others leaves the event of an actor as it is. *)
Unmoved(a) ==
    /\ pc'[a] = pc[a] /\ ret'[a] = ret[a] /\ msg'[a] = msg[a]
    /\ a \in Threads => insStart'[a] = insStart[a] /\ log'[a] = log[a]

LEMMA MsgStays ==
    ASSUME MsgInv, NEW a \in Actors, \A b \in Actors \ {a} : Unmoved(b), MsgOK(a)',
           \A b \in Actors : MsgOK(b) /\ pc[b] \in WritePCs \ {"put_output"} /\ msg[b].kind = "micro_event_log"
                => b \in Threads
    PROVE  MsgInv'
<1>1. ASSUME NEW b \in Actors \ {a} PROVE MsgOK(b)'
  <2>1. MsgOK(b) /\ Unmoved(b)
    BY DEF MsgInv
  <2> QED
    BY <2>1 DEF MsgOK, Unmoved
<1> QED
  BY <1>1 DEF MsgInv

(* The event an actor is about to write tells what it should of its thread. *)
LEMMA MsgStep ==
    ASSUME IInv, MsgInv, [Next]_vars
    PROVE  MsgInv'
<1> USE TracerAssumption DEF Actors, Goto, logs
<1>0. /\ pc \in [Actors -> ThreadPCs \cup ProcessPCs]
      /\ \A a \in Actors : pc[a] \in WritePCs => ret[a] \in ThreadRets \cup ProcessRets
      /\ ret \in [Actors -> {"none"} \cup ThreadRets \cup ProcessRets]
      /\ msg \in [Actors -> Event \cup {NoEvent}]
      /\ insStart \in [Threads -> Nat] /\ log \in [Threads -> Seq(MicroOps)]
  BY DEF IInv, TypeOK, ControlOK, RetsOf, LogsOK
<1>m. ASSUME NEW a \in Actors PROVE MsgOK(a)
  BY DEF MsgInv
<1>e. ASSUME NEW a \in Actors, pc[a] \in WritePCs \ {"put_output"} PROVE msg[a] \in Event
  BY <1>e DEF IInv, TypeOK, ControlOK
<1>s. \A b \in Actors : MsgOK(b) /\ pc[b] \in WritePCs \ {"put_output"} /\ msg[b].kind = "micro_event_log"
         => b \in Threads
  BY DEF IInv, TypeOK, ControlOK, RetsOf, ProcessRets, MsgOK, Flushing
<1>1. ASSUME NEW a \in Actors, GetOutputLock(a) PROVE MsgInv'
  <2>1. \A b \in Actors \ {a} : Unmoved(b)
    BY <1>1, <1>0 DEF GetOutputLock, Unmoved
  <2>2. MsgOK(a)'
    BY <1>1, <1>0, <1>m DEF GetOutputLock, MsgOK, WritePCs, Flushing
  <2> QED
    BY <1>s, <2>1, <2>2, MsgStays
<1>2. ASSUME NEW a \in Actors, GetStateLock(a) PROVE MsgInv'
  <2>1. \A b \in Actors \ {a} : Unmoved(b)
    BY <1>2, <1>0 DEF GetStateLock, Unmoved
  <2>2. MsgOK(a)'
    BY <1>2, <1>0, <1>m DEF GetStateLock, MsgOK, WritePCs, Flushing
  <2> QED
    BY <1>s, <2>1, <2>2, MsgStays
<1>3. ASSUME NEW a \in Actors, XrefThread(a) PROVE MsgInv'
  <2>1. \A b \in Actors \ {a} : Unmoved(b)
    BY <1>3, <1>0 DEF XrefThread, Unmoved
  <2>2. pc[a] = "xref" /\ pc'[a] = "xref" /\ UNCHANGED <<ret, insStart, log>>
    BY <1>3, <1>0 DEF XrefThread
  <2>3. msg[a] \in Event
    BY <1>e, <2>2 DEF WritePCs
  <2>4. PICK t \in Threads : msg'[a] = [msg[a] EXCEPT !.xrefs = msg[a].xrefs \cup {Xref(t)}]
    BY <1>3, <1>0 DEF XrefThread
  <2>5. /\ msg'[a].tid = msg[a].tid /\ msg'[a].kind = msg[a].kind
        /\ msg'[a].start = msg[a].start /\ msg'[a].ops = msg[a].ops
    BY <2>3, <2>4 DEF Event
  <2>6. MsgOK(a)'
    BY <1>m, <2>2, <2>5 DEF MsgOK, WritePCs
  <2> QED
    BY <1>s, <2>1, <2>6, MsgStays
<1>4. ASSUME NEW a \in Actors, PutStateLock(a) PROVE MsgInv'
  <2>1. \A b \in Actors \ {a} : Unmoved(b)
    BY <1>4, <1>0 DEF PutStateLock, Unmoved
  <2>2. MsgOK(a)'
    BY <1>4, <1>0, <1>m DEF PutStateLock, MsgOK, WritePCs, Flushing
  <2> QED
    BY <1>s, <2>1, <2>2, MsgStays
<1>5. ASSUME NEW a \in Actors, StampEvent(a) PROVE MsgInv'
  <2>1. \A b \in Actors \ {a} : Unmoved(b)
    BY <1>5, <1>0 DEF StampEvent, Unmoved
  <2>2. pc[a] = "stamp" /\ pc'[a] = "write" /\ UNCHANGED <<ret, insStart, log>>
    BY <1>5, <1>0 DEF StampEvent
  <2>3. msg[a] \in Event
    BY <1>e, <2>2 DEF WritePCs
  <2>4. msg'[a] = [msg[a] EXCEPT !.id = eventId]
    BY <1>5, <1>0 DEF StampEvent
  <2>5. /\ msg'[a].tid = msg[a].tid /\ msg'[a].kind = msg[a].kind
        /\ msg'[a].start = msg[a].start /\ msg'[a].ops = msg[a].ops
    BY <2>3, <2>4 DEF Event
  <2>6. MsgOK(a)'
    BY <1>m, <2>2, <2>5 DEF MsgOK, WritePCs
  <2> QED
    BY <1>s, <2>1, <2>6, MsgStays
<1>6. ASSUME NEW a \in Actors, AbortAtLimit(a) PROVE MsgInv'
  <2>1. \A b \in Actors \ {a} : Unmoved(b)
    BY <1>6, <1>0 DEF AbortAtLimit, Unmoved
  <2>2. pc[a] = "stamp" /\ pc'[a] = "stamp" /\ UNCHANGED <<ret, insStart, log>>
    BY <1>6, <1>0 DEF AbortAtLimit
  <2>3. msg[a] \in Event
    BY <1>e, <2>2 DEF WritePCs
  <2>4. msg'[a] = [msg[a] EXCEPT !.id = eventId]
    BY <1>6, <1>0 DEF AbortAtLimit
  <2>5. /\ msg'[a].tid = msg[a].tid /\ msg'[a].kind = msg[a].kind
        /\ msg'[a].start = msg[a].start /\ msg'[a].ops = msg[a].ops
    BY <2>3, <2>4 DEF Event
  <2>6. MsgOK(a)'
    BY <1>m, <2>2, <2>5 DEF MsgOK, WritePCs
  <2> QED
    BY <1>s, <2>1, <2>6, MsgStays
<1>7. ASSUME NEW a \in Actors, WriteEventUnlocked(a) PROVE MsgInv'
  <2>1. \A b \in Actors \ {a} : Unmoved(b)
    BY <1>7, <1>0 DEF WriteEventUnlocked, Unmoved
  <2>2. MsgOK(a)'
    BY <1>7, <1>0, <1>m DEF WriteEventUnlocked, MsgOK, WritePCs, Flushing
  <2> QED
    BY <1>s, <2>1, <2>2, MsgStays
<1>8. ASSUME NEW a \in Actors, PutOutputLock(a) PROVE MsgInv'
  <2>1. \A b \in Actors \ {a} : Unmoved(b)
    BY <1>8, <1>0 DEF PutOutputLock, Unmoved
  <2>2. MsgOK(a)'
    BY <1>8, <1>0, <1>m DEF PutOutputLock, MsgOK, WritePCs, Flushing, ThreadRets, ProcessRets
  <2> QED
    BY <1>s, <2>1, <2>2, MsgStays
<1>9. ASSUME NEW t \in Threads, StartNewLog(t) PROVE MsgInv'
  <2>1. \A b \in Actors \ {t} : Unmoved(b)
    BY <1>9, <1>0 DEF StartNewLog, Unmoved
  <2>2. MsgOK(t)'
    BY <1>9, <1>0, <1>m DEF StartNewLog, MsgOK, WritePCs, Flushing
  <2> QED
    BY <1>s, <2>1, <2>2, MsgStays
<1>10. ASSUME NEW t \in Threads, StartInsert(t) PROVE MsgInv'
  <2>1. \A b \in Actors \ {t} : Unmoved(b)
    BY <1>10, <1>0 DEF StartInsert, Unmoved
  <2>2. MsgOK(t)'
    BY <1>10, <1>0, <1>m DEF StartInsert, MsgOK, WritePCs, Flushing
  <2> QED
    BY <1>s, <2>1, <2>2, MsgStays
<1>11. ASSUME NEW t \in Threads, StartUnlock(t) PROVE MsgInv'
  <2>1. \A b \in Actors \ {t} : Unmoved(b)
    BY <1>11, <1>0 DEF StartUnlock, Call, Unmoved
  <2>2. MsgOK(t)'
    BY <1>11, <1>0, <1>m DEF StartUnlock, Call, MsgOK, WritePCs, Flushing, MakeEvent, LogEvent
  <2> QED
    BY <1>s, <2>1, <2>2, MsgStays
<1>12. ASSUME NEW t \in Threads, CheckFlushEnd(t) PROVE MsgInv'
  <2>1. \A b \in Actors \ {t} : Unmoved(b)
    BY <1>12, <1>0 DEF CheckFlushEnd, ResetLog, Unmoved
  <2>2. MsgOK(t)'
    BY <1>12, <1>0, <1>m DEF CheckFlushEnd, ResetLog, MsgOK, WritePCs, Flushing
  <2> QED
    BY <1>s, <2>1, <2>2, MsgStays
<1>13. ASSUME NEW t \in Threads, CountPC(t) PROVE MsgInv'
  <2>1. \A b \in Actors \ {t} : Unmoved(b)
    BY <1>13, <1>0 DEF CountPC, Unmoved
  <2>2. MsgOK(t)'
    BY <1>13, <1>0, <1>m DEF CountPC, MsgOK, WritePCs, Flushing
  <2> QED
    BY <1>s, <2>1, <2>2, MsgStays
<1>14. ASSUME NEW t \in Threads, LogOps(t) PROVE MsgInv'
  <2>1. \A b \in Actors \ {t} : Unmoved(b)
    BY <1>14, <1>0 DEF LogOps, Unmoved
  <2>2. MsgOK(t)'
    BY <1>14, <1>0, <1>m DEF LogOps, MsgOK, WritePCs, Flushing
  <2> QED
    BY <1>s, <2>1, <2>2, MsgStays
<1>15. ASSUME NEW t \in Threads, FinishFlushEnd(t) PROVE MsgInv'
  <2>1. \A b \in Actors \ {t} : Unmoved(b)
    BY <1>15, <1>0 DEF FinishFlushEnd, ResetLog, Unmoved
  <2>2. MsgOK(t)'
    BY <1>15, <1>0, <1>m DEF FinishFlushEnd, ResetLog, MsgOK, WritePCs, Flushing
  <2> QED
    BY <1>s, <2>1, <2>2, MsgStays
<1>16. ASSUME NEW t \in Threads, FinishLock(t) PROVE MsgInv'
  <2>1. \A b \in Actors \ {t} : Unmoved(b)
    BY <1>16, <1>0 DEF FinishLock, Unmoved
  <2>2. MsgOK(t)'
    BY <1>16, <1>0, <1>m DEF FinishLock, MsgOK, WritePCs, Flushing
  <2> QED
    BY <1>s, <2>1, <2>2, MsgStays
<1>17. ASSUME NEW t \in Threads, FinishDelete(t) PROVE MsgInv'
  <2>1. \A b \in Actors \ {t} : Unmoved(b)
    BY <1>17, <1>0 DEF FinishDelete, Unmoved
  <2>2. MsgOK(t)'
    BY <1>17, <1>0, <1>m DEF FinishDelete, MsgOK, WritePCs, Flushing
  <2> QED
    BY <1>s, <2>1, <2>2, MsgStays
<1>18. ASSUME NEW t \in Threads, FinishErase(t) PROVE MsgInv'
  <2>1. \A b \in Actors \ {t} : Unmoved(b)
    BY <1>18, <1>0 DEF FinishErase, Unmoved
  <2>2. MsgOK(t)'
    BY <1>18, <1>0, <1>m DEF FinishErase, MsgOK, WritePCs, Flushing
  <2> QED
    BY <1>s, <2>1, <2>2, MsgStays
<1>19. ASSUME NEW t \in Threads, FinishUnlock(t) PROVE MsgInv'
  <2>1. \A b \in Actors \ {t} : Unmoved(b)
    BY <1>19, <1>0 DEF FinishUnlock, Call, Unmoved
  <2>2. MsgOK(t)'
    BY <1>19, <1>0, <1>m DEF FinishUnlock, Call, MsgOK, WritePCs, Flushing, MakeEvent, LogEvent
  <2> QED
    BY <1>s, <2>1, <2>2, MsgStays
<1>20. ASSUME NEW t \in Threads, StartThread(t) PROVE MsgInv'
  <2>1. \A b \in Actors \ {t} : Unmoved(b)
    BY <1>20, <1>0 DEF StartThread, Unmoved
  <2>2. MsgOK(t)'
    BY <1>20, <1>0, <1>m DEF StartThread, MsgOK, WritePCs, Flushing
  <2> QED
    BY <1>s, <2>1, <2>2, MsgStays
<1>21. ASSUME NEW t \in Threads, LogPC(t) PROVE MsgInv'
  <2>1. \A b \in Actors \ {t} : Unmoved(b)
    BY <1>21, <1>0 DEF LogPC, Call, Unmoved
  <2>2. MsgOK(t)'
    <3>1. CASE Goto(t, "run", "count") /\ UNCHANGED <<ret, msg, insStart, log>>
      BY <1>0, <3>1 DEF MsgOK, WritePCs
    <3>2. CASE Call(t, "run", LogEvent(t), "flushed") /\ UNCHANGED <<insStart, log>>
      BY <1>0, <3>2 DEF Call, MakeEvent, LogEvent, MsgOK, WritePCs, Flushing
    <3> QED
      BY <1>21, <3>1, <3>2 DEF LogPC
  <2> QED
    BY <1>s, <2>1, <2>2, MsgStays
<1>22. ASSUME NEW t \in Threads, MacroEvent(t) PROVE MsgInv'
  <2>1. \A b \in Actors \ {t} : Unmoved(b)
    BY <1>22, <1>0 DEF MacroEvent, Call, Unmoved
  <2>2. MsgOK(t)'
    BY <1>22, <1>0, <1>m DEF MacroEvent, Call, MsgOK, WritePCs, Flushing, MakeEvent, LogEvent
  <2> QED
    BY <1>s, <2>1, <2>2, MsgStays
<1>23. ASSUME NEW t \in Threads, FinishThread(t) PROVE MsgInv'
  <2>1. \A b \in Actors \ {t} : Unmoved(b)
    BY <1>23, <1>0 DEF FinishThread, Call, Unmoved
  <2>2. MsgOK(t)'
    BY <1>23, <1>0, <1>m DEF FinishThread, Call, MsgOK, WritePCs, Flushing, MakeEvent, LogEvent
  <2> QED
    BY <1>s, <2>1, <2>2, MsgStays
<1>24. CASE OpenLog
  <2>1. \A b \in Actors \ {Process} : Unmoved(b)
    BY <1>24, <1>0 DEF OpenLog, Call, Unmoved
  <2>2. MsgOK(Process)'
    BY <1>24, <1>0, <1>m DEF OpenLog, Call, MsgOK, WritePCs, Flushing, MakeEvent, LogEvent
  <2> QED
    BY <1>s, <2>1, <2>2, MsgStays
<1>25. CASE OpenLogFails
  <2>1. \A b \in Actors \ {Process} : Unmoved(b)
    BY <1>25, <1>0 DEF OpenLogFails, Unmoved
  <2>2. MsgOK(Process)'
    BY <1>25, <1>0, <1>m DEF OpenLogFails, MsgOK, WritePCs, Flushing
  <2> QED
    BY <1>s, <2>1, <2>2, MsgStays
<1>26. CASE StartProgram
  <2>1. \A b \in Actors \ {Process} : Unmoved(b)
    BY <1>26, <1>0 DEF StartProgram, Unmoved
  <2>2. MsgOK(Process)'
    BY <1>26, <1>0, <1>m DEF StartProgram, MsgOK, WritePCs, Flushing
  <2> QED
    BY <1>s, <2>1, <2>2, MsgStays
<1>27. CASE OnFinish
  <2>1. \A b \in Actors \ {Process} : Unmoved(b)
    BY <1>27, <1>0 DEF OnFinish, Unmoved
  <2>2. MsgOK(Process)'
    BY <1>27, <1>0, <1>m DEF OnFinish, MsgOK, WritePCs, Flushing
  <2> QED
    BY <1>s, <2>1, <2>2, MsgStays
<1>28. CASE DumpMemoryRegion
  <2>1. \A b \in Actors \ {Process} : Unmoved(b)
    BY <1>28, <1>0 DEF DumpMemoryRegion, Call, Unmoved
  <2>2. MsgOK(Process)'
    BY <1>28, <1>0, <1>m DEF DumpMemoryRegion, Call, MsgOK, WritePCs, Flushing, MakeEvent, LogEvent
  <2> QED
    BY <1>s, <2>1, <2>2, MsgStays
<1>29. CASE CloseLog
  <2>1. \A b \in Actors \ {Process} : Unmoved(b)
    BY <1>29, <1>0 DEF CloseLog, Call, Unmoved
  <2>2. MsgOK(Process)'
    BY <1>29, <1>0, <1>m DEF CloseLog, Call, MsgOK, WritePCs, Flushing, MakeEvent, LogEvent
  <2> QED
    BY <1>s, <2>1, <2>2, MsgStays
<1>30. CASE CloseStream
  <2>1. \A b \in Actors \ {Process} : Unmoved(b)
    BY <1>30, <1>0 DEF CloseStream, Unmoved
  <2>2. MsgOK(Process)'
    BY <1>30, <1>0, <1>m DEF CloseStream, MsgOK, WritePCs, Flushing
  <2> QED
    BY <1>s, <2>1, <2>2, MsgStays
<1>31. CASE UNCHANGED vars
  <2>1. \A b \in Actors : Unmoved(b)
    BY <1>31 DEF vars, Unmoved
  <2>2. MsgOK(Process)'
    BY <1>31, <1>m DEF vars, MsgOK
  <2> QED
    BY <1>s, <2>1, <2>2, MsgStays
<1> QED
  BY <1>1, <1>2, <1>3, <1>4, <1>5, <1>6, <1>7, <1>8,
     <1>9, <1>10, <1>11, <1>12, <1>13, <1>14, <1>15, <1>16,
     <1>17, <1>18, <1>19, <1>20, <1>21, <1>22, <1>23, <1>24,
     <1>25, <1>26, <1>27, <1>28, <1>29, <1>30, <1>31
  DEF Next, WriteEvent, Callback, Application, ProcessStep, Terminated
----------------------------------------------------------------------------

(* The step of a thread, when the file stays as it is. *)
LEMMA Steps ==
    ASSUME IInv, PlaceInv, [Next]_vars
    PROVE  \/ \E a \in Actors : Puts(a)
           \/ trace' = trace /\ \A t \in Threads : Keeps(t)
<1> USE TracerAssumption DEF Actors, Goto, Keeps, Pending, NextStart, Ended, MayBlock, AtOrTo,
        Within, Early, Flushing, WritePCs, logs, output
<1>0. /\ pc \in [Actors -> ThreadPCs \cup ProcessPCs]
      /\ \A t \in Threads : pc[t] \in WritePCs => ret[t] \in ThreadRets
      /\ ret \in [Actors -> {"none"} \cup ThreadRets \cup ProcessRets]
      /\ insCounter \in [Threads -> Nat] /\ insStart \in [Threads -> Nat]
      /\ \A t \in Threads : pc[t] = "start_new" => insCounter[t] = 0 /\ insStart[t] = 0
  BY DEF IInv, TypeOK, ControlOK, RetsOf, LogsOK, PlaceInv, PlaceOK
<1> DEFINE Goal == trace' = trace /\ \A t \in Threads : Keeps(t)
<1>1. ASSUME NEW a \in Actors, GetOutputLock(a) PROVE Goal
  BY <1>1, <1>0 DEF GetOutputLock
<1>2. ASSUME NEW a \in Actors, GetStateLock(a) PROVE Goal
  BY <1>2, <1>0 DEF GetStateLock
<1>3. ASSUME NEW a \in Actors, XrefThread(a) PROVE Goal
  BY <1>3, <1>0 DEF XrefThread
<1>4. ASSUME NEW a \in Actors, PutStateLock(a) PROVE Goal
  BY <1>4, <1>0 DEF PutStateLock
<1>5. ASSUME NEW a \in Actors, StampEvent(a) PROVE Goal
  BY <1>5, <1>0 DEF StampEvent
<1>6. ASSUME NEW a \in Actors, AbortAtLimit(a) PROVE Goal
  BY <1>6, <1>0 DEF AbortAtLimit
<1>7. ASSUME NEW a \in Actors, WriteEventUnlocked(a) PROVE Puts(a)
  <2>1. streamOpen
    BY <1>7 DEF IInv, StreamInv, Finished, WriteEventUnlocked
  <2>2. msg \in [Actors -> Event \cup {NoEvent}]
    BY DEF IInv, TypeOK, ControlOK
  <2> QED
    BY <1>7, <1>0, <2>1, <2>2 DEF WriteEventUnlocked, Puts, registry
<1>8. ASSUME NEW a \in Actors, PutOutputLock(a) PROVE Goal
  BY <1>8, <1>0 DEF PutOutputLock, ThreadRets
<1>9. ASSUME NEW t \in Threads, StartNewLog(t) PROVE Goal
  BY <1>9, <1>0 DEF StartNewLog
<1>10. ASSUME NEW t \in Threads, StartInsert(t) PROVE Goal
  BY <1>10, <1>0 DEF StartInsert
<1>11. ASSUME NEW t \in Threads, StartUnlock(t) PROVE Goal
  BY <1>11, <1>0 DEF StartUnlock, Call
<1>12. ASSUME NEW t \in Threads, CheckFlushEnd(t) PROVE Goal
  BY <1>12, <1>0 DEF CheckFlushEnd, ResetLog
<1>13. ASSUME NEW t \in Threads, CountPC(t) PROVE Goal
  BY <1>13, <1>0 DEF CountPC
<1>14. ASSUME NEW t \in Threads, LogOps(t) PROVE Goal
  BY <1>14, <1>0 DEF LogOps
<1>15. ASSUME NEW t \in Threads, FinishFlushEnd(t) PROVE Goal
  BY <1>15, <1>0 DEF FinishFlushEnd, ResetLog
<1>16. ASSUME NEW t \in Threads, FinishLock(t) PROVE Goal
  BY <1>16, <1>0 DEF FinishLock
<1>17. ASSUME NEW t \in Threads, FinishDelete(t) PROVE Goal
  BY <1>17, <1>0 DEF FinishDelete
<1>18. ASSUME NEW t \in Threads, FinishErase(t) PROVE Goal
  BY <1>18, <1>0 DEF FinishErase
<1>19. ASSUME NEW t \in Threads, FinishUnlock(t) PROVE Goal
  BY <1>19, <1>0 DEF FinishUnlock, Call
<1>20. ASSUME NEW t \in Threads, StartThread(t) PROVE Goal
  BY <1>20, <1>0 DEF StartThread
<1>21. ASSUME NEW t \in Threads, LogPC(t) PROVE Goal
  BY <1>21, <1>0 DEF LogPC, Call
<1>22. ASSUME NEW t \in Threads, MacroEvent(t) PROVE Goal
  BY <1>22, <1>0 DEF MacroEvent, Call
<1>23. ASSUME NEW t \in Threads, FinishThread(t) PROVE Goal
  BY <1>23, <1>0 DEF FinishThread, Call
<1>24. CASE OpenLog
  BY <1>24, <1>0 DEF OpenLog, Call
<1>25. CASE OpenLogFails
  BY <1>25, <1>0 DEF OpenLogFails
<1>26. CASE StartProgram
  BY <1>26, <1>0 DEF StartProgram
<1>27. CASE OnFinish
  BY <1>27, <1>0 DEF OnFinish
<1>28. CASE DumpMemoryRegion
  BY <1>28, <1>0 DEF DumpMemoryRegion, Call
<1>29. CASE CloseLog
  BY <1>29, <1>0 DEF CloseLog, Call
<1>30. CASE CloseStream
  BY <1>30, <1>0 DEF CloseStream
<1>31. CASE UNCHANGED vars
  BY <1>31, <1>0 DEF vars
<1> QED
  BY <1>1, <1>2, <1>3, <1>4, <1>5, <1>6, <1>7, <1>8,
     <1>9, <1>10, <1>11, <1>12, <1>13, <1>14, <1>15, <1>16,
     <1>17, <1>18, <1>19, <1>20, <1>21, <1>22, <1>23, <1>24,
     <1>25, <1>26, <1>27, <1>28, <1>29, <1>30, <1>31
  DEF Next, WriteEvent, Callback, Application, ProcessStep, Terminated

(* The step of an actor, when the file stays as it is. *)
LEMMA Gathering ==
    ASSUME IInv, [Next]_vars
    PROVE  \/ \E a \in Actors : WriteEventUnlocked(a)
           \/ \A a \in Actors : Gathers(a)
<1> USE TracerAssumption DEF Actors, Goto, Gathers, Referring, logs, registry
<1>0. /\ pc \in [Actors -> ThreadPCs \cup ProcessPCs]
      /\ \A a \in Actors : pc[a] \in WritePCs => ret[a] \in ThreadRets \cup ProcessRets
      /\ ret \in [Actors -> {"none"} \cup ThreadRets \cup ProcessRets]
      /\ cursor \in [Actors -> Threads \cup {-1}]
      /\ msg \in [Actors -> Event \cup {NoEvent}]
      /\ \A a \in Actors : pc[a] \in WritePCs \ {"put_output"} => msg[a] \in Event
  BY DEF IInv, TypeOK, ControlOK, RetsOf, SharedOK
<1>a. \A a, b \in Actors : pc[a] = "xref" /\ pc[b] \in HoldsState => a = b
  BY DEF IInv, StateInv, HoldsState
<1> DEFINE Goal == \A a \in Actors : Gathers(a)
<1>1. ASSUME NEW a \in Actors, GetOutputLock(a) PROVE Goal
  BY <1>1, <1>0 DEF GetOutputLock
<1>2. ASSUME NEW a \in Actors, GetStateLock(a) PROVE Goal
  BY <1>2, <1>0 DEF GetStateLock
<1>3. ASSUME NEW a \in Actors, XrefThread(a) PROVE Goal
  <2>1. PICK t \in Threads : /\ IsNextLive(a, t)
                             /\ cursor' = [cursor EXCEPT ![a] = t]
                             /\ msg' = [msg EXCEPT ![a].xrefs = @ \cup {Xref(t)}]
    BY <1>3 DEF XrefThread
  <2>2. /\ pc[a] = "xref" /\ UNCHANGED <<pc, ret, insCounter, liveThreads>>
    BY <1>3 DEF XrefThread
  <2>3. msg[a] \in Event
    BY <1>0, <2>2 DEF WritePCs
  <2>4. msg'[a].xrefs = msg[a].xrefs \cup {Xref(t)}
    BY <1>0, <2>1, <2>3 DEF Event
  <2>5. cursor'[a] = t /\ \A b \in Actors \ {a} : cursor'[b] = cursor[b] /\ msg'[b] = msg[b]
    BY <1>0, <2>1
  <2>6. Gathers(a)
    BY <2>1, <2>2, <2>4, <2>5 DEF Visits
  <2>7. ASSUME NEW b \in Actors \ {a} PROVE Gathers(b)
    <3>1. pc[b] # "xref"
      BY <1>a, <2>2 DEF HoldsState
    <3> QED
      BY <2>2, <2>5, <3>1
  <2> QED
    BY <2>6, <2>7
<1>4. ASSUME NEW a \in Actors, PutStateLock(a) PROVE Goal
  BY <1>4, <1>0 DEF PutStateLock
<1>5. ASSUME NEW a \in Actors, StampEvent(a) PROVE Goal
  <2>1. pc[a] = "stamp" /\ pc' = [pc EXCEPT ![a] = "write"]
        /\ msg' = [msg EXCEPT ![a].id = eventId] /\ UNCHANGED <<ret, cursor, liveThreads>>
    BY <1>5 DEF StampEvent
  <2>2. msg[a] \in Event
    BY <1>0, <2>1 DEF WritePCs
  <2>3. msg'[a].xrefs = msg[a].xrefs
    BY <1>0, <2>1, <2>2 DEF Event
  <2> QED
    BY <1>0, <2>1, <2>3
<1>6. ASSUME NEW a \in Actors, AbortAtLimit(a) PROVE Goal
  <2>1. pc[a] = "stamp" /\ pc' = pc
        /\ msg' = [msg EXCEPT ![a].id = eventId] /\ UNCHANGED <<ret, cursor, liveThreads>>
    BY <1>6 DEF AbortAtLimit
  <2>2. msg[a] \in Event
    BY <1>0, <2>1 DEF WritePCs
  <2>3. msg'[a].xrefs = msg[a].xrefs
    BY <1>0, <2>1, <2>2 DEF Event
  <2> QED
    BY <1>0, <2>1, <2>3
<1>7. ASSUME NEW a \in Actors, WriteEventUnlocked(a) PROVE WriteEventUnlocked(a)
  BY <1>7
<1>8. ASSUME NEW a \in Actors, PutOutputLock(a) PROVE Goal
  BY <1>8, <1>0 DEF PutOutputLock, ThreadRets, ProcessRets, WritePCs
<1>9. ASSUME NEW t \in Threads, StartNewLog(t) PROVE Goal
  BY <1>9, <1>0 DEF StartNewLog
<1>10. ASSUME NEW t \in Threads, StartInsert(t) PROVE Goal
  <2>1. \A b \in Actors : pc[b] # "xref"
    BY <1>10, <1>a DEF StartInsert, HoldsState
  <2> QED
    BY <1>10, <1>0, <2>1 DEF StartInsert
<1>11. ASSUME NEW t \in Threads, StartUnlock(t) PROVE Goal
  BY <1>11, <1>0 DEF StartUnlock, Call
<1>12. ASSUME NEW t \in Threads, CheckFlushEnd(t) PROVE Goal
  BY <1>12, <1>0 DEF CheckFlushEnd, ResetLog
<1>13. ASSUME NEW t \in Threads, CountPC(t) PROVE Goal
  BY <1>13, <1>0 DEF CountPC
<1>14. ASSUME NEW t \in Threads, LogOps(t) PROVE Goal
  BY <1>14, <1>0 DEF LogOps
<1>15. ASSUME NEW t \in Threads, FinishFlushEnd(t) PROVE Goal
  BY <1>15, <1>0 DEF FinishFlushEnd, ResetLog
<1>16. ASSUME NEW t \in Threads, FinishLock(t) PROVE Goal
  BY <1>16, <1>0 DEF FinishLock
<1>17. ASSUME NEW t \in Threads, FinishDelete(t) PROVE Goal
  BY <1>17, <1>0 DEF FinishDelete
<1>18. ASSUME NEW t \in Threads, FinishErase(t) PROVE Goal
  <2>1. \A b \in Actors : pc[b] # "xref"
    BY <1>18, <1>a DEF FinishErase, HoldsState
  <2> QED
    BY <1>18, <1>0, <2>1 DEF FinishErase
<1>19. ASSUME NEW t \in Threads, FinishUnlock(t) PROVE Goal
  BY <1>19, <1>0 DEF FinishUnlock, Call
<1>20. ASSUME NEW t \in Threads, StartThread(t) PROVE Goal
  BY <1>20, <1>0 DEF StartThread
<1>21. ASSUME NEW t \in Threads, LogPC(t) PROVE Goal
  BY <1>21, <1>0 DEF LogPC, Call
<1>22. ASSUME NEW t \in Threads, MacroEvent(t) PROVE Goal
  BY <1>22, <1>0 DEF MacroEvent, Call
<1>23. ASSUME NEW t \in Threads, FinishThread(t) PROVE Goal
  BY <1>23, <1>0 DEF FinishThread, Call
<1>24. CASE OpenLog
  BY <1>24, <1>0 DEF OpenLog, Call
<1>25. CASE OpenLogFails
  BY <1>25, <1>0 DEF OpenLogFails
<1>26. CASE StartProgram
  BY <1>26, <1>0 DEF StartProgram
<1>27. CASE OnFinish
  BY <1>27, <1>0 DEF OnFinish
<1>28. CASE DumpMemoryRegion
  BY <1>28, <1>0 DEF DumpMemoryRegion, Call
<1>29. CASE CloseLog
  BY <1>29, <1>0 DEF CloseLog, Call
<1>30. CASE CloseStream
  BY <1>30, <1>0 DEF CloseStream
<1>31. CASE UNCHANGED vars
  BY <1>31, <1>0 DEF vars
<1> QED
  BY <1>1, <1>2, <1>3, <1>4, <1>5, <1>6, <1>7, <1>8,
     <1>9, <1>10, <1>11, <1>12, <1>13, <1>14, <1>15, <1>16,
     <1>17, <1>18, <1>19, <1>20, <1>21, <1>22, <1>23, <1>24,
     <1>25, <1>26, <1>27, <1>28, <1>29, <1>30, <1>31
  DEF Next, WriteEvent, Callback, Application, ProcessStep, Terminated

----------------------------------------------------------------------------
(* The file with one more event. *)

LEMMA FileGrows ==
    ASSUME IInv, MsgInv, NEW a \in Actors, Puts(a), NEW n, n = Len(trace) + 1
    PROVE  /\ n \in Nat /\ DOMAIN trace = 1 .. (n - 1) /\ DOMAIN trace' = 1 .. n
           /\ trace'[n] = msg[a]
           /\ \A i \in 1 .. (n - 1) : trace'[i] = trace[i]
           /\ msg[a] \in Event /\ msg[a].tid = a
<1>1. trace \in Seq(Event) /\ msg[a] \in Event /\ msg[a].tid = a
  BY DEF IInv, TypeOK, OutputOK, ControlOK, MsgInv, MsgOK, Puts, WritePCs
<1>2. trace' = Append(trace, msg[a])
  BY DEF Puts
<1> HIDE DEF Event
<1>3. Len(trace) \in Nat /\ DOMAIN trace = 1 .. Len(trace)
  BY <1>1
<1>4. /\ Len(trace') = Len(trace) + 1 /\ trace' \in Seq(Event)
      /\ \A i \in 1 .. Len(trace) : trace'[i] = trace[i]
      /\ trace'[Len(trace) + 1] = msg[a]
  BY <1>1, <1>2, AppendProperties
<1>5. DOMAIN trace' = 1 .. n
  BY <1>4
<1> QED
  BY <1>1, <1>3, <1>4, <1>5

LEMMA GrownAt ==
    ASSUME IInv, MsgInv, NEW a \in Actors, Puts(a), NEW n, n = Len(trace) + 1,
           NEW kind, NEW t \in Threads
    PROVE  /\ At(kind, t) \subseteq 1 .. (n - 1)
           /\ msg[a].kind = kind /\ t = a => At(kind, t)' = At(kind, t) \cup {n}
           /\ ~(msg[a].kind = kind /\ t = a) => At(kind, t)' = At(kind, t)
<1>1. /\ n \in Nat /\ DOMAIN trace = 1 .. (n - 1) /\ DOMAIN trace' = 1 .. n
      /\ trace'[n] = msg[a]
      /\ \A i \in 1 .. (n - 1) : trace'[i] = trace[i]
      /\ msg[a].tid = a
  BY FileGrows
<1>2. 1 .. n = (1 .. (n - 1)) \cup {n} /\ n \notin 1 .. (n - 1)
  <2>1. n \in Nat \ {0}
    <3>1. Len(trace) \in Nat
      BY DEF IInv, TypeOK, OutputOK
    <3> QED
      BY <3>1
  <2> QED
    BY <2>1
<1> QED
  BY <1>1, <1>2 DEF At

LEMMA GrownEnds ==
    ASSUME IInv, MsgInv, NEW a \in Actors, Puts(a), NEW n, n = Len(trace) + 1
    PROVE  /\ \A i \in 1 .. (n - 1) : BlockEnd(i)' = BlockEnd(i)
           /\ BlockEnd(n)' = msg[a].start + PCs(msg[a].ops)
BY FileGrows DEF BlockEnd

LEMMA BlockEndType ==
    ASSUME IInv, NEW i \in DOMAIN trace
    PROVE  BlockEnd(i) \in Nat /\ trace[i].start \in Nat
<1>1. trace[i] \in Event
  BY DEF IInv, TypeOK, OutputOK
<1>2. trace[i].start \in Nat /\ trace[i].ops \in Seq(MicroOps)
  BY <1>1 DEF Event
<1>3. PCs(trace[i].ops) \in Nat
  BY <1>2, PCsFinite
<1> QED
  BY <1>2, <1>3 DEF BlockEnd

(* The counters only grow. *)
LEMMA CountersGrow ==
    ASSUME IInv, PlaceInv, [Next]_vars
    PROVE  \A t \in Threads : /\ insCounter[t] \in Nat /\ insCounter'[t] \in Nat
                              /\ insCounter[t] <= insCounter'[t]
<1>1. SUFFICES ASSUME NEW t \in Threads
               PROVE  /\ insCounter[t] \in Nat /\ insCounter'[t] \in Nat
                      /\ insCounter[t] <= insCounter'[t]
  OBVIOUS
<1>2. insCounter[t] \in Nat
  BY DEF IInv, TypeOK, LogsOK
<1>3. insCounter'[t] = insCounter[t] \/ insCounter'[t] = insCounter[t] + 1
  BY Steps DEF Puts, logs, Keeps
<1> QED
  BY <1>2, <1>3

----------------------------------------------------------------------------
(* A thread's blocks follow each other, and its log is what comes next. *)

LEMMA TileKept ==
    ASSUME IInv, PlaceInv, TileInv, [Next]_vars, trace' = trace,
           NEW t \in Threads, Keeps(t)
    PROVE  TileOK(t)'
<1>1. TileOK(t)
  BY DEF TileInv
<1>2. /\ Blocks(t)' = Blocks(t) /\ At("thread_end", t)' = At("thread_end", t)
      /\ \A i : BlockEnd(i)' = BlockEnd(i)
  BY DEF Blocks, At, BlockEnd
<1>3. /\ Pending(t)' => Pending(t)
      /\ NextStart(t)' = NextStart(t)
      /\ ~Pending(t) => insStart'[t] = insStart[t]
      /\ Ended(t) => Ended(t)'
  BY DEF Keeps
<1>4. \A b \in Blocks(t) : BlockEnd(b) <= insCounter'[t]
  <2>1. ASSUME NEW b \in Blocks(t) PROVE BlockEnd(b) <= insCounter'[t]
    <3>1. b \in DOMAIN trace
      BY DEF Blocks, At
    <3>2. BlockEnd(b) \in Nat /\ BlockEnd(b) <= insCounter[t]
      BY <1>1, <3>1, BlockEndType DEF TileOK
    <3> QED
      BY <3>2, CountersGrow
  <2> QED
    BY <2>1
<1> HIDE DEF Blocks, At, BlockEnd, Pending, NextStart, Ended
<1>5. /\ Pending(t)' => Blocks(t)' # {}
      /\ Blocks(t)' = {} => insStart'[t] = 0
      /\ At("thread_end", t)' # {} => Ended(t)'
  BY <1>1, <1>2, <1>3 DEF TileOK
<1>6. Blocks(t)' # {} => \E c \in Blocks(t)' : /\ BlockEnd(c)' = NextStart(t)'
                                              /\ \A d \in Blocks(t)' : d <= c
  BY <1>1, <1>2, <1>3 DEF TileOK
<1>7. \A b \in Blocks(t)' :
          /\ BlockEnd(b)' <= insCounter'[t]
          /\ (\A c \in Blocks(t)' : b <= c) => trace'[b].start = 0
          /\ \/ \A c \in Blocks(t)' : b <= c
             \/ \E c \in Blocks(t)' : c < b /\ BlockEnd(c)' = trace'[b].start
          /\ trace'[b].ops # <<>> => trace'[b].ops[1] = "pc"
  BY <1>1, <1>2, <1>4 DEF TileOK
<1> QED
  BY <1>5, <1>6, <1>7 DEF TileOK

(* The event another actor writes, or that is not a log. *)
LEMMA TileOtherPut ==
    ASSUME IInv, PlaceInv, MsgInv, TileInv, NEW a \in Actors, Puts(a),
           NEW t \in Threads, ~(t = a /\ msg[a].kind = "micro_event_log")
    PROVE  TileOK(t)'
<1>1. TileOK(t)
  BY DEF TileInv
<1>2. PICK n : n = Len(trace) + 1
  OBVIOUS
<1>3. /\ n \in Nat /\ DOMAIN trace = 1 .. (n - 1)
      /\ \A i \in 1 .. (n - 1) : trace'[i] = trace[i] /\ BlockEnd(i)' = BlockEnd(i)
  BY <1>2, FileGrows, GrownEnds
<1>4. Blocks(t)' = Blocks(t) /\ Blocks(t) \subseteq 1 .. (n - 1)
  BY <1>2, GrownAt DEF Blocks
<1>5. /\ pc[a] = "write" /\ pc' = [pc EXCEPT ![a] = "put_output"] /\ pc \in [Actors -> ThreadPCs \cup ProcessPCs]
      /\ UNCHANGED <<ret, insCounter, insStart>>
  BY DEF Puts, logs, IInv, TypeOK, ControlOK
<1>6. t = a => /\ ret[a] \notin Flushing /\ (msg[a].kind = "thread_end" => ret[a] = "ended")
  BY <1>5 DEF MsgInv, MsgOK, WritePCs
<1>7. /\ Pending(t)' <=> Pending(t)
      /\ NextStart(t)' = NextStart(t)
      /\ Ended(t) => Ended(t)'
  <2>1. Pending(t)' <=> Pending(t)
    BY <1>5, <1>6 DEF Pending, Flushing, Actors
  <2> QED
    BY <1>5, <2>1 DEF NextStart, Ended, Actors
<1>8. At("thread_end", t)' # {} => Ended(t)'
  <2>1. CASE t = a /\ msg[a].kind = "thread_end"
    BY <1>5, <1>6, <2>1 DEF Ended
  <2>2. CASE ~(t = a /\ msg[a].kind = "thread_end")
    <3>1. At("thread_end", t)' = At("thread_end", t)
      BY <1>2, <2>2, GrownAt
    <3> QED
      BY <1>1, <1>7, <3>1 DEF TileOK
  <2> QED
    BY <2>1, <2>2
<1> HIDE DEF Blocks, At, BlockEnd, Pending, NextStart, Ended
<1>9. /\ Pending(t)' => Blocks(t)' # {}
      /\ Blocks(t)' = {} => insStart'[t] = 0
      /\ Blocks(t)' # {} => \E c \in Blocks(t)' : /\ BlockEnd(c)' = NextStart(t)'
                                                 /\ \A d \in Blocks(t)' : d <= c
  BY <1>1, <1>3, <1>4, <1>5, <1>7 DEF TileOK
<1>10. \A b \in Blocks(t)' :
          /\ BlockEnd(b)' <= insCounter'[t]
          /\ (\A c \in Blocks(t)' : b <= c) => trace'[b].start = 0
          /\ \/ \A c \in Blocks(t)' : b <= c
             \/ \E c \in Blocks(t)' : c < b /\ BlockEnd(c)' = trace'[b].start
          /\ trace'[b].ops # <<>> => trace'[b].ops[1] = "pc"
  BY <1>1, <1>3, <1>4, <1>5 DEF TileOK
<1> QED
  BY <1>8, <1>9, <1>10 DEF TileOK

(* What a thread whose log is being written has, and says. *)
LEMMA LogPut ==
    ASSUME IInv, PlaceInv, MsgInv, TileInv, NEW t \in Threads, Puts(t),
           msg[t].kind = "micro_event_log", NEW n, n = Len(trace) + 1
    PROVE  /\ Blocks(t)' = Blocks(t) \cup {n} /\ Blocks(t) \subseteq 1 .. (n - 1)
           /\ trace'[n].start = insStart[t] /\ trace'[n].ops = log[t]
           /\ BlockEnd(n)' = insCounter[t]
           /\ ~Pending(t) /\ Pending(t)' /\ NextStart(t)' = insCounter[t]
           /\ At("thread_end", t)' = {}
<1>1. /\ pc[t] = "write" /\ pc'[t] = "put_output"
      /\ UNCHANGED <<ret, insCounter, insStart>>
  BY DEF Puts, logs, IInv, TypeOK, ControlOK, Actors
<1>2. /\ ret[t] \in Flushing /\ msg[t].start = insStart[t] /\ msg[t].ops = log[t]
      /\ insCounter[t] = insStart[t] + PCs(log[t])
  BY <1>1 DEF MsgInv, MsgOK, WritePCs, Actors, PlaceInv, PlaceOK
<1>3. /\ Blocks(t)' = Blocks(t) \cup {n} /\ Blocks(t) \subseteq 1 .. (n - 1)
      /\ At("thread_end", t)' = At("thread_end", t)
  BY GrownAt DEF Blocks, Actors
<1>4. trace'[n] = msg[t] /\ BlockEnd(n)' = insCounter[t]
  BY <1>2, FileGrows, GrownEnds DEF Actors
<1>5. ~Pending(t) /\ Pending(t)' /\ NextStart(t)' = insCounter[t]
  BY <1>1, <1>2 DEF Pending, NextStart, Flushing
<1>6. At("thread_end", t) = {}
  <2>1. ~Ended(t)
    BY <1>1 DEF Ended
  <2> QED
    BY <2>1 DEF TileInv, TileOK
<1> QED
  BY <1>2, <1>3, <1>4, <1>5, <1>6

LEMMA TileLogPut ==
    ASSUME IInv, PlaceInv, MsgInv, TileInv, NEW t \in Threads, Puts(t),
           msg[t].kind = "micro_event_log"
    PROVE  TileOK(t)'
<1>1. TileOK(t)
  BY DEF TileInv
<1>2. PICK n : n = Len(trace) + 1
  OBVIOUS
<1>3. /\ n \in Nat /\ DOMAIN trace = 1 .. (n - 1)
      /\ \A i \in 1 .. (n - 1) : trace'[i] = trace[i] /\ BlockEnd(i)' = BlockEnd(i)
  BY <1>2, FileGrows, GrownEnds DEF Actors
<1>4. /\ Blocks(t)' = Blocks(t) \cup {n} /\ Blocks(t) \subseteq 1 .. (n - 1)
      /\ trace'[n].start = insStart[t] /\ trace'[n].ops = log[t]
      /\ BlockEnd(n)' = insCounter[t]
      /\ ~Pending(t) /\ Pending(t)' /\ NextStart(t)' = insCounter[t]
      /\ At("thread_end", t)' = {}
  BY <1>2, LogPut
<1>5. /\ insCounter' = insCounter /\ insCounter[t] \in Nat
      /\ log[t] # <<>> => log[t][1] = "pc"
  BY DEF Puts, logs, PlaceInv, PlaceOK, IInv, TypeOK, LogsOK
<1>6. NextStart(t) = insStart[t]
  BY <1>4 DEF NextStart
<1> HIDE DEF Blocks, At, BlockEnd, Pending, NextStart, Ended
<1>7. \A d \in Blocks(t)' : d <= n
  BY <1>3, <1>4
<1>8. ASSUME NEW b \in Blocks(t)'
      PROVE  /\ BlockEnd(b)' <= insCounter'[t]
             /\ (\A c \in Blocks(t)' : b <= c) => trace'[b].start = 0
             /\ \/ \A c \in Blocks(t)' : b <= c
                \/ \E c \in Blocks(t)' : c < b /\ BlockEnd(c)' = trace'[b].start
             /\ trace'[b].ops # <<>> => trace'[b].ops[1] = "pc"
  <2>1. CASE b \in Blocks(t)
    <3>1. b \in 1 .. (n - 1) /\ trace'[b] = trace[b] /\ BlockEnd(b)' = BlockEnd(b) /\ b <= n
      BY <1>3, <1>4, <2>1
    <3>2. BlockEnd(b)' <= insCounter'[t] /\ (trace'[b].ops # <<>> => trace'[b].ops[1] = "pc")
      BY <1>1, <1>5, <2>1, <3>1 DEF TileOK
    <3>3. (\A c \in Blocks(t)' : b <= c) => trace'[b].start = 0
      BY <1>1, <1>4, <2>1, <3>1 DEF TileOK
    <3>4. CASE \A c \in Blocks(t) : b <= c
      BY <1>4, <3>1, <3>2, <3>3, <3>4
    <3>5. CASE \E c \in Blocks(t) : c < b /\ BlockEnd(c) = trace[b].start
      <4>1. PICK c \in Blocks(t) : c < b /\ BlockEnd(c) = trace[b].start
        BY <3>5
      <4>2. c \in Blocks(t)' /\ BlockEnd(c)' = trace'[b].start
        BY <1>3, <1>4, <3>1, <4>1
      <4> QED
        BY <3>2, <3>3, <4>1, <4>2
    <3> QED
      BY <1>1, <2>1, <3>4, <3>5 DEF TileOK
  <2>2. CASE b = n
    <3>1. BlockEnd(b)' <= insCounter'[t] /\ (trace'[b].ops # <<>> => trace'[b].ops[1] = "pc")
      BY <1>4, <1>5, <2>2
    <3>2. CASE Blocks(t) = {}
      <4>1. trace'[b].start = 0
        BY <1>1, <1>4, <2>2, <3>2 DEF TileOK
      <4>2. \A c \in Blocks(t)' : b <= c
        BY <1>3, <1>4, <2>2, <3>2
      <4> QED
        BY <3>1, <4>1, <4>2
    <3>3. CASE Blocks(t) # {}
      <4>1. PICK c \in Blocks(t) : BlockEnd(c) = NextStart(t)
        BY <1>1, <3>3 DEF TileOK
      <4>2. c \in 1 .. (n - 1) /\ c < n /\ ~(n <= c)
        BY <1>3, <1>4, <4>1
      <4>3. c \in Blocks(t)' /\ BlockEnd(c)' = trace'[b].start
        BY <1>3, <1>4, <1>6, <2>2, <4>1, <4>2
      <4> QED
        BY <2>2, <3>1, <4>2, <4>3
    <3> QED
      BY <3>2, <3>3
  <2> QED
    BY <1>4, <2>1, <2>2
<1>9. /\ Blocks(t)' # {}
      /\ \E c \in Blocks(t)' : BlockEnd(c)' = NextStart(t)' /\ \A d \in Blocks(t)' : d <= c
  BY <1>4, <1>7
<1> QED
  BY <1>4, <1>8, <1>9 DEF TileOK

LEMMA TileStep ==
    ASSUME IInv, PlaceInv, MsgInv, TileInv, [Next]_vars
    PROVE  TileInv'
<1>1. CASE trace' = trace /\ \A t \in Threads : Keeps(t)
  BY <1>1, TileKept DEF TileInv
<1>2. ASSUME NEW a \in Actors, Puts(a) PROVE TileInv'
  <2>1. ASSUME NEW t \in Threads PROVE TileOK(t)'
    BY <1>2, TileOtherPut, TileLogPut
  <2> QED
    BY <2>1 DEF TileInv
<1> QED
  BY <1>1, <1>2, Steps

----------------------------------------------------------------------------
(* The references. *)

(* While an actor gathers or holds references the file stays as it is: who *)
(* writes into it has the output lock.                                     *)
LEMMA FileWaits ==
    ASSUME IInv, PlaceInv, [Next]_vars, NEW a \in Actors, pc'[a] \in Referring
    PROVE  trace' = trace /\ Gathers(a) /\ \A t \in Threads : Keeps(t)
<1>1. ASSUME NEW b \in Actors, pc[b] = "write", pc' = [pc EXCEPT ![b] = "put_output"]
      PROVE  FALSE
  <2>1. pc \in [Actors -> ThreadPCs \cup ProcessPCs]
    BY DEF IInv, TypeOK, ControlOK
  <2>2. a # b /\ pc[a] \in Referring
    BY <1>1, <2>1 DEF Referring
  <2>3. outputLock = a /\ outputLock = b
    BY <1>1, <2>2 DEF IInv, OutputInv, HoldsOutput, WritePCs, Referring
  <2> QED
    BY <2>2, <2>3
<1>2. trace' = trace /\ \A t \in Threads : Keeps(t)
  BY <1>1, Steps DEF Puts
<1>3. Gathers(a)
  BY <1>1, Gathering DEF WriteEventUnlocked, Goto
<1> QED
  BY <1>2, <1>3

LEMMA ReferenceTypes ==
    ASSUME IInv
    PROVE  /\ \A i \in DOMAIN trace : \A x \in trace[i].xrefs : x.tid \in Threads /\ x.next \in Nat
           /\ \A a \in Actors : pc[a] \in WritePCs \ {"put_output"} =>
                 \A x \in msg[a].xrefs : x.tid \in Threads /\ x.next \in Nat
<1>1. /\ \A i \in DOMAIN trace : trace[i] \in Event
      /\ \A a \in Actors : pc[a] \in WritePCs \ {"put_output"} => msg[a] \in Event
  BY DEF IInv, TypeOK, OutputOK, ControlOK
<1>2. \A e \in Event : \A x \in e.xrefs : x.tid \in Threads /\ x.next \in Nat
  BY DEF Event
<1> QED
  BY <1>1, <1>2

(* A counter fits into a reference, so that is exact. *)
LEMMA XrefExact ==
    ASSUME IInv, PlaceInv, MaxIns < XrefRange, NEW t \in Threads
    PROVE  Xref(t).tid = t /\ Xref(t).next = insCounter[t]
<1>1. insCounter[t] \in Nat /\ insCounter[t] <= MaxIns
  BY DEF IInv, TypeOK, LogsOK, PlaceInv, PlaceOK
<1>2. XrefRange \in Nat \ {0} /\ MaxIns \in Nat
  BY TracerAssumption
<1>3. insCounter[t] % XrefRange = insCounter[t]
  BY <1>1, <1>2
<1> QED
  BY <1>3 DEF Xref

LEMMA NewestStep ==
    ASSUME IInv, PlaceInv, MsgInv, TileInv, RefsInv, [Next]_vars, MaxIns < XrefRange,
           NEW a \in Actors, pc'[a] \in Referring
    PROVE  Newest(a)'
<1>1. trace' = trace /\ Gathers(a) /\ \A t \in Threads : Keeps(t)
  BY FileWaits
<1>2. \A t : Blocks(t)' = Blocks(t) /\ \A i : BlockEnd(i)' = BlockEnd(i)
  BY <1>1 DEF Blocks, At, BlockEnd
<1>3. \A t \in Threads : /\ insCounter[t] \in Nat /\ insCounter'[t] \in Nat
                         /\ insCounter[t] <= insCounter'[t]
                         /\ t = a => insCounter'[t] = insCounter[t]
  BY <1>1, CountersGrow DEF Keeps, Referring
<1>4. ASSUME pc[a] \in Referring, NEW x \in msg[a].xrefs
      PROVE  /\ x.next <= insCounter'[x.tid]
             /\ x.tid = a => x.next = insCounter'[a]
             /\ \A i \in DOMAIN trace : \A y \in trace[i].xrefs : y.tid = x.tid => y.next <= x.next
             /\ \A b \in Blocks(x.tid) : BlockEnd(b) <= x.next
  <2>1. x.tid \in Threads /\ x.next \in Nat
    BY <1>4, ReferenceTypes DEF Referring, WritePCs
  <2>2. Newest(a)
    BY <1>4 DEF RefsInv
  <2>3. x.next <= insCounter'[x.tid]
    BY <1>3, <2>1, <2>2 DEF Newest
  <2> QED
    BY <1>3, <2>1, <2>2, <2>3 DEF Newest
<1>5. CASE pc[a] = "get_state" /\ msg'[a].xrefs = msg[a].xrefs
  BY <1>5 DEF MsgInv, MsgOK, Newest
<1>6. CASE pc[a] \in Referring /\ msg'[a].xrefs = msg[a].xrefs
  BY <1>1, <1>2, <1>4, <1>6 DEF Newest
<1>7. CASE pc[a] = "xref" /\ Visits(a)
  <2>1. PICK t \in Threads : /\ msg'[a].xrefs = msg[a].xrefs \cup {Xref(t)}
                             /\ insCounter' = insCounter
    BY <1>7 DEF Visits
  <2>2. Xref(t).tid = t /\ Xref(t).next = insCounter[t]
    BY XrefExact
  <2>3. \A i \in DOMAIN trace : \A y \in trace[i].xrefs : y.tid = t => y.next <= insCounter[t]
    BY DEF RefsInv
  <2>4. \A b \in Blocks(t) : BlockEnd(b) <= insCounter[t]
    BY DEF TileInv, TileOK
  <2> DEFINE r == Xref(t)
  <2>5. /\ r.next <= insCounter'[r.tid]
        /\ r.tid = a => r.next = insCounter'[a]
        /\ \A i \in DOMAIN trace : \A y \in trace[i].xrefs : y.tid = r.tid => y.next <= r.next
        /\ \A b \in Blocks(r.tid) : BlockEnd(b) <= r.next
    BY <1>3, <2>1, <2>2, <2>3, <2>4
  <2> HIDE DEF r
  <2>6. \A x \in msg'[a].xrefs : x \in msg[a].xrefs \/ x = r
    BY <2>1 DEF r
  <2>7. pc[a] \in Referring
    BY <1>7 DEF Referring
  <2>8. ASSUME NEW x \in msg'[a].xrefs
        PROVE  /\ x.next <= insCounter'[x.tid]
               /\ x.tid = a => x.next = insCounter'[a]
               /\ \A i \in DOMAIN trace' : \A y \in trace'[i].xrefs : y.tid = x.tid => y.next <= x.next
               /\ \A b \in Blocks(x.tid)' : BlockEnd(b)' <= x.next
    <3>1. CASE x \in msg[a].xrefs
      BY <1>1, <1>2, <1>4, <2>7, <3>1
    <3>2. CASE x = r
      BY <1>1, <1>2, <2>5, <3>2
    <3> QED
      BY <2>6, <3>1, <3>2
  <2> QED
    BY <2>8 DEF Newest
<1> QED
  BY <1>1, <1>5, <1>6, <1>7 DEF Gathers, Referring

(* One more event: its references are not behind those in the file. *)
LEMMA RefsPut ==
    ASSUME IInv, PlaceInv, MsgInv, TileInv, RefsInv, NEW a \in Actors, Puts(a)
    PROVE  /\ \A i \in DOMAIN trace' : \A x \in trace'[i].xrefs : x.next <= insCounter'[x.tid]
           /\ XrefsMonotone'
           /\ XrefsPlaceEvents'
<1>1. PICK n : n = Len(trace) + 1
  OBVIOUS
<1>2. /\ n \in Nat /\ DOMAIN trace = 1 .. (n - 1) /\ DOMAIN trace' = 1 .. n
      /\ trace'[n] = msg[a]
      /\ \A i \in 1 .. (n - 1) : trace'[i] = trace[i] /\ BlockEnd(i)' = BlockEnd(i)
  BY <1>1, FileGrows, GrownEnds
<1>3. /\ Newest(a) /\ insCounter' = insCounter /\ pc[a] = "write"
      /\ \A i \in DOMAIN trace : \A x \in trace[i].xrefs : x.next <= insCounter[x.tid]
  BY DEF RefsInv, Puts, Referring, logs
<1>4. \A x \in msg[a].xrefs : x.tid \in Threads /\ x.next \in Nat
  BY <1>3, ReferenceTypes DEF WritePCs
<1>5. \A i \in 1 .. n : i = n \/ i \in 1 .. (n - 1)
  BY <1>2
<1>6. \A i \in DOMAIN trace' : \A x \in trace'[i].xrefs : x.next <= insCounter'[x.tid]
  BY <1>2, <1>3, <1>5 DEF Newest
<1>7. XrefsMonotone'
  <2>1. ASSUME NEW i \in DOMAIN trace', NEW j \in DOMAIN trace', i < j,
               NEW x \in trace'[i].xrefs, NEW y \in trace'[j].xrefs, x.tid = y.tid
        PROVE  x.next <= y.next
    <3>1. i \in 1 .. (n - 1) /\ x \in trace[i].xrefs
      BY <1>2, <1>5, <2>1
    <3>2. CASE j = n
      BY <1>2, <1>3, <2>1, <3>1, <3>2 DEF Newest
    <3>3. CASE j \in 1 .. (n - 1)
      BY <1>2, <2>1, <3>1, <3>3 DEF RefsInv, XrefsMonotone
    <3> QED
      BY <1>2, <1>5, <3>2, <3>3
  <2> QED
    BY <2>1 DEF XrefsMonotone
<1>8. XrefsPlaceEvents'
  <2>1. ASSUME NEW t \in Threads, NEW b \in Blocks(t)', NEW i \in DOMAIN trace',
               NEW x \in trace'[i].xrefs, x.tid = t
        PROVE  /\ i <= b => x.next <= BlockEnd(b)'
               /\ i >= b => x.next >= BlockEnd(b)'
    <3>1. CASE b \in Blocks(t)
      <4>1. b \in 1 .. (n - 1) /\ BlockEnd(b)' = BlockEnd(b)
        BY <1>2, <3>1 DEF Blocks, At
      <4>2. CASE i = n
        <5>1. x \in msg[a].xrefs /\ BlockEnd(b) <= x.next /\ x.next \in Nat
          BY <1>2, <1>3, <1>4, <2>1, <3>1, <4>2 DEF Newest
        <5>2. BlockEnd(b) \in Nat
          BY <1>2, <4>1, BlockEndType
        <5> QED
          BY <1>2, <4>1, <4>2, <5>1, <5>2
      <4>3. CASE i \in 1 .. (n - 1)
        <5>1. x \in XrefsTo(i, t) /\ i \in DOMAIN trace
          BY <1>2, <2>1, <4>3 DEF XrefsTo
        <5> QED
          BY <3>1, <4>1, <5>1 DEF RefsInv, XrefsPlaceEvents
      <4> QED
        BY <1>2, <1>5, <4>2, <4>3
    <3>2. CASE b \notin Blocks(t)
      <4>1. msg[a].kind = "micro_event_log" /\ t = a /\ b = n
        BY <1>1, <3>2, GrownAt DEF Blocks
      <4>2. BlockEnd(b)' = insCounter[t] /\ insCounter[t] \in Nat
        <5>1. \A m : m = Len(trace) + 1 => BlockEnd(m)' = insCounter[t]
          BY <4>1, LogPut
        <5> QED
          BY <1>1, <4>1, <5>1 DEF IInv, TypeOK, LogsOK
      <4>3. CASE i = n
        <5>1. x \in msg[a].xrefs /\ x.next = insCounter[t]
          BY <1>2, <1>3, <2>1, <4>1, <4>3 DEF Newest
        <5> QED
          BY <4>2, <5>1
      <4>4. CASE i \in 1 .. (n - 1)
        <5>1. x.next <= insCounter[t]
          BY <1>2, <1>3, <2>1, <4>4
        <5> QED
          BY <1>2, <4>1, <4>2, <4>4, <5>1
      <4> QED
        BY <1>2, <1>5, <4>3, <4>4
    <3> QED
      BY <3>1, <3>2
  <2>2. \A t \in Threads : \A i \in DOMAIN trace' : \A x \in XrefsTo(i, t)' :
            x \in trace'[i].xrefs /\ x.tid = t
    BY DEF XrefsTo
  <2> QED
    BY <2>1, <2>2 DEF XrefsPlaceEvents
<1> QED
  BY <1>6, <1>7, <1>8

LEMMA RefsStep ==
    ASSUME IInv, PlaceInv, MsgInv, TileInv, RefsInv, [Next]_vars, MaxIns < XrefRange
    PROVE  RefsInv'
<1>1. \A a \in Actors : pc'[a] \in Referring => Newest(a)'
  BY NewestStep
<1>2. CASE trace' = trace
  <2>1. \A i \in DOMAIN trace : \A x \in trace[i].xrefs : x.next <= insCounter'[x.tid]
    <3>1. ASSUME NEW i \in DOMAIN trace, NEW x \in trace[i].xrefs
          PROVE  x.next <= insCounter'[x.tid]
      <4>1. x.tid \in Threads /\ x.next \in Nat /\ x.next <= insCounter[x.tid]
        BY ReferenceTypes DEF RefsInv
      <4> QED
        BY <4>1, CountersGrow
    <3> QED
      BY <3>1
  <2>2. XrefsMonotone' /\ XrefsPlaceEvents'
    BY <1>2 DEF RefsInv, XrefsMonotone, XrefsPlaceEvents, Blocks, At, BlockEnd, XrefsTo
  <2> QED
    BY <1>1, <1>2, <2>1, <2>2 DEF RefsInv
<1>3. CASE \E a \in Actors : Puts(a)
  BY <1>1, <1>3, RefsPut DEF RefsInv
<1> QED
  BY <1>2, <1>3, Steps

----------------------------------------------------------------------------
(* The lifetimes the references cover. *)

(* Who may still write a block is registered, unless it is just being      *)
(* registered; who has ended is not.                                       *)
LEMMA LiveThreads ==
    ASSUME IInv, PlaceInv, TileInv, NEW t \in Threads
    PROVE  /\ MayBlock(t) => t \in liveThreads
           /\ t \in liveThreads => At("thread_end", t) = {}
           /\ pc[t] = "xref" /\ ret[t] = "ended" => t \notin liveThreads
<1>1. /\ PlaceOK(t) /\ (At("thread_end", t) # {} => Ended(t))
  BY DEF PlaceInv, TileInv, TileOK
<1> HIDE DEF At
<1>2. MayBlock(t) => t \in liveThreads
  BY <1>1 DEF PlaceOK, MayBlock, AtOrTo, Within
<1>3. Ended(t) => t \notin liveThreads
  BY <1>1 DEF PlaceOK, Ended, AtOrTo, Within, WritePCs
<1>4. pc[t] = "xref" /\ ret[t] = "ended" => t \notin liveThreads
  BY <1>1 DEF PlaceOK, AtOrTo, Within
<1> QED
  BY <1>1, <1>2, <1>3, <1>4

LEMMA CursorKept ==
    ASSUME IInv, PlaceInv, CoverInv, [Next]_vars, NEW a \in Actors, pc'[a] # "xref"
    PROVE  cursor'[a] = -1
<1>1. NextCovers(a)
  BY DEF CoverInv
<1>2. CASE Gathers(a)
  BY <1>1, <1>2 DEF Gathers, NextCovers
<1>3. ASSUME NEW b \in Actors, WriteEventUnlocked(b) PROVE cursor'[a] = -1
  <2>1. /\ pc[b] = "write" /\ pc' = [pc EXCEPT ![b] = "put_output"] /\ cursor' = cursor
        /\ pc \in [Actors -> ThreadPCs \cup ProcessPCs]
    BY <1>3 DEF WriteEventUnlocked, Goto, IInv, TypeOK, ControlOK
  <2>2. pc[a] # "xref"
    BY <2>1
  <2> QED
    BY <1>1, <2>1, <2>2 DEF NextCovers
<1> QED
  BY <1>2, <1>3, Gathering

(* The loop over the live threads has come to those up to the cursor. *)
LEMMA LoopStep ==
    ASSUME IInv, PlaceInv, MsgInv, CoverInv, [Next]_vars, NEW a \in Actors, pc'[a] = "xref"
    PROVE  /\ \A x \in msg'[a].xrefs : x.tid <= cursor'[a]
           /\ \A t \in liveThreads' : t <= cursor'[a] => RefersTo(msg'[a], t)
<1>1. Gathers(a) /\ NextCovers(a) /\ liveThreads' = liveThreads
  BY FileWaits DEF CoverInv, Referring, Gathers
<1>2. /\ cursor[a] \in Threads \cup {-1} /\ liveThreads \subseteq Threads /\ Threads \subseteq Nat
  BY TracerAssumption DEF IInv, TypeOK, SharedOK
<1>3. cursor[a] \in Int /\ \A u \in Threads : u \in Int
  <2>1. \A u \in Threads : u \in Nat
    BY <1>2
  <2>2. cursor[a] \in Threads \/ cursor[a] = -1
    BY <1>2
  <2>3. -1 \in Int /\ \A u \in Nat : u \in Int
    OBVIOUS
  <2> QED
    BY <2>1, <2>2, <2>3
<1>4. pc[a] = "xref" => \A x \in msg[a].xrefs : x.tid \in Threads
  BY ReferenceTypes DEF WritePCs
<1>5. CASE pc[a] = "get_state" /\ cursor'[a] = cursor[a] /\ msg'[a].xrefs = msg[a].xrefs
  <2>1. msg'[a].xrefs = {} /\ cursor'[a] = -1
    BY <1>1, <1>5 DEF MsgInv, MsgOK, NextCovers
  <2>2. \A t \in liveThreads : ~(t <= -1)
    BY <1>2
  <2> QED
    BY <1>1, <2>1, <2>2
<1>6. CASE pc[a] = "xref" /\ cursor'[a] = cursor[a] /\ msg'[a].xrefs = msg[a].xrefs
  BY <1>1, <1>6 DEF NextCovers, RefersTo
<1>7. CASE pc[a] = "xref" /\ Visits(a)
  <2>1. PICK t \in Threads : /\ IsNextLive(a, t) /\ cursor'[a] = t
                             /\ msg'[a].xrefs = msg[a].xrefs \cup {Xref(t)}
    BY <1>7 DEF Visits
  <2>2. /\ cursor[a] < t /\ \A u \in liveThreads : cursor[a] < u => t <= u
        /\ Xref(t).tid = t
    BY <2>1 DEF IsNextLive, Xref
  <2>3. /\ \A x \in msg[a].xrefs : x.tid <= cursor[a]
        /\ \A u \in liveThreads : u <= cursor[a] => RefersTo(msg[a], u)
    BY <1>1, <1>7 DEF NextCovers
  <2> DEFINE r == Xref(t)
  <2>4. msg'[a].xrefs = msg[a].xrefs \cup {r} /\ r.tid = t
    BY <2>1, <2>2
  <2> HIDE DEF r
  <2>5. \A x \in msg[a].xrefs : x.tid <= t
    <3>1. ASSUME NEW x \in msg[a].xrefs PROVE x.tid <= t
      <4>1. x.tid <= cursor[a] /\ x.tid \in Int /\ t \in Int
        BY <1>4, <1>7, <1>3, <2>3
      <4> QED
        BY <1>3, <2>2, <4>1
    <3> QED
      BY <3>1
  <2>6. t \in Nat
    BY <1>2
  <2>7. \A x \in msg'[a].xrefs : x.tid <= cursor'[a]
    BY <2>1, <2>4, <2>5, <2>6
  <2>8. ASSUME NEW u \in liveThreads, u <= t PROVE RefersTo(msg'[a], u)
    <3>1. CASE u <= cursor[a]
      BY <2>3, <2>4, <3>1 DEF RefersTo
    <3>2. CASE cursor[a] < u
      <4>1. u = t
        BY <1>2, <2>2, <2>6, <2>8, <3>2
      <4> QED
        BY <2>4, <4>1 DEF RefersTo
    <3>3. cursor[a] \in Int /\ u \in Int
      BY <1>2, <1>3
    <3> QED
      BY <3>1, <3>2, <3>3
  <2> QED
    BY <1>1, <2>1, <2>7, <2>8
<1> QED
  BY <1>1, <1>5, <1>6, <1>7 DEF Gathers

(* When the loop is over the event refers to every thread that may yet     *)
(* write a block.                                                          *)
LEMMA CoversStep ==
    ASSUME IInv, PlaceInv, TileInv, CoverInv, [Next]_vars,
           NEW a \in Actors, pc'[a] \in {"stamp", "write"}, NEW t \in Threads,
           MayBlock(t)', At("thread_start", t)' # {} \/ t = a
    PROVE  RefersTo(msg'[a], t)
<1>1. trace' = trace /\ Gathers(a) /\ Keeps(t)
  BY FileWaits DEF Referring
<1>2. pc[a] \in Referring /\ msg'[a].xrefs = msg[a].xrefs
      /\ (pc[a] = "xref" => \A u \in liveThreads : u <= cursor[a])
  BY <1>1 DEF Gathers
<1>3. At("thread_start", t)' = At("thread_start", t)
  BY <1>1 DEF At
<1> HIDE DEF At
<1>4. MayBlock(t)
  <2>1. pc[t] # "start_unlock"
    <3>1. CASE t = a
      BY <1>2, <3>1 DEF Referring
    <3>2. CASE At("thread_start", t) # {}
      BY <3>2 DEF CoverInv, FileCovers, Early
    <3> QED
      BY <1>3, <3>1, <3>2
  <2> QED
    BY <1>1, <2>1 DEF Keeps
<1>5. CASE pc[a] \in {"stamp", "write"}
  BY <1>2, <1>3, <1>4, <1>5 DEF CoverInv, NextCovers, RefersTo
<1>6. CASE pc[a] = "xref"
  <2>1. t \in liveThreads /\ t <= cursor[a]
    BY <1>2, <1>4, <1>6, LiveThreads
  <2> QED
    BY <1>2, <1>6, <2>1 DEF CoverInv, NextCovers, RefersTo
<1> QED
  BY <1>2, <1>5, <1>6 DEF Referring

(* It refers to nobody twice, and to nobody that has ended. *)
LEMMA GathersOnce ==
    ASSUME IInv, PlaceInv, MsgInv, TileInv, CoverInv, [Next]_vars,
           NEW a \in Actors, pc'[a] \in Referring
    PROVE  /\ \A x, y \in msg'[a].xrefs : x.tid = y.tid => x = y
           /\ \A x \in msg'[a].xrefs : At("thread_end", x.tid)' = {}
           /\ ret'[a] = "ended" => ~RefersTo(msg'[a], a)
<1>1. trace' = trace /\ Gathers(a) /\ ret'[a] = ret[a]
  BY FileWaits DEF Gathers
<1>2. \A t : At("thread_end", t)' = At("thread_end", t)
  BY <1>1 DEF At
<1> HIDE DEF At
<1>3. CASE pc[a] = "get_state" /\ msg'[a].xrefs = msg[a].xrefs
  BY <1>3 DEF MsgInv, MsgOK, RefersTo
<1>4. CASE pc[a] \in Referring /\ msg'[a].xrefs = msg[a].xrefs
  BY <1>1, <1>2, <1>4 DEF CoverInv, NextCovers, RefersTo
<1>5. CASE pc[a] = "xref" /\ Visits(a)
  <2>1. PICK t \in Threads : IsNextLive(a, t) /\ msg'[a].xrefs = msg[a].xrefs \cup {Xref(t)}
    BY <1>5 DEF Visits
  <2> DEFINE r == Xref(t)
  <2>2. msg'[a].xrefs = msg[a].xrefs \cup {r} /\ r.tid = t
    BY <2>1 DEF Xref
  <2> HIDE DEF r
  <2>3. t \in liveThreads /\ cursor[a] < t
    BY <2>1 DEF IsNextLive
  <2>4. At("thread_end", t) = {} /\ (ret[a] = "ended" => t # a)
    BY <1>5, <2>3, LiveThreads
  <2>5. /\ \A x, y \in msg[a].xrefs : x.tid = y.tid => x = y
        /\ \A x \in msg[a].xrefs : At("thread_end", x.tid) = {}
        /\ ret[a] = "ended" => ~RefersTo(msg[a], a)
        /\ \A x \in msg[a].xrefs : x.tid <= cursor[a]
    BY <1>5 DEF CoverInv, NextCovers, Referring
  <2>6. \A x \in msg[a].xrefs : x.tid # t
    <3>1. ASSUME NEW x \in msg[a].xrefs, x.tid = t PROVE FALSE
      <4>1. t <= cursor[a]
        BY <2>5, <3>1
      <4>2. t \in Nat
        BY TracerAssumption
      <4>3. cursor[a] \in Nat \/ cursor[a] = -1
        BY TracerAssumption DEF IInv, TypeOK, SharedOK
      <4> QED
        BY <2>3, <4>1, <4>2, <4>3
    <3> QED
      BY <3>1
  <2>7. \A x, y \in msg'[a].xrefs : x.tid = y.tid => x = y
    BY <2>2, <2>5, <2>6
  <2>8. \A x \in msg'[a].xrefs : At("thread_end", x.tid)' = {}
    BY <1>2, <2>2, <2>4, <2>5
  <2>9. ret'[a] = "ended" => ~RefersTo(msg'[a], a)
    BY <1>1, <2>2, <2>4, <2>5 DEF RefersTo
  <2> QED
    BY <2>7, <2>8, <2>9
<1> QED
  BY <1>1, <1>3, <1>4, <1>5 DEF Gathers, Referring

LEMMA NextCoversStep ==
    ASSUME IInv, PlaceInv, MsgInv, TileInv, CoverInv, [Next]_vars, NEW a \in Actors
    PROVE  NextCovers(a)'
<1>1. pc'[a] # "xref" => cursor'[a] = -1
  BY CursorKept
<1>2. pc'[a] = "xref" => /\ \A x \in msg'[a].xrefs : x.tid <= cursor'[a]
                         /\ \A t \in liveThreads' : t <= cursor'[a] => RefersTo(msg'[a], t)
  BY LoopStep
<1>3. pc'[a] \in {"stamp", "write"} =>
          \A t \in Threads : MayBlock(t)' /\ (At("thread_start", t)' # {} \/ t = a)
                                => RefersTo(msg'[a], t)
  BY CoversStep
<1>4. pc'[a] \in Referring => /\ \A x, y \in msg'[a].xrefs : x.tid = y.tid => x = y
                              /\ \A x \in msg'[a].xrefs : At("thread_end", x.tid)' = {}
                              /\ ret'[a] = "ended" => ~RefersTo(msg'[a], a)
  BY GathersOnce
<1> HIDE DEF At, MayBlock, RefersTo
<1>5. \A t : RefersTo(msg[a], t)' <=> RefersTo(msg'[a], t)
  BY DEF RefersTo
<1> QED
  BY <1>1, <1>2, <1>3, <1>4, <1>5 DEF NextCovers

LEMMA FileCoversKept ==
    ASSUME IInv, CoverInv, trace' = trace, NEW t \in Threads, Keeps(t)
    PROVE  FileCovers(t)'
<1>1. FileCovers(t)
  BY DEF CoverInv
<1>2. /\ \A kind : At(kind, t)' = At(kind, t)
      /\ Blocks(t)' = Blocks(t)
      /\ \A i : XrefsTo(i, t)' = XrefsTo(i, t)
  BY DEF At, Blocks, XrefsTo
<1>3. /\ pc'[t] \in Early => pc[t] \in Early
      /\ MayBlock(t)' => MayBlock(t) \/ At("thread_start", t) = {}
  BY <1>1 DEF Keeps, FileCovers, Early
<1> HIDE DEF At, Blocks, XrefsTo, MayBlock
<1> QED
  BY <1>1, <1>2, <1>3 DEF FileCovers

LEMMA FileCoversPut ==
    ASSUME IInv, PlaceInv, MsgInv, TileInv, CoverInv, NEW a \in Actors, Puts(a),
           NEW t \in Threads
    PROVE  FileCovers(t)'
<1>1. PICK n : n = Len(trace) + 1
  OBVIOUS
<1>2. /\ n \in Nat /\ DOMAIN trace = 1 .. (n - 1) /\ DOMAIN trace' = 1 .. n
      /\ trace'[n] = msg[a]
      /\ \A i \in 1 .. (n - 1) : trace'[i] = trace[i]
  BY <1>1, FileGrows
<1>3. \A i \in 1 .. n : i = n \/ i \in 1 .. (n - 1)
  BY <1>2
<1>4. /\ pc[a] = "write" /\ pc' = [pc EXCEPT ![a] = "put_output"] /\ ret' = ret
      /\ pc \in [Actors -> ThreadPCs \cup ProcessPCs]
  BY DEF Puts, IInv, TypeOK, ControlOK
<1>5. FileCovers(t) /\ NextCovers(a)
  BY DEF CoverInv
<1>6. /\ \A i \in 1 .. (n - 1) : XrefsTo(i, t)' = XrefsTo(i, t)
      /\ XrefsTo(n, t)' = {x \in msg[a].xrefs : x.tid = t}
  BY <1>2 DEF XrefsTo
<1>7. \A kind : /\ At(kind, t) \subseteq 1 .. (n - 1)
                /\ msg[a].kind = kind /\ t = a => At(kind, t)' = At(kind, t) \cup {n}
                /\ ~(msg[a].kind = kind /\ t = a) => At(kind, t)' = At(kind, t)
  BY <1>1, GrownAt
<1>8. MayBlock(t)' => MayBlock(t)
  BY <1>4 DEF MayBlock, AtOrTo, Within, WritePCs, Actors
<1>9. pc'[t] \in Early => At("thread_start", t)' = {}
  <2>1. pc'[t] \in Early => t # a /\ pc[t] \in Early
    BY <1>4 DEF Early, Actors
  <2> QED
    BY <1>5, <1>7, <2>1 DEF FileCovers
<1>10. MayBlock(t) /\ (At("thread_start", t) # {} \/ t = a) => XrefsTo(n, t)' # {}
  BY <1>4, <1>5, <1>6 DEF NextCovers, RefersTo
<1>11. t = a /\ msg[a].kind = "micro_event_log" => MayBlock(t)
  BY <1>4 DEF MsgInv, MsgOK, MayBlock, AtOrTo, Within, WritePCs, Flushing
<1> HIDE DEF At, XrefsTo, MayBlock
<1>12. \A i \in 1 .. n : \A x, y \in XrefsTo(i, t)' : x = y
  <2>1. \A x, y \in XrefsTo(n, t)' : x = y
    BY <1>4, <1>5, <1>6 DEF NextCovers, Referring
  <2> QED
    BY <1>2, <1>3, <1>5, <1>6, <2>1 DEF FileCovers
<1>13. ASSUME NEW i \in 1 .. n, MayBlock(t), NEW s \in At("thread_start", t)', s <= i
       PROVE  XrefsTo(i, t)' # {}
  <2>1. CASE i = n
    <3>1. At("thread_start", t) # {} \/ t = a
      BY <1>7
    <3> QED
      BY <1>10, <1>13, <2>1, <3>1
  <2>2. CASE i \in 1 .. (n - 1)
    <3>1. s \in At("thread_start", t)
      BY <1>2, <1>7, <1>13, <2>2
    <3> QED
      BY <1>2, <1>5, <1>6, <1>13, <2>2, <3>1 DEF FileCovers
  <2> QED
    BY <1>3, <2>1, <2>2
<1>14. ASSUME NEW i \in 1 .. n, NEW s \in At("thread_start", t)', NEW f \in Blocks(t)',
              s <= i, i <= f
       PROVE  XrefsTo(i, t)' # {}
  <2>1. CASE t = a /\ msg[a].kind = "micro_event_log"
    BY <1>11, <1>13, <1>14, <2>1
  <2>2. CASE ~(t = a /\ msg[a].kind = "micro_event_log")
    <3>1. f \in Blocks(t) /\ f \in 1 .. (n - 1)
      BY <1>7, <2>2 DEF Blocks
    <3>2. i \in 1 .. (n - 1)
      BY <1>2, <1>14, <3>1
    <3>3. s \in At("thread_start", t)
      BY <1>2, <1>7, <1>14, <3>2
    <3> QED
      BY <1>2, <1>5, <1>6, <1>14, <3>1, <3>2, <3>3 DEF FileCovers
  <2> QED
    BY <2>1, <2>2
<1>15. ASSUME NEW i \in 1 .. n, NEW e \in At("thread_end", t)', e <= i
       PROVE  XrefsTo(i, t)' = {}
  <2>1. CASE i \in 1 .. (n - 1)
    <3>1. e \in At("thread_end", t)
      BY <1>2, <1>7, <1>15, <2>1
    <3> QED
      BY <1>2, <1>5, <1>6, <1>15, <2>1, <3>1 DEF FileCovers
  <2>2. CASE i = n
    <3>1. CASE e \in At("thread_end", t)
      BY <1>4, <1>5, <1>6, <2>2, <3>1 DEF NextCovers, Referring
    <3>2. CASE e \notin At("thread_end", t)
      <4>1. msg[a].kind = "thread_end" /\ t = a
        BY <1>7, <3>2
      <4>2. ret[a] = "ended"
        BY <1>4, <4>1 DEF MsgInv, MsgOK, WritePCs
      <4> QED
        BY <1>4, <1>5, <1>6, <2>2, <4>1, <4>2 DEF NextCovers, Referring, RefersTo
    <3> QED
      BY <3>1, <3>2
  <2> QED
    BY <1>3, <2>1, <2>2
<1> QED
  BY <1>2, <1>8, <1>9, <1>12, <1>13, <1>14, <1>15 DEF FileCovers

LEMMA CoverStep ==
    ASSUME IInv, PlaceInv, MsgInv, TileInv, CoverInv, [Next]_vars
    PROVE  CoverInv'
<1>1. \A a \in Actors : NextCovers(a)'
  BY NextCoversStep
<1>2. CASE trace' = trace /\ \A t \in Threads : Keeps(t)
  <2>1. \A t \in Threads : FileCovers(t)'
    BY <1>2, FileCoversKept
  <2> QED
    BY <1>1, <2>1 DEF CoverInv
<1>3. CASE \E a \in Actors : Puts(a)
  <2>1. \A t \in Threads : FileCovers(t)'
    BY <1>3, FileCoversPut
  <2> QED
    BY <1>1, <2>1 DEF CoverInv
<1> QED
  BY <1>2, <1>3, Steps

----------------------------------------------------------------------------
(* In the beginning. *)

LEMMA TraceInit ==
    ASSUME Init
    PROVE  PlaceInv /\ MsgInv /\ TileInv /\ RefsInv /\ CoverInv
<1>1. /\ \A a \in Actors : /\ pc[a] = IF a = Process THEN "main" ELSE "unborn"
                           /\ cursor[a] = -1
      /\ \A t \in Threads : /\ t \in Actors /\ pc[t] = "unborn"
                            /\ insCounter[t] = 0 /\ insStart[t] = 0 /\ log[t] = <<>>
      /\ liveThreads = {} /\ trace = <<>>
  BY TracerAssumption DEF Init, Actors
<1>2. DOMAIN trace = {}
  BY <1>1
<1>3. \A kind, t : At(kind, t) = {}
  BY <1>2 DEF At
<1>4. \A t : Blocks(t) = {}
  BY <1>3 DEF Blocks
<1>5. PlaceInv
  BY <1>1, PCsNone, TracerAssumption DEF PlaceInv, PlaceOK, AtOrTo, Within, WritePCs
<1>6. MsgInv
  BY <1>1 DEF MsgInv, MsgOK, WritePCs
<1> HIDE DEF At, Blocks
<1>7. TileInv
  BY <1>1, <1>3, <1>4 DEF TileInv, TileOK, Pending, Flushing
<1>8. RefsInv
  BY <1>1, <1>2, <1>4 DEF RefsInv, Referring, XrefsMonotone, XrefsPlaceEvents
<1>9. CoverInv
  BY <1>1, <1>2, <1>3 DEF CoverInv, NextCovers, FileCovers, Referring
<1> QED
  BY <1>5, <1>6, <1>7, <1>8, <1>9

LEMMA Tiling == Spec => [](IInv /\ PlaceInv /\ MsgInv /\ TileInv)
<1> DEFINE Inv == IInv /\ PlaceInv /\ MsgInv /\ TileInv
<1>1. Init => Inv
  BY InductiveInit, TraceInit
<1>2. Inv /\ [Next]_vars => Inv'
  <2>1. IInv /\ [Next]_vars => IInv'
    BY TypeStep, OutputStep, StateStep, StreamStep, NumberStep, RegistryStep, RoomStep DEF IInv
  <2> QED
    BY <2>1, PlaceStep, MsgStep, TileStep
<1> QED
  BY <1>1, <1>2, PTL DEF Spec

----------------------------------------------------------------------------
(* A block of a thread's trace never starts in the middle of an            *)
(* instruction, whatever the sizes of the log and of the instructions.     *)
THEOREM BlocksWhole == Spec => []InstructionsWhole
<1>1. TileInv => InstructionsWhole
  BY DEF TileInv, TileOK, InstructionsWhole
<1> QED
  BY <1>1, Tiling, PTL

(* The blocks of a thread tile its execution: none of its instructions is  *)
(* missing from its trace and none is in it twice.                         *)
THEOREM ExecutionTiled == Spec => []BlocksTile
<1>1. IInv /\ PlaceInv /\ TileInv => BlocksTile
  <2> SUFFICES ASSUME IInv, PlaceInv, TileInv, NEW t \in Threads, NEW b \in Blocks(t)
               PROVE  /\ {c \in Blocks(t) : c < b} = {} => trace[b].start = 0
                      /\ {c \in Blocks(t) : c < b} # {} =>
                            \E c \in {d \in Blocks(t) : d < b} : BlockEnd(c) = trace[b].start
                      /\ At("thread_end", t) # {} /\ {c \in Blocks(t) : c > b} = {}
                            => BlockEnd(b) = insCounter[t]
    BY DEF BlocksTile
  <2>1. TileOK(t)
    BY DEF TileInv
  <2>2. \A c \in Blocks(t) : c \in Nat
    <3>1. DOMAIN trace = 1 .. Len(trace) /\ Len(trace) \in Nat
      BY DEF IInv, TypeOK, OutputOK
    <3> QED
      BY <3>1 DEF Blocks, At
  <2>3. \A c \in Blocks(t) : (c < b <=> ~(b <= c)) /\ (c > b <=> ~(c <= b))
    BY <2>2
  <2> HIDE DEF Blocks, At, BlockEnd
  <2>4. {c \in Blocks(t) : c < b} = {} => trace[b].start = 0
    BY <2>1, <2>3 DEF TileOK
  <2>5. {c \in Blocks(t) : c < b} # {} =>
            \E c \in {d \in Blocks(t) : d < b} : BlockEnd(c) = trace[b].start
    BY <2>1, <2>3 DEF TileOK
  <2>6. ASSUME At("thread_end", t) # {}, {c \in Blocks(t) : c > b} = {}
        PROVE  BlockEnd(b) = insCounter[t]
    <3>1. Ended(t)
      BY <2>1, <2>6 DEF TileOK
    <3>2. NextStart(t) = insCounter[t]
      <4>1. insStart[t] = insCounter[t]
        BY <3>1 DEF PlaceInv, PlaceOK, AtOrTo, Within, WritePCs, Ended
      <4> QED
        BY <4>1 DEF NextStart
    <3>3. PICK c \in Blocks(t) : BlockEnd(c) = NextStart(t) /\ \A d \in Blocks(t) : d <= c
      BY <2>1 DEF TileOK
    <3>4. c <= b /\ b <= c
      BY <2>3, <2>6, <3>3
    <3>5. b = c
      BY <2>2, <3>4
    <3> QED
      BY <3>2, <3>3, <3>5
  <2> QED
    BY <2>4, <2>5, <2>6
<1> QED
  BY <1>1, Tiling, PTL

(* As long as no thread executes more instructions than a reference can    *)
(* count, the references to it never go back in the order of the file, ... *)
THEOREM ReferencesOrdered ==
    ASSUME MaxIns < XrefRange
    PROVE  Spec => []XrefsMonotone
<1>1. IInv /\ PlaceInv /\ MsgInv /\ TileInv /\ RefsInv /\ [Next]_vars => RefsInv'
  BY RefsStep
<1>2. RefsInv => XrefsMonotone
  BY DEF RefsInv
<1>3. Init => RefsInv
  BY TraceInit
<1> QED
  BY <1>1, <1>2, <1>3, Tiling, PTL DEF Spec

(* ... and they place every event where its thread was, between the same   *)
(* instructions as the blocks around it do.                                *)
THEOREM ReferencesPlace ==
    ASSUME MaxIns < XrefRange
    PROVE  Spec => []XrefsPlaceEvents
<1>1. IInv /\ PlaceInv /\ MsgInv /\ TileInv /\ RefsInv /\ [Next]_vars => RefsInv'
  BY RefsStep
<1>2. RefsInv => XrefsPlaceEvents
  BY DEF RefsInv
<1>3. Init => RefsInv
  BY TraceInit
<1> QED
  BY <1>1, <1>2, <1>3, Tiling, PTL DEF Spec

(* Every event refers once to each thread that lives and to none that has  *)
(* ended, however threads start and finish while events are written.       *)
THEOREM LifetimesCovered == Spec => []XrefsCoverLifetimes
<1>1. IInv /\ PlaceInv /\ MsgInv /\ TileInv /\ CoverInv /\ [Next]_vars => CoverInv'
  BY CoverStep
<1>2. CoverInv => XrefsCoverLifetimes
  <2> SUFFICES ASSUME CoverInv, NEW t \in Threads, NEW i \in DOMAIN trace
               PROVE  Cardinality(XrefsTo(i, t)) <= 1
    BY DEF CoverInv, FileCovers, XrefsCoverLifetimes
  <2> DEFINE S == XrefsTo(i, t)
  <2>1. \A x, y \in S : x = y
    BY DEF CoverInv, FileCovers
  <2> HIDE DEF S
  <2>2. CASE S = {}
    BY <2>2, FS_EmptySet DEF S
  <2>3. CASE S # {}
    <3>1. PICK x \in S : TRUE
      BY <2>3
    <3>2. S = {x}
      BY <2>1, <3>1
    <3> QED
      <4>1. Cardinality({x}) = 1
        BY FS_Singleton
      <4> QED
        BY <3>2, <4>1 DEF S
  <2> QED
    BY <2>2, <2>3
<1>3. Init => CoverInv
  BY TraceInit
<1> QED
  BY <1>1, <1>2, <1>3, Tiling, PTL DEF Spec

----------------------------------------------------------------------------
(* What the stream promises of the events' order.  An actor about to write *)
(* an event has the event that its place calls for, ...                    *)
Writing(a) == pc[a] \in WritePCs \ {"put_output"}

KindOK(a) == Writing(a) =>
    /\ a \in Threads => /\ msg[a].kind \in {"thread_start", "micro_event_log", "macro", "thread_end"}
                        /\ msg[a].kind = "thread_start" => ret[a] = "run"
    /\ a = Process => /\ ret[a] = "instrument" => msg[a].kind = "trace_start"
                      /\ ret[a] = "dumping" => msg[a].kind = "memory_dump"
                      /\ ret[a] = "closing" => msg[a].kind = "trace_end"

(* ... a thread's thread_start is in the file once it has begun, its       *)
(* thread_end once it has ended, ...                                       *)
Begun(t) == pc[t] \notin Early /\ ~(Writing(t) /\ msg[t].kind = "thread_start")

BracketsOK(t) == /\ At("thread_start", t) # {} <=> Begun(t)
                 /\ At("thread_end", t) # {} <=> Ended(t)

(* ... and the process opens, dumps and closes in that order.              *)
Unopened == pc[Process] = "main" \/ (Writing(Process) /\ ret[Process] = "instrument")
Dumping  == AtOrTo(Process, {"dumping", "closing"}) \/ pc[Process] = "exited"
Closed   == \/ pc[Process] \in {"closing", "exited"}
            \/ pc[Process] = "put_output" /\ ret[Process] = "closing"

PhaseOK ==
    /\ Unopened => trace = <<>>
    /\ trace = <<>> => Unopened \/ pc[Process] = "exited"
    /\ StreamPhase \in {"dumping", "ended"} => Dumping
    /\ StreamPhase = "ended" => Closed

StoryInv == /\ \A a \in Actors : KindOK(a)
            /\ \A t \in Threads : BracketsOK(t)
            /\ PhaseOK

(* The event that an actor is about to write stays the one its place calls *)
(* for.                                                                    *)
LEMMA KindStep ==
    ASSUME IInv, MsgInv, StoryInv, [Next]_vars
    PROVE  \A b \in Actors : KindOK(b)'
<1> USE TracerAssumption DEF Actors, Goto, KindOK, Writing, WritePCs
<1>0. /\ pc \in [Actors -> ThreadPCs \cup ProcessPCs]
      /\ ret \in [Actors -> {"none"} \cup ThreadRets \cup ProcessRets]
      /\ msg \in [Actors -> Event \cup {NoEvent}]
      /\ \A b \in Actors : pc[b] \in WritePCs \ {"put_output"} => msg[b] \in Event
      /\ \A b \in Actors : KindOK(b)
  BY DEF IInv, TypeOK, ControlOK, StoryInv
<1> DEFINE Goal == \A b \in Actors : KindOK(b)'
<1>1. ASSUME NEW a \in Actors, GetOutputLock(a) PROVE Goal
  BY <1>1, <1>0 DEF GetOutputLock
<1>2. ASSUME NEW a \in Actors, GetStateLock(a) PROVE Goal
  BY <1>2, <1>0 DEF GetStateLock
<1>3. ASSUME NEW a \in Actors, XrefThread(a) PROVE Goal
  <2>1. pc' = pc /\ ret' = ret /\ pc[a] = "xref" /\ \A b \in Actors \ {a} : msg'[b] = msg[b]
    BY <1>3, <1>0 DEF XrefThread
  <2>2. PICK t \in Threads : msg'[a] = [msg[a] EXCEPT !.xrefs = msg[a].xrefs \cup {Xref(t)}]
    BY <1>3, <1>0 DEF XrefThread
  <2>3. msg'[a].kind = msg[a].kind
    BY <1>0, <2>1, <2>2 DEF Event
  <2> QED
    BY <1>0, <2>1, <2>3
<1>4. ASSUME NEW a \in Actors, PutStateLock(a) PROVE Goal
  BY <1>4, <1>0 DEF PutStateLock
<1>5. ASSUME NEW a \in Actors, StampEvent(a) PROVE Goal
  <2>1. msg'[a] = [msg[a] EXCEPT !.id = eventId] /\ \A b \in Actors \ {a} : msg'[b] = msg[b]
    BY <1>5, <1>0 DEF StampEvent
  <2>2. msg[a] \in Event
    BY <1>5, <1>0 DEF StampEvent
  <2>3. msg'[a].kind = msg[a].kind
    BY <2>1, <2>2 DEF Event
  <2> QED
    BY <1>5, <1>0, <2>1, <2>3 DEF StampEvent
<1>6. ASSUME NEW a \in Actors, AbortAtLimit(a) PROVE Goal
  <2>1. msg'[a] = [msg[a] EXCEPT !.id = eventId] /\ \A b \in Actors \ {a} : msg'[b] = msg[b]
    BY <1>6, <1>0 DEF AbortAtLimit
  <2>2. msg[a] \in Event
    BY <1>6, <1>0 DEF AbortAtLimit
  <2>3. msg'[a].kind = msg[a].kind
    BY <2>1, <2>2 DEF Event
  <2> QED
    BY <1>6, <1>0, <2>1, <2>3 DEF AbortAtLimit
<1>7. ASSUME NEW a \in Actors, WriteEventUnlocked(a) PROVE Goal
  BY <1>7, <1>0 DEF WriteEventUnlocked, ThreadRets, ProcessRets
<1>8. ASSUME NEW a \in Actors, PutOutputLock(a) PROVE Goal
  BY <1>8, <1>0 DEF PutOutputLock, ThreadRets, ProcessRets
<1>9. ASSUME NEW t \in Threads, StartNewLog(t) PROVE Goal
  BY <1>9, <1>0 DEF StartNewLog
<1>10. ASSUME NEW t \in Threads, StartInsert(t) PROVE Goal
  BY <1>10, <1>0 DEF StartInsert
<1>11. ASSUME NEW t \in Threads, StartUnlock(t) PROVE Goal
  BY <1>11, <1>0 DEF StartUnlock, Call, MakeEvent
<1>12. ASSUME NEW t \in Threads, CheckFlushEnd(t) PROVE Goal
  BY <1>12, <1>0 DEF CheckFlushEnd, ResetLog
<1>13. ASSUME NEW t \in Threads, CountPC(t) PROVE Goal
  BY <1>13, <1>0 DEF CountPC
<1>14. ASSUME NEW t \in Threads, LogOps(t) PROVE Goal
  BY <1>14, <1>0 DEF LogOps
<1>15. ASSUME NEW t \in Threads, FinishFlushEnd(t) PROVE Goal
  BY <1>15, <1>0 DEF FinishFlushEnd, ResetLog
<1>16. ASSUME NEW t \in Threads, FinishLock(t) PROVE Goal
  BY <1>16, <1>0 DEF FinishLock
<1>17. ASSUME NEW t \in Threads, FinishDelete(t) PROVE Goal
  BY <1>17, <1>0 DEF FinishDelete
<1>18. ASSUME NEW t \in Threads, FinishErase(t) PROVE Goal
  BY <1>18, <1>0 DEF FinishErase
<1>19. ASSUME NEW t \in Threads, FinishUnlock(t) PROVE Goal
  BY <1>19, <1>0 DEF FinishUnlock, Call, MakeEvent
<1>20. ASSUME NEW t \in Threads, StartThread(t) PROVE Goal
  BY <1>20, <1>0 DEF StartThread
<1>21. ASSUME NEW t \in Threads, LogPC(t) PROVE Goal
  <2>1. CASE Call(t, "run", LogEvent(t), "flushed")
    BY <1>21, <2>1, <1>0 DEF LogPC, Call, MakeEvent, LogEvent
  <2>2. CASE Goto(t, "run", "count") /\ UNCHANGED <<ret, msg>>
    BY <1>21, <2>2, <1>0 DEF LogPC
  <2> QED
    BY <1>21, <2>1, <2>2 DEF LogPC
<1>22. ASSUME NEW t \in Threads, MacroEvent(t) PROVE Goal
  BY <1>22, <1>0 DEF MacroEvent, Call, MakeEvent
<1>23. ASSUME NEW t \in Threads, FinishThread(t) PROVE Goal
  BY <1>23, <1>0 DEF FinishThread, Call, MakeEvent, LogEvent
<1>24. CASE OpenLog
  BY <1>24, <1>0 DEF OpenLog, Call, MakeEvent
<1>25. CASE OpenLogFails
  BY <1>25, <1>0 DEF OpenLogFails
<1>26. CASE StartProgram
  BY <1>26, <1>0 DEF StartProgram
<1>27. CASE OnFinish
  BY <1>27, <1>0 DEF OnFinish
<1>28. CASE DumpMemoryRegion
  BY <1>28, <1>0 DEF DumpMemoryRegion, Call, MakeEvent
<1>29. CASE CloseLog
  BY <1>29, <1>0 DEF CloseLog, Call, MakeEvent
<1>30. CASE CloseStream
  BY <1>30, <1>0 DEF CloseStream
<1>31. CASE UNCHANGED vars
  BY <1>31, <1>0 DEF vars
<1> QED
  BY <1>1, <1>2, <1>3, <1>4, <1>5, <1>6, <1>7, <1>8,
     <1>9, <1>10, <1>11, <1>12, <1>13, <1>14, <1>15, <1>16,
     <1>17, <1>18, <1>19, <1>20, <1>21, <1>22, <1>23, <1>24,
     <1>25, <1>26, <1>27, <1>28, <1>29, <1>30, <1>31
  DEF Next, WriteEvent, Callback, Application, ProcessStep, Terminated

(* The places of threads and process, as far as they tell what is in the   *)
(* file.                                                                   *)
Advances ==
    /\ \A t \in Threads : Begun(t)' = Begun(t) /\ Ended(t)' = Ended(t)
    /\ Unopened' = Unopened \/ (Unopened /\ pc'[Process] = "exited")
    /\ pc[Process] = "exited" => pc'[Process] = "exited"
    /\ Dumping => Dumping'
    /\ Closed => Closed'

(* Only writing an event changes what of the order has been told.          *)
LEMMA Advance ==
    ASSUME IInv, PlaceInv, MsgInv, StoryInv, [Next]_vars
    PROVE  \/ \E a \in Actors : Puts(a)
           \/ trace' = trace /\ Advances
<1> USE TracerAssumption DEF Actors, Goto, Advances, Begun, Ended, Unopened, Dumping, Closed,
        Writing, AtOrTo, Within, Early, WritePCs, output
<1>0. /\ pc \in [Actors -> ThreadPCs \cup ProcessPCs]
      /\ \A a \in Actors : pc[a] \in PCsOf(a)
      /\ \A a \in Actors : pc[a] \in WritePCs => ret[a] \in RetsOf(a)
      /\ ret \in [Actors -> {"none"} \cup ThreadRets \cup ProcessRets]
      /\ msg \in [Actors -> Event \cup {NoEvent}]
      /\ \A a \in Actors : pc[a] \in WritePCs \ {"put_output"} => msg[a] \in Event
      /\ \A b \in Actors : KindOK(b)
  BY DEF IInv, TypeOK, ControlOK, StoryInv
<1> DEFINE Goal == trace' = trace /\ Advances
<1>1. ASSUME NEW a \in Actors, GetOutputLock(a) PROVE Goal
  BY <1>1, <1>0 DEF GetOutputLock
<1>2. ASSUME NEW a \in Actors, GetStateLock(a) PROVE Goal
  BY <1>2, <1>0 DEF GetStateLock
<1>3. ASSUME NEW a \in Actors, XrefThread(a) PROVE Goal
  <2>1. pc' = pc /\ ret' = ret /\ pc[a] = "xref" /\ \A b \in Actors \ {a} : msg'[b] = msg[b]
    BY <1>3, <1>0 DEF XrefThread
  <2>2. PICK t \in Threads : msg'[a] = [msg[a] EXCEPT !.xrefs = msg[a].xrefs \cup {Xref(t)}]
    BY <1>3, <1>0 DEF XrefThread
  <2>3. msg'[a].kind = msg[a].kind
    BY <1>0, <2>1, <2>2 DEF Event
  <2> QED
    BY <1>3, <1>0, <2>1, <2>3 DEF XrefThread
<1>4. ASSUME NEW a \in Actors, PutStateLock(a) PROVE Goal
  BY <1>4, <1>0 DEF PutStateLock
<1>5. ASSUME NEW a \in Actors, StampEvent(a) PROVE Goal
  <2>1. msg'[a] = [msg[a] EXCEPT !.id = eventId] /\ \A b \in Actors \ {a} : msg'[b] = msg[b]
    BY <1>5, <1>0 DEF StampEvent
  <2>2. msg[a] \in Event
    BY <1>5, <1>0 DEF StampEvent
  <2>3. msg'[a].kind = msg[a].kind
    BY <2>1, <2>2 DEF Event
  <2> QED
    BY <1>5, <1>0, <2>1, <2>3 DEF StampEvent
<1>6. ASSUME NEW a \in Actors, AbortAtLimit(a) PROVE Goal
  <2>1. msg'[a] = [msg[a] EXCEPT !.id = eventId] /\ \A b \in Actors \ {a} : msg'[b] = msg[b]
    BY <1>6, <1>0 DEF AbortAtLimit
  <2>2. msg[a] \in Event
    BY <1>6, <1>0 DEF AbortAtLimit
  <2>3. msg'[a].kind = msg[a].kind
    BY <2>1, <2>2 DEF Event
  <2> QED
    BY <1>6, <1>0, <2>1, <2>3 DEF AbortAtLimit
<1>7. ASSUME NEW a \in Actors, WriteEventUnlocked(a) PROVE Puts(a)
  <2>1. streamOpen
    BY <1>7 DEF IInv, StreamInv, Finished, WriteEventUnlocked
  <2> QED
    BY <1>7, <1>0, <2>1 DEF WriteEventUnlocked, Puts, registry
<1>8. ASSUME NEW a \in Actors, PutOutputLock(a) PROVE Goal
  BY <1>8, <1>0 DEF PutOutputLock, ThreadRets, ProcessRets, RetsOf
<1>9. ASSUME NEW t \in Threads, StartNewLog(t) PROVE Goal
  BY <1>9, <1>0 DEF StartNewLog
<1>10. ASSUME NEW t \in Threads, StartInsert(t) PROVE Goal
  BY <1>10, <1>0 DEF StartInsert
<1>11. ASSUME NEW t \in Threads, StartUnlock(t) PROVE Goal
  BY <1>11, <1>0 DEF StartUnlock, Call, MakeEvent
<1>12. ASSUME NEW t \in Threads, CheckFlushEnd(t) PROVE Goal
  BY <1>12, <1>0 DEF CheckFlushEnd, ResetLog
<1>13. ASSUME NEW t \in Threads, CountPC(t) PROVE Goal
  BY <1>13, <1>0 DEF CountPC
<1>14. ASSUME NEW t \in Threads, LogOps(t) PROVE Goal
  BY <1>14, <1>0 DEF LogOps
<1>15. ASSUME NEW t \in Threads, FinishFlushEnd(t) PROVE Goal
  BY <1>15, <1>0 DEF FinishFlushEnd, ResetLog
<1>16. ASSUME NEW t \in Threads, FinishLock(t) PROVE Goal
  BY <1>16, <1>0 DEF FinishLock
<1>17. ASSUME NEW t \in Threads, FinishDelete(t) PROVE Goal
  BY <1>17, <1>0 DEF FinishDelete
<1>18. ASSUME NEW t \in Threads, FinishErase(t) PROVE Goal
  BY <1>18, <1>0 DEF FinishErase
<1>19. ASSUME NEW t \in Threads, FinishUnlock(t) PROVE Goal
  BY <1>19, <1>0 DEF FinishUnlock, Call, MakeEvent
<1>20. ASSUME NEW t \in Threads, StartThread(t) PROVE Goal
  BY <1>20, <1>0 DEF StartThread
<1>21. ASSUME NEW t \in Threads, LogPC(t) PROVE Goal
  <2>1. CASE Call(t, "run", LogEvent(t), "flushed")
    BY <1>21, <2>1, <1>0 DEF LogPC, Call, MakeEvent, LogEvent
  <2>2. CASE Goto(t, "run", "count") /\ UNCHANGED <<ret, msg>>
    BY <1>21, <2>2, <1>0 DEF LogPC
  <2> QED
    BY <1>21, <2>1, <2>2 DEF LogPC
<1>22. ASSUME NEW t \in Threads, MacroEvent(t) PROVE Goal
  BY <1>22, <1>0 DEF MacroEvent, Call, MakeEvent
<1>23. ASSUME NEW t \in Threads, FinishThread(t) PROVE Goal
  BY <1>23, <1>0 DEF FinishThread, Call, MakeEvent, LogEvent
<1>24. CASE OpenLog
  BY <1>24, <1>0 DEF OpenLog, Call, MakeEvent
<1>25. CASE OpenLogFails
  BY <1>25, <1>0 DEF OpenLogFails
<1>26. CASE StartProgram
  BY <1>26, <1>0 DEF StartProgram
<1>27. CASE OnFinish
  BY <1>27, <1>0 DEF OnFinish
<1>28. CASE DumpMemoryRegion
  BY <1>28, <1>0 DEF DumpMemoryRegion, Call, MakeEvent
<1>29. CASE CloseLog
  BY <1>29, <1>0 DEF CloseLog, Call, MakeEvent
<1>30. CASE CloseStream
  BY <1>30, <1>0 DEF CloseStream
<1>31. CASE UNCHANGED vars
  BY <1>31, <1>0 DEF vars
<1> QED
  BY <1>1, <1>2, <1>3, <1>4, <1>5, <1>6, <1>7, <1>8,
     <1>9, <1>10, <1>11, <1>12, <1>13, <1>14, <1>15, <1>16,
     <1>17, <1>18, <1>19, <1>20, <1>21, <1>22, <1>23, <1>24,
     <1>25, <1>26, <1>27, <1>28, <1>29, <1>30, <1>31
  DEF Next, WriteEvent, Callback, Application, ProcessStep, Terminated

(* An event that is written tells of its thread alone, ...                 *)
LEMMA PlacesPut ==
    ASSUME IInv, MsgInv, StoryInv, NEW a \in Actors, Puts(a), NEW t \in Threads
    PROVE  /\ t # a => Begun(t)' = Begun(t) /\ Ended(t)' = Ended(t)
           /\ t = a => /\ Begun(t)' /\ ~Ended(t)
                       /\ Begun(t) <=> msg[t].kind # "thread_start"
                       /\ Ended(t)' <=> msg[t].kind = "thread_end"
<1>1. /\ pc \in [Actors -> ThreadPCs \cup ProcessPCs] /\ t \in Actors
  BY DEF IInv, TypeOK, ControlOK, Actors
<1>2. /\ pc[a] = "write" /\ pc' = [pc EXCEPT ![a] = "put_output"] /\ ret' = ret
      /\ t # a => msg'[t] = msg[t]
  BY <1>1 DEF Puts
<1>3. CASE t # a
  BY <1>1, <1>2, <1>3 DEF Begun, Ended, Writing
<1>4. CASE t = a
  <2>1. pc[t] = "write" /\ pc'[t] = "put_output" /\ ret'[t] = ret[t]
    BY <1>1, <1>2, <1>4
  <2>2. msg[t].kind = "thread_end" <=> ret[t] = "ended"
    BY <2>1, <1>1 DEF MsgInv, MsgOK, WritePCs
  <2> QED
    BY <1>4, <2>1, <2>2 DEF Begun, Ended, Writing, Early, WritePCs
<1> QED
  BY <1>3, <1>4

(* ... and it is the last of the file.                                     *)
LEMMA PhasePut ==
    ASSUME IInv, MsgInv, NEW a \in Actors, Puts(a)
    PROVE  /\ trace' # <<>>
           /\ StreamPhase' = IF msg[a].kind = "trace_end" THEN "ended"
                             ELSE IF msg[a].kind = "memory_dump" THEN "dumping" ELSE "tracing"
<1>1. PICK n : n = Len(trace) + 1
  OBVIOUS
<1>2. /\ trace \in Seq(Event) /\ n \in Nat /\ DOMAIN trace' = 1 .. n /\ trace'[n] = msg[a] /\ n >= 1
  <2>1. trace \in Seq(Event)
    BY DEF IInv, TypeOK, OutputOK
  <2> QED
    BY <1>1, <2>1, FileGrows
<1>3. trace' = Append(trace, msg[a]) /\ msg[a] \in Event
  BY <1>1, FileGrows DEF Puts
<1> HIDE DEF Event
<1>4. trace' # <<>> /\ Len(trace') = n
  BY <1>1, <1>2, <1>3, AppendProperties
<1> QED
  BY <1>2, <1>4 DEF StreamPhase

LEMMA BracketsStep ==
    ASSUME IInv, PlaceInv, MsgInv, StoryInv, [Next]_vars, NEW t \in Threads
    PROVE  BracketsOK(t)'
<1>1. BracketsOK(t)
  BY DEF StoryInv
<1>2. CASE trace' = trace /\ Advances
  <2>1. /\ At("thread_start", t)' = At("thread_start", t)
        /\ At("thread_end", t)' = At("thread_end", t)
    BY <1>2 DEF At
  <2> QED
    BY <1>1, <1>2, <2>1 DEF Advances, BracketsOK
<1>3. ASSUME NEW a \in Actors, Puts(a) PROVE BracketsOK(t)'
  <2>1. PICK n : n = Len(trace) + 1
    OBVIOUS
  <2>2. ASSUME NEW kind
        PROVE  /\ msg[a].kind = kind /\ t = a => At(kind, t)' = At(kind, t) \cup {n}
               /\ ~(msg[a].kind = kind /\ t = a) => At(kind, t)' = At(kind, t)
    BY <1>3, <2>1, GrownAt
  <2> QED
    BY <1>1, <1>3, <2>2, PlacesPut DEF BracketsOK
<1> QED
  BY <1>2, <1>3, Advance

(* While a thread writes an event the process is waiting for it.           *)
LEMMA ThreadWrites ==
    ASSUME IInv, StoryInv, NEW a \in Threads, Puts(a)
    PROVE  /\ pc[Process] = "running" /\ pc'[Process] = "running"
           /\ ~Unopened /\ ~Dumping /\ ~Unopened' /\ ~Dumping'
           /\ StreamPhase = "tracing"
<1>1. pc[Process] = "running"
  BY DEF IInv, StreamInv, Finished, Puts
<1>2. pc'[Process] = "running"
  BY <1>1, TracerAssumption DEF IInv, TypeOK, ControlOK, Puts, Actors
<1>3. ~Unopened /\ ~Dumping /\ ~Unopened' /\ ~Dumping'
  BY <1>1, <1>2 DEF Unopened, Dumping, AtOrTo, Within, Writing, WritePCs
<1>4. trace # <<>> /\ StreamPhase \notin {"dumping", "ended"}
  BY <1>1, <1>3 DEF StoryInv, PhaseOK
<1> QED
  BY <1>1, <1>2, <1>3, <1>4 DEF StreamPhase

LEMMA PhaseStep ==
    ASSUME IInv, PlaceInv, MsgInv, StoryInv, [Next]_vars
    PROVE  PhaseOK'
<1>1. PhaseOK /\ \A b \in Actors : KindOK(b)
  BY DEF StoryInv
<1>2. CASE trace' = trace /\ Advances
  <2>1. StreamPhase' = StreamPhase
    BY <1>2 DEF StreamPhase
  <2> QED
    BY <1>1, <1>2, <2>1 DEF Advances, PhaseOK, Unopened, Writing, WritePCs
<1>3. ASSUME NEW a \in Threads, Puts(a) PROVE PhaseOK'
  <2>1. msg[a].kind \notin {"memory_dump", "trace_end"}
    BY <1>1, <1>3 DEF KindOK, Puts, Writing, WritePCs, Actors
  <2>2. trace' # <<>> /\ StreamPhase' = "tracing"
    BY <1>3, <2>1, PhasePut DEF Actors
  <2> QED
    BY <1>3, <2>2, ThreadWrites DEF PhaseOK
<1>4. CASE Puts(Process)
  <2>1. /\ pc[Process] = "write" /\ pc'[Process] = "put_output" /\ ret' = ret
        /\ ret[Process] \in ProcessRets
    BY <1>4, TracerAssumption DEF IInv, TypeOK, ControlOK, Puts, Actors, RetsOf, WritePCs
  <2>2. trace' # <<>>
    BY <1>4, PhasePut DEF Actors
  <2>3. /\ ret[Process] = "instrument" => StreamPhase' = "tracing"
        /\ ret[Process] = "dumping" => StreamPhase' = "dumping"
        /\ ret[Process] = "closing" => StreamPhase' = "ended"
    BY <1>1, <1>4, <2>1, PhasePut DEF KindOK, Writing, WritePCs, Actors
  <2> QED
    BY <2>1, <2>2, <2>3 DEF PhaseOK, Unopened, Dumping, Closed, AtOrTo, Within, Writing,
       WritePCs, ProcessRets
<1> QED
  BY <1>2, <1>3, <1>4, Advance DEF Actors

LEMMA StoryInit == Init => StoryInv
<1> SUFFICES ASSUME Init PROVE StoryInv
  OBVIOUS
<1>1. \A a \in Actors : KindOK(a)
  BY DEF Init, KindOK, Writing, WritePCs
<1>2. \A t \in Threads : BracketsOK(t)
  BY TracerAssumption DEF Init, BracketsOK, Begun, Ended, Early, At, Actors
<1>3. PhaseOK
  BY TracerAssumption DEF Init, PhaseOK, Unopened, StreamPhase, Actors
<1> QED
  BY <1>1, <1>2, <1>3 DEF StoryInv

LEMMA Story == Spec => [](IInv /\ PlaceInv /\ MsgInv /\ StoryInv)
<1>1. IInv /\ PlaceInv /\ MsgInv /\ StoryInv /\ [Next]_vars => StoryInv'
  BY KindStep, BracketsStep, PhaseStep DEF StoryInv
<1> QED
  BY <1>1, StoryInit, Tiling, PTL DEF Spec

----------------------------------------------------------------------------
(* The file is an event stream. *)

(* A thread's stage can be told from its place, the phase too.             *)
LEMMA StageByPlace ==
    ASSUME StoryInv
    PROVE  StreamStage = [t \in Threads |-> IF Ended(t) THEN "ended"
                                           ELSE IF Begun(t) THEN "live" ELSE "unseen"]
BY DEF StoryInv, BracketsOK, StreamStage

LEMMA EventsPut ==
    ASSUME IInv, MsgInv, NEW a \in Actors, Puts(a)
    PROVE  StreamEvents' = Append(StreamEvents, [kind |-> msg[a].kind, tid |-> a])
<1>1. PICK n : n = Len(trace) + 1
  OBVIOUS
<1>2. /\ n \in Nat /\ DOMAIN trace = 1 .. (n - 1) /\ DOMAIN trace' = 1 .. n
      /\ trace'[n] = msg[a] /\ \A i \in 1 .. (n - 1) : trace'[i] = trace[i]
      /\ msg[a].tid = a
  BY <1>1, FileGrows
<1>3. n \in Nat \ {0}
  <2>1. Len(trace) \in Nat
    BY DEF IInv, TypeOK, OutputOK
  <2> QED
    BY <1>1, <2>1
<1> DEFINE e == [kind |-> msg[a].kind, tid |-> a]
<1>4. StreamEvents = [i \in 1 .. (n - 1) |-> [kind |-> trace[i].kind, tid |-> trace[i].tid]]
  BY <1>2 DEF StreamEvents
<1>5. StreamEvents' = [i \in 1 .. n |-> IF i = n THEN e ELSE StreamEvents[i]]
  BY <1>2, <1>3, <1>4 DEF StreamEvents
<1>6. Append(StreamEvents, e) = [i \in 1 .. n |-> IF i = n THEN e ELSE StreamEvents[i]]
  <2> DEFINE S == {[kind |-> trace[i].kind, tid |-> trace[i].tid] : i \in 1 .. (n - 1)} \cup {e}
  <2>1. StreamEvents \in [1 .. (n - 1) -> S] /\ e \in S
    BY <1>4
  <2> HIDE DEF S, e
  <2>2. StreamEvents \in Seq(S) /\ Len(StreamEvents) = n - 1
    BY <2>1, <1>3
  <2>3. /\ Append(StreamEvents, e) \in Seq(S) /\ Len(Append(StreamEvents, e)) = n
        /\ \A i \in 1 .. (n - 1) : Append(StreamEvents, e)[i] = StreamEvents[i]
        /\ Append(StreamEvents, e)[n] = e
    BY <2>1, <2>2, <1>3, AppendProperties
  <2>4. \A q \in Seq(S) : Len(q) = n => q = [i \in 1 .. n |-> q[i]]
    OBVIOUS
  <2>5. PICK q : q = Append(StreamEvents, e)
    OBVIOUS
  <2>6. \A i \in 1 .. n : q[i] = IF i = n THEN e ELSE StreamEvents[i]
    BY <2>3, <2>5, <1>3
  <2>7. q = [i \in 1 .. n |-> q[i]]
    BY <2>3, <2>4, <2>5
  <2> QED
    BY <2>5, <2>6, <2>7
<1> QED
  BY <1>5, <1>6

(* Each event that is written is one the stream allows then.               *)
LEMMA StreamPut ==
    ASSUME IInv, PlaceInv, MsgInv, StoryInv, StoryInv', NEW a \in Actors, Puts(a)
    PROVE  Stream!Next
<1>1. /\ StreamStage = [t \in Threads |-> IF Ended(t) THEN "ended"
                                           ELSE IF Begun(t) THEN "live" ELSE "unseen"]
      /\ StreamStage' = [t \in Threads |-> IF Ended(t)' THEN "ended"
                                           ELSE IF Begun(t)' THEN "live" ELSE "unseen"]
  BY StageByPlace DEF StoryInv, BracketsOK, StreamStage
<1>2. StreamEvents' = Append(StreamEvents, [kind |-> msg[a].kind, tid |-> a])
  BY EventsPut
<1>3. StreamPhase' = IF msg[a].kind = "trace_end" THEN "ended"
                     ELSE IF msg[a].kind = "memory_dump" THEN "dumping" ELSE "tracing"
  BY PhasePut
<1>4. KindOK(a) /\ Writing(a)
  BY DEF StoryInv, Puts, Writing, WritePCs
<1>5. \A t \in Threads : t # a => Begun(t)' = Begun(t) /\ Ended(t)' = Ended(t)
  BY PlacesPut
<1>6. CASE a \in Threads
  <2>1. /\ Begun(a)' /\ ~Ended(a)
        /\ Begun(a) <=> msg[a].kind # "thread_start"
        /\ Ended(a)' <=> msg[a].kind = "thread_end"
    BY <1>6, PlacesPut
  <2>2. StreamPhase = "tracing"
    BY <1>6, ThreadWrites
  <2>3. msg[a].kind \in {"thread_start", "micro_event_log", "macro", "thread_end"}
    BY <1>4, <1>6 DEF KindOK
  <2>4. StreamPhase' = "tracing"
    BY <1>3, <2>3
  <2>5. CASE msg[a].kind = "thread_start"
    <3>1. StreamStage[a] = "unseen" /\ StreamStage' = [StreamStage EXCEPT ![a] = "live"]
      BY <1>1, <1>5, <1>6, <2>1, <2>5
    <3> QED
      BY <1>2, <1>6, <2>2, <2>4, <2>5, <3>1 DEF Stream!Next, Stream!ThreadStart, Stream!Append1
  <2>6. CASE msg[a].kind \in {"micro_event_log", "macro"}
    <3>1. StreamStage[a] = "live" /\ StreamStage' = StreamStage
      BY <1>1, <1>5, <1>6, <2>1, <2>6
    <3> QED
      BY <1>2, <1>6, <2>2, <2>4, <2>6, <3>1 DEF Stream!Next, Stream!ThreadEvent, Stream!Append1
  <2>7. CASE msg[a].kind = "thread_end"
    <3>1. StreamStage[a] = "live" /\ StreamStage' = [StreamStage EXCEPT ![a] = "ended"]
      BY <1>1, <1>5, <1>6, <2>1, <2>7
    <3> QED
      BY <1>2, <1>6, <2>2, <2>4, <2>7, <3>1 DEF Stream!Next, Stream!ThreadEnd, Stream!Append1
  <2> QED
    BY <2>3, <2>5, <2>6, <2>7
<1>7. CASE a = Process
  <2>1. StreamStage' = StreamStage
    BY <1>1, <1>5, <1>7, TracerAssumption
  <2>2. /\ pc[Process] = "write" /\ ret[Process] \in ProcessRets
    BY <1>7, TracerAssumption DEF IInv, TypeOK, ControlOK, Puts, Actors, RetsOf, WritePCs
  <2>3. /\ ret[Process] = "instrument" => msg[a].kind = "trace_start"
        /\ ret[Process] = "dumping" => msg[a].kind = "memory_dump"
        /\ ret[Process] = "closing" => msg[a].kind = "trace_end"
    BY <1>4, <1>7 DEF KindOK
  <2>4. PhaseOK
    BY DEF StoryInv
  <2>5. CASE ret[Process] = "instrument"
    <3>1. StreamPhase = "none" /\ StreamPhase' = "tracing"
      BY <1>3, <2>2, <2>3, <2>4, <2>5 DEF PhaseOK, Unopened, Writing, WritePCs, StreamPhase
    <3> QED
      BY <1>2, <1>7, <2>1, <2>3, <2>5, <3>1 DEF Stream!Next, Stream!TraceStart, Stream!Append1
  <2>6. CASE ret[Process] \in {"dumping", "closing"}
    <3>1. StreamPhase \in {"tracing", "dumping"}
      BY <2>2, <2>4, <2>6 DEF PhaseOK, Unopened, Closed, Writing, WritePCs, StreamPhase
    <3>2. ASSUME NEW t \in Threads PROVE StreamStage[t] # "live"
      <4>1. Finished(t)
        BY <2>2 DEF IInv, StreamInv
      <4>2. Ended(t) \/ ~Begun(t)
        BY <4>1 DEF Finished, Ended, Begun, Early
      <4> QED
        BY <1>1, <4>2
    <3> QED
      BY <1>2, <1>3, <1>7, <2>1, <2>3, <2>6, <3>1, <3>2
      DEF Stream!Next, Stream!MemoryDump, Stream!TraceEnd, Stream!Append1
  <2> QED
    BY <2>2, <2>5, <2>6 DEF ProcessRets
<1> QED
  BY <1>6, <1>7 DEF Actors

(* The trace file is an event stream, however threads interleave: its      *)
(* trace_start comes first, a thread's events come between its thread_start*)
(* and its thread_end, and memory dumps and the trace_end come last.       *)
THEOREM StreamImplemented == Spec => IsEventStream
<1>1. Init => Stream!Init
  <2> SUFFICES ASSUME Init PROVE Stream!Init
    OBVIOUS
  <2>1. trace = <<>>
    BY DEF Init
  <2>2. StreamEvents = <<>> /\ StreamPhase = "none"
    BY <2>1 DEF StreamEvents, StreamPhase
  <2>3. StreamStage = [t \in Threads |-> "unseen"]
    BY <2>1 DEF StreamStage, At
  <2> QED
    BY <2>2, <2>3 DEF Stream!Init
<1>2. IInv /\ PlaceInv /\ MsgInv /\ StoryInv /\ StoryInv' /\ [Next]_vars => [Stream!Next]_(Stream!vars)
  <2> SUFFICES ASSUME IInv, PlaceInv, MsgInv, StoryInv, StoryInv', [Next]_vars
               PROVE  [Stream!Next]_(Stream!vars)
    OBVIOUS
  <2>1. CASE trace' = trace
    BY <2>1 DEF Stream!vars, StreamEvents, StreamPhase, StreamStage, At
  <2> QED
    BY <2>1, Advance, StreamPut
<1> QED
  BY <1>1, <1>2, Story, PTL DEF Spec, IsEventStream, Stream!Spec
============================================================================
