-------------------------- MODULE TraceProcessProofs --------------------------
(***************************************************************************)
(* Theorems about TraceProcess, for any number of processes, programs and  *)
(* events.                                                                 *)
(***************************************************************************)
EXTENDS TraceProcess, TLAPS

(* A file was opened by its process, which has not written to another one  *)
(* since; programs are numbered in the order in which they open theirs.    *)
DescInv ==
    /\ \A d \in DOMAIN descs : Owns(descs[d].file) /\ descs[d].by <= programs
    /\ \A d, e \in DOMAIN descs : d < e => descs[d].by < descs[e].by

(* A file that was opened once is written at its end; one that was not is  *)
(* empty.                                                                  *)
OffsetInv ==
    \A p \in Pids :
        /\ (\A d \in DOMAIN descs : descs[d].file # p) => disk[p] = <<>>
        /\ \A d \in DOMAIN descs :
              descs[d].file = p /\ (\A e \in DOMAIN descs : descs[e].file = p => e = d)
              => descs[d].offset = Len(disk[p])

(* The n-th event of p's program. *)
IsEvent(e, p, n) == /\ e \in Unit
                    /\ e.id = n - 1 /\ e.pid = p /\ e.program = program[p]
                    /\ (e.kind = "trace_start") <=> (n = 1)

(* What p has put into its stream and not numbered in vain. *)
Put(p) == IF event[p] = "numbered" THEN eventId[p] - 1 ELSE eventId[p]

(* The file and the stream's buffer of p are its program's events, from    *)
(* the first on.                                                           *)
FileInv(p) ==
    /\ descs[stream[p]].offset = Len(disk[p])
    /\ \A i \in DOMAIN disk[p] : /\ IsEvent(disk[p][i], p, i)
                                 /\ disk[p][i].kind = "trace_end" => state[p] = "exited" /\ i = eventId[p]
    /\ state[p] \in {"running", "exiting"} =>
          /\ Put(p) = Len(disk[p]) + Len(buffer[p])
          /\ Put(p) > 0
          /\ \A i \in DOMAIN buffer[p] : /\ IsEvent(buffer[p][i], p, Len(disk[p]) + i)
                                         /\ buffer[p][i].kind # "trace_end"
    /\ state[p] = "exited" => /\ eventId[p] > 0
                              /\ Len(disk[p]) = eventId[p]
                              /\ disk[p][eventId[p]].kind = "trace_end"

IInv == /\ TypeOK /\ DescInv /\ OffsetInv
        /\ \A p \in Pids \ spoiled : Owns(p) => FileInv(p)

----------------------------------------------------------------------------
(* Writing. *)

LEMMA OverwrittenType ==
    ASSUME NEW c \in Seq(Unit \cup {Hole}), NEW o \in Nat, NEW es \in Seq(Unit)
    PROVE  Overwritten(c, o, es) \in Seq(Unit \cup {Hole})
<1> DEFINE end == o + Len(es)
           n   == IF end > Len(c) THEN end ELSE Len(c)
<1>1. n \in Nat
  OBVIOUS
<1>2. \A i \in 1 .. n : (IF o < i /\ i <= end THEN es[i - o]
                         ELSE IF i <= Len(c) THEN c[i] ELSE Hole) \in Unit \cup {Hole}
  <2> TAKE i \in 1 .. n
  <2>1. o < i /\ i <= end => i - o \in 1 .. Len(es)
    OBVIOUS
  <2> QED
    BY <2>1
<1> QED
  BY <1>1, <1>2 DEF Overwritten

(* At its end, writing appends. *)
LEMMA Appended ==
    ASSUME NEW c \in Seq(Unit \cup {Hole}), NEW es \in Seq(Unit),
           NEW w, w = Overwritten(c, Len(c), es)
    PROVE  /\ w \in Seq(Unit \cup {Hole}) /\ Len(w) = Len(c) + Len(es)
           /\ \A i \in 1 .. Len(c) : w[i] = c[i]
           /\ \A i \in 1 .. Len(es) : w[Len(c) + i] = es[i]
<1>1. w \in Seq(Unit \cup {Hole})
  <2>1. Len(c) \in Nat
    OBVIOUS
  <2> QED
    BY <2>1, OverwrittenType
<1>2. w = [i \in 1 .. (Len(c) + Len(es)) |-> IF Len(c) < i THEN es[i - Len(c)] ELSE c[i]]
  <2>1. (IF Len(c) + Len(es) > Len(c) THEN Len(c) + Len(es) ELSE Len(c)) = Len(c) + Len(es)
    OBVIOUS
  <2>2. \A i \in 1 .. (Len(c) + Len(es)) :
           (IF Len(c) < i /\ i <= Len(c) + Len(es) THEN es[i - Len(c)]
            ELSE IF i <= Len(c) THEN c[i] ELSE Hole) = IF Len(c) < i THEN es[i - Len(c)] ELSE c[i]
    OBVIOUS
  <2> QED
    BY <2>1, <2>2 DEF Overwritten
<1>3. Len(w) = Len(c) + Len(es)
  BY <1>2
<1>4. \A i \in 1 .. Len(c) : w[i] = c[i]
  BY <1>2
<1>5. \A i \in 1 .. Len(es) : w[Len(c) + i] = es[i]
  BY <1>2
<1> QED
  BY <1>1, <1>3, <1>4, <1>5

(* What the type invariant says of one process. *)
LEMMA Values ==
    ASSUME TypeOK, NEW p \in Pids
    PROVE  /\ buffer[p] \in Seq(Unit) /\ Len(buffer[p]) \in Nat
           /\ disk[p] \in Seq(Unit \cup {Hole}) /\ Len(disk[p]) \in Nat
           /\ eventId[p] \in Nat /\ program[p] \in Nat /\ programs \in Nat
           /\ stream[p] \in 0 .. Len(descs)
<1>1. buffer[p] \in Seq(Unit) /\ disk[p] \in Seq(Unit \cup {Hole})
  BY DEF TypeOK
<1>2. eventId[p] \in Nat /\ programs \in Nat /\ program[p] \in 0 .. programs
  BY DEF TypeOK
<1>3. stream[p] \in 0 .. Len(descs)
  BY DEF TypeOK
<1> QED
  BY <1>1, <1>2, <1>3

LEMMA Appending ==
    ASSUME NEW T, NEW s \in Seq(T), NEW x \in T
    PROVE  /\ Append(s, x) \in Seq(T) /\ Len(Append(s, x)) = Len(s) + 1
           /\ DOMAIN s = 1 .. Len(s) /\ Len(s) \in Nat
           /\ DOMAIN Append(s, x) = 1 .. (Len(s) + 1) /\ Append(s, x)[Len(s) + 1] = x
           /\ \A i \in 1 .. Len(s) : Append(s, x)[i] = s[i]
OBVIOUS

LEMMA DescType ==
    ASSUME TypeOK, NEW d \in DOMAIN descs
    PROVE  descs[d] \in [file : Pids, by : Nat, offset : Nat]
<1> DEFINE T == [file : Pids, by : Nat, offset : Nat]
<1>1. descs \in Seq(T)
  BY DEF TypeOK
<1> HIDE DEF T
<1>2. descs[d] \in T
  BY <1>1
<1> QED
  BY <1>2 DEF T

LEMMA StreamType ==
    ASSUME TypeOK, NEW p \in Pids, state[p] # "none"
    PROVE  stream[p] \in DOMAIN descs
BY DEF TypeOK

(* What FileInv speaks of is as it was. *)
LEMMA FileKept ==
    ASSUME NEW p \in Pids, FileInv(p), disk'[p] = disk[p],
           descs'[stream'[p]] = descs[stream[p]], state'[p] = state[p],
           eventId'[p] = eventId[p], buffer'[p] = buffer[p], Put(p)' = Put(p),
           program'[p] = program[p]
    PROVE  FileInv(p)'
<1>1. \A e, n : IsEvent(e, p, n)' <=> IsEvent(e, p, n)
  BY DEF IsEvent
<1> QED
  BY <1>1 DEF FileInv

LEMMA WriteType ==
    ASSUME TypeOK, NEW p \in Pids, state[p] # "none", NEW es \in Seq(Unit), Write(p, es)
    PROVE  /\ disk' \in [Pids -> Seq(Unit \cup {Hole})]
           /\ descs' \in Seq([file : Pids, by : Nat, offset : Nat])
           /\ Len(descs') = Len(descs)
           /\ spoiled' \subseteq Pids
<1> DEFINE d == stream[p]
           f == descs[d].file
<1>1. d \in DOMAIN descs /\ d \in 1 .. Len(descs)
  <2>1. d \in DOMAIN descs
    BY DEF TypeOK
  <2> QED
    BY <2>1 DEF TypeOK
<1>2. descs[d] \in [file : Pids, by : Nat, offset : Nat]
  BY <1>1, DescType
<1>3. Overwritten(disk[f], descs[d].offset, es) \in Seq(Unit \cup {Hole})
  BY <1>2, OverwrittenType DEF TypeOK
<1>4. disk' \in [Pids -> Seq(Unit \cup {Hole})]
  BY <1>2, <1>3 DEF Write, TypeOK
<1>5. [descs[d] EXCEPT !.offset = @ + Len(es)] \in [file : Pids, by : Nat, offset : Nat]
  BY <1>2
<1>6. descs' = [descs EXCEPT ![d] = [descs[d] EXCEPT !.offset = @ + Len(es)]]
  BY DEF Write
<1> HIDE DEF d
<1>7. descs' \in Seq([file : Pids, by : Nat, offset : Nat]) /\ Len(descs') = Len(descs)
  <2> DEFINE v == [descs[d] EXCEPT !.offset = @ + Len(es)]
             T == [file : Pids, by : Nat, offset : Nat]
  <2>1. v \in T /\ descs' = [descs EXCEPT ![d] = v] /\ descs \in Seq(T)
    BY <1>5, <1>6 DEF TypeOK
  <2> HIDE DEF v, T
  <2>2. descs' \in Seq(T) /\ Len(descs') = Len(descs)
    BY <1>1, <2>1
  <2> QED
    BY <2>2 DEF T
<1>8. spoiled' \subseteq Pids
  BY <1>2 DEF Write, TypeOK, d
<1> QED
  BY <1>4, <1>7, <1>8

----------------------------------------------------------------------------
LEMMA EventType ==
    ASSUME TypeOK, NEW p \in Pids, NEW k \in {"trace_start", "event", "trace_end"}, NEW n \in Nat
    PROVE  Event(p, k, n) \in Unit
BY DEF Event, Unit, TypeOK

LEMMA Closing ==
    ASSUME TypeOK, NEW p \in Pids
    PROVE  Append(buffer[p], Event(p, "trace_end", eventId[p])) \in Seq(Unit)
<1>1. buffer[p] \in Seq(Unit) /\ eventId[p] \in Nat
  BY Values
<1>2. Event(p, "trace_end", eventId[p]) \in Unit
  BY <1>1, EventType
<1> QED
  BY <1>1, <1>2, Appending

LEMMA TypeInit == Init => TypeOK
<1> SUFFICES ASSUME Init PROVE TypeOK
  OBVIOUS
<1> USE ProcessAssumption
<1>1. Event(First, "trace_start", 0) \in Unit
  BY DEF Init, Event, Unit
<1>2. buffer \in [Pids -> Seq(Unit)]
  <2>1. <<Event(First, "trace_start", 0)>> \in Seq(Unit)
    BY <1>1
  <2> QED
    BY <2>1 DEF Init
<1>3. descs \in Seq([file : Pids, by : Nat, offset : Nat]) /\ Len(descs) = 1
  BY DEF Init
<1>4. stream \in [Pids -> 0 .. Len(descs)] /\ disk \in [Pids -> Seq(Unit \cup {Hole})]
  BY <1>3 DEF Init
<1> QED
  BY <1>2, <1>3, <1>4 DEF Init, TypeOK

LEMMA TypeStep == TypeOK /\ [Next]_vars => TypeOK'
<1> SUFFICES ASSUME TypeOK, [Next]_vars PROVE TypeOK'
  OBVIOUS
<1>1. ASSUME NEW p \in Pids, BeginExit(p) PROVE TypeOK'
  <2>1. state' \in [Pids -> {"none", "running", "exiting", "exited", "killed", "failed"}]
    BY <1>1 DEF BeginExit, TypeOK
  <2>2. UNCHANGED <<tracer, files>> /\ \A q \in Pids : state'[q] # "none" => state[q] # "none"
    BY <1>1 DEF BeginExit, TypeOK
  <2> QED
    BY <2>1, <2>2 DEF TypeOK, tracer, locking, files
<1>9. ASSUME NEW p \in Pids, Kill(p) \/ OpenLogFails(p) PROVE TypeOK'
  <2>1. PICK how \in {"killed", "failed"} : Die(p, how)
    BY <1>9 DEF Kill, OpenLogFails
  <2>2. state' \in [Pids -> {"none", "running", "exiting", "exited", "killed", "failed"}]
    BY <2>1 DEF Die, TypeOK
  <2>3. lock' \in [Pids -> [Locks -> {"free", "held", "nobody"}]]
    BY <2>1 DEF Die, TypeOK
  <2>4. event' \in [Pids -> {"none", "output", "state", "numbered"}] /\ orphans' \subseteq Pids
    BY <2>1 DEF Die, TypeOK
  <2>5. buffer' \in [Pids -> Seq(Unit)]
    <3>1. <<>> \in Seq(Unit)
      OBVIOUS
    <3> QED
      BY <2>1, <3>1 DEF Die, TypeOK
  <2>6. \A q \in Pids : state'[q] # "none" => state[q] # "none"
    BY <1>9, <2>1 DEF Kill, OpenLogFails, Die, TypeOK
  <2> QED
    BY <2>1, <2>2, <2>3, <2>4, <2>5, <2>6 DEF Die, TypeOK, files
<1>8. ASSUME NEW p \in Pids, NEW l \in Locks,
             BeginEvent(p) \/ LockThreads(p) \/ NumberEvent(p) \/ EnterThread(p, l) \/ LeaveThread(p, l)
      PROVE  TypeOK'
  <2>1. PICK k \in Locks, v \in {"free", "held"} : lock' = [lock EXCEPT ![p][k] = v]
    BY <1>8 DEF BeginEvent, LockThreads, NumberEvent, EnterThread, LeaveThread, Acquire, Release, Locks
  <2>2. lock' \in [Pids -> [Locks -> {"free", "held", "nobody"}]]
    BY <2>1 DEF TypeOK
  <2>3. event' \in [Pids -> {"none", "output", "state", "numbered"}]
    BY <1>8 DEF BeginEvent, LockThreads, NumberEvent, EnterThread, LeaveThread, TypeOK
  <2>4. eventId' \in [Pids -> Nat] /\ \A q \in Pids : eventId[q] # 0 => eventId'[q] # 0
    BY <1>8 DEF BeginEvent, LockThreads, NumberEvent, EnterThread, LeaveThread, TypeOK
  <2>5. UNCHANGED <<state, program, programs, orphans, buffer, stream, files>>
    BY <1>8 DEF BeginEvent, LockThreads, NumberEvent, EnterThread, LeaveThread
  <2> QED
    BY <2>2, <2>3, <2>4, <2>5 DEF TypeOK, files
<1>2. ASSUME NEW p \in Pids, EndEvent(p) PROVE TypeOK'
  <2>1. eventId[p] - 1 \in Nat
    BY <1>2 DEF EndEvent, TypeOK
  <2>2. Event(p, "event", eventId[p] - 1) \in Unit
    BY <2>1, EventType
  <2>3. buffer' \in [Pids -> Seq(Unit)]
    BY <1>2, <2>2 DEF EndEvent, TypeOK
  <2>4. lock' \in [Pids -> [Locks -> {"free", "held", "nobody"}]]
    BY <1>2 DEF EndEvent, Release, Locks, TypeOK
  <2>5. event' \in [Pids -> {"none", "output", "state", "numbered"}]
    BY <1>2 DEF EndEvent, TypeOK
  <2> QED
    BY <1>2, <2>3, <2>4, <2>5 DEF EndEvent, TypeOK, files
<1>3. ASSUME NEW p \in Pids, Spill(p) PROVE TypeOK'
  <2>1. buffer[p] \in Seq(Unit) /\ state[p] # "none" /\ Write(p, buffer[p])
    BY <1>3 DEF Spill, TypeOK
  <2>2. /\ disk' \in [Pids -> Seq(Unit \cup {Hole})]
        /\ descs' \in Seq([file : Pids, by : Nat, offset : Nat])
        /\ Len(descs') = Len(descs)
        /\ spoiled' \subseteq Pids
    BY <2>1, WriteType
  <2>3. buffer' \in [Pids -> Seq(Unit)]
    BY <1>3 DEF Spill, TypeOK
  <2> QED
    BY <1>3, <2>2, <2>3 DEF Spill, TypeOK, locking
<1>4. ASSUME NEW p \in Pids, CloseLog(p) PROVE TypeOK'
  <2>1. Append(buffer[p], Event(p, "trace_end", eventId[p])) \in Seq(Unit)
    BY EventType DEF TypeOK
  <2>2. state[p] # "none" /\ Write(p, Append(buffer[p], Event(p, "trace_end", eventId[p])))
    BY <1>4 DEF CloseLog
  <2>3. /\ disk' \in [Pids -> Seq(Unit \cup {Hole})]
        /\ descs' \in Seq([file : Pids, by : Nat, offset : Nat])
        /\ Len(descs') = Len(descs)
        /\ spoiled' \subseteq Pids
    BY <2>1, <2>2, WriteType
  <2>4. /\ buffer' \in [Pids -> Seq(Unit)] /\ eventId' \in [Pids -> Nat]
        /\ state' \in [Pids -> {"none", "running", "exiting", "exited", "killed", "failed"}]
        /\ \A q \in Pids : state'[q] # "none" => state[q] # "none"
        /\ \A q \in Pids : eventId[q] # 0 => eventId'[q] # 0
    BY <1>4 DEF CloseLog, TypeOK
  <2> QED
    BY <1>4, <2>3, <2>4 DEF CloseLog, TypeOK, locking
<1>5. ASSUME NEW p \in Pids, NEW q \in Pids, Fork(p, q) PROVE TypeOK'
  <2>1. Inherited(p) \in [Locks -> {"free", "held", "nobody"}]
    BY DEF Inherited, TypeOK
  <2>2. lock' \in [Pids -> [Locks -> {"free", "held", "nobody"}]]
    BY <1>5, <2>1 DEF Fork, TypeOK
  <2>3. orphans' \subseteq Pids
    BY <1>5 DEF Fork, Inherit, TypeOK
  <2>4. /\ UNCHANGED <<programs, event, spoiled, descs, disk>>
        /\ state' \in [Pids -> {"none", "running", "exiting", "exited", "killed", "failed"}]
        /\ program' \in [Pids -> 0 .. programs] /\ eventId' \in [Pids -> Nat]
        /\ buffer' \in [Pids -> Seq(Unit)] /\ stream' \in [Pids -> 0 .. Len(descs)]
        /\ \A u \in Pids : state'[u] # "none" => stream'[u] # 0 /\ eventId'[u] # 0
    BY <1>5 DEF Fork, Inherit, TypeOK
  <2> QED
    BY <2>2, <2>3, <2>4 DEF TypeOK
<1>6. ASSUME NEW p \in Pids, Exec(p) PROVE TypeOK'
  <2> DEFINE d == [file |-> p, by |-> programs + 1, offset |-> 0]
             e == [pid |-> p, program |-> programs + 1, kind |-> "trace_start", id |-> 0]
  <2>1. d \in [file : Pids, by : Nat, offset : Nat] /\ e \in Unit
    BY DEF TypeOK, Unit
  <2>2. descs' = Append(descs, d) /\ buffer' = [buffer EXCEPT ![p] = <<e>>]
    BY <1>6 DEF Exec, Main, OpenLog
  <2> HIDE DEF d, e
  <2>3. descs' \in Seq([file : Pids, by : Nat, offset : Nat]) /\ Len(descs') = Len(descs) + 1
    BY <2>1, <2>2 DEF TypeOK
  <2>4. buffer' \in [Pids -> Seq(Unit)]
    BY <2>1, <2>2 DEF TypeOK
  <2>5. /\ stream' \in [Pids -> 0 .. Len(descs')]
        /\ \A q \in Pids : state'[q] # "none" => stream'[q] # 0 /\ eventId'[q] # 0
    <3> DEFINE n == Len(descs)
    <3>1. n \in Nat /\ Len(descs') = n + 1 /\ stream' = [stream EXCEPT ![p] = n + 1]
      BY <1>6, <2>3 DEF Exec, Main, TypeOK
    <3>2. stream \in [Pids -> 0 .. n]
      BY DEF TypeOK
    <3> HIDE DEF n
    <3>3. stream' \in [Pids -> 0 .. (n + 1)]
      BY <3>1, <3>2
    <3>4. \A q \in Pids : state'[q] # "none" => stream'[q] # 0
      BY <1>6, <3>1, <3>2 DEF Exec, TypeOK
    <3>5. \A q \in Pids : state'[q] # "none" => eventId'[q] # 0
      BY <1>6 DEF Exec, Main, TypeOK
    <3> QED
      BY <3>1, <3>3, <3>4, <3>5
  <2>6. programs' \in Nat /\ program' \in [Pids -> 0 .. programs']
    BY <1>6 DEF Exec, Main, TypeOK
  <2>7. disk' \in [Pids -> Seq(Unit \cup {Hole})] /\ spoiled' \subseteq Pids
    <3>1. <<>> \in Seq(Unit \cup {Hole})
      OBVIOUS
    <3> QED
      BY <1>6, <3>1 DEF Exec, Main, OpenLog, TypeOK
  <2>8. lock' \in [Pids -> [Locks -> {"free", "held", "nobody"}]]
    BY <1>6 DEF Exec, Main, TypeOK
  <2>9. event' \in [Pids -> {"none", "output", "state", "numbered"}] /\ orphans' \subseteq Pids
    BY <1>6 DEF Exec, Main, TypeOK
  <2>10. eventId' \in [Pids -> Nat] /\ state' = state
    BY <1>6 DEF Exec, Main, TypeOK
  <2> QED
    BY <2>3, <2>4, <2>5, <2>6, <2>7, <2>8, <2>9, <2>10 DEF TypeOK
<1>7. CASE Over \/ UNCHANGED vars
  BY <1>7 DEF Over, vars, tracer, locking, files, TypeOK
<1>10. {"state", "counter"} \subseteq Locks /\ Locks # {}
  BY DEF Locks
<1> QED
  BY <1>1, <1>2, <1>3, <1>4, <1>5, <1>6, <1>7, <1>8, <1>9, <1>10 DEF Next

(* Every variable keeps its type, for any number of processes. *)
THEOREM TypeCorrect == Spec => []TypeOK
<1> QED
  BY TypeInit, TypeStep, PTL DEF Spec

----------------------------------------------------------------------------
(* The locks. *)

(* The event of p cannot get further: a lock it still needs is nobody's.   *)
Blocked(p) == \/ lock[p]["output"] = "nobody"
              \/ lock[p]["state"] = "nobody" /\ event[p] \in {"none", "output"}
              \/ lock[p]["counter"] = "nobody" /\ event[p] # "numbered"

(* The thread in WriteEvent has the output lock, and no event of an orphan *)
(* gets through, trace_end neither.                                        *)
LockInv ==
    /\ \A p \in Pids : event[p] # "none" => lock[p]["output"] = "held"
    /\ \A p \in Pids : state[p] = "none" => event[p] = "none"
    /\ \A p \in orphans : state[p] \notin {"none", "exited"} /\ Blocked(p)

(* Steps of p with the locks and the numbering of an event. *)
Locking(p, l) == \/ BeginEvent(p) \/ LockThreads(p) \/ NumberEvent(p)
                 \/ EnterThread(p, l) \/ LeaveThread(p, l)

LEMMA LockingStep ==
    ASSUME TypeOK, LockInv, NEW p \in Pids, NEW l \in Locks, Locking(p, l)
    PROVE  /\ UNCHANGED <<state, program, programs, buffer, stream, files, orphans>>
           /\ state[p] = "running" /\ Put(p)' = Put(p)
           /\ \A q \in Pids \ {p} : lock'[q] = lock[q] /\ event'[q] = event[q] /\ eventId'[q] = eventId[q]
<1>1. /\ UNCHANGED <<state, program, programs, buffer, stream, files, orphans>> /\ state[p] = "running"
      /\ \A q \in Pids \ {p} : lock'[q] = lock[q] /\ event'[q] = event[q] /\ eventId'[q] = eventId[q]
  BY DEF Locking, BeginEvent, LockThreads, NumberEvent, EnterThread, LeaveThread, Acquire, Release, TypeOK
<1>2. CASE NumberEvent(p)
  <2>1. event[p] = "state" /\ event'[p] = "numbered" /\ eventId'[p] = eventId[p] + 1 /\ eventId[p] \in Nat
    BY <1>2 DEF NumberEvent, TypeOK
  <2> QED
    BY <1>1, <2>1 DEF Put
<1>3. CASE ~NumberEvent(p)
  <2>1. BeginEvent(p) => event[p] = "none"
    BY DEF BeginEvent, Acquire, LockInv
  <2>2. eventId' = eventId /\ (event'[p] = "numbered" <=> event[p] = "numbered")
    BY <1>3, <2>1 DEF Locking, BeginEvent, LockThreads, EnterThread, LeaveThread, TypeOK
  <2> QED
    BY <1>1, <2>2 DEF Put
<1> QED
  BY <1>1, <1>2, <1>3

(* p dies. *)
Dies(p) == Kill(p) \/ OpenLogFails(p)

LEMMA DiesStep ==
    ASSUME TypeOK, NEW p \in Pids, Dies(p)
    PROVE  /\ UNCHANGED <<program, programs, eventId, stream, files>>
           /\ state[p] \in {"running", "exiting"} /\ state'[p] \in {"killed", "failed"}
           /\ orphans' = orphans \ {p}
           /\ \A q \in Pids \ {p} : /\ state'[q] = state[q] /\ lock'[q] = lock[q]
                                    /\ event'[q] = event[q] /\ buffer'[q] = buffer[q]
BY DEF Dies, Kill, OpenLogFails, Die, TypeOK

LEMMA LockInit == Init => LockInv
BY DEF Init, LockInv

LEMMA LockingKept ==
    ASSUME TypeOK, LockInv, NEW p \in Pids, NEW l \in Locks, Locking(p, l), l # "output"
    PROVE  LockInv'
<1>1. /\ state' = state /\ orphans' = orphans /\ state[p] = "running" /\ orphans \subseteq Pids
      /\ \A q \in Pids \ {p} : lock'[q] = lock[q] /\ event'[q] = event[q]
  BY LockingStep DEF TypeOK
<1>2. event'[p] # "none" => lock'[p]["output"] = "held"
  BY DEF Locking, BeginEvent, LockThreads, NumberEvent, EnterThread, LeaveThread, Acquire, Release,
         Locks, TypeOK, LockInv
<1>3. Blocked(p) => Blocked(p)'
  <2>1. event[p] # "none" => lock[p]["output"] = "held"
    BY DEF LockInv
  <2>2. CASE BeginEvent(p)
    BY <2>2 DEF BeginEvent, Acquire, Locks, TypeOK, Blocked
  <2>3. CASE LockThreads(p)
    BY <2>1, <2>3 DEF LockThreads, Acquire, Locks, TypeOK, Blocked
  <2>4. CASE NumberEvent(p)
    BY <2>1, <2>4 DEF NumberEvent, Release, Locks, TypeOK, Blocked
  <2>5. CASE EnterThread(p, l) \/ LeaveThread(p, l)
    BY <2>5 DEF EnterThread, LeaveThread, Acquire, Release, Locks, TypeOK, Blocked
  <2> QED
    BY <2>2, <2>3, <2>4, <2>5 DEF Locking
<1>4. \A q \in Pids \ {p} : Blocked(q)' <=> Blocked(q)
  BY <1>1 DEF Blocked
<1> QED
  BY <1>1, <1>2, <1>3, <1>4 DEF LockInv

LEMMA ForkKept ==
    ASSUME TypeOK, LockInv, NEW p \in Pids, NEW q \in Pids, Fork(p, q)
    PROVE  LockInv'
<1>1. /\ state[p] = "running" /\ state[q] = "none" /\ state'[q] = "running" /\ event' = event
      /\ lock'[q] = Inherited(p) /\ orphans \subseteq Pids
      /\ orphans' = IF Inside(p) \/ p \in orphans THEN orphans \cup {q} ELSE orphans
      /\ \A u \in Pids \ {q} : lock'[u] = lock[u] /\ state'[u] = state[u]
  BY DEF Fork, Inherit, TypeOK
<1>2. event[q] = "none"
  BY <1>1 DEF LockInv
<1>3. \A u \in Pids \ {q} : Blocked(u)' <=> Blocked(u)
  BY <1>1 DEF Blocked
<1>4. Inside(p) \/ p \in orphans => \E l \in Locks : lock[p][l] # "free"
  BY DEF Inside, LockInv, Blocked, Locks
<1>5. (\E l \in Locks : lock[p][l] # "free") => Blocked(q)'
  BY <1>1, <1>2 DEF Inherited, Blocked, Locks
<1>6. q \notin orphans
  BY <1>1 DEF LockInv
<1> QED
  BY <1>1, <1>2, <1>3, <1>4, <1>5, <1>6 DEF LockInv

LEMMA LockStep == TypeOK /\ LockInv /\ [Next]_vars => LockInv'
<1> SUFFICES ASSUME TypeOK, LockInv, [Next]_vars PROVE LockInv'
  OBVIOUS
<1>1. ASSUME NEW p \in Pids, EndEvent(p) PROVE LockInv'
  <2>1. /\ event[p] = "numbered" /\ event'[p] = "none" /\ state' = state /\ orphans' = orphans
        /\ \A q \in Pids \ {p} : lock'[q] = lock[q] /\ event'[q] = event[q]
        /\ orphans \subseteq Pids
    BY <1>1 DEF EndEvent, Release, TypeOK
  <2>2. ~Blocked(p)
    BY <2>1 DEF LockInv, Blocked
  <2>3. \A q \in Pids \ {p} : Blocked(q)' <=> Blocked(q)
    BY <2>1 DEF Blocked
  <2> QED
    BY <2>1, <2>2, <2>3 DEF LockInv
<1>2. ASSUME NEW p \in Pids, Spill(p) \/ BeginExit(p) \/ CloseLog(p) PROVE LockInv'
  <2>1. /\ UNCHANGED locking /\ orphans \subseteq Pids
        /\ \A q \in Pids : (state'[q] = "none") <=> (state[q] = "none")
        /\ \A q \in Pids \ {p} : state'[q] = state[q]
        /\ state'[p] = "exited" => state[p] = "exited" \/ \A l \in Locks : lock[p][l] = "free"
    BY <1>2 DEF Spill, BeginExit, CloseLog, tracer, TypeOK
  <2>2. state'[p] = "exited" => state[p] = "exited" \/ p \notin orphans
    BY <2>1 DEF LockInv, Blocked, Locks
  <2>3. \A q \in Pids : Blocked(q)' <=> Blocked(q)
    BY <2>1 DEF Blocked, locking
  <2> QED
    BY <2>1, <2>2, <2>3 DEF LockInv, locking
<1>3. ASSUME NEW p \in Pids, Exec(p) \/ Dies(p) PROVE LockInv'
  <2>1. /\ event'[p] = "none" /\ orphans' = orphans \ {p} /\ orphans \subseteq Pids
        /\ \A q \in Pids \ {p} : /\ lock'[q] = lock[q] /\ event'[q] = event[q]
                                 /\ state'[q] = state[q]
    BY <1>3 DEF Exec, Main, Dies, Kill, OpenLogFails, Die, TypeOK
  <2>2. \A q \in Pids \ {p} : Blocked(q)' <=> Blocked(q)
    BY <2>1 DEF Blocked
  <2> QED
    BY <2>1, <2>2 DEF LockInv
<1>4. CASE Over \/ UNCHANGED vars
  BY <1>4 DEF Over, vars, tracer, locking, LockInv, Blocked
<1>5. ASSUME NEW p \in Pids, \/ BeginEvent(p) \/ LockThreads(p) \/ NumberEvent(p)
                              \/ \E l \in {"state", "counter"} : EnterThread(p, l) \/ LeaveThread(p, l)
      PROVE  LockInv'
  <2>1. PICK l \in Locks \ {"output"} : Locking(p, l)
    BY <1>5 DEF Locking, Locks
  <2> QED
    BY <2>1, LockingKept
<1> QED
  BY <1>1, <1>2, <1>3, <1>4, <1>5, ForkKept DEF Next, Dies

LEMMA LockInvariant == Spec => []LockInv
BY LockInit, LockStep, TypeInit, TypeStep, PTL DEF Spec

(* A child forked while another thread was in the tracer, and the children *)
(* of such a child, number no event, put none into a stream and never end  *)
(* by themselves: whichever of the three locks the thread had, WriteEvent  *)
(* comes to it.                                                            *)
THEOREM ForkedInsideIsSilent == Spec => OrphansAreSilent
<1> DEFINE Silent(p) == /\ eventId'[p] = eventId[p]
                        /\ buffer'[p] = buffer[p] /\ stream'[p] = stream[p]
                        /\ state'[p] # "exited"
<1>1. TypeOK /\ TypeOK' /\ LockInv /\ [Next]_vars => [\A p \in orphans \cap orphans' : Silent(p)]_vars
  <2> SUFFICES ASSUME TypeOK, TypeOK', LockInv, Next, NEW p \in orphans, p \in orphans' PROVE Silent(p)
    BY DEF vars
  <2>1. p \in Pids /\ Blocked(p) /\ (event[p] # "none" => lock[p]["output"] = "held")
    BY DEF LockInv, TypeOK
  <2>2. /\ event[p] # "numbered" /\ ~\A l \in Locks : lock[p][l] = "free"
        /\ event[p] = "state" => lock[p]["counter"] # "free"
        /\ state[p] \notin {"none", "exited"}
    BY <2>1 DEF Blocked, Locks, LockInv
  <2>3. ASSUME NEW q \in Pids, \/ BeginEvent(q) \/ LockThreads(q) \/ BeginExit(q)
                               \/ \E l \in {"state", "counter"} : EnterThread(q, l) \/ LeaveThread(q, l)
        PROVE  Silent(p)
    BY <2>1, <2>2, <2>3 DEF BeginEvent, LockThreads, BeginExit, EnterThread, LeaveThread, tracer, TypeOK
  <2>4. ASSUME NEW q \in Pids, NumberEvent(q) \/ EndEvent(q) \/ Spill(q) \/ CloseLog(q)
        PROVE  Silent(p)
    <3>1. q # p
      BY <2>2, <2>4 DEF NumberEvent, EndEvent, Spill, CloseLog
    <3>2. eventId'[p] = eventId[p] /\ buffer'[p] = buffer[p] /\ stream'[p] = stream[p]
      BY <2>1, <2>4, <3>1 DEF NumberEvent, EndEvent, Spill, CloseLog, TypeOK
    <3>3. state'[p] = state[p]
      BY <2>1, <2>4, <3>1 DEF NumberEvent, EndEvent, Spill, CloseLog, TypeOK
    <3> QED
      BY <2>2, <3>2, <3>3
  <2>5. ASSUME NEW q \in Pids, Exec(q) \/ Dies(q) PROVE Silent(p)
    <3>1. q # p
      BY <2>5 DEF Exec, Main, Dies, Kill, OpenLogFails, Die
    <3>2. CASE Exec(q)
      <4>1. /\ eventId' = [eventId EXCEPT ![q] = 1] /\ stream' = [stream EXCEPT ![q] = Len(descs')]
            /\ \E b : buffer' = [buffer EXCEPT ![q] = b]
            /\ state' = state
        BY <3>2 DEF Exec, Main
      <4> QED
        BY <2>1, <2>2, <3>1, <4>1 DEF TypeOK
    <3>3. CASE Dies(q)
      BY <2>1, <2>2, <3>1, <3>3, DiesStep
    <3> QED
      BY <2>5, <3>2, <3>3
  <2>6. ASSUME NEW q \in Pids, NEW u \in Pids, Fork(q, u) PROVE Silent(p)
    <3>1. u # p
      BY <2>2, <2>6 DEF Fork, Inherit
    <3> QED
      BY <2>1, <2>2, <2>6, <3>1 DEF Fork, Inherit, TypeOK
  <2>7. CASE Over
    BY <2>2, <2>7 DEF Over, vars, tracer
  <2> QED
    BY <2>3, <2>4, <2>5, <2>6, <2>7 DEF Next, Dies
<1> QED
  BY <1>1, TypeCorrect, LockInvariant, PTL DEF Spec, OrphansAreSilent
----------------------------------------------------------------------------
(* What a write does to files and descriptions. *)

LEMMA Writing ==
    ASSUME TypeOK, DescInv, OffsetInv,
           NEW p \in Pids, state[p] # "none", NEW es \in Seq(Unit), Write(p, es)
    PROVE  /\ stream[p] \in DOMAIN descs /\ DOMAIN descs' = DOMAIN descs
           /\ \A d \in DOMAIN descs : /\ descs'[d].file = descs[d].file
                                       /\ descs'[d].by = descs[d].by
           /\ \A d \in DOMAIN descs \ {stream[p]} : descs'[d] = descs[d]
           /\ descs'[stream[p]].offset = descs[stream[p]].offset + Len(es)
           /\ \A q \in Pids : q # descs[stream[p]].file => disk'[q] = disk[q]
           /\ LET f == descs[stream[p]].file IN
                /\ f \in Pids
                /\ f # p => spoiled' = spoiled \cup {f}
                /\ f = p => spoiled' = spoiled
                /\ descs[stream[p]].offset = Len(disk[f]) =>
                     /\ Len(disk'[f]) = Len(disk[f]) + Len(es)
                     /\ \A i \in 1 .. Len(disk[f]) : disk'[f][i] = disk[f][i]
                     /\ \A i \in 1 .. Len(es) : disk'[f][Len(disk[f]) + i] = es[i]
<1> DEFINE d == stream[p]
           f == descs[d].file
<1>1. d \in DOMAIN descs
  BY DEF TypeOK
<1>2. descs[d] \in [file : Pids, by : Nat, offset : Nat]
  BY <1>1, DescType
<1>3. descs' = [descs EXCEPT ![d].offset = @ + Len(es)]
  BY DEF Write
<1>4. /\ disk' = [disk EXCEPT ![f] = Overwritten(disk[f], descs[d].offset, es)]
      /\ spoiled' = IF f = p THEN spoiled ELSE spoiled \cup {f}
  BY DEF Write
<1> HIDE DEF d
<1>5. /\ DOMAIN descs' = DOMAIN descs
      /\ \A e \in DOMAIN descs : descs'[e].file = descs[e].file /\ descs'[e].by = descs[e].by
      /\ \A e \in DOMAIN descs \ {d} : descs'[e] = descs[e]
      /\ descs'[d].offset = descs[d].offset + Len(es)
  BY <1>1, <1>2, <1>3
<1>6. f \in Pids
  BY <1>2
<1>7. \A q \in Pids : q # f => disk'[q] = disk[q]
  BY <1>4 DEF TypeOK
<1>8. ASSUME descs[d].offset = Len(disk[f])
      PROVE  /\ Len(disk'[f]) = Len(disk[f]) + Len(es)
             /\ \A i \in 1 .. Len(disk[f]) : disk'[f][i] = disk[f][i]
             /\ \A i \in 1 .. Len(es) : disk'[f][Len(disk[f]) + i] = es[i]
  <2>1. disk[f] \in Seq(Unit \cup {Hole}) /\ disk'[f] = Overwritten(disk[f], Len(disk[f]), es)
    BY <1>4, <1>6, <1>8 DEF TypeOK
  <2> DEFINE c == disk[f]
             w == disk'[f]
  <2>2. c \in Seq(Unit \cup {Hole}) /\ w = Overwritten(c, Len(c), es)
    BY <2>1
  <2> HIDE DEF c, w
  <2>3. /\ Len(w) = Len(c) + Len(es)
        /\ \A i \in 1 .. Len(c) : w[i] = c[i]
        /\ \A i \in 1 .. Len(es) : w[Len(c) + i] = es[i]
    BY <2>2, Appended
  <2> QED
    BY <2>3 DEF c, w
<1> QED
  BY <1>1, <1>4, <1>5, <1>6, <1>7, <1>8 DEF d

----------------------------------------------------------------------------
(* The invariant. *)

(* Steps of p that leave streams and files alone. *)
LEMMA LocalStep ==
    ASSUME IInv, LockInv, TypeOK', NEW p \in Pids, NEW l \in Locks,
           Locking(p, l) \/ EndEvent(p) \/ BeginExit(p) \/ Dies(p)
    PROVE  IInv'
<1> USE DEF IInv
<1>1. UNCHANGED <<program, programs, stream, files>>
  BY LockingStep, DiesStep DEF EndEvent, BeginExit, tracer
<1>2. \A q \in Pids : (state'[q] # "none") <=> (state[q] # "none")
  <2>1. CASE Locking(p, l)
    BY <2>1, LockingStep
  <2>2. CASE Dies(p)
    BY <2>2, DiesStep
  <2>3. CASE EndEvent(p) \/ BeginExit(p)
    BY <2>3 DEF EndEvent, BeginExit, TypeOK
  <2> QED
    BY <2>1, <2>2, <2>3
<1>3. \A q \in Pids : Owns(q)' <=> Owns(q)
  BY <1>1, <1>2 DEF Owns, files
<1>4. \A d \in DOMAIN descs : descs[d].file \in Pids
  BY DescType
<1>5. DescInv' /\ OffsetInv'
  BY <1>1, <1>3, <1>4 DEF DescInv, OffsetInv, files, Owns
<1>6. \A e, q, n : IsEvent(e, q, n)' <=> IsEvent(e, q, n)
  BY <1>1 DEF IsEvent
<1>7. ASSUME NEW q \in Pids \ spoiled, Owns(q), FileInv(q) PROVE FileInv(q)'
  <2>1. CASE q # p
    <3>1. /\ state'[q] = state[q] /\ event'[q] = event[q]
          /\ eventId'[q] = eventId[q] /\ buffer'[q] = buffer[q]
      <4>1. CASE Locking(p, l)
        BY <2>1, <4>1, LockingStep
      <4>2. CASE Dies(p)
        BY <2>1, <4>2, DiesStep
      <4>3. CASE EndEvent(p) \/ BeginExit(p)
        BY <2>1, <4>3 DEF EndEvent, BeginExit, tracer, locking, TypeOK
      <4> QED
        BY <4>1, <4>2, <4>3
    <3>2. Put(q)' = Put(q)
      BY <3>1 DEF Put
    <3> QED
      BY <1>1, <1>6, <1>7, <3>1, <3>2 DEF FileInv, files
  <2>2. CASE q = p /\ Locking(p, l)
    <3>1. /\ state' = state /\ buffer' = buffer /\ state[p] = "running"
          /\ Put(p)' = Put(p)
      BY <2>2, LockingStep
    <3> QED
      BY <1>1, <1>6, <1>7, <2>2, <3>1 DEF FileInv, files
  <2>3. CASE q = p /\ EndEvent(p)
    <3> DEFINE e == Event(p, "event", eventId[p] - 1)
               n == Len(disk[p])
               b == Len(buffer[p])
    <3>1. /\ state' = state /\ state[p] = "running"
          /\ buffer'[p] = Append(buffer[p], e)
          /\ event[p] = "numbered" /\ event'[p] = "none" /\ eventId' = eventId
      BY <2>3 DEF EndEvent, TypeOK
    <3>2. /\ eventId[p] \in Nat /\ eventId[p] - 1 \in Nat
          /\ Put(p) = eventId[p] - 1 /\ Put(p)' = eventId[p]
      <4>1. eventId[p] \in Nat /\ eventId[p] # 0
        BY <3>1 DEF TypeOK
      <4>2. Put(p) = eventId[p] - 1 /\ Put(p)' = eventId[p]
        BY <3>1 DEF Put
      <4> QED
        BY <4>1, <4>2
    <3>3. e \in Unit /\ e.id = eventId[p] - 1 /\ e.pid = p /\ e.program = program[p] /\ e.kind = "event"
      BY <3>2, EventType DEF Event
    <3> HIDE DEF e
    <3>4. /\ buffer[p] \in Seq(Unit) /\ disk[p] \in Seq(Unit \cup {Hole}) /\ n \in Nat /\ b \in Nat
          /\ Put(p) = n + b /\ Put(p) > 0
          /\ \A i \in DOMAIN buffer[p] : IsEvent(buffer[p][i], p, n + i) /\ buffer[p][i].kind # "trace_end"
      <4>1. buffer[p] \in Seq(Unit) /\ disk[p] \in Seq(Unit \cup {Hole}) /\ n \in Nat /\ b \in Nat
        BY Values
      <4>2. /\ Put(p) = n + b /\ Put(p) > 0
            /\ \A i \in DOMAIN buffer[p] : IsEvent(buffer[p][i], p, n + i) /\ buffer[p][i].kind # "trace_end"
        BY <1>7, <2>3, <3>1 DEF FileInv
      <4> QED
        BY <4>1, <4>2
    <3>5. /\ Len(buffer'[p]) = b + 1
          /\ \A i \in DOMAIN buffer'[p] : \/ i \in DOMAIN buffer[p] /\ buffer'[p][i] = buffer[p][i]
                                          \/ i = b + 1 /\ buffer'[p][i] = e
      BY <3>1, <3>3, <3>4
    <3> HIDE DEF n, b
    <3>6. n + (b + 1) = eventId[p] /\ n + (b + 1) # 1 /\ n + (b + 1) - 1 = eventId[p] - 1
      <4>1. \A u, v, k \in Nat : k - 1 = u + v /\ k - 1 > 0 =>
               u + (v + 1) = k /\ u + (v + 1) # 1 /\ u + (v + 1) - 1 = k - 1
        OBVIOUS
      <4>2. eventId[p] \in Nat /\ n \in Nat /\ b \in Nat /\ eventId[p] - 1 = n + b /\ eventId[p] - 1 > 0
        BY <3>2, <3>4
      <4> QED
        BY <4>1, <4>2
    <3>7. \A i \in DOMAIN buffer'[p] : IsEvent(buffer'[p][i], p, n + i) /\ buffer'[p][i].kind # "trace_end"
      <4>1. IsEvent(e, p, n + (b + 1))
        BY <3>3, <3>6 DEF IsEvent
      <4> QED
        BY <3>3, <3>4, <3>5, <4>1
    <3>8. Put(p)' = n + Len(buffer'[p]) /\ Put(p)' > 0
      BY <3>2, <3>4, <3>5, <3>6
    <3> QED
      BY <1>1, <1>6, <1>7, <2>3, <3>1, <3>7, <3>8 DEF FileInv, files, n
  <2>4. CASE q = p /\ BeginExit(p)
    <3>1. UNCHANGED tracer /\ state[p] = "running" /\ state'[p] = "exiting"
      BY <2>4 DEF BeginExit, TypeOK
    <3>2. Put(p)' = Put(p) /\ buffer' = buffer
      BY <3>1 DEF Put, tracer, locking
    <3> QED
      BY <1>1, <1>6, <1>7, <2>4, <3>1, <3>2 DEF FileInv, files
  <2>5. CASE q = p /\ Dies(p)
    <3>1. eventId' = eventId /\ state[p] \in {"running", "exiting"} /\ state'[p] \in {"killed", "failed"}
      BY <2>5, DiesStep
    <3> QED
      BY <1>1, <1>6, <1>7, <2>5, <3>1 DEF FileInv, files
  <2> QED
    BY <2>1, <2>2, <2>3, <2>4, <2>5
<1> QED
  BY <1>1, <1>3, <1>5, <1>7 DEF files

(* Steps of p that write the events es. *)
LEMMA WriteStep ==
    ASSUME IInv, TypeOK', NEW p \in Pids, NEW es \in Seq(Unit), Write(p, es),
           UNCHANGED <<program, programs, stream, event>>,
           state[p] \in {"running", "exiting"}, state'[p] # "none",
           \A q \in Pids \ {p} : /\ state'[q] = state[q] /\ eventId'[q] = eventId[q]
                                 /\ buffer'[q] = buffer[q],
           \/ /\ es = buffer[p] /\ buffer'[p] = <<>>
              /\ state'[p] = state[p] /\ eventId'[p] = eventId[p]
           \/ /\ es = Append(buffer[p], Event(p, "trace_end", eventId[p]))
              /\ event[p] # "numbered" /\ state'[p] = "exited" /\ eventId'[p] = eventId[p] + 1
    PROVE  IInv'
<1> USE DEF IInv
<1> DEFINE d == stream[p]
           f == descs[d].file
<1>1. /\ d \in DOMAIN descs /\ DOMAIN descs' = DOMAIN descs /\ f \in Pids
      /\ \A e \in DOMAIN descs : descs'[e].file = descs[e].file /\ descs'[e].by = descs[e].by
      /\ \A e \in DOMAIN descs \ {d} : descs'[e] = descs[e]
      /\ descs'[d].offset = descs[d].offset + Len(es)
      /\ \A q \in Pids : q # f => disk'[q] = disk[q]
      /\ f # p => spoiled' = spoiled \cup {f}
      /\ f = p => spoiled' = spoiled
  BY Writing
<1>2. ASSUME descs[d].offset = Len(disk[f])
      PROVE  /\ Len(disk'[f]) = Len(disk[f]) + Len(es)
             /\ \A i \in 1 .. Len(disk[f]) : disk'[f][i] = disk[f][i]
             /\ \A i \in 1 .. Len(es) : disk'[f][Len(disk[f]) + i] = es[i]
  BY <1>2, Writing
<1>3. \A q \in Pids : (state'[q] # "none") <=> (state[q] # "none")
  OBVIOUS
<1>4. \A q \in Pids : state[q] # "none" => stream[q] \in DOMAIN descs
  BY StreamType
<1> HIDE DEF d, f
<1>5. \A q \in Pids : Owns(q)' <=> Owns(q)
  BY <1>1, <1>3, <1>4 DEF Owns
<1>6. DescInv'
  <2>1. \A e \in DOMAIN descs : descs[e].file \in Pids
    BY DescType
  <2> QED
    BY <1>1, <1>5, <2>1 DEF DescInv
<1>7. OffsetInv'
  <2>1. ASSUME NEW q \in Pids, \A e \in DOMAIN descs' : descs'[e].file # q PROVE disk'[q] = <<>>
    BY <1>1, <2>1 DEF OffsetInv, f
  <2>2. ASSUME NEW q \in Pids, NEW e \in DOMAIN descs', descs'[e].file = q,
               \A c \in DOMAIN descs' : descs'[c].file = q => c = e
        PROVE  descs'[e].offset = Len(disk'[q])
    <3>1. descs[e].offset = Len(disk[q]) /\ e \in DOMAIN descs /\ descs[e].file = q
      BY <1>1, <2>2 DEF OffsetInv
    <3>2. CASE q = f
      <4>1. e = d
        BY <1>1, <2>2, <3>2 DEF f
      <4> QED
        BY <1>1, <1>2, <3>1, <3>2, <4>1
    <3>3. CASE q # f
      <4>1. e # d
        BY <3>1, <3>3 DEF f
      <4> QED
        BY <1>1, <3>1, <3>3, <4>1
    <3> QED
      BY <3>2, <3>3
  <2> QED
    BY <2>1, <2>2 DEF OffsetInv
<1>8. ASSUME NEW q \in Pids \ spoiled', Owns(q) PROVE FileInv(q)'
  <2>1. q \notin spoiled /\ FileInv(q)
    BY <1>1, <1>8
  <2>2. \A e, n : IsEvent(e, q, n)' <=> IsEvent(e, q, n)
    BY DEF IsEvent
  <2>3. CASE q # p
    <3>1. q # f /\ stream[q] # d /\ stream[q] \in DOMAIN descs
      BY <1>1, <1>4, <1>8, <2>3 DEF Owns, f, d
    <3>2. disk'[q] = disk[q] /\ descs'[stream[q]] = descs[stream[q]] /\ Put(q)' = Put(q)
      BY <1>1, <2>3, <3>1 DEF Put
    <3> QED
      BY <2>1, <2>3, <3>2, FileKept
  <2>4. CASE q = p
    <3> DEFINE n == Len(disk[p])
               m == Len(es)
    <3>1. f = p /\ descs[d].offset = Len(disk[f])
      BY <1>8, <2>1, <2>4 DEF Owns, FileInv, f, d
    <3>2. /\ Len(disk'[p]) = n + m /\ descs'[stream'[p]].offset = n + m
          /\ \A i \in 1 .. n : disk'[p][i] = disk[p][i]
          /\ \A i \in 1 .. m : disk'[p][n + i] = es[i]
      BY <1>1, <1>2, <3>1 DEF d
    <3>3. n \in Nat /\ m \in Nat /\ DOMAIN disk[p] = 1 .. n /\ DOMAIN disk'[p] = 1 .. (n + m)
          /\ DOMAIN es = 1 .. m /\ buffer[p] \in Seq(Unit) /\ eventId[p] \in Nat
      <4>1. disk[p] \in Seq(Unit \cup {Hole}) /\ disk'[p] \in Seq(Unit \cup {Hole})
        BY DEF TypeOK
      <4>2. n \in Nat /\ m \in Nat /\ DOMAIN disk[p] = 1 .. n /\ DOMAIN es = 1 .. m
        BY <4>1
      <4>3. DOMAIN disk'[p] = 1 .. (n + m)
        BY <3>2, <4>1
      <4> QED
        BY <4>2, <4>3 DEF TypeOK
    <3>4. /\ Put(p) = n + Len(buffer[p]) /\ Put(p) > 0
          /\ \A i \in DOMAIN buffer[p] : IsEvent(buffer[p][i], p, n + i) /\ buffer[p][i].kind # "trace_end"
          /\ \A i \in 1 .. n : IsEvent(disk[p][i], p, i) /\ disk[p][i].kind # "trace_end"
      BY <2>1, <2>4, <3>3 DEF FileInv
    <3> HIDE DEF n, m
    <3>5. CASE /\ es = buffer[p] /\ buffer'[p] = <<>>
               /\ state'[p] = state[p] /\ eventId'[p] = eventId[p]
      <4>1. \A i \in 1 .. (n + m) : IsEvent(disk'[p][i], p, i) /\ disk'[p][i].kind # "trace_end"
        <5> TAKE i \in 1 .. (n + m)
        <5>1. CASE i \in 1 .. n
          BY <3>2, <3>4, <5>1
        <5>2. CASE i \notin 1 .. n
          <6>1. i - n \in 1 .. m /\ i = n + (i - n)
            BY <3>3, <5>2
          <6>2. disk'[p][i] = buffer[p][i - n] /\ i - n \in DOMAIN buffer[p]
            BY <3>2, <3>3, <3>5, <6>1
          <6> QED
            BY <3>4, <6>1, <6>2
        <5> QED
          BY <5>1, <5>2
      <4>2. Put(p)' = n + m /\ Len(buffer'[p]) = 0 /\ DOMAIN buffer'[p] = {}
        BY <3>4, <3>5 DEF Put, m
      <4> QED
        BY <2>2, <2>4, <3>2, <3>3, <3>4, <3>5, <4>1, <4>2 DEF FileInv
    <3>6. CASE /\ es = Append(buffer[p], Event(p, "trace_end", eventId[p]))
               /\ event[p] # "numbered" /\ state'[p] = "exited" /\ eventId'[p] = eventId[p] + 1
      <4> DEFINE e == Event(p, "trace_end", eventId[p])
      <4>1. /\ m = Len(buffer[p]) + 1 /\ es[m] = e
            /\ \A i \in 1 .. Len(buffer[p]) : es[i] = buffer[p][i] /\ i \in DOMAIN buffer[p]
        BY <3>3, <3>6 DEF m
      <4>2. e \in Unit /\ e.id = eventId[p] /\ e.pid = p /\ e.program = program[p] /\ e.kind = "trace_end"
        BY <3>3, EventType DEF Event
      <4> HIDE DEF e
      <4>3. eventId[p] = n + Len(buffer[p]) /\ n + m = eventId[p] + 1 /\ eventId[p] > 0
            /\ Len(buffer[p]) \in Nat
        BY <3>3, <3>4, <3>6, <4>1 DEF Put
      <4>4. IsEvent(e, p, n + m)
        BY <3>3, <4>2, <4>3 DEF IsEvent
      <4>5. \A i \in 1 .. (n + m) : /\ IsEvent(disk'[p][i], p, i)
                                    /\ disk'[p][i].kind = "trace_end" <=> i = n + m
        <5> TAKE i \in 1 .. (n + m)
        <5>1. CASE i \in 1 .. n
          <6>1. i # n + m
            BY <3>3, <4>1, <4>3, <5>1
          <6> QED
            BY <3>2, <3>4, <5>1, <6>1
        <5>2. CASE i \notin 1 .. n /\ i # n + m
          <6>1. i - n \in 1 .. Len(buffer[p]) /\ i = n + (i - n) /\ i - n \in 1 .. m
            BY <3>3, <4>1, <4>3, <5>2
          <6>2. disk'[p][i] = buffer[p][i - n] /\ i - n \in DOMAIN buffer[p]
            BY <3>2, <4>1, <6>1
          <6> QED
            BY <3>4, <5>2, <6>1, <6>2
        <5>3. CASE i = n + m
          <6>1. m \in 1 .. m
            BY <3>3, <4>1, <4>3
          <6> QED
            BY <3>2, <4>1, <4>2, <4>4, <5>3, <6>1
        <5> QED
          BY <5>1, <5>2, <5>3
      <4>6. n + m \in 1 .. (n + m) /\ eventId'[p] = n + m /\ n + m > 0
        BY <3>3, <3>6, <4>3
      <4>7. (\A i \in DOMAIN disk[p] : /\ IsEvent(disk[p][i], p, i)
                                       /\ disk[p][i].kind = "trace_end" =>
                                             state[p] = "exited" /\ i = eventId[p])'
        <5>1. \A i \in 1 .. (n + m) : IsEvent(disk[p][i], p, i)'
          BY <2>2, <2>4, <4>5
        <5>2. \A i \in 1 .. (n + m) : disk'[p][i].kind = "trace_end" =>
                                          state'[p] = "exited" /\ i = eventId'[p]
          BY <3>6, <4>5, <4>6
        <5> QED
          BY <3>3, <5>1, <5>2
      <4>8. disk'[p][eventId'[p]].kind = "trace_end" /\ Len(disk'[p]) = eventId'[p]
        BY <3>2, <4>5, <4>6
      <4>9. state'[p] \notin {"running", "exiting"} /\ eventId'[p] > 0
            /\ descs'[stream'[p]].offset = Len(disk'[p])
        BY <3>2, <3>6, <4>6
      <4> QED
        BY <2>4, <4>7, <4>8, <4>9 DEF FileInv
    <3> QED
      BY <3>5, <3>6
  <2> QED
    BY <2>3, <2>4
<1> QED
  BY <1>5, <1>6, <1>7, <1>8

LEMMA ForkStep ==
    ASSUME IInv, TypeOK', NEW p \in Pids, NEW q \in Pids, Fork(p, q)
    PROVE  IInv'
<1> USE DEF IInv
<1>1. /\ UNCHANGED <<programs, descs, disk, spoiled>>
      /\ state[p] # "none" /\ state[q] = "none" /\ state'[q] # "none"
      /\ stream'[q] = stream[p] /\ stream[p] \in DOMAIN descs
      /\ \A u \in Pids \ {q} : /\ state'[u] = state[u] /\ event'[u] = event[u]
                               /\ eventId'[u] = eventId[u] /\ buffer'[u] = buffer[u]
                               /\ stream'[u] = stream[u] /\ program'[u] = program[u]
  BY DEF Fork, Inherit, TypeOK
<1>2. descs[stream[p]].file # q
  BY <1>1 DEF DescInv, Owns
<1>3. \A u \in Pids : Owns(u)' <=> Owns(u)
  BY <1>1, <1>2 DEF Owns
<1>4. \A d \in DOMAIN descs : descs[d].file \in Pids
  BY DescType
<1>5. DescInv' /\ OffsetInv'
  BY <1>1, <1>3, <1>4 DEF DescInv, OffsetInv
<1>6. ASSUME NEW u \in Pids \ spoiled, Owns(u), FileInv(u) PROVE FileInv(u)'
  <2>1. u # q
    BY <1>1, <1>6 DEF Owns
  <2>3. Put(u)' = Put(u)
    BY <1>1, <2>1 DEF Put
  <2> QED
    BY <1>1, <1>6, <2>1, <2>3, FileKept
<1> QED
  BY <1>1, <1>3, <1>5, <1>6

LEMMA ExecStep ==
    ASSUME IInv, TypeOK', NEW p \in Pids, Exec(p)
    PROVE  IInv'
<1> USE DEF IInv
<1> DEFINE n == Len(descs)
           d == [file |-> p, by |-> programs + 1, offset |-> 0]
           e == [pid |-> p, program |-> programs + 1, kind |-> "trace_start", id |-> 0]
<1>1. /\ n \in Nat /\ DOMAIN descs = 1 .. n /\ DOMAIN descs' = 1 .. (n + 1)
      /\ descs'[n + 1] = d
      /\ \A c \in 1 .. n : descs'[c] = descs[c]
  <2> DEFINE T == [file : Pids, by : Nat, offset : Nat]
  <2>1. descs' = Append(descs, d)
    BY DEF Exec, Main, OpenLog
  <2>2. d \in T /\ descs \in Seq(T)
    BY DEF TypeOK
  <2> HIDE DEF d, T, n
  <2>3. /\ DOMAIN descs = 1 .. Len(descs) /\ Len(descs) \in Nat
        /\ DOMAIN descs' = 1 .. (Len(descs) + 1) /\ descs'[Len(descs) + 1] = d
        /\ \A c \in 1 .. Len(descs) : descs'[c] = descs[c]
    BY <2>1, <2>2, Appending
  <2> QED
    BY <2>3 DEF n
<1>2. /\ state' = state /\ state[p] = "running" /\ spoiled' = spoiled \ {p}
      /\ disk'[p] = <<>> /\ stream'[p] = n + 1 /\ eventId'[p] = 1 /\ event'[p] = "none"
      /\ buffer'[p] = <<e>> /\ programs' = programs + 1 /\ program'[p] = programs + 1
  <2>1. Len(descs') = n + 1
    BY <1>1 DEF TypeOK
  <2> QED
    BY <2>1 DEF Exec, Main, OpenLog, TypeOK
<1>3. \A u \in Pids \ {p} : /\ disk'[u] = disk[u] /\ stream'[u] = stream[u] /\ event'[u] = event[u]
                            /\ eventId'[u] = eventId[u] /\ buffer'[u] = buffer[u]
                            /\ program'[u] = program[u]
  BY DEF Exec, Main, OpenLog, TypeOK
<1>4. \A u \in Pids : state[u] # "none" => stream[u] \in 1 .. n
  <2> SUFFICES ASSUME NEW u \in Pids, state[u] # "none" PROVE stream[u] \in 1 .. n
    OBVIOUS
  <2>1. stream[u] \in 0 .. n /\ stream[u] # 0
    BY Values DEF TypeOK
  <2> QED
    BY <1>1, <2>1
<1> HIDE DEF n
<1>5. /\ \A c \in 1 .. n : c \in 1 .. (n + 1) /\ c < n + 1
      /\ \A c \in 1 .. (n + 1) : c \in 1 .. n \/ c = n + 1
      /\ n + 1 \in 1 .. (n + 1)
      /\ programs \in Nat
  <2>1. programs \in Nat
    BY DEF TypeOK
  <2> QED
    BY <1>1, <2>1
<1>6. Owns(p)' /\ \A u \in Pids \ {p} : Owns(u)' <=> Owns(u)
  BY <1>1, <1>2, <1>3, <1>4, <1>5 DEF Owns
<1>7. \A c \in 1 .. n : descs[c] \in [file : Pids, by : Nat, offset : Nat]
  BY <1>1, DescType
<1> DEFINE m == n + 1
           k == programs + 1
<1>12. /\ DOMAIN descs' = 1 .. m /\ m \in 1 .. m /\ descs'[m].file = p /\ descs'[m].by = k
       /\ descs'[m].offset = 0 /\ programs' = k /\ k \in Nat /\ programs < k
       /\ \A c \in 1 .. m : c \in 1 .. n \/ c = m
       /\ \A c \in 1 .. n : /\ c \in 1 .. m /\ c < m /\ descs'[c] = descs[c]
                             /\ descs[c].by \in Nat /\ descs[c].file \in Pids
  BY <1>1, <1>2, <1>5, <1>7
<1> HIDE DEF m, k
<1>8. DescInv'
  <2> DEFINE OwnsNow(u) == state'[u] # "none" /\ descs'[stream'[u]].file = u
  <2>3. OwnsNow(p) /\ \A u \in Pids : Owns(u) => OwnsNow(u)
    BY <1>6 DEF Owns
  <2> HIDE DEF OwnsNow
  <2>1. \A c \in DOMAIN descs' : OwnsNow(descs'[c].file) /\ descs'[c].by <= programs'
    <3> SUFFICES ASSUME NEW c \in 1 .. m
                 PROVE  OwnsNow(descs'[c].file) /\ descs'[c].by <= programs'
      BY <1>12
    <3>1. CASE c = m
      <4>1. descs'[c].file = p /\ OwnsNow(p)
        BY <1>12, <2>3, <3>1
      <4>2. descs'[c].by <= programs'
        BY <1>12, <3>1
      <4> QED
        BY <4>1, <4>2
    <3>2. CASE c \in 1 .. n
      <4>1. Owns(descs[c].file) /\ descs[c].by <= programs /\ descs[c].file \in Pids /\ descs[c].by \in Nat
        BY <1>1, <1>7, <3>2 DEF DescInv
      <4>2. OwnsNow(descs[c].file)
        BY <2>3, <4>1
      <4>3. descs'[c] = descs[c]
        BY <1>12, <3>2
      <4>4. descs[c].by <= programs'
        BY <1>5, <1>12, <4>1
      <4> QED
        BY <4>2, <4>3, <4>4
    <3> QED
      BY <1>12, <3>1, <3>2
  <2>2. ASSUME NEW b \in 1 .. m, NEW c \in 1 .. m, b < c
        PROVE  descs'[b].by < descs'[c].by
    <3>1. b \in 1 .. n /\ descs'[b] = descs[b] /\ descs[b].by <= programs /\ descs[b].by \in Nat
      <4>1. b \in 1 .. n
        BY <1>1, <2>2 DEF m
      <4> QED
        BY <1>1, <1>12, <4>1 DEF DescInv
    <3>2. CASE c = m
      BY <1>5, <1>12, <3>1, <3>2
    <3>3. CASE c \in 1 .. n
      BY <1>1, <2>2, <3>1, <3>3 DEF DescInv
    <3> QED
      BY <1>12, <3>2, <3>3
  <2> QED
    BY <1>12, <2>1, <2>2 DEF DescInv, Owns, OwnsNow
<1>9. OffsetInv'
  <2>1. ASSUME NEW u \in Pids, \A c \in 1 .. (n + 1) : descs'[c].file # u PROVE disk'[u] = <<>>
    <3>1. u # p
      BY <1>1, <1>5, <2>1
    <3>2. \A c \in 1 .. n : descs[c].file # u
      BY <1>1, <1>5, <2>1
    <3> QED
      BY <1>1, <1>3, <3>1, <3>2 DEF OffsetInv
  <2>2. ASSUME NEW u \in Pids, NEW c \in 1 .. (n + 1), descs'[c].file = u,
               \A b \in 1 .. (n + 1) : descs'[b].file = u => b = c
        PROVE  descs'[c].offset = Len(disk'[u])
    <3>1. CASE u = p
      <4>1. c = n + 1
        BY <1>1, <1>5, <2>2, <3>1
      <4> QED
        BY <1>1, <1>2, <3>1, <4>1
    <3>2. CASE u # p
      <4>1. c \in 1 .. n
        BY <1>1, <1>5, <2>2, <3>2
      <4>2. descs[c].offset = Len(disk[u])
        BY <1>1, <1>5, <2>2, <4>1 DEF OffsetInv
      <4> QED
        BY <1>1, <1>3, <3>2, <4>1, <4>2
    <3> QED
      BY <3>1, <3>2
  <2> QED
    BY <1>1, <2>1, <2>2 DEF OffsetInv
<1>10. FileInv(p)'
  <2>1. e \in Unit /\ e.id = 0 /\ e.pid = p /\ e.program = program'[p] /\ e.kind = "trace_start"
    BY <1>2, <1>5 DEF Unit
  <2>2. Len(buffer'[p]) = 1 /\ DOMAIN buffer'[p] = {1} /\ buffer'[p][1] = e
    BY <1>2
  <2>3. Len(disk'[p]) = 0 /\ DOMAIN disk'[p] = {}
    BY <1>2
  <2>4. Put(p)' = 1
    BY <1>2 DEF Put
  <2>5. descs'[stream'[p]].offset = 0 /\ state'[p] = "running"
    BY <1>2, <1>12 DEF m
  <2> HIDE DEF e
  <2>6. IsEvent(buffer[p][1], p, 1)'
    BY <2>1, <2>2 DEF IsEvent
  <2> QED
    BY <2>1, <2>2, <2>3, <2>4, <2>5, <2>6 DEF FileInv
<1>11. ASSUME NEW u \in Pids \ {p}, Owns(u), FileInv(u) PROVE FileInv(u)'
  <2>1. \A x, i : IsEvent(x, u, i)' <=> IsEvent(x, u, i)
    BY <1>3 DEF IsEvent
  <2>2. Put(u)' = Put(u)
    BY <1>3 DEF Put
  <2>3. stream[u] \in 1 .. n
    BY <1>4, <1>11 DEF Owns
  <2>4. descs'[stream'[u]] = descs[stream[u]]
    BY <1>1, <1>3, <2>3
  <2>5. /\ disk'[u] = disk[u] /\ buffer'[u] = buffer[u] /\ eventId'[u] = eventId[u]
        /\ state'[u] = state[u]
    BY <1>2, <1>3
  <2> QED
    BY <1>11, <2>1, <2>2, <2>4, <2>5 DEF FileInv
<1> QED
  BY <1>2, <1>6, <1>8, <1>9, <1>10, <1>11

LEMMA InvInit == Init => IInv
<1> SUFFICES ASSUME Init PROVE IInv
  OBVIOUS
<1> USE ProcessAssumption
<1>1. TypeOK
  BY TypeInit
<1> DEFINE e == Event(First, "trace_start", 0)
<1>2. /\ Len(descs) = 1 /\ DOMAIN descs = {1} /\ descs[1] = [file |-> First, by |-> 1, offset |-> 0]
      /\ state[First] = "running" /\ stream[First] = 1 /\ event[First] = "none"
      /\ program[First] = 1 /\ eventId[First] = 1
      /\ buffer[First] = <<e>>
      /\ \A p \in Pids : disk[p] = <<>>
      /\ \A p \in Pids \ {First} : state[p] = "none"
      /\ programs = 1
  BY DEF Init
<1>3. Owns(First) /\ \A p \in Pids : Owns(p) => p = First
  BY <1>2 DEF Owns
<1>4. DescInv
  BY <1>2, <1>3 DEF DescInv
<1>5. \A p \in Pids : Len(disk[p]) = 0 /\ DOMAIN disk[p] = {}
  <2>1. Len(<<>>) = 0 /\ DOMAIN <<>> = {}
    OBVIOUS
  <2> QED
    BY <1>2, <2>1
<1>6. OffsetInv
  <2>1. \A d \in DOMAIN descs : descs[d].offset = 0
    BY <1>2
  <2> QED
    BY <1>2, <1>5, <2>1 DEF OffsetInv
<1>7. FileInv(First)
  <2>1. IsEvent(e, First, 1)
    BY <1>1, <1>2, EventType DEF IsEvent, Event
  <2>2. Len(buffer[First]) = 1 /\ DOMAIN buffer[First] = {1} /\ buffer[First][1] = e /\ Put(First) = 1
    BY <1>2 DEF Put
  <2>3. e.kind = "trace_start"
    BY DEF Event
  <2> HIDE DEF e
  <2> QED
    BY <1>2, <1>5, <2>1, <2>2, <2>3 DEF FileInv
<1> QED
  BY <1>1, <1>3, <1>4, <1>6, <1>7 DEF IInv

LEMMA InvStep == IInv /\ LockInv /\ [Next]_vars => IInv'
<1> SUFFICES ASSUME IInv, LockInv, [Next]_vars PROVE IInv'
  OBVIOUS
<1>1. TypeOK /\ TypeOK'
  BY TypeStep DEF IInv
<1>2. ASSUME NEW p \in Pids, Spill(p) PROVE IInv'
  <2>1. /\ buffer[p] \in Seq(Unit) /\ Write(p, buffer[p]) /\ state[p] = "running"
        /\ UNCHANGED <<program, programs, stream, event, state, eventId>>
        /\ buffer'[p] = <<>> /\ \A q \in Pids \ {p} : buffer'[q] = buffer[q]
    BY <1>1, <1>2 DEF Spill, TypeOK, locking
  <2> QED
    BY <1>1, <2>1, WriteStep
<1>3. ASSUME NEW p \in Pids, CloseLog(p) PROVE IInv'
  <2> DEFINE es == Append(buffer[p], Event(p, "trace_end", eventId[p]))
  <2>1. es \in Seq(Unit)
    BY <1>1, Closing
  <2>2. /\ Write(p, es) /\ state[p] = "exiting" /\ event[p] # "numbered"
        /\ UNCHANGED <<program, programs, stream, event>>
        /\ state'[p] = "exited" /\ eventId'[p] = eventId[p] + 1
        /\ \A q \in Pids \ {p} : /\ state'[q] = state[q] /\ eventId'[q] = eventId[q]
                                 /\ buffer'[q] = buffer[q]
    <3>1. event[p] # "numbered"
      BY <1>3 DEF CloseLog, LockInv, Locks
    <3> QED
      BY <1>1, <1>3, <3>1 DEF CloseLog, TypeOK, locking
  <2> QED
    BY <1>1, <2>1, <2>2, WriteStep
<1>4. CASE Over \/ UNCHANGED vars
  <2>1. UNCHANGED vars
    BY <1>4 DEF Over
  <2>2. \A p \in Pids : Owns(p)' <=> Owns(p)
    BY <2>1 DEF Owns, vars, tracer, files
  <2>3. DescInv'
    BY <2>1 DEF Owns, vars, tracer, files, DescInv, IInv
  <2>4. OffsetInv'
    BY <2>1 DEF vars, files, OffsetInv, IInv
  <2>5. ASSUME NEW p \in Pids \ spoiled, Owns(p) PROVE FileInv(p)'
    <3>1. FileInv(p)
      BY <2>5 DEF IInv
    <3>2. \A e, n : IsEvent(e, p, n)' <=> IsEvent(e, p, n)
      BY <2>1 DEF IsEvent, vars, tracer
    <3>3. Put(p)' = Put(p)
      BY <2>1 DEF Put, vars, tracer, locking
    <3> QED
      BY <2>1, <3>1, <3>2, <3>3 DEF FileInv, vars, tracer, files
  <2> QED
    BY <1>1, <2>1, <2>2, <2>3, <2>4, <2>5 DEF IInv, vars, files
<1> QED
  <2>1. {"state", "counter"} \subseteq Locks /\ Locks # {}
    BY DEF Locks
  <2>2. \A p \in Pids, l \in Locks :
           Locking(p, l) \/ EndEvent(p) \/ BeginExit(p) \/ Dies(p) => IInv'
    BY <1>1, LocalStep
  <2>3. ASSUME NEW p \in Pids, \/ BeginEvent(p) \/ LockThreads(p) \/ NumberEvent(p)
                               \/ \E l \in {"state", "counter"} : EnterThread(p, l) \/ LeaveThread(p, l)
                               \/ EndEvent(p) \/ BeginExit(p) \/ OpenLogFails(p) \/ Kill(p)
        PROVE  IInv'
    BY <2>1, <2>2, <2>3 DEF Locking, Dies
  <2> QED
    BY <1>1, <1>2, <1>3, <1>4, <2>3, ForkStep, ExecStep DEF Next

LEMMA Invariant == Spec => []IInv
BY InvInit, InvStep, LockInvariant, PTL DEF Spec

(* The file of a process that no other process has written to is the trace *)
(* of its last program, in order and without a hole or a copy, whole if    *)
(* the program ended by itself, for any number of processes and programs   *)
(* that fork, execute and are killed.                                      *)
THEOREM FilesAreTraces == Spec => []OwnFileIsATrace
<1>1. IInv => OwnFileIsATrace
  <2> SUFFICES ASSUME IInv, NEW p \in Pids \ spoiled
               PROVE  /\ \A i \in DOMAIN disk[p] :
                            /\ disk[p][i] # Hole
                            /\ disk[p][i].id = i - 1
                            /\ disk[p][i].pid = p
                            /\ disk[p][i].program = program[p]
                            /\ (disk[p][i].kind = "trace_start") <=> (i = 1)
                            /\ disk[p][i].kind = "trace_end" => i = eventId[p]
                      /\ state[p] = "exited" /\ Owns(p) =>
                            /\ Len(disk[p]) = eventId[p]
                            /\ disk[p][eventId[p]].kind = "trace_end"
    BY DEF OwnFileIsATrace
  <2>1. CASE Owns(p)
    <3>1. FileInv(p)
      BY <2>1 DEF IInv
    <3>2. ASSUME NEW i \in DOMAIN disk[p]
          PROVE  /\ disk[p][i] # Hole
                 /\ disk[p][i].id = i - 1
                 /\ disk[p][i].pid = p
                 /\ disk[p][i].program = program[p]
                 /\ (disk[p][i].kind = "trace_start") <=> (i = 1)
                 /\ disk[p][i].kind = "trace_end" => i = eventId[p]
      <4>1. IsEvent(disk[p][i], p, i) /\ (disk[p][i].kind = "trace_end" => i = eventId[p])
        BY <3>1, <3>2 DEF FileInv
      <4>2. disk[p][i] # Hole
        BY <4>1, ProcessAssumption DEF IsEvent
      <4> QED
        BY <4>1, <4>2 DEF IsEvent
    <3>3. state[p] = "exited" => /\ Len(disk[p]) = eventId[p]
                                 /\ disk[p][eventId[p]].kind = "trace_end"
      BY <3>1 DEF FileInv
    <3> QED
      BY <3>2, <3>3
  <2>2. CASE ~Owns(p)
    <3>1. disk[p] = <<>>
      BY <2>2 DEF IInv, DescInv, OffsetInv
    <3> QED
      BY <2>2, <3>1
  <2> QED
    BY <2>1, <2>2
<1> QED
  BY <1>1, Invariant, PTL

(* Nobody overwrites what another process has written to a file that only  *)
(* one program has opened.                                                 *)
THEOREM SharersAppend == Spec => WritesAppend
<1> DEFINE Appends(p) ==
      (\A d, e \in DOMAIN descs' : descs'[d].file = p /\ descs'[e].file = p =>
           descs'[d].by = descs'[e].by)
      => /\ Len(disk[p]) <= Len(disk'[p])
         /\ SubSeq(disk'[p], 1, Len(disk[p])) = disk[p]
<1>1. IInv /\ IInv' /\ [Next]_vars => [\A p \in Pids : Appends(p)]_vars
  <2> SUFFICES ASSUME IInv, IInv', [Next]_vars, NEW p \in Pids,
                      \A d, e \in DOMAIN descs' : descs'[d].file = p /\ descs'[e].file = p =>
                          descs'[d].by = descs'[e].by
               PROVE  /\ Len(disk[p]) <= Len(disk'[p])
                      /\ SubSeq(disk'[p], 1, Len(disk[p])) = disk[p]
    OBVIOUS
  <2>1. disk[p] \in Seq(Unit \cup {Hole}) /\ disk'[p] \in Seq(Unit \cup {Hole})
    BY DEF IInv, TypeOK
  <2>2. DOMAIN descs' = 1 .. Len(descs') /\ Len(descs') \in Nat /\ DOMAIN descs = 1 .. Len(descs)
        /\ Len(descs) \in Nat
    BY DEF IInv, TypeOK
  <2>3. ASSUME NEW d \in DOMAIN descs', NEW e \in DOMAIN descs', descs'[d].file = p, descs'[e].file = p
        PROVE  d = e
    <3>1. descs'[d].by = descs'[e].by /\ descs'[d].by \in Nat
      <4>1. descs'[d] \in [file : Pids, by : Nat, offset : Nat]
        <5> DEFINE T == [file : Pids, by : Nat, offset : Nat]
        <5>1. descs' \in Seq(T)
          BY DEF IInv, TypeOK
        <5> HIDE DEF T
        <5>2. descs'[d] \in T
          BY <2>3, <5>1
        <5> QED
          BY <5>2 DEF T
      <4> QED
        BY <2>3, <4>1
    <3>2. ~(d < e) /\ ~(e < d)
      BY <3>1 DEF IInv, DescInv
    <3> QED
      BY <2>2, <3>2
  <2>4. CASE disk'[p] = disk[p]
    BY <2>1, <2>4
  <2>5. ASSUME NEW q \in Pids, state[q] # "none", NEW es \in Seq(Unit), Write(q, es)
        PROVE  /\ Len(disk[p]) <= Len(disk'[p])
               /\ SubSeq(disk'[p], 1, Len(disk[p])) = disk[p]
    <3> DEFINE d == stream[q]
    <3>3. TypeOK /\ DescInv /\ OffsetInv
      BY DEF IInv
    <3>1. /\ d \in DOMAIN descs /\ DOMAIN descs' = DOMAIN descs
          /\ \A c \in DOMAIN descs : descs'[c].file = descs[c].file
          /\ p # descs[d].file => disk'[p] = disk[p]
          /\ p = descs[d].file /\ descs[d].offset = Len(disk[p]) =>
                /\ Len(disk'[p]) = Len(disk[p]) + Len(es)
                /\ \A i \in 1 .. Len(disk[p]) : disk'[p][i] = disk[p][i]
      <4>1. stream[q] \in DOMAIN descs /\ DOMAIN descs' = DOMAIN descs
        BY <2>5, <3>3, Writing
      <4>2. \A c \in DOMAIN descs : descs'[c].file = descs[c].file
        BY <2>5, <3>3, Writing
      <4>3. p # descs[stream[q]].file => disk'[p] = disk[p]
        BY <2>5, <3>3, Writing
      <4> DEFINE f == descs[stream[q]].file
      <4>4. descs[stream[q]].offset = Len(disk[f]) =>
                /\ Len(disk'[f]) = Len(disk[f]) + Len(es)
                /\ \A i \in 1 .. Len(disk[f]) : disk'[f][i] = disk[f][i]
        BY <2>5, <3>3, Writing
      <4>5. p = f /\ descs[stream[q]].offset = Len(disk[p]) =>
                /\ Len(disk'[p]) = Len(disk[p]) + Len(es)
                /\ \A i \in 1 .. Len(disk[p]) : disk'[p][i] = disk[p][i]
        BY <4>4
      <4> QED
        BY <4>1, <4>2, <4>3, <4>5
    <3> HIDE DEF d
    <3>2. CASE p = descs[d].file
      <4>1. descs[d].offset = Len(disk[p])
        BY <2>3, <3>1, <3>2 DEF IInv, OffsetInv
      <4>2. Len(es) \in Nat
        OBVIOUS
      <4> QED
        BY <2>1, <3>1, <3>2, <4>1, <4>2
    <3> QED
      BY <2>4, <3>1, <3>2
  <2>6. ASSUME NEW q \in Pids, Exec(q) PROVE /\ Len(disk[p]) <= Len(disk'[p])
                                             /\ SubSeq(disk'[p], 1, Len(disk[p])) = disk[p]
    <3>1. CASE q # p
      <4>1. disk'[p] = disk[p]
        BY <2>6, <3>1 DEF Exec, Main, OpenLog, IInv, TypeOK
      <4> QED
        BY <2>4, <4>1
    <3>2. CASE q = p
      <4> DEFINE n == Len(descs)
                 x == [file |-> p, by |-> programs + 1, offset |-> 0]
      <4>1. descs' = Append(descs, x)
        BY <2>6, <3>2 DEF Exec, Main, OpenLog
      <4> HIDE DEF x
      <4>2. Len(descs') = n + 1 /\ descs'[n + 1] = x /\ \A d \in 1 .. n : descs'[d] = descs[d]
        BY <4>1 DEF IInv, TypeOK
      <4>3. \A d \in DOMAIN descs : descs[d].file # p
        <5> SUFFICES ASSUME NEW d \in DOMAIN descs, descs[d].file = p PROVE FALSE
          OBVIOUS
        <5>1. d \in DOMAIN descs' /\ n + 1 \in DOMAIN descs' /\ d # n + 1 /\ descs'[d].file = p
          BY <2>2, <4>2
        <5>2. descs'[n + 1].file = p
          BY <4>2 DEF x
        <5> QED
          BY <2>3, <5>1, <5>2
      <4>4. disk[p] = <<>>
        BY <4>3 DEF IInv, OffsetInv
      <4>5. disk'[p] = <<>>
        BY <2>6, <3>2 DEF Exec, Main, OpenLog, IInv, TypeOK
      <4> QED
        BY <2>4, <4>4, <4>5
    <3> QED
      BY <3>1, <3>2
  <2>7. ASSUME NEW q \in Pids, Spill(q) \/ CloseLog(q)
        PROVE  /\ Len(disk[p]) <= Len(disk'[p])
               /\ SubSeq(disk'[p], 1, Len(disk[p])) = disk[p]
    <3>1. buffer[q] \in Seq(Unit) /\ Append(buffer[q], Event(q, "trace_end", eventId[q])) \in Seq(Unit)
      BY Closing, Values DEF IInv
    <3> QED
      BY <2>5, <2>7, <3>1 DEF Spill, CloseLog
  <2>8. ASSUME NEW q \in Pids, \/ BeginEvent(q) \/ LockThreads(q) \/ NumberEvent(q)
                               \/ \E l \in {"state", "counter"} : EnterThread(q, l) \/ LeaveThread(q, l)
                               \/ EndEvent(q) \/ BeginExit(q) \/ OpenLogFails(q) \/ Kill(q)
                               \/ \E u \in Pids : Fork(q, u)
        PROVE  disk'[p] = disk[p]
    BY <2>8 DEF BeginEvent, LockThreads, NumberEvent, EnterThread, LeaveThread, EndEvent, BeginExit,
                OpenLogFails, Kill, Die, Fork, files
  <2>9. CASE Over \/ UNCHANGED vars
    BY <2>4, <2>9 DEF Over, vars, files
  <2> QED
    BY <2>4, <2>6, <2>7, <2>8, <2>9 DEF Next
<1> QED
  BY <1>1, Invariant, InvStep, PTL DEF Spec, WritesAppend
==============================================================================
