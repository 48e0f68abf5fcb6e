---------------------------- MODULE ReaderProofs ----------------------------
(***************************************************************************)
(* Theorems about TraceFile and MicroOps, the two halves of reading a      *)
(* trace back.  Of the file: for any sizes of events, any number of them   *)
(* and any point at which the tracer is killed.  Of the micro-ops of one   *)
(* micro-event log: for any sizes of words and of bytes and any number of  *)
(* micro-ops.                                                              *)
(***************************************************************************)
EXTENDS TraceFile, MicroOps, FiniteSetTheorems, SequenceTheorems,
        NaturalsInduction, WellFoundedInduction, TLAPS

----------------------------------------------------------------------------
(* What a read may find. *)

LEMMA EventValues ==
    ASSUME TypeOK, NEW i \in DOMAIN events
    PROVE  /\ events[i] \in [start : Nat, size : BodySizes]
           /\ events[i].start \in Nat /\ events[i].size \in Nat \ {0}
           /\ End(events[i]) \in Nat
           /\ End(events[i]) > events[i].start + SizeField
<1> DEFINE T == [start : Nat, size : BodySizes]
<1>1. events \in Seq(T)
  BY DEF TypeOK
<1> HIDE DEF T
<1>2. events[i] \in T
  BY <1>1
<1>3. events[i].start \in Nat /\ events[i].size \in Nat \ {0} /\ SizeField \in Nat
  BY <1>2, FileAssumption DEF T
<1> QED
  BY <1>2, <1>3 DEF T, End

LEMMA NoSizes ==
    ASSUME NEW p, NEW o \in NoSize(p)
    PROVE  \/ p >= length /\ o = [kind |-> "none", cut |-> FALSE, pos |-> p]
           \/ ~(p >= length) /\ o = [kind |-> "error", cut |-> FALSE, pos |-> length]
BY DEF NoSize

LEMMA Reads ==
    ASSUME NEW p, NEW o \in ReadEvent(p)
    PROVE  \/ p + SizeField > length /\ o \in NoSize(p)
           \/ \E i \in DOMAIN events :
                /\ ~(p + SizeField > length)
                /\ events[i].start = p
                /\ IF End(events[i]) <= length
                     THEN o = [kind |-> "event", cut |-> FALSE, pos |-> End(events[i])]
                     ELSE \E k \in {"error", "event"} : o = [kind |-> k, cut |-> TRUE, pos |-> length]
<1>1. CASE p + SizeField > length
  BY <1>1 DEF ReadEvent
<1>2. CASE ~(p + SizeField > length)
  <2> DEFINE found(e) == IF End(e) <= length
                           THEN {[kind |-> "event", cut |-> FALSE, pos |-> End(e)]}
                           ELSE {[kind |-> k, cut |-> TRUE, pos |-> length] : k \in {"error", "event"}}
  <2>1. o \in UNION {found(e) : e \in {events[i] : i \in {j \in DOMAIN events : events[j].start = p}}}
    BY <1>2 DEF ReadEvent
  <2> HIDE DEF found
  <2>2. PICK i \in DOMAIN events : events[i].start = p /\ o \in found(events[i])
    BY <2>1
  <2>3. IF End(events[i]) <= length
          THEN o = [kind |-> "event", cut |-> FALSE, pos |-> End(events[i])]
          ELSE \E k \in {"error", "event"} : o = [kind |-> k, cut |-> TRUE, pos |-> length]
    BY <2>2 DEF found
  <2> QED
    BY <1>2, <2>2, <2>3
<1> QED
  BY <1>1, <1>2

LEMMA ReadType ==
    ASSUME TypeOK, NEW p \in Nat, NEW o \in ReadEvent(p)
    PROVE  o.pos \in Nat /\ o.cut \in BOOLEAN /\ o.kind \in {"none", "error", "event"}
<1>1. length \in Nat
  BY DEF TypeOK
<1>2. CASE o \in NoSize(p)
  <2>1. \/ o = [kind |-> "none", cut |-> FALSE, pos |-> p]
        \/ o = [kind |-> "error", cut |-> FALSE, pos |-> length]
    BY <1>2, NoSizes
  <2>2. o.cut \in BOOLEAN
    <3>1. o.cut = FALSE
      BY <2>1
    <3> QED
      BY <3>1
  <2>3. o.pos \in {p, length} /\ o.kind \in {"none", "error"}
    BY <2>1
  <2> QED
    BY <1>1, <2>2, <2>3
<1>3. ASSUME NEW i \in DOMAIN events,
             IF End(events[i]) <= length
               THEN o = [kind |-> "event", cut |-> FALSE, pos |-> End(events[i])]
               ELSE \E k \in {"error", "event"} : o = [kind |-> k, cut |-> TRUE, pos |-> length]
      PROVE  o.pos \in Nat /\ o.cut \in BOOLEAN /\ o.kind \in {"none", "error", "event"}
  <2>1. End(events[i]) \in Nat
    BY EventValues
  <2>2. \/ o = [kind |-> "event", cut |-> FALSE, pos |-> End(events[i])]
        \/ \E k \in {"error", "event"} : o = [kind |-> k, cut |-> TRUE, pos |-> length]
    BY <1>3
  <2>3. o.cut \in BOOLEAN
    <3>1. o.cut = FALSE \/ o.cut = TRUE
      BY <2>2
    <3> QED
      BY <3>1
  <2>4. o.pos \in {End(events[i]), length} /\ o.kind \in {"error", "event"}
    BY <2>2
  <2> QED
    BY <1>1, <2>1, <2>3, <2>4
<1> QED
  BY <1>2, <1>3, Reads

----------------------------------------------------------------------------
(* Types. *)

LEMMA TypeInit == Init => TypeOK
BY DEF Init, TypeOK

LEMMA TypeStep == TypeOK /\ [Next]_vars => TypeOK'
<1> SUFFICES ASSUME TypeOK, [Next]_vars PROVE TypeOK'
  OBVIOUS
<1>1. CASE PutSize
  <2> DEFINE T == [start : Nat, size : BodySizes]
  <2>1. PICK s \in BodySizes : events' = Append(events, [start |-> put, size |-> s])
    BY <1>1 DEF PutSize
  <2>2. [start |-> put, size |-> s] \in T /\ events \in Seq(T)
    BY DEF TypeOK
  <2> HIDE DEF T
  <2>3. events' \in Seq(T) /\ events' # <<>>
    BY <2>1, <2>2
  <2>4. put' \in Nat
    BY <1>1, FileAssumption DEF PutSize, TypeOK
  <2> QED
    BY <1>1, <2>3, <2>4 DEF PutSize, TypeOK, reader, T
<1>2. CASE PutBody
  <2>1. Len(events) \in DOMAIN events
    BY <1>2 DEF PutBody, TypeOK
  <2>2. put' \in Nat
    BY <1>2, <2>1, EventValues DEF PutBody
  <2> QED
    BY <1>2, <2>2 DEF PutBody, TypeOK, reader
<1>3. CASE Spill \/ CloseLog \/ Kill
  <2>1. CASE Spill
    BY <2>1 DEF Spill, TypeOK, reader
  <2>2. CASE CloseLog
    BY <2>2 DEF CloseLog, TypeOK, reader
  <2>3. CASE Kill
    BY <2>3 DEF Kill, TypeOK, reader
  <2> QED
    BY <1>3, <2>1, <2>2, <2>3
<1>4. CASE Open \/ Events \/ CountEvents
  BY <1>4 DEF Open, Events, CountEvents, MayCall, TypeOK, tracer
<1>5. CASE GetArch
  <2>1. PICK o \in ReadEvent(0) : fp' = o.pos
    BY <1>5 DEF GetArch
  <2>2. fp' \in Nat
    BY <2>1, ReadType
  <2> QED
    BY <1>5, <2>2 DEF GetArch, TypeOK, tracer
<1>6. CASE NextEvent
  <2>1. PICK o \in ReadEvent(fp) :
          \/ /\ o.kind = "event"
             /\ yielded' = Append(yielded, [at |-> fp, cut |-> o.cut])
             /\ fp' = o.pos
             /\ UNCHANGED r
          \/ /\ o.kind = "none"
             /\ r' = "done"
             /\ UNCHANGED <<yielded, fp>>
          \/ /\ o.kind = "error"
             /\ r' = "failed"
             /\ fp' = o.pos
             /\ UNCHANGED yielded
    BY <1>6 DEF NextEvent
  <2> DEFINE T == [at : Nat, cut : BOOLEAN]
  <2>2. o.pos \in Nat /\ [at |-> fp, cut |-> o.cut] \in T /\ yielded \in Seq(T) /\ fp \in Nat
    BY ReadType DEF TypeOK
  <2> HIDE DEF T
  <2>5. Append(yielded, [at |-> fp, cut |-> o.cut]) \in Seq(T)
    BY <2>2
  <2>3. yielded' \in Seq(T) /\ fp' \in Nat
    BY <2>1, <2>2, <2>5
  <2>4. r' \in {"iterating", "done", "failed"}
    BY <1>6, <2>1 DEF NextEvent
  <2> QED
    BY <1>6, <2>3, <2>4 DEF NextEvent, TypeOK, tracer, T
<1>7. CASE CountNext
  <2>1. fp' \in Nat
    <3>1. CASE fp + SizeField > length
      BY <1>7, <3>1, NoSizes DEF CountNext, TypeOK
    <3>2. CASE ~(fp + SizeField > length)
      BY <1>7, <3>2, EventValues DEF CountNext
    <3> QED
      BY <3>1, <3>2
  <2> QED
    BY <1>7, <2>1 DEF CountNext, TypeOK, tracer
<1>8. CASE EventAt
  <2>1. PICK k \in DOMAIN yielded : \E o \in ReadEvent(yielded[k].at) : fp' = o.pos
    BY <1>8 DEF EventAt
  <2> DEFINE T == [at : Nat, cut : BOOLEAN]
  <2>2. yielded \in Seq(T)
    BY DEF TypeOK
  <2> HIDE DEF T
  <2>3. yielded[k] \in T
    BY <2>2
  <2>4. fp' \in Nat
    BY <2>1, <2>3, ReadType DEF T
  <2> QED
    BY <1>8, <2>4 DEF EventAt, MayCall, TypeOK, tracer
<1>9. CASE Over \/ UNCHANGED vars
  BY <1>9 DEF Over, vars, tracer, reader, TypeOK
<1> QED
  BY <1>1, <1>2, <1>3, <1>4, <1>5, <1>6, <1>7, <1>8, <1>9 DEF Next, Read

(* Every variable keeps its type, whatever the sizes and bounds. *)
THEOREM TypeCorrect == Spec => []TypeOK
<1> QED
  BY TypeInit, TypeStep, PTL DEF Spec
----------------------------------------------------------------------------
(* The invariant. *)

(* Where the k-th event starts or would start. *)
Boundary(k) == IF k = 1 THEN 0 ELSE End(events[k - 1])

(* Events follow each other, and the stream has been given all of them,    *)
(* but for the body of the last one while or if that is missing.           *)
Layout ==
    /\ \A i \in DOMAIN events : events[i].start = Boundary(i)
    /\ \A i, j \in DOMAIN events : i < j => End(events[i]) <= events[j].start
    /\ length <= put
    /\ put <= Boundary(Len(events) + 1)
    /\ w \in {"open", "closed"} => put = Boundary(Len(events) + 1)
    /\ w = "closed" => length = put /\ Len(events) >= 2

(* What the reader was doing before it counted. *)
Phase == IF r = "counting" THEN back ELSE r

(* events() is at the event after the last one it yielded, or at the end   *)
(* of the file if that was cut.                                            *)
Iterating ==
    \/ fp = Boundary(Len(yielded) + 1) /\ \A k \in DOMAIN yielded : Whole(k)
    \/ fp = length /\ yielded # <<>> /\ ~Whole(Len(yielded))

(* The first n events are those of which there is a byte in the file. *)
Counted(n) == \A i \in DOMAIN events : (i <= n) <=> (events[i].start < length)

ReaderInv ==
    /\ YieldsInOrder
    /\ Phase \in {"unopened", "arch", "ready", "unreadable"} => yielded = <<>>
    /\ r = "unopened" => counted = -1
    /\ r = "iterating" => Iterating
    /\ Phase \in {"done", "failed"} => \A i \in DOMAIN events : Whole(i) => i <= Len(yielded)
    /\ r = "counting" => /\ fp = Boundary(count + 1) /\ count <= Len(events)
                         /\ back \in {"ready", "done"}
                         /\ \A i \in DOMAIN events : i <= count => events[i].start < length
    /\ counted # -1 => Counted(counted)
    /\ w = "closed" => /\ r \notin {"failed", "call_failed", "unreadable"}
                       /\ counted \in {-1, Len(events)}

IInv == TypeOK /\ Layout /\ ReaderInv

LEMMA Boundaries ==
    ASSUME TypeOK, Layout
    PROVE  /\ Len(events) \in Nat /\ DOMAIN events = 1 .. Len(events)
           /\ \A k \in 1 .. (Len(events) + 1) : Boundary(k) \in Nat
           /\ \A k \in DOMAIN events : /\ events[k].start = Boundary(k)
                                        /\ End(events[k]) = Boundary(k + 1)
                                        /\ Boundary(k + 1) > Boundary(k) + SizeField
           /\ \A i \in DOMAIN events : \A k \in 1 .. (Len(events) + 1) :
                 /\ i < k => Boundary(i + 1) <= Boundary(k)
                 /\ k <= i => Boundary(i + 1) > Boundary(k) + SizeField
<1> DEFINE n == Len(events)
<1>1. n \in Nat /\ DOMAIN events = 1 .. n
  BY DEF TypeOK
<1> HIDE DEF n
<1>2. \A k \in DOMAIN events : /\ events[k].start \in Nat /\ End(events[k]) \in Nat
                               /\ End(events[k]) > events[k].start + SizeField
  BY EventValues
<1>3. ASSUME NEW k \in 1 .. (n + 1) PROVE Boundary(k) \in Nat
  <2>1. CASE k = 1
    BY <2>1 DEF Boundary
  <2>2. CASE k # 1
    <3>1. k - 1 \in DOMAIN events
      BY <1>1, <2>2
    <3> QED
      BY <1>2, <2>2, <3>1 DEF Boundary
  <2> QED
    BY <2>1, <2>2
<1>4. ASSUME NEW k \in DOMAIN events
      PROVE  /\ events[k].start = Boundary(k)
             /\ End(events[k]) = Boundary(k + 1)
             /\ Boundary(k + 1) > Boundary(k) + SizeField
  <2>1. events[k].start = Boundary(k)
    BY DEF Layout
  <2>2. k + 1 # 1 /\ (k + 1) - 1 = k
    BY <1>1
  <2>3. End(events[k]) = Boundary(k + 1)
    BY <2>2 DEF Boundary
  <2> QED
    BY <1>2, <2>1, <2>3
<1>5. ASSUME NEW i \in DOMAIN events, NEW k \in 1 .. (n + 1)
      PROVE  /\ i < k => Boundary(i + 1) <= Boundary(k)
             /\ k <= i => Boundary(i + 1) > Boundary(k) + SizeField
  <2>1. SizeField \in Nat /\ i \in 1 .. n /\ i \in 1 .. (n + 1) /\ i + 1 \in 1 .. (n + 1)
    BY <1>1, FileAssumption
  <2>2. Boundary(k) \in Nat /\ Boundary(i) \in Nat /\ Boundary(i + 1) \in Nat
    BY <1>3, <2>1
  <2>3. CASE k = i + 1 \/ k = i
    BY <1>4, <2>1, <2>2, <2>3
  <2>4. CASE i + 1 < k
    <3>1. k - 1 \in DOMAIN events /\ i < k - 1 /\ (k - 1) + 1 = k
      BY <1>1, <2>1, <2>4
    <3>2. End(events[i]) <= events[k - 1].start
      BY <3>1 DEF Layout
    <3>3. events[k - 1].start \in Nat /\ End(events[k - 1]) = Boundary(k)
          /\ End(events[k - 1]) > events[k - 1].start + SizeField
      BY <1>2, <1>4, <3>1
    <3>4. Boundary(i + 1) <= Boundary(k)
      BY <1>4, <2>1, <2>2, <3>2, <3>3
    <3> QED
      BY <2>1, <2>4, <3>4
  <2>5. CASE k < i
    <3>1. k \in DOMAIN events
      BY <1>1, <2>1, <2>5
    <3>2. End(events[k]) <= events[i].start
      BY <2>5, <3>1 DEF Layout
    <3>3. End(events[k]) > events[k].start + SizeField /\ events[k].start = Boundary(k)
          /\ End(events[i]) > events[i].start + SizeField /\ End(events[i]) = Boundary(i + 1)
          /\ events[i].start \in Nat /\ End(events[k]) \in Nat
      BY <1>2, <1>4, <3>1
    <3> QED
      BY <2>1, <2>2, <2>5, <3>2, <3>3
  <2> QED
    BY <1>1, <2>1, <2>3, <2>4, <2>5
<1> QED
  BY <1>1, <1>3, <1>4, <1>5 DEF n

(* No two events start where one does. *)
LEMMA StartsOnce ==
    ASSUME TypeOK, Layout, NEW k \in 1 .. (Len(events) + 1), NEW i \in DOMAIN events,
           events[i].start = Boundary(k)
    PROVE  k = i
<1> DEFINE p == Boundary(k)
<1>1. p \in Nat /\ SizeField \in Nat
  BY Boundaries, FileAssumption
<1> HIDE DEF p
<1>2. Boundary(i) = p /\ Boundary(i) \in Nat /\ Boundary(i + 1) > Boundary(i) + SizeField
  BY Boundaries DEF p
<1>3. ~(i < k)
  BY <1>1, <1>2, Boundaries DEF p
<1>4. ~(k < i)
  <2> SUFFICES ASSUME k < i PROVE FALSE
    OBVIOUS
  <2>1. k \in DOMAIN events /\ i \in 1 .. (Len(events) + 1)
    BY Boundaries
  <2>2. Boundary(k + 1) > p + SizeField /\ Boundary(k + 1) <= Boundary(i) /\ k + 1 \in 1 .. (Len(events) + 1)
    BY <2>1, Boundaries DEF p
  <2>3. Boundary(k + 1) \in Nat
    BY <2>2, Boundaries
  <2> QED
    BY <1>1, <1>2, <2>2, <2>3
<1> QED
  BY <1>3, <1>4, Boundaries

(* What a read at an event's start may find. *)
LEMMA ReadAt ==
    ASSUME TypeOK, Layout, NEW k \in 1 .. (Len(events) + 1), NEW o \in ReadEvent(Boundary(k))
    PROVE  \/ o.kind = "none" /\ length <= Boundary(k)
           \/ o.kind = "error" /\ Boundary(k) < length /\ length < Boundary(k) + SizeField
           \/ k \in DOMAIN events /\ Whole(k) /\ o.kind = "event" /\ o.cut = FALSE /\ o.pos = Boundary(k + 1)
           \/ k \in DOMAIN events /\ ~Whole(k) /\ o.kind \in {"error", "event"} /\ o.cut = TRUE /\ o.pos = length
<1> DEFINE p == Boundary(k)
<1>1. p \in Nat /\ length \in Nat /\ SizeField \in Nat
  BY Boundaries, FileAssumption DEF TypeOK
<1> HIDE DEF p
<1>2. CASE p + SizeField > length /\ o \in NoSize(p)
  <2>1. CASE p >= length /\ o = [kind |-> "none", cut |-> FALSE, pos |-> p]
    BY <1>1, <2>1 DEF p
  <2>2. CASE ~(p >= length) /\ o = [kind |-> "error", cut |-> FALSE, pos |-> length]
    <3>1. o.kind = "error"
      BY <2>2
    <3>2. p < length /\ length < p + SizeField
      BY <1>1, <1>2, <2>2
    <3> QED
      BY <3>1, <3>2 DEF p
  <2> QED
    BY <1>2, <2>1, <2>2, NoSizes
<1>3. ASSUME NEW i \in DOMAIN events, events[i].start = p,
             IF End(events[i]) <= length
               THEN o = [kind |-> "event", cut |-> FALSE, pos |-> End(events[i])]
               ELSE \E c \in {"error", "event"} : o = [kind |-> c, cut |-> TRUE, pos |-> length]
      PROVE  \/ k \in DOMAIN events /\ Whole(k) /\ o.kind = "event" /\ o.cut = FALSE /\ o.pos = Boundary(k + 1)
             \/ k \in DOMAIN events /\ ~Whole(k) /\ o.kind \in {"error", "event"} /\ o.cut = TRUE /\ o.pos = length
  <2>1. k = i
    BY <1>3, StartsOnce DEF p
  <2>2. CASE Whole(k)
    <3>1. o = [kind |-> "event", cut |-> FALSE, pos |-> End(events[k])]
      BY <1>3, <2>1, <2>2 DEF Whole
    <3>2. o.kind = "event" /\ o.pos = Boundary(k + 1)
      BY <1>3, <2>1, <3>1, Boundaries
    <3>3. o.cut = FALSE
      BY <3>1
    <3> QED
      BY <1>3, <2>1, <2>2, <3>2, <3>3
  <2>3. CASE ~Whole(k)
    <3>1. PICK c \in {"error", "event"} : o = [kind |-> c, cut |-> TRUE, pos |-> length]
      BY <1>3, <2>1, <2>3 DEF Whole
    <3>2. o.kind \in {"error", "event"} /\ o.pos = length
      BY <3>1
    <3>3. o.cut = TRUE
      BY <3>1
    <3> QED
      BY <1>3, <2>1, <2>3, <3>2, <3>3
  <2> QED
    BY <2>2, <2>3
<1>4. o \in ReadEvent(p)
  BY DEF p
<1>5. \/ p + SizeField > length /\ o \in NoSize(p)
      \/ \E i \in DOMAIN events :
           /\ events[i].start = p
           /\ IF End(events[i]) <= length
                THEN o = [kind |-> "event", cut |-> FALSE, pos |-> End(events[i])]
                ELSE \E c \in {"error", "event"} : o = [kind |-> c, cut |-> TRUE, pos |-> length]
  BY <1>4, Reads
<1> QED
  BY <1>2, <1>3, <1>5

(* Nothing from the k-th event on is in the file if a read at its start    *)
(* ends there or fails.                                                    *)
LEMMA NoneBehind ==
    ASSUME TypeOK, Layout, NEW k \in 1 .. (Len(events) + 1),
           length < Boundary(k) + SizeField \/ (k \in DOMAIN events /\ ~Whole(k))
    PROVE  \A i \in DOMAIN events : Whole(i) => i < k
<1> SUFFICES ASSUME NEW i \in DOMAIN events, Whole(i), k <= i PROVE FALSE
  BY Boundaries
<1>1. SizeField \in Nat /\ length \in Nat /\ Boundary(k) \in Nat /\ Boundary(i + 1) <= length
      /\ i + 1 \in 1 .. (Len(events) + 1)
  <2>1. SizeField \in Nat /\ length \in Nat
    BY FileAssumption DEF TypeOK
  <2>2. Boundary(k) \in Nat /\ DOMAIN events = 1 .. Len(events) /\ Len(events) \in Nat
    BY Boundaries
  <2>3. Boundary(i + 1) <= length
    BY Boundaries DEF Whole
  <2> QED
    BY <2>1, <2>2, <2>3
<1>2. Boundary(i + 1) > Boundary(k) + SizeField /\ Boundary(i + 1) \in Nat
  BY <1>1, Boundaries
<1>3. CASE length < Boundary(k) + SizeField
  BY <1>1, <1>2, <1>3
<1>4. CASE k \in DOMAIN events /\ ~Whole(k)
  <2>1. ~(Boundary(k + 1) <= length) /\ k + 1 \in 1 .. (Len(events) + 1)
    BY <1>4, Boundaries DEF Whole
  <2>2. Boundary(k + 1) <= Boundary(i + 1)
    <3>1. k < i + 1
      BY <1>4, Boundaries
    <3> QED
      BY <1>1, <1>4, <3>1, Boundaries
  <2> QED
    BY <1>1, <1>2, <2>1, <2>2, Boundaries
<1> QED
  BY <1>3, <1>4

(* Of a closed trace everything is in the file. *)
LEMMA ClosedIsWhole ==
    ASSUME TypeOK, Layout, w = "closed"
    PROVE  /\ length = Boundary(Len(events) + 1) /\ \A i \in DOMAIN events : Whole(i)
           /\ 1 \in DOMAIN events
<1>1. length = Boundary(Len(events) + 1) /\ Len(events) >= 2
  BY DEF Layout
<1>2. ASSUME NEW i \in DOMAIN events PROVE Whole(i)
  <2>1. i < Len(events) + 1 /\ Len(events) + 1 \in 1 .. (Len(events) + 1)
    BY Boundaries
  <2>2. Boundary(i + 1) <= Boundary(Len(events) + 1)
    BY <2>1, Boundaries
  <2> QED
    BY <1>1, <2>2, Boundaries DEF Whole
<1> QED
  BY <1>1, <1>2, Boundaries

----------------------------------------------------------------------------
(* Every step preserves it. *)

LEMMA LayoutStep ==
    ASSUME TypeOK, TypeOK', Layout, [Next]_vars
    PROVE  Layout'
<1> DEFINE n == Len(events)
<1>0. n \in Nat /\ DOMAIN events = 1 .. n /\ SizeField \in Nat /\ put \in Nat /\ length \in Nat
      /\ length <= put
  BY Boundaries, FileAssumption DEF TypeOK, Layout
<1>1. CASE PutSize
  <2> DEFINE T == [start : Nat, size : BodySizes]
  <2>1. PICK s \in BodySizes : events' = Append(events, [start |-> put, size |-> s])
    BY <1>1 DEF PutSize
  <2> DEFINE e == [start |-> put, size |-> s]
  <2>2. e \in T /\ events \in Seq(T)
    BY DEF TypeOK
  <2>3. e.start = put /\ End(e) = put + SizeField + s /\ s \in Nat
    BY FileAssumption DEF End
  <2> HIDE DEF e, T
  <2>4. /\ Len(events') = n + 1 /\ DOMAIN events' = 1 .. (n + 1)
        /\ events'[n + 1] = e
        /\ \A i \in 1 .. n : events'[i] = events[i]
    BY <2>1, <2>2 DEF e
  <2> HIDE DEF n
  <2>5. put = Boundary(n + 1)
    BY <1>1 DEF PutSize, Layout, n
  <2>6. /\ \A k \in 1 .. (n + 1) : Boundary(k)' = Boundary(k)
        /\ Boundary(Len(events) + 1)' = End(e)
    <3>1. ASSUME NEW k \in 1 .. (n + 1) PROVE Boundary(k)' = Boundary(k)
      <4>1. k = 1 \/ k - 1 \in 1 .. n
        BY <1>0
      <4> QED
        BY <2>4, <4>1 DEF Boundary
    <3>2. (n + 1) + 1 # 1 /\ ((n + 1) + 1) - 1 = n + 1
      BY <1>0
    <3> QED
      BY <2>4, <3>1, <3>2 DEF Boundary
  <2>7. \A i \in DOMAIN events' : events'[i].start = Boundary(i)'
    <3>1. ASSUME NEW i \in 1 .. n PROVE events'[i].start = Boundary(i)'
      <4>1. i \in 1 .. (n + 1)
        BY <1>0
      <4> QED
        BY <1>0, <2>4, <2>6, <4>1, Boundaries
    <3>2. ASSUME NEW k, k = n + 1 PROVE events'[k].start = Boundary(k)'
      BY <1>0, <2>3, <2>4, <2>5, <2>6, <3>2
    <3>3. \A i \in 1 .. (n + 1) : i \in 1 .. n \/ i = n + 1
      BY <1>0
    <3> QED
      BY <2>4, <3>1, <3>2, <3>3
  <2>8. ASSUME NEW i \in 1 .. (n + 1), NEW j \in 1 .. (n + 1), i < j
        PROVE  End(events'[i]) <= events'[j].start
    <3>1. i \in 1 .. n
      BY <1>0, <2>8
    <3>2. CASE j \in 1 .. n
      BY <1>0, <2>4, <2>8, <3>1, <3>2 DEF Layout
    <3>3. CASE j = n + 1
      <4>1. n + 1 \in 1 .. (Len(events) + 1) /\ i < n + 1
        BY <1>0, <3>1 DEF n
      <4>2. Boundary(i + 1) <= Boundary(n + 1) /\ End(events[i]) = Boundary(i + 1)
        BY <1>0, <3>1, <4>1, Boundaries
      <4> QED
        BY <2>3, <2>4, <2>5, <3>1, <3>3, <4>2
    <3> QED
      BY <1>0, <3>2, <3>3
  <2>9. put' = put + SizeField /\ length' = length /\ w' = "body"
    BY <1>1 DEF PutSize
  <2>10. length' <= put' /\ put' <= Boundary(Len(events) + 1)'
    BY <1>0, <2>3, <2>6, <2>9
  <2> QED
    BY <2>4, <2>7, <2>8, <2>9, <2>10 DEF Layout
<1>2. ASSUME UNCHANGED events PROVE \A k : Boundary(k)' = Boundary(k)
  BY <1>2 DEF Boundary
<1>3. CASE PutBody
  <2>1. UNCHANGED <<events, length>> /\ w' = "open" /\ put' = End(events[n]) /\ n \in DOMAIN events
    BY <1>0, <1>3 DEF PutBody, TypeOK
  <2>2. put' = Boundary(n + 1) /\ put <= Boundary(n + 1) /\ Boundary(n + 1) \in Nat
    BY <1>0, <2>1, Boundaries DEF Layout
  <2>3. length' <= put'
    BY <1>0, <2>1, <2>2
  <2> QED
    BY <1>0, <1>2, <2>1, <2>2, <2>3 DEF Layout
<1>4. CASE Spill
  <2>1. UNCHANGED <<events, put, w>> /\ length' <= put' /\ w # "closed"
    BY <1>0, <1>4 DEF Spill
  <2> QED
    BY <1>2, <2>1 DEF Layout
<1>5. CASE CloseLog
  <2>1. /\ UNCHANGED <<events, put>> /\ length' = put' /\ length' <= put' /\ w = "open" /\ w' = "closed"
        /\ Len(events) >= 2
    BY <1>0, <1>5 DEF CloseLog
  <2> QED
    BY <1>2, <2>1 DEF Layout
<1>6. CASE Kill
  <2>1. UNCHANGED <<events, put, length>> /\ w' = "killed"
    BY <1>6 DEF Kill
  <2> QED
    BY <1>2, <2>1 DEF Layout
<1>7. CASE UNCHANGED tracer
  <2>1. UNCHANGED <<w, events, put, length>>
    BY <1>7 DEF tracer
  <2> QED
    BY <1>2, <2>1 DEF Layout
<1>8. Open \/ Read \/ EventAt \/ CountEvents \/ Over \/ UNCHANGED vars => UNCHANGED tracer
  BY DEF Open, Read, GetArch, Events, NextEvent, CountNext, EventAt, CountEvents, Over, vars
<1> QED
  BY <1>1, <1>3, <1>4, <1>5, <1>6, <1>7, <1>8 DEF Next

(* A closed trace has an event wherever one starts, but at its end.        *)
LEMMA ClosedReads ==
    ASSUME TypeOK, Layout, w = "closed", NEW k \in 1 .. (Len(events) + 1)
    PROVE  /\ length < Boundary(k) + SizeField => k = Len(events) + 1 /\ ~(Boundary(k) < length)
           /\ length <= Boundary(k) => k = Len(events) + 1
           /\ \A o \in ReadEvent(Boundary(k)) :
                 \/ o.kind = "none" /\ k = Len(events) + 1
                 \/ o.kind = "event" /\ o.cut = FALSE
<1>1. Boundary(k) \in Nat /\ SizeField \in Nat \ {0} /\ length \in Nat
  BY Boundaries, FileAssumption DEF TypeOK
<1>2. length < Boundary(k) + SizeField => k = Len(events) + 1 /\ ~(Boundary(k) < length)
  <2> SUFFICES ASSUME length < Boundary(k) + SizeField PROVE k = Len(events) + 1
    BY <1>1, ClosedIsWhole
  <2>1. \A i \in DOMAIN events : i < k
    BY NoneBehind, ClosedIsWhole
  <2> QED
    BY <2>1, Boundaries
<1>3. length <= Boundary(k) => k = Len(events) + 1
  BY <1>1, <1>2
<1>4. ASSUME NEW o \in ReadEvent(Boundary(k))
      PROVE  \/ o.kind = "none" /\ k = Len(events) + 1
             \/ o.kind = "event" /\ o.cut = FALSE
  BY <1>2, <1>3, <1>4, ReadAt, ClosedIsWhole
<1> QED
  BY <1>2, <1>3, <1>4

(* The tracer works when there is no reader yet. *)
LEMMA TracerStep ==
    ASSUME TypeOK, ReaderInv, PutSize \/ PutBody \/ Spill \/ CloseLog \/ Kill
    PROVE  ReaderInv'
<1>1. UNCHANGED <<r, back, fp, yielded, count, counted>> /\ r = "unopened"
  BY DEF PutSize, PutBody, Spill, CloseLog, Kill, reader, TypeOK
<1>2. Phase = "unopened" /\ Phase' = "unopened"
  BY <1>1 DEF Phase
<1>3. yielded' = <<>> /\ counted' = -1
  BY <1>1, <1>2 DEF ReaderInv
<1>4. YieldsInOrder'
  BY <1>3 DEF YieldsInOrder
<1> QED
  BY <1>1, <1>2, <1>3, <1>4 DEF ReaderInv

LEMMA ReaderStep ==
    ASSUME ~Interleaved, TypeOK, TypeOK', Layout, ReaderInv, UNCHANGED tracer,
           Open \/ Read \/ EventAt \/ CountEvents
    PROVE  ReaderInv'
<1> DEFINE n == Len(events)
           m == Len(yielded)
<1>1. UNCHANGED <<w, events, put, length>>
  BY DEF tracer
<1>2. /\ \A k : Boundary(k)' = Boundary(k)
      /\ \A k : Whole(k)' <=> Whole(k)
      /\ \A c : Counted(c)' <=> Counted(c)
  BY <1>1 DEF Boundary, Whole, Counted
<1>3. n \in Nat /\ DOMAIN events = 1 .. n /\ m \in Nat /\ DOMAIN yielded = 1 .. m
      /\ count \in Nat /\ Boundary(1) = 0
  BY Boundaries DEF TypeOK, Boundary
<1>4. m <= n
  <2>1. \A k \in DOMAIN yielded : k \in DOMAIN events
    BY DEF ReaderInv, YieldsInOrder
  <2> QED
    BY <1>3, <2>1
<1>5. UNCHANGED yielded => YieldsInOrder'
  BY <1>1, <1>2 DEF ReaderInv, YieldsInOrder
<1>6. w = "closed" => /\ r \notin {"failed", "call_failed", "unreadable"}
                      /\ counted \in {-1, Len(events)}
  BY DEF ReaderInv
<1>14. UNCHANGED counted => (counted # -1 => Counted(counted))'
  <2> SUFFICES ASSUME UNCHANGED counted, counted' # -1 PROVE Counted(counted)'
    OBVIOUS
  <2>1. Counted(counted)
    BY DEF ReaderInv
  <2> QED
    BY <1>1, <2>1 DEF Counted
<1> HIDE DEF n, m
<1>7. CASE Open
  <2>1. /\ r = "unopened" /\ r' = "arch" /\ UNCHANGED <<back, fp, yielded, count, counted>>
        /\ Phase = "unopened" /\ Phase' = "arch"
    BY <1>7 DEF Open, Phase
  <2> QED
    BY <1>1, <1>5, <1>6, <1>14, <2>1 DEF ReaderInv
<1>8. CASE GetArch
  <2>1. r = "arch" /\ Phase = "arch" /\ UNCHANGED <<back, yielded, count, counted>>
    BY <1>8 DEF GetArch, Phase
  <2>2. PICK o \in ReadEvent(0) : \/ o.kind = "event" /\ r' = "ready"
                                  \/ (o.kind # "event" \/ o.cut) /\ r' = "unreadable"
    BY <1>8 DEF GetArch
  <2>3. Phase' = r' /\ r' \in {"ready", "unreadable"}
    BY <2>2 DEF Phase
  <2>4. w = "closed" => r' = "ready"
    <3> SUFFICES ASSUME w = "closed" PROVE r' = "ready"
      OBVIOUS
    <3>1. 1 \in 1 .. (Len(events) + 1) /\ 1 # Len(events) + 1
      BY ClosedIsWhole, Boundaries
    <3>2. o.kind = "event" /\ o.cut = FALSE
      BY <1>3, <3>1, ClosedReads
    <3> QED
      BY <2>2, <3>2
  <2> QED
    BY <1>1, <1>5, <1>6, <1>14, <2>1, <2>3, <2>4 DEF ReaderInv
<1>9. CASE Events
  <2>1. /\ r = "ready" /\ r' = "iterating" /\ fp' = 0 /\ UNCHANGED <<back, yielded, count, counted>>
        /\ Phase = "ready" /\ Phase' = "iterating"
    BY <1>9 DEF Events, Phase
  <2>2. yielded' = <<>>
    BY <2>1 DEF ReaderInv
  <2>3. Iterating'
    <3>1. Len(yielded') + 1 = 1 /\ DOMAIN yielded' = {}
      BY <2>2
    <3>2. fp' = Boundary(Len(yielded) + 1)'
      BY <2>1, <3>1 DEF Boundary
    <3> QED
      BY <3>1, <3>2 DEF Iterating
  <2> QED
    BY <1>1, <1>5, <1>6, <1>14, <2>1, <2>3 DEF ReaderInv
<1>10. CASE EventAt
  <2>1. PICK k \in DOMAIN yielded : \E o \in ReadEvent(yielded[k].at) :
                                      r' = IF o.kind = "event" THEN r ELSE "call_failed"
    BY <1>10 DEF EventAt
  <2>2. r = "done" /\ Phase = "done" /\ UNCHANGED <<back, yielded, count, counted>>
    <3>1. r \in {"ready", "done"} /\ Phase = r
      BY <1>10 DEF EventAt, MayCall, Phase
    <3>2. yielded # <<>>
      BY <2>1
    <3> QED
      BY <1>10, <3>1, <3>2 DEF EventAt, ReaderInv
  <2>3. Phase' = r' /\ r' \in {"done", "call_failed"}
    BY <2>1, <2>2 DEF Phase
  <2>4. w = "closed" => r' = "done"
    <3> SUFFICES ASSUME w = "closed" PROVE r' = "done"
      OBVIOUS
    <3>1. k \in DOMAIN events /\ yielded[k].at = Boundary(k)
      BY Boundaries DEF ReaderInv, YieldsInOrder
    <3>2. k \in 1 .. (Len(events) + 1) /\ k # Len(events) + 1
      BY <3>1, Boundaries
    <3>3. \A o \in ReadEvent(yielded[k].at) : o.kind = "event"
      BY <3>1, <3>2, ClosedReads
    <3> QED
      BY <2>1, <2>2, <3>3
  <2> QED
    BY <1>1, <1>2, <1>5, <1>6, <1>14, <2>2, <2>3, <2>4 DEF ReaderInv
<1>11. CASE CountEvents
  <2>1. /\ r \in {"ready", "done"} /\ r' = "counting" /\ back' = r /\ fp' = 0 /\ count' = 0
        /\ UNCHANGED <<yielded, counted>> /\ Phase = r /\ Phase' = r
    BY <1>11 DEF CountEvents, MayCall, Phase
  <2>2. /\ fp' = Boundary(count + 1)' /\ count' <= Len(events')
        /\ \A i \in DOMAIN events' : i <= count' => events'[i].start < length'
    BY <1>1, <1>3, <2>1 DEF Boundary, n
  <2> QED
    BY <1>1, <1>2, <1>5, <1>6, <1>14, <2>1, <2>2 DEF ReaderInv
<1>12. CASE CountNext
  <2> DEFINE k == count + 1
  <2>1. /\ r = "counting" /\ fp = Boundary(k) /\ count <= n /\ back \in {"ready", "done"}
        /\ \A i \in DOMAIN events : i <= count => events[i].start < length
        /\ Phase = back /\ UNCHANGED <<back, yielded>>
    BY <1>12 DEF CountNext, Phase, ReaderInv, n
  <2>2. k \in 1 .. (Len(events) + 1) /\ Boundary(k) \in Nat /\ SizeField \in Nat /\ length \in Nat
    <3>1. k \in 1 .. (Len(events) + 1)
      BY <1>3, <2>1 DEF n
    <3> QED
      BY <3>1, Boundaries, FileAssumption DEF TypeOK
  <2>3. CASE fp + SizeField > length
    <3>1. PICK o \in NoSize(fp) : /\ r' = IF o.kind = "none" THEN back ELSE "call_failed"
                                  /\ counted' = IF o.kind = "none" THEN count ELSE counted
      BY <1>12, <2>3 DEF CountNext
    <3>2. r' \in {back, "call_failed"} /\ Phase' = r'
      BY <2>1, <3>1 DEF Phase
    <3>3. w = "closed" => r' = back /\ counted' = Len(events)
      <4> SUFFICES ASSUME w = "closed" PROVE r' = back /\ counted' = Len(events)
        OBVIOUS
      <4>1. k = Len(events) + 1 /\ ~(Boundary(k) < length)
        <5>1. length < Boundary(k) + SizeField
          BY <2>1, <2>2, <2>3
        <5> QED
          BY <2>2, <5>1, ClosedReads
      <4>2. fp >= length
        BY <2>1, <2>2, <4>1
      <4>3. o.kind = "none"
        BY <4>2, NoSizes
      <4>4. count = Len(events)
        <5>1. count \in Nat /\ Len(events) \in Nat /\ count + 1 = Len(events) + 1
          BY <1>3, <4>1, Boundaries
        <5> QED
          BY <5>1
      <4>5. r' = back /\ counted' = count
        BY <3>1, <4>3
      <4> QED
        BY <4>4, <4>5
    <3>4. ASSUME o.kind = "none" PROVE Counted(counted)'
      <4>1. fp >= length /\ counted' = count
        BY <2>1, <2>2, <3>1, <3>4, NoSizes
      <4>2. ASSUME NEW i \in DOMAIN events PROVE (i <= count) <=> (events[i].start < length)
        <5>1. i \in Nat /\ i \in 1 .. (Len(events) + 1) /\ events[i].start = Boundary(i)
              /\ Boundary(i) \in Nat
          BY Boundaries
        <5>2. CASE i <= count
          BY <2>1, <4>2, <5>2
        <5>3. CASE i = k
          BY <1>3, <2>1, <2>2, <4>1, <5>1, <5>3
        <5>4. CASE k < i
          <6>1. k \in DOMAIN events /\ Boundary(k + 1) <= Boundary(i)
                /\ Boundary(k + 1) > Boundary(k) + SizeField /\ k + 1 \in 1 .. (Len(events) + 1)
            <7>1. k \in DOMAIN events
              BY <2>2, <5>1, <5>4, Boundaries
            <7>2. k + 1 \in 1 .. (Len(events) + 1)
              BY <7>1, Boundaries
            <7> QED
              BY <5>1, <5>4, <7>1, <7>2, Boundaries
          <6>2. Boundary(k + 1) \in Nat
            BY <6>1, Boundaries
          <6>3. Boundary(i) > Boundary(k)
            BY <2>2, <5>1, <6>1, <6>2
          <6> QED
            BY <1>3, <2>1, <2>2, <4>1, <5>1, <5>4, <6>3
        <5> QED
          BY <1>3, <5>1, <5>2, <5>3, <5>4
      <4>3. events' = events /\ length' = length /\ counted' = count
        BY <1>1, <4>1
      <4> QED
        BY <4>2, <4>3 DEF Counted
    <3>5. (counted # -1 => Counted(counted))'
      BY <1>14, <3>1, <3>4
    <3> QED
      BY <1>1, <1>2, <1>5, <1>6, <2>1, <3>2, <3>3, <3>5 DEF ReaderInv
  <2>4. CASE ~(fp + SizeField > length)
    <3>1. PICK i \in DOMAIN events : /\ events[i].start = fp
                                     /\ fp' = End(events[i])
                                     /\ count' = count + 1
                                     /\ UNCHANGED <<r, counted>>
      BY <1>12, <2>4 DEF CountNext
    <3>2. i = k
      BY <2>1, <2>2, <3>1, StartsOnce
    <3>3. fp' = Boundary(k + 1) /\ count' = k /\ count' <= Len(events)
      BY <1>3, <3>1, <3>2, Boundaries DEF n
    <3>4. Phase' = back
      BY <2>1, <3>1 DEF Phase
    <3>5. fp' = Boundary(count + 1)'
      BY <1>2, <3>3
    <3>6. \A j \in DOMAIN events : j <= k => events[j].start < length
      <4>1. events[k].start < length
        <5>1. fp \in Nat /\ fp + SizeField <= length /\ SizeField > 0
          BY <2>1, <2>2, <2>4, FileAssumption
        <5> QED
          BY <2>2, <3>1, <3>2, <5>1
      <4>2. \A j \in DOMAIN events : j <= k => j <= count \/ j = k
        BY <1>3, <2>2
      <4> QED
        BY <2>1, <4>1, <4>2
    <3> QED
      BY <1>1, <1>2, <1>5, <1>6, <1>14, <2>1, <3>1, <3>3, <3>4, <3>5, <3>6 DEF ReaderInv
  <2> QED
    BY <2>3, <2>4
<1>13. CASE NextEvent
  <2>1. r = "iterating" /\ Iterating /\ UNCHANGED <<back, count, counted>>
    BY <1>13 DEF NextEvent, ReaderInv
  <2>2. PICK o \in ReadEvent(fp) :
          \/ /\ o.kind = "event"
             /\ yielded' = Append(yielded, [at |-> fp, cut |-> o.cut])
             /\ fp' = o.pos
             /\ UNCHANGED r
          \/ /\ o.kind = "none"
             /\ r' = "done"
             /\ UNCHANGED <<yielded, fp>>
          \/ /\ o.kind = "error"
             /\ r' = "failed"
             /\ fp' = o.pos
             /\ UNCHANGED yielded
    BY <1>13 DEF NextEvent
  <2>3. Phase' = r'
    BY <2>1, <2>2 DEF Phase
  <2>4. ASSUME UNCHANGED yielded, r' \in {"done", "failed"}, w = "closed" => r' = "done",
               \A i \in DOMAIN events : Whole(i) => i <= m
        PROVE  ReaderInv'
    BY <1>1, <1>2, <1>5, <1>6, <1>14, <2>1, <2>3, <2>4 DEF ReaderInv, m
  <2>5. CASE fp = length /\ yielded # <<>> /\ ~Whole(m)
    <3>1. m \in DOMAIN events /\ m \in 1 .. (Len(events) + 1)
      BY <1>3, <1>4, <2>5 DEF m, n
    <3>2. \A i \in DOMAIN events : Whole(i) => i <= m
      <4>1. \A i \in DOMAIN events : Whole(i) => i < m
        BY <2>5, <3>1, NoneBehind
      <4> QED
        BY <1>3, <4>1
    <3>3. fp + SizeField > length /\ fp >= length
      BY <2>5, FileAssumption DEF TypeOK
    <3>4. o.kind = "none"
      <4>1. o \in NoSize(fp)
        BY <3>3, Reads
      <4> QED
        BY <3>3, <4>1, NoSizes
    <3> QED
      BY <2>2, <2>4, <3>2, <3>4
  <2>6. CASE fp = Boundary(m + 1) /\ \A k \in DOMAIN yielded : Whole(k)
    <3> DEFINE k == m + 1
    <3>1. k \in 1 .. (Len(events) + 1)
      BY <1>3, <1>4 DEF n
    <3>2. Boundary(k) \in Nat /\ length \in Nat /\ SizeField \in Nat \ {0}
      BY <3>1, Boundaries, FileAssumption DEF TypeOK
    <3>3. CASE o.kind \in {"none", "error"}
      <4>1. length < Boundary(k) + SizeField \/ (k \in DOMAIN events /\ ~Whole(k))
        <5>1. o \in ReadEvent(Boundary(k))
          BY <2>6
        <5>2. \/ length <= Boundary(k)
              \/ length < Boundary(k) + SizeField
              \/ k \in DOMAIN events /\ ~Whole(k)
          BY <3>1, <3>3, <5>1, ReadAt
        <5> QED
          BY <3>2, <5>2
      <4>2. \A i \in DOMAIN events : Whole(i) => i <= m
        <5>1. \A i \in DOMAIN events : Whole(i) => i < k
          BY <3>1, <4>1, NoneBehind
        <5> QED
          BY <1>3, <5>1
      <4>3. w = "closed" => o.kind = "none"
        BY <2>6, <3>1, <3>3, ClosedReads
      <4> QED
        BY <2>2, <2>4, <3>3, <4>2, <4>3
    <3>4. CASE o.kind = "event"
      <4> DEFINE e == [at |-> fp, cut |-> o.cut]
      <4>1. yielded' = Append(yielded, e) /\ fp' = o.pos /\ r' = "iterating"
        BY <2>1, <2>2, <3>4
      <4>2. \/ k \in DOMAIN events /\ Whole(k) /\ o.cut = FALSE /\ o.pos = Boundary(k + 1)
            \/ k \in DOMAIN events /\ ~Whole(k) /\ o.cut = TRUE /\ o.pos = length
        BY <2>6, <3>1, <3>4, ReadAt
      <4>3. e.at = fp /\ e.cut = o.cut
        OBVIOUS
      <4>4. e.cut <=> ~Whole(k)
        BY <4>2, <4>3
      <4> HIDE DEF e
      <4>5. /\ Len(yielded') = k /\ DOMAIN yielded' = 1 .. k /\ yielded'[k] = e
            /\ \A i \in 1 .. m : yielded'[i] = yielded[i]
        BY <1>3, <4>1 DEF TypeOK, m
      <4>6. YieldsInOrder'
        <5> SUFFICES ASSUME NEW i \in 1 .. k
                     PROVE  /\ i \in DOMAIN events
                            /\ yielded'[i].at = events[i].start
                            /\ yielded'[i].cut <=> ~Whole(i)
          BY <1>1, <1>2, <4>5 DEF YieldsInOrder
        <5>1. CASE i = k
          BY <2>6, <4>2, <4>3, <4>4, <4>5, <5>1, Boundaries
        <5>2. CASE i \in 1 .. m
          BY <1>3, <4>5, <5>2 DEF ReaderInv, YieldsInOrder
        <5> QED
          BY <1>3, <5>1, <5>2
      <4>7. Iterating'
        <5>1. CASE Whole(k)
          <6>1. fp' = Boundary(k + 1) /\ k + 1 = Len(yielded') + 1
            BY <4>1, <4>2, <4>5, <5>1
          <6>2. fp' = Boundary(Len(yielded) + 1)'
            BY <1>2, <6>1
          <6>3. \A i \in DOMAIN yielded' : Whole(i)'
            <7>1. \A i \in 1 .. k : i \in 1 .. m \/ i = k
              BY <1>3
            <7> QED
              BY <1>2, <1>3, <2>6, <4>5, <5>1, <7>1
          <6> QED
            BY <6>2, <6>3 DEF Iterating
        <5>2. CASE ~Whole(k)
          <6>1. fp' = length' /\ yielded' # <<>>
            BY <1>1, <1>3, <4>1, <4>2, <4>5, <5>2
          <6>2. ~Whole(Len(yielded))'
            BY <1>2, <4>5, <5>2
          <6> QED
            BY <6>1, <6>2 DEF Iterating
        <5> QED
          BY <5>1, <5>2
      <4> QED
        BY <1>1, <1>6, <1>14, <2>1, <2>3, <4>1, <4>6, <4>7 DEF ReaderInv
    <3> QED
      BY <2>2, <3>3, <3>4
  <2> QED
    BY <2>1, <2>5, <2>6 DEF Iterating, m
<1> QED
  BY <1>7, <1>8, <1>9, <1>10, <1>11, <1>12, <1>13 DEF Read

LEMMA InvInit == Init => IInv
<1> SUFFICES ASSUME Init PROVE IInv
  OBVIOUS
<1>1. TypeOK
  BY TypeInit
<1>2. Layout
  <2>1. Boundary(Len(events) + 1) = 0 /\ DOMAIN events = {}
    BY DEF Init, Boundary
  <2> QED
    BY <2>1 DEF Init, Layout
<1>3. ReaderInv
  BY DEF Init, ReaderInv, Phase, YieldsInOrder
<1> QED
  BY <1>1, <1>2, <1>3 DEF IInv

LEMMA InvStep ==
    ASSUME ~Interleaved
    PROVE  IInv /\ [Next]_vars => IInv'
<1> SUFFICES ASSUME IInv, [Next]_vars PROVE IInv'
  OBVIOUS
<1>1. TypeOK /\ TypeOK' /\ Layout /\ Layout' /\ ReaderInv
  BY TypeStep, LayoutStep DEF IInv
<1>2. CASE PutSize \/ PutBody \/ Spill \/ CloseLog \/ Kill
  BY <1>1, <1>2, TracerStep DEF IInv
<1>3. CASE Open \/ Read \/ EventAt \/ CountEvents
  <2>1. UNCHANGED tracer
    BY <1>3 DEF Open, Read, GetArch, Events, NextEvent, CountNext, EventAt, CountEvents
  <2> QED
    BY <1>1, <1>3, <2>1, ReaderStep DEF IInv
<1>4. CASE Over \/ UNCHANGED vars
  <2>1. UNCHANGED <<w, events, put, length, r, back, fp, yielded, count, counted>>
    BY <1>4 DEF Over, vars, tracer, reader
  <2> QED
    BY <1>1, <2>1 DEF IInv, ReaderInv, YieldsInOrder, Whole, Phase, Iterating, Boundary, Counted
<1> QED
  BY <1>2, <1>3, <1>4 DEF Next

LEMMA Invariant ==
    ASSUME ~Interleaved
    PROVE  Spec => []IInv
BY InvInit, InvStep, PTL DEF Spec

(* events() yields the trace's events in order, each once and only the     *)
(* last one cut, if nothing else is called while it is iterated over.      *)
THEOREM ReadInOrder ==
    ASSUME ~Interleaved
    PROVE  Spec => []YieldsInOrder
<1>1. IInv => YieldsInOrder
  BY DEF IInv, ReaderInv
<1> QED
  BY <1>1, Invariant, PTL

(* It yields every event that is wholly in the file, wherever the tracer   *)
(* was killed and whether or not the end of the file makes it fail, and    *)
(* count_events counts these and the one that is cut.                      *)
THEOREM WholeEventsRead ==
    ASSUME ~Interleaved
    PROVE  Spec => []ReadsWhatIsThere
<1>1. IInv => ReadsWhatIsThere
  <2> SUFFICES ASSUME IInv, r \in {"done", "failed"}, NEW i \in DOMAIN events, Whole(i)
               PROVE  i \in DOMAIN yielded
    BY DEF ReadsWhatIsThere, IInv, ReaderInv, Counted
  <2>1. i <= Len(yielded)
    BY DEF IInv, ReaderInv, Phase
  <2>2. i \in 1 .. Len(events) /\ Len(yielded) \in Nat /\ DOMAIN yielded = 1 .. Len(yielded)
    BY Boundaries DEF IInv, TypeOK
  <2> QED
    BY <2>1, <2>2
<1> QED
  BY <1>1, Invariant, PTL

(* A trace that was closed is read to its end without an error, and the    *)
(* count of its events is right.                                           *)
THEOREM ClosedTraceIsRead ==
    ASSUME ~Interleaved
    PROVE  Spec => []ClosedTraceReads
<1>1. IInv => ClosedTraceReads
  <2> SUFFICES ASSUME IInv, w = "closed" PROVE r = "done" => Len(yielded) = Len(events)
    BY DEF ClosedTraceReads, IInv, ReaderInv
  <2> SUFFICES ASSUME r = "done" PROVE Len(yielded) = Len(events)
    OBVIOUS
  <2>1. Len(events) \in Nat /\ DOMAIN events = 1 .. Len(events)
        /\ Len(yielded) \in Nat /\ DOMAIN yielded = 1 .. Len(yielded)
    BY Boundaries DEF IInv, TypeOK
  <2>2. \A k \in DOMAIN yielded : k \in DOMAIN events
    BY DEF IInv, ReaderInv, YieldsInOrder
  <2>3. \A i \in DOMAIN events : i <= Len(yielded)
    BY ClosedIsWhole DEF IInv, ReaderInv, Phase
  <2> DEFINE n == Len(events)
             m == Len(yielded)
  <2>4. n \in Nat /\ m \in Nat /\ (\A i \in 1 .. n : i <= m) /\ (\A k \in 1 .. m : k <= n)
    BY <2>1, <2>2, <2>3
  <2> HIDE DEF n, m
  <2>5. (n = 0 \/ n \in 1 .. n) /\ (m = 0 \/ m \in 1 .. m)
    BY <2>4
  <2>6. m = n
    BY <2>4, <2>5
  <2> QED
    BY <2>6 DEF n, m
<1> QED
  BY <1>1, Invariant, PTL

----------------------------------------------------------------------------
(* The micro-ops of a log.  Their proofs count through recursive functions: *)
(* induction for these first.                                              *)

----------------------------------------------------------------------------
(* Induction, and the loops that are recursive functions.                  *)

(* A set of numbers that has one has a least one. *)
LEMMA LeastNat ==
    ASSUME NEW T \in SUBSET Nat, T # {}
    PROVE  \E n \in T : \A m \in T : n <= m
<1> DEFINE R == {ss \in Nat \X Nat : ss[1] < ss[2]}
<1>1. IsWellFoundedOn(R, Nat)
  BY NatLessThanWellFounded DEF OpToRel
<1>2. \E x \in T : \A y \in T : ~ (<<y, x>> \in R)
  <2> HIDE DEF R
  <2> QED
    BY <1>1, WFMin
<1>3. \A x, y \in Nat : y < x => <<y, x>> \in R
  OBVIOUS
<1> HIDE DEF R
<1>4. PICK x \in T : \A y \in T : ~ (<<y, x>> \in R)
  BY <1>2
<1>5. \A y \in T : ~ (y < x)
  BY <1>3, <1>4
<1> QED
  BY <1>5

(* What holds of 0 and of the number after any number it holds of, holds   *)
(* of every number.                                                        *)
LEMMA Induction ==
    ASSUME NEW S, 0 \in S, \A n \in Nat : n \in S => n + 1 \in S
    PROVE  \A n \in Nat : n \in S
<1> SUFFICES ASSUME {n \in Nat : n \notin S} # {} PROVE FALSE
  OBVIOUS
<1>1. PICK n \in {k \in Nat : k \notin S} : \A m \in {k \in Nat : k \notin S} : n <= m
  BY LeastNat
<1>2. n - 1 \in Nat /\ n - 1 \in S
  BY <1>1
<1> QED
  BY <1>1, <1>2

(* A loop of n turns over values of V makes f[k, x] of x in its k-th turn; *)
(* h has its values, from a on.                                            *)
Turns(f, V, n) == f \in [(1 .. n) \X V -> V]

Loops(h, f, V, n, a) == /\ h \in [0 .. n -> V]
                        /\ h[0] = a
                        /\ \A k \in 1 .. n : h[k] = f[<<k, h[k - 1]>>]

LEMMA Loop ==
    ASSUME NEW V, NEW n \in Nat, NEW a \in V, NEW f, Turns(f, V, n)
    PROVE  \E h : Loops(h, f, V, n, a)
<1> DEFINE Upto(h, m) == h[0] = a /\ \A k \in 1 .. n : k <= m => h[k] = f[<<k, h[k - 1]>>]
           S == {m \in Nat : \E h \in [0 .. n -> V] : Upto(h, m)}
<1>1. 0 \in S
  <2> DEFINE h == [k \in 0 .. n |-> a]
  <2>1. h \in [0 .. n -> V] /\ Upto(h, 0)
    OBVIOUS
  <2> HIDE DEF h, Upto
  <2> QED
    BY <2>1
<1>2. ASSUME NEW m \in Nat, m \in S PROVE m + 1 \in S
  <2>1. PICK h \in [0 .. n -> V] : Upto(h, m)
    BY <1>2
  <2> DEFINE g == [k \in 0 .. n |-> IF k = m + 1 THEN f[<<m + 1, h[m]>>] ELSE h[k]]
  <2>2. g \in [0 .. n -> V]
    <3>1. ASSUME NEW k \in 0 .. n, k = m + 1 PROVE f[<<m + 1, h[m]>>] \in V
      <4>1. m + 1 \in 1 .. n /\ m \in 0 .. n
        BY <3>1
      <4>2. h[m] \in V
        BY <4>1
      <4>3. <<m + 1, h[m]>> \in (1 .. n) \X V
        BY <4>1, <4>2
      <4> QED
        BY <4>3 DEF Turns
    <3> QED
      BY <3>1
  <2>3. g[0] = a
    BY <2>1
  <2>4. ASSUME NEW k \in 1 .. n, k <= m + 1 PROVE g[k] = f[<<k, g[k - 1]>>]
    <3>1. k - 1 \in 0 .. n /\ k - 1 # m + 1 /\ g[k - 1] = h[k - 1]
      BY <2>4
    <3>2. CASE k = m + 1
      BY <3>1, <3>2
    <3>3. CASE k # m + 1
      <4>1. k <= m
        BY <2>4, <3>3
      <4>2. g[k] = h[k]
        BY <3>3
      <4> QED
        BY <2>1, <3>1, <4>1, <4>2
    <3> QED
      BY <3>2, <3>3
  <2> HIDE DEF g
  <2>5. Upto(g, m + 1)
    BY <2>3, <2>4
  <2> HIDE DEF Upto
  <2> QED
    BY <2>2, <2>5
<1>3. n \in S
  <2> HIDE DEF S
  <2> QED
    BY <1>1, <1>2, Induction
<1>4. PICK h \in [0 .. n -> V] : Upto(h, n)
  BY <1>3
<1>5. Loops(h, f, V, n, a)
  BY <1>4 DEF Loops
<1> QED
  BY <1>5

----------------------------------------------------------------------------
(* Numbers and their bytes. *)

LEMMA DivMod ==
    ASSUME NEW x \in Nat
    PROVE  /\ x \div Base \in Nat
           /\ x % Base \in 0 .. Base - 1
           /\ x = (x % Base) + Base * (x \div Base)
<1>1. PICK b \in Nat \ {0} : b = Base
  BY CodecAssumption DEF RET
<1>2. x \div b \in Nat /\ x % b \in 0 .. b - 1 /\ x = (x % b) + b * (x \div b)
  OBVIOUS
<1> QED
  BY <1>1, <1>2

(* The bytes of v are taken off one by one. *)
LEMMA RestsLoop ==
    ASSUME NEW v \in Nat, NEW n \in Nat
    PROVE  /\ Rests(v, n) \in [0 .. n -> Nat]
           /\ Rests(v, n)[0] = v
           /\ \A i \in 1 .. n : Rests(v, n)[i] = Rests(v, n)[i - 1] \div Base
<1> DEFINE F(h) == [i \in 0 .. n |-> IF i = 0 THEN v ELSE h[i - 1] \div Base]
           f == [p \in (1 .. n) \X Nat |-> p[2] \div Base]
<1>1. \E h : h = F(h)
  <2>1. f \in [(1 .. n) \X Nat -> Nat]
    <3>1. \A p \in (1 .. n) \X Nat : p[2] \div Base \in Nat
      BY DivMod
    <3> QED
      BY <3>1
  <2>2. \A k \in 1 .. n, x \in Nat : f[<<k, x>>] = x \div Base
    OBVIOUS
  <2> HIDE DEF f
  <2>3. PICK h \in [0 .. n -> Nat] : h[0] = v /\ \A k \in 1 .. n : h[k] = f[<<k, h[k - 1]>>]
    <3>1. PICK V : V = Nat
      OBVIOUS
    <3>2. v \in V /\ Turns(f, V, n)
      BY <2>1, <3>1 DEF Turns
    <3>3. PICK h : Loops(h, f, V, n, v)
      BY <3>2, Loop
    <3> QED
      BY <3>1, <3>3 DEF Loops
  <2>4. ASSUME NEW k \in 1 .. n PROVE h[k] = h[k - 1] \div Base
    <3>1. k - 1 \in 0 .. n
      OBVIOUS
    <3>2. h[k - 1] \in Nat
      BY <2>3, <3>1
    <3> QED
      BY <2>2, <2>3, <3>2
  <2>5. ASSUME NEW k \in 0 .. n PROVE h[k] = F(h)[k]
    BY <2>3, <2>4
  <2>6. h = F(h)
    <3> HIDE DEF F
    <3>1. F(h) = [k \in 0 .. n |-> F(h)[k]]
      BY DEF F
    <3> QED
      BY <2>5, <3>1
  <2> HIDE DEF F
  <2> QED
    BY <2>6
<1>2. Rests(v, n) = F(Rests(v, n))
  <2>1. Rests(v, n) = CHOOSE h : h = F(h)
    BY DEF Rests
  <2> HIDE DEF F
  <2> QED
    BY <1>1, <2>1
<1>3. PICK rs : rs = Rests(v, n)
  OBVIOUS
<1>4. rs = F(rs)
  BY <1>2, <1>3
<1>5. rs[0] = v /\ \A i \in 1 .. n : rs[i] = rs[i - 1] \div Base
  BY <1>4
<1> DEFINE S == {i \in Nat : i <= n => rs[i] \in Nat}
<1>6. \A i \in Nat : i \in S
  <2>1. 0 \in S
    BY <1>5
  <2>2. ASSUME NEW i \in Nat, i \in S PROVE i + 1 \in S
    <3>1. i + 1 <= n => rs[i + 1] = rs[i] \div Base /\ rs[i] \in Nat
      BY <1>5, <2>2
    <3> QED
      BY <3>1, DivMod
  <2> HIDE DEF S
  <2> QED
    BY <2>1, <2>2, Induction
<1>7. rs \in [0 .. n -> Nat]
  <2>1. rs = [i \in 0 .. n |-> rs[i]]
    BY <1>4
  <2> QED
    BY <1>6, <2>1
<1> QED
  BY <1>3, <1>5, <1>7

LEMMA BytesAre ==
    ASSUME NEW v \in Nat, NEW n \in Nat
    PROVE  /\ Bytes(v, n) \in Seq(0 .. Base - 1)
           /\ Len(Bytes(v, n)) = n
           /\ \A i \in 1 .. n : Bytes(v, n)[i] = Rests(v, n)[i - 1] % Base
<1>1. PICK rs : rs = Rests(v, n)
  OBVIOUS
<1>2. rs \in [0 .. n -> Nat]
  BY <1>1, RestsLoop
<1>3. Bytes(v, n) = [i \in 1 .. n |-> rs[i - 1] % Base]
  BY <1>1 DEF Bytes
<1>4. ASSUME NEW i \in 1 .. n PROVE rs[i - 1] % Base \in 0 .. Base - 1
  <2>1. rs[i - 1] \in Nat
    BY <1>2
  <2> QED
    BY <2>1, DivMod
<1>5. Bytes(v, n) \in [1 .. n -> 0 .. Base - 1]
  BY <1>3, <1>4
<1>6. Bytes(v, n) \in Seq(0 .. Base - 1) /\ Len(Bytes(v, n)) = n
  <2>1. PICK s, T : s = Bytes(v, n) /\ T = 0 .. Base - 1
    OBVIOUS
  <2>2. s \in [1 .. n -> T]
    BY <1>5, <2>1
  <2>3. s \in Seq(T) /\ Len(s) = n
    BY <2>2
  <2> QED
    BY <2>1, <2>3
<1> QED
  BY <1>1, <1>3, <1>6

(* What fits into fewer bytes fits into more. *)
LEMMA FitsMore ==
    ASSUME NEW v \in Nat, NEW m \in Nat, NEW n \in Nat, m <= n, Fits(v, m)
    PROVE  Fits(v, n)
<1>1. PICK rs, q : rs = Rests(v, m) /\ q = Rests(v, n)
  OBVIOUS
<1>2. /\ rs[0] = v /\ \A i \in 1 .. m : rs[i] = rs[i - 1] \div Base
      /\ q[0] = v /\ \A i \in 1 .. n : q[i] = q[i - 1] \div Base
  BY <1>1, RestsLoop
<1> DEFINE S == {i \in Nat : i <= n => q[i] = IF i <= m THEN rs[i] ELSE 0}
<1>3. rs[m] = 0
  BY <1>1 DEF Fits
<1>4. 0 \div Base = 0
  BY CodecAssumption DEF RET
<1>5. \A i \in Nat : i \in S
  <2>1. 0 \in S
    BY <1>2
  <2>2. ASSUME NEW i \in Nat, i \in S PROVE i + 1 \in S
    <3>1. CASE i + 1 > n
      BY <3>1
    <3>2. CASE i + 1 <= n /\ i + 1 <= m
      <4>1. q[i] = rs[i] /\ q[i + 1] = q[i] \div Base /\ rs[i + 1] = rs[i] \div Base
        BY <1>2, <2>2, <3>2
      <4> QED
        BY <3>2, <4>1
    <3>3. CASE i + 1 <= n /\ i + 1 > m
      <4>1. q[i + 1] = q[i] \div Base
        BY <1>2, <3>3
      <4>2. q[i] = 0
        BY <1>3, <2>2, <3>3
      <4> QED
        BY <1>4, <3>3, <4>1, <4>2
    <3> QED
      BY <3>1, <3>2, <3>3
  <2> HIDE DEF S
  <2> QED
    BY <2>1, <2>2, Induction
<1>6. q[n] = 0
  BY <1>3, <1>5
<1> QED
  BY <1>1, <1>6 DEF Fits

(* Putting bytes together, from the highest one down. *)
LEMMA NumberLoop ==
    ASSUME NEW s \in Seq(Nat), NEW n \in Nat, n = Len(s)
    PROVE  \E h : /\ Number(s) = h[n]
                  /\ h[0] = 0
                  /\ \A k \in 1 .. n : h[k] = s[n - k + 1] + Base * h[k - 1]
<1> DEFINE F(h) == [k \in 0 .. n |-> IF k = 0 THEN 0 ELSE s[n - k + 1] + Base * h[k - 1]]
           f == [p \in (1 .. n) \X Nat |-> s[n - p[1] + 1] + Base * p[2]]
<1>1. \E h : h = F(h)
  <2>0. n \in Nat /\ Base \in Nat
    BY CodecAssumption
  <2>1. f \in [(1 .. n) \X Nat -> Nat]
    <3>1. ASSUME NEW p \in (1 .. n) \X Nat PROVE s[n - p[1] + 1] + Base * p[2] \in Nat
      <4>1. n - p[1] + 1 \in 1 .. n /\ p[2] \in Nat
        BY <2>0
      <4>2. s[n - p[1] + 1] \in Nat
        BY <4>1
      <4>3. Base * p[2] \in Nat
        BY <2>0, <4>1
      <4> QED
        BY <4>2, <4>3
    <3> QED
      BY <3>1
  <2>2. \A k \in 1 .. n, x \in Nat : f[<<k, x>>] = s[n - k + 1] + Base * x
    OBVIOUS
  <2> HIDE DEF f
  <2>3. PICK h \in [0 .. n -> Nat] : h[0] = 0 /\ \A k \in 1 .. n : h[k] = f[<<k, h[k - 1]>>]
    <3>1. PICK V : V = Nat
      OBVIOUS
    <3>2. 0 \in V /\ Turns(f, V, n)
      BY <2>1, <3>1 DEF Turns
    <3>3. PICK h : Loops(h, f, V, n, 0)
      BY <3>2, Loop
    <3> QED
      BY <3>1, <3>3 DEF Loops
  <2>4. ASSUME NEW k \in 1 .. n PROVE h[k] = s[n - k + 1] + Base * h[k - 1]
    <3>1. k - 1 \in 0 .. n
      OBVIOUS
    <3>2. h[k - 1] \in Nat
      BY <2>3, <3>1
    <3> QED
      BY <2>2, <2>3, <3>2
  <2>5. ASSUME NEW k \in 0 .. n PROVE h[k] = F(h)[k]
    BY <2>3, <2>4
  <2>6. h = F(h)
    <3> HIDE DEF F
    <3>1. F(h) = [k \in 0 .. n |-> F(h)[k]]
      BY DEF F
    <3> QED
      BY <2>5, <3>1
  <2> HIDE DEF F
  <2> QED
    BY <2>6
<1>2. PICK h : h = F(h) /\ Number(s) = h[n]
  <2>1. Number(s) = (CHOOSE h : h = F(h))[n]
    BY DEF Number
  <2> HIDE DEF F
  <2> QED
    BY <1>1, <2>1
<1>3. h[0] = 0
  BY <1>2
<1>4. ASSUME NEW k \in 1 .. n PROVE h[k] = s[n - k + 1] + Base * h[k - 1]
  <2>1. k \in 0 .. n /\ k # 0
    OBVIOUS
  <2>2. h[k] = F(h)[k]
    <3> HIDE DEF F
    <3> QED
      BY <1>2
  <2>3. F(h)[k] = s[n - k + 1] + Base * h[k - 1]
    BY <2>1, Zenon
  <2> QED
    BY <2>2, <2>3
<1> QED
  BY <1>2, <1>3, <1>4

(* Reading a number undoes writing it, if it fits. *)
LEMMA NumberOfBytes ==
    ASSUME NEW v \in Nat, NEW n \in Nat, Fits(v, n)
    PROVE  Number(Bytes(v, n)) = v
<1>1. PICK rs, s : rs = Rests(v, n) /\ s = Bytes(v, n)
  OBVIOUS
<1>2. /\ rs \in [0 .. n -> Nat] /\ rs[0] = v
      /\ \A i \in 1 .. n : rs[i] = rs[i - 1] \div Base
  BY <1>1, RestsLoop
<1>3. s \in Seq(0 .. Base - 1) /\ Len(s) = n /\ \A i \in 1 .. n : s[i] = rs[i - 1] % Base
  BY <1>1, BytesAre
<1>4. s \in Seq(Nat)
  <2>1. 0 .. Base - 1 \subseteq Nat
    BY CodecAssumption
  <2> QED
    BY <1>3, <2>1, SeqMonotonic
<1>5. PICK h : /\ Number(s) = h[n]
               /\ h[0] = 0
               /\ \A k \in 1 .. n : h[k] = s[n - k + 1] + Base * h[k - 1]
  BY <1>3, <1>4, NumberLoop
<1>6. rs[n] = 0
  BY <1>1 DEF Fits
<1> DEFINE S == {k \in Nat : k <= n => h[k] = rs[n - k]}
<1>7. \A k \in Nat : k \in S
  <2>1. 0 \in S
    BY <1>5, <1>6
  <2>2. ASSUME NEW k \in Nat, k \in S PROVE k + 1 \in S
    <3> SUFFICES ASSUME k + 1 <= n PROVE h[k + 1] = rs[n - (k + 1)]
      OBVIOUS
    <3>1. k + 1 \in 1 .. n /\ n - k \in 1 .. n /\ n - (k + 1) + 1 = n - k /\ (k + 1) - 1 = k
          /\ (n - k) - 1 = n - (k + 1) /\ n - (k + 1) \in 0 .. n
      OBVIOUS
    <3>2. h[k + 1] = s[n - k] + Base * h[k]
      BY <1>5, <3>1
    <3>3. h[k] = rs[n - k]
      BY <2>2
    <3>4. s[n - k] = rs[n - (k + 1)] % Base
      BY <1>3, <3>1
    <3>5. rs[n - k] = rs[n - (k + 1)] \div Base
      BY <1>2, <3>1
    <3>6. rs[n - (k + 1)] \in Nat
      BY <1>2, <3>1
    <3>7. rs[n - (k + 1)] = (rs[n - (k + 1)] % Base) + Base * (rs[n - (k + 1)] \div Base)
      BY <3>6, DivMod
    <3> QED
      BY <3>2, <3>3, <3>4, <3>5, <3>7
  <2> HIDE DEF S
  <2> QED
    BY <2>1, <2>2, Induction
<1>8. h[n] = rs[0]
  BY <1>7
<1> QED
  BY <1>1, <1>2, <1>5, <1>8

----------------------------------------------------------------------------
(* Sequences put together. *)

(* s is in c, behind the first k elements. *)
Holds(c, k, s) == /\ k \in Nat
                  /\ k + Len(s) <= Len(c)
                  /\ \A j \in 1 .. Len(s) : c[k + j] = s[j]

LEMMA Join ==
    ASSUME NEW T, NEW a \in Seq(T), NEW b \in Seq(T)
    PROVE  /\ a \o b \in Seq(T)
           /\ Len(a \o b) = Len(a) + Len(b)
           /\ Holds(a \o b, 0, a)
           /\ Holds(a \o b, Len(a), b)
BY DEF Holds

LEMMA Within ==
    ASSUME NEW T, NEW c \in Seq(T), NEW s \in Seq(T), NEW u \in Seq(T), NEW k, NEW j,
           Holds(c, k, s), Holds(s, j, u)
    PROVE  Holds(c, k + j, u)
<1>1. Len(c) \in Nat /\ Len(s) \in Nat /\ Len(u) \in Nat /\ k \in Nat /\ j \in Nat
  BY DEF Holds
<1>2. k + j \in Nat /\ (k + j) + Len(u) <= Len(c)
  BY <1>1 DEF Holds
<1>3. ASSUME NEW i \in 1 .. Len(u) PROVE c[(k + j) + i] = u[i]
  <2>1. j + i \in 1 .. Len(s) /\ (k + j) + i = k + (j + i)
    BY <1>1 DEF Holds
  <2> QED
    BY <2>1 DEF Holds
<1> QED
  BY <1>2, <1>3 DEF Holds

LEMMA One ==
    ASSUME NEW T, NEW x \in T, NEW s \in Seq(T)
    PROVE  /\ <<x>> \o s \in Seq(T)
           /\ Len(<<x>> \o s) = 1 + Len(s)
           /\ (<<x>> \o s)[1] = x
           /\ Holds(<<x>> \o s, 1, s)
<1>1. <<x>> \in Seq(T) /\ Len(<<x>>) = 1 /\ <<x>>[1] = x
  OBVIOUS
<1> QED
  BY <1>1, Join DEF Holds

(* The sequences of ss have been laid one behind the other, from off. *)
Laid(off, ss, n, s) ==
    /\ off \in [1 .. n + 1 -> Nat]
    /\ off[1] = 0
    /\ \A i \in 1 .. n : off[i + 1] = off[i] + Len(ss[i])
    /\ Len(s) = off[n + 1]
    /\ \A i \in 1 .. n : Holds(s, off[i], ss[i])

(* What FlattenSeq has after each of the n sequences of ss. *)
Flattens(g, ss, n, T) ==
    /\ g \in [0 .. n -> Seq(T)]
    /\ g[0] = <<>>
    /\ \A i \in 1 .. n : g[i] = g[i - 1] \o ss[i]
    /\ FlattenSeq(ss) = g[n]

LEMMA FlattenLoop ==
    ASSUME NEW T, NEW n \in Nat, NEW ss \in Seq(Seq(T)), Len(ss) = n
    PROVE  \E g : Flattens(g, ss, n, T)
<1>0. PICK V : V = Seq(T)
  OBVIOUS
<1>1. \A i \in 1 .. n : ss[i] \in V
  BY <1>0
<1>2. <<>> \in V
  BY <1>0
<1>3. \A a, b \in V : a \o b \in V
  BY <1>0
<1> DEFINE F(h) == [i \in 1 .. n |-> IF i = 1 THEN ss[i] ELSE h[i - 1] \o ss[i]]
           f == [p \in (1 .. n) \X V |-> p[2] \o ss[p[1]]]
<1>4. PICK h : Loops(h, f, V, n, <<>>)
  <2>1. Turns(f, V, n)
    BY <1>1, <1>3 DEF Turns
  <2> HIDE DEF f
  <2> QED
    BY <1>2, <2>1, Loop
<1>5. /\ h \in [0 .. n -> V] /\ h[0] = <<>>
      /\ \A i \in 1 .. n : h[i] = h[i - 1] \o ss[i]
  <2>1. ASSUME NEW i \in 1 .. n PROVE h[i] = h[i - 1] \o ss[i]
    <3>1. i - 1 \in 0 .. n
      OBVIOUS
    <3>2. h[i - 1] \in V
      BY <1>4, <3>1 DEF Loops
    <3>3. f[<<i, h[i - 1]>>] = h[i - 1] \o ss[i]
      BY <3>2
    <3> HIDE DEF f
    <3> QED
      BY <1>4, <3>3 DEF Loops
  <2> HIDE DEF f
  <2> QED
    BY <1>4, <2>1 DEF Loops
<1>6. CASE n = 0
  <2>1. ss = <<>> /\ FlattenSeq(ss) = ss
    BY <1>6 DEF FlattenSeq
  <2> QED
    BY <1>0, <1>5, <1>6, <2>1 DEF Flattens
<1>7. CASE n # 0
  <2>1. \E g : g = F(g)
    <3> DEFINE g == [i \in 1 .. n |-> h[i]]
    <3>1. ASSUME NEW i \in 1 .. n PROVE g[i] = F(g)[i]
      <4>1. CASE i = 1
        <5>0. 1 \in 1 .. n /\ 1 - 1 = 0
          BY <4>1
        <5>1. h[1] = <<>> \o ss[1] /\ ss[1] \in Seq(T)
          BY <1>0, <1>1, <1>5, <5>0
        <5>2. <<>> \o ss[1] = ss[1]
          BY <5>1
        <5> QED
          BY <4>1, <5>1, <5>2
      <4>2. CASE i # 1
        <5>1. i - 1 \in 1 .. n
          BY <4>2
        <5>2. F(g)[i] = g[i - 1] \o ss[i]
          BY <4>2
        <5>3. g[i - 1] = h[i - 1]
          BY <5>1
        <5> QED
          BY <1>5, <5>2, <5>3
      <4> QED
        BY <4>1, <4>2
    <3>2. g = F(g)
      <4>1. F(g) = [i \in 1 .. n |-> F(g)[i]]
        OBVIOUS
      <4>2. g = [i \in 1 .. n |-> g[i]]
        OBVIOUS
      <4> HIDE DEF g, F
      <4> QED
        BY <3>1, <4>1, <4>2
    <3> HIDE DEF g, F
    <3> QED
      BY <3>2
  <2>2. FlattenSeq(ss) = (CHOOSE g : g = F(g))[n]
    BY <1>7 DEF FlattenSeq
  <2>3. PICK g : g = F(g) /\ FlattenSeq(ss) = g[n]
    <3> HIDE DEF F
    <3> QED
      BY <2>1, <2>2
  <2> DEFINE S == {i \in Nat : i + 1 <= n => g[i + 1] = h[i + 1]}
  <2>4. ASSUME NEW i \in 1 .. n PROVE g[i] = IF i = 1 THEN ss[i] ELSE g[i - 1] \o ss[i]
    BY <2>3
  <2>5. \A i \in Nat : i \in S
    <3>1. 0 \in S
      <4>0. 1 \in 1 .. n /\ 1 - 1 = 0
        BY <1>7
      <4>1. h[1] = <<>> \o ss[1] /\ ss[1] \in Seq(T)
        BY <1>0, <1>1, <1>5, <4>0
      <4>2. <<>> \o ss[1] = ss[1]
        BY <4>1
      <4>3. g[1] = ss[1]
        BY <1>7, <2>4
      <4> QED
        BY <4>1, <4>2, <4>3
    <3>2. ASSUME NEW i \in Nat, i \in S PROVE i + 1 \in S
      <4> SUFFICES ASSUME (i + 1) + 1 <= n PROVE g[(i + 1) + 1] = h[(i + 1) + 1]
        OBVIOUS
      <4>1. (i + 1) + 1 \in 1 .. n /\ (i + 1) + 1 # 1 /\ ((i + 1) + 1) - 1 = i + 1
        OBVIOUS
      <4>2. g[(i + 1) + 1] = g[i + 1] \o ss[(i + 1) + 1]
        BY <2>4, <4>1
      <4>3. h[(i + 1) + 1] = h[i + 1] \o ss[(i + 1) + 1]
        BY <1>5, <4>1
      <4>4. g[i + 1] = h[i + 1]
        BY <3>2
      <4> QED
        BY <4>2, <4>3, <4>4
    <3> HIDE DEF S
    <3> QED
      BY <3>1, <3>2, Induction
  <2>6. n - 1 \in Nat /\ (n - 1) + 1 = n
    BY <1>7
  <2>7. g[n] = h[n]
    BY <2>5, <2>6
  <2> QED
    BY <1>0, <1>5, <2>3, <2>7 DEF Flattens
<1> QED
  BY <1>6, <1>7

LEMMA Flatten ==
    ASSUME NEW T, NEW n \in Nat, NEW ss \in Seq(Seq(T)), Len(ss) = n
    PROVE  /\ FlattenSeq(ss) \in Seq(T)
           /\ \E off : Laid(off, ss, n, FlattenSeq(ss))
<1>0. PICK g : Flattens(g, ss, n, T)
  BY FlattenLoop
<1>1. /\ g \in [0 .. n -> Seq(T)]
      /\ g[0] = <<>>
      /\ \A i \in 1 .. n : g[i] = g[i - 1] \o ss[i]
      /\ FlattenSeq(ss) = g[n]
  BY <1>0 DEF Flattens
<1>2. \A i \in 0 .. n : g[i] \in Seq(T) /\ Len(g[i]) \in Nat
  BY <1>1
<1>3. \A i \in 1 .. n : ss[i] \in Seq(T) /\ Len(ss[i]) \in Nat
  OBVIOUS
<1> DEFINE off == [i \in 1 .. n + 1 |-> Len(g[i - 1])]
<1>4. \A i \in 1 .. n + 1 : off[i] = Len(g[i - 1]) /\ off[i] \in Nat
  BY <1>2
<1>5. off[1] = 0 /\ off[n + 1] = Len(g[n])
  BY <1>1, <1>4
<1>6. ASSUME NEW i \in 1 .. n
      PROVE  /\ off[i + 1] = off[i] + Len(ss[i])
             /\ Holds(g[i], off[i], ss[i])
             /\ Holds(g[i], 0, g[i - 1])
  <2>1. i \in 0 .. n /\ i - 1 \in 0 .. n /\ i + 1 \in 1 .. n + 1 /\ i \in 1 .. n + 1 /\ (i + 1) - 1 = i
    OBVIOUS
  <2>2. off[i + 1] = Len(g[i]) /\ off[i] = Len(g[i - 1])
    BY <1>4, <2>1
  <2>3. PICK x, y : x = g[i - 1] /\ y = ss[i]
    OBVIOUS
  <2>4. x \in Seq(T) /\ y \in Seq(T) /\ g[i] = x \o y
    BY <1>1, <1>2, <1>3, <2>1, <2>3
  <2>5. Len(x \o y) = Len(x) + Len(y) /\ Holds(x \o y, 0, x) /\ Holds(x \o y, Len(x), y)
    BY <2>4, Join
  <2> HIDE DEF off
  <2> QED
    BY <2>2, <2>3, <2>4, <2>5
<1>7. off \in [1 .. n + 1 -> Nat]
  BY <1>4
<1> HIDE DEF off
<1> DEFINE S == {m \in Nat : m <= n => \A i \in 1 .. m : Holds(g[m], off[i], ss[i])}
<1>8. \A m \in Nat : m \in S
  <2>1. 0 \in S
    OBVIOUS
  <2>2. ASSUME NEW m \in Nat, m \in S PROVE m + 1 \in S
    <3> SUFFICES ASSUME m + 1 <= n, NEW i \in 1 .. m + 1 PROVE Holds(g[m + 1], off[i], ss[i])
      OBVIOUS
    <3>1. m + 1 \in 1 .. n /\ (m + 1) - 1 = m /\ m \in 0 .. n /\ m + 1 \in 0 .. n /\ i \in 1 .. n
      OBVIOUS
    <3>2. CASE i = m + 1
      BY <1>6, <3>1, <3>2
    <3>3. CASE i # m + 1
      <4>1. Holds(g[m], off[i], ss[i])
        BY <2>2, <3>3
      <4>2. Holds(g[m + 1], 0, g[m])
        BY <1>6, <3>1
      <4>3. g[m] \in Seq(T) /\ g[m + 1] \in Seq(T) /\ ss[i] \in Seq(T)
        BY <1>2, <1>3, <3>1
      <4>4. Holds(g[m + 1], 0 + off[i], ss[i])
        BY <4>1, <4>2, <4>3, Within
      <4>5. off[i] \in Nat
        BY <1>4, <3>1, <1>7
      <4> QED
        BY <4>4, <4>5
    <3> QED
      BY <3>2, <3>3
  <2> HIDE DEF S
  <2> QED
    BY <2>1, <2>2, Induction
<1>9. \A i \in 1 .. n : Holds(g[n], off[i], ss[i])
  BY <1>8
<1>10. Laid(off, ss, n, g[n])
  BY <1>5, <1>6, <1>7, <1>9 DEF Laid
<1>11. n \in 0 .. n
  OBVIOUS
<1> QED
  BY <1>1, <1>2, <1>10, <1>11

----------------------------------------------------------------------------
(* Decoding what is at a position. *)

Byte == 0 .. Base - 1

(* A micro-op with words of w bytes. *)
Fields(op, wd) ==
    CASE op.opcode = NEWPC    -> Bytes(op.pc, wd)
      [] op.opcode = MEMREAD  -> Bytes(op.ea, wd) \o Bytes(op.size, SizeBytes)
      [] op.opcode = MEMWRITE -> Bytes(op.ea, wd) \o Bytes(Len(op.data), SizeBytes) \o op.data
      [] op.opcode = CALL     -> Bytes(op.target, wd) \o Bytes(op.sp, wd) \o Bool(op.is_direct)
      [] op.opcode = RET      -> Bytes(op.sp, wd)

Form(op, wd) == <<op.opcode>> \o Fields(op, wd)

(* Of what is read, all is bytes. *)
Ready == /\ bytes \in Seq(Byte)
         /\ at \in Nat
         /\ width \in Nat
         /\ TraceWord <= width

LEMMA MinOf ==
    ASSUME NEW a \in Int, NEW b \in Int, a <= b
    PROVE  Min({a, b}) = a
<1> DEFINE P(x) == \A y \in {a, b} : x <= y
<1>1. P(a)
  OBVIOUS
<1>2. \A x \in {a, b} : P(x) => x = a
  OBVIOUS
<1>3. Min({a, b}) = CHOOSE x \in {a, b} : P(x)
  BY DEF Min
<1> HIDE DEF P
<1>4. (CHOOSE x \in {a, b} : P(x)) \in {a, b} /\ P(CHOOSE x \in {a, b} : P(x))
  BY <1>1
<1> QED
  BY <1>2, <1>3, <1>4

LEMMA AheadIs ==
    ASSUME Ready, NEW k \in Nat, NEW n \in Nat, NEW s \in Seq(Byte), Len(s) = n,
           Holds(bytes, at + k, s)
    PROVE  Ahead(k, n) = s
<1>1. PICK a, b, l : a = at + k + 1 /\ b = at + k + n /\ l = Len(bytes)
  OBVIOUS
<1>2. a \in Nat /\ b \in Nat /\ l \in Nat /\ a >= 1 /\ b <= l /\ b - a + 1 = n
  BY <1>1 DEF Ready, Holds
<1>3. Min({b, l}) = b
  BY <1>2, MinOf
<1>4. Ahead(k, n) = SubSeq(bytes, a, b)
  BY <1>1, <1>3 DEF Ahead
<1>5. SubSeq(bytes, a, b) = [i \in 1 .. n |-> bytes[a + i - 1]]
  BY <1>2 DEF Ready
<1>6. \A i \in 1 .. n : bytes[a + i - 1] = s[i]
  <2>1. ASSUME NEW i \in 1 .. n PROVE bytes[a + i - 1] = s[i]
    <3>1. a + i - 1 = (at + k) + i
      BY <1>1 DEF Ready
    <3> QED
      BY <3>1 DEF Holds
  <2> QED
    BY <2>1
<1>7. s = [i \in 1 .. n |-> s[i]]
  OBVIOUS
<1> QED
  BY <1>4, <1>5, <1>6, <1>7

LEMMA WordIs ==
    ASSUME Ready, NEW k \in Nat, NEW v \in Nat, Fits(v, width),
           Holds(bytes, at + k, Bytes(v, width))
    PROVE  Word(k) = v
<1>1. width \in Nat
  BY DEF Ready
<1>2. PICK s : s = Bytes(v, width)
  OBVIOUS
<1>3. s \in Seq(Byte) /\ Len(s) = width
  BY <1>1, <1>2, BytesAre DEF Byte
<1>4. Ahead(k, width) = s
  BY <1>1, <1>2, <1>3, AheadIs
<1>5. Number(s) = v
  BY <1>1, <1>2, NumberOfBytes
<1> QED
  BY <1>4, <1>5 DEF Word

LEMMA SizeIs ==
    ASSUME Ready, NEW k \in Nat, NEW v \in Nat, Fits(v, SizeBytes),
           Holds(bytes, at + k, Bytes(v, SizeBytes))
    PROVE  Size(k) = v
<1>1. SizeBytes \in Nat
  BY CodecAssumption
<1>2. PICK s : s = Bytes(v, SizeBytes)
  OBVIOUS
<1>3. s \in Seq(Byte) /\ Len(s) = SizeBytes
  BY <1>1, <1>2, BytesAre DEF Byte
<1>4. Ahead(k, SizeBytes) = s
  BY <1>1, <1>2, <1>3, AheadIs
<1>5. Number(s) = v
  BY <1>1, <1>2, NumberOfBytes
<1> QED
  BY <1>4, <1>5 DEF Size

LEMMA FlagIs ==
    ASSUME Ready, NEW k \in Nat, NEW b \in BOOLEAN, Holds(bytes, at + k, Bool(b))
    PROVE  Flag(k) = b
<1>1. PICK x : x = IF b THEN 1 ELSE 0
  OBVIOUS
<1>2. Bool(b) = <<x>> /\ x \in Nat
  BY <1>1 DEF Bool
<1>3. <<x>> \in Seq(Byte) /\ <<x>> \in Seq(Nat) /\ Len(<<x>>) = 1 /\ <<x>>[1] = x
  <2>1. x \in Byte
    BY <1>1, CodecAssumption DEF Byte, RET
  <2> QED
    BY <1>2, <2>1
<1>4. Ahead(k, 1) = <<x>>
  BY <1>2, <1>3, AheadIs
<1>5. Number(<<x>>) = x
  <2>1. PICK h : /\ Number(<<x>>) = h[1]
                 /\ h[0] = 0
                 /\ \A i \in 1 .. 1 : h[i] = <<x>>[1 - i + 1] + Base * h[i - 1]
    BY <1>3, NumberLoop
  <2>2. h[1] = <<x>>[1 - 1 + 1] + Base * h[1 - 1]
    BY <2>1
  <2>3. h[1 - 1] = 0 /\ <<x>>[1 - 1 + 1] = x
    BY <1>3, <2>1
  <2> QED
    BY <1>2, <2>1, <2>2, <2>3, CodecAssumption
<1>6. Flag(k) = (x # 0)
  BY <1>4, <1>5 DEF Flag
<1> QED
  BY <1>1, <1>6

(* The fields of a sequence that is in bytes. *)
LEMMA Inside ==
    ASSUME Ready, NEW c \in Seq(Byte), NEW s \in Seq(Byte), NEW k \in Nat,
           Holds(bytes, at, c), Holds(c, k, s)
    PROVE  Holds(bytes, at + k, s)
BY Within DEF Ready

LEMMA OpcodesAreBytes == OpCodes \subseteq Byte /\ OpCodes \subseteq Nat
BY CodecAssumption DEF OpCodes, Byte, NEWPC, MEMREAD, MEMWRITE, CALL, RET

(* One field, two, three behind an opcode. *)
LEMMA OneField ==
    ASSUME NEW o \in OpCodes, NEW a \in Seq(Byte), NEW c, c = <<o>> \o a
    PROVE  /\ c \in Seq(Byte) /\ Len(c) = 1 + Len(a) /\ c[1] = o
           /\ Holds(c, 1, a)
BY OpcodesAreBytes, One

LEMMA TwoFields ==
    ASSUME NEW o \in OpCodes, NEW a \in Seq(Byte), NEW b \in Seq(Byte), NEW c,
           c = <<o>> \o (a \o b)
    PROVE  /\ c \in Seq(Byte) /\ Len(c) = 1 + Len(a) + Len(b) /\ c[1] = o
           /\ Holds(c, 1, a) /\ Holds(c, 1 + Len(a), b)
<1>1. PICK d : d = a \o b
  OBVIOUS
<1>2. d \in Seq(Byte) /\ Len(d) = Len(a) + Len(b) /\ Holds(d, 0, a) /\ Holds(d, Len(a), b)
  BY <1>1, Join
<1>3. c \in Seq(Byte) /\ Len(c) = 1 + Len(d) /\ c[1] = o /\ Holds(c, 1, d)
  BY <1>1, <1>2, OneField
<1>4. Holds(c, 1 + 0, a) /\ Holds(c, 1 + Len(a), b)
  BY <1>2, <1>3, Within
<1>5. 1 + 0 = 1 /\ Len(a) \in Nat /\ Len(b) \in Nat
  OBVIOUS
<1> QED
  BY <1>2, <1>3, <1>4, <1>5

LEMMA ThreeFields ==
    ASSUME NEW o \in OpCodes, NEW a \in Seq(Byte), NEW b \in Seq(Byte), NEW e \in Seq(Byte), NEW c,
           c = <<o>> \o ((a \o b) \o e)
    PROVE  /\ c \in Seq(Byte) /\ Len(c) = 1 + Len(a) + Len(b) + Len(e) /\ c[1] = o
           /\ Holds(c, 1, a) /\ Holds(c, 1 + Len(a), b) /\ Holds(c, 1 + Len(a) + Len(b), e)
<1>1. PICK d : d = a \o b
  OBVIOUS
<1>2. d \in Seq(Byte) /\ Len(d) = Len(a) + Len(b) /\ Holds(d, 0, a) /\ Holds(d, Len(a), b)
  BY <1>1, Join
<1>3. /\ c \in Seq(Byte) /\ Len(c) = 1 + Len(d) + Len(e) /\ c[1] = o
      /\ Holds(c, 1, d) /\ Holds(c, 1 + Len(d), e)
  <2>1. c = <<o>> \o (d \o e)
    BY <1>1
  <2> QED
    BY <1>2, <2>1, TwoFields
<1>4. Holds(c, 1 + 0, a) /\ Holds(c, 1 + Len(a), b)
  BY <1>2, <1>3, Within
<1>5. 1 + 0 = 1 /\ Len(a) \in Nat /\ Len(b) \in Nat /\ Len(e) \in Nat
      /\ 1 + Len(d) = 1 + Len(a) + Len(b)
  BY <1>2
<1> QED
  BY <1>2, <1>3, <1>4, <1>5

LEMMA WordFits ==
    ASSUME Ready, NEW v \in Words
    PROVE  /\ v \in Nat /\ Fits(v, width)
           /\ Bytes(v, width) \in Seq(Byte) /\ Len(Bytes(v, width)) = width
<1>1. v \in Nat /\ Fits(v, TraceWord) /\ TraceWord \in Nat
  BY CodecAssumption
<1>2. width \in Nat /\ TraceWord <= width
  BY DEF Ready
<1> QED
  BY <1>1, <1>2, FitsMore, BytesAre DEF Byte

LEMMA SizeFits ==
    ASSUME NEW d \in DataSets
    PROVE  /\ d \in Seq(Byte) /\ Len(d) \in Nat /\ Fits(Len(d), SizeBytes)
           /\ Bytes(Len(d), SizeBytes) \in Seq(Byte) /\ Len(Bytes(Len(d), SizeBytes)) = SizeBytes
<1>1. d \in Seq(Byte) /\ Fits(Len(d), SizeBytes) /\ SizeBytes \in Nat
  BY CodecAssumption DEF Byte
<1>2. Len(d) \in Nat
  BY <1>1
<1> QED
  BY <1>1, <1>2, BytesAre DEF Byte

(* What starts here is c, and it is decoded to op. *)
Decodes(c, op) == /\ c \in Seq(Byte)
                  /\ bytes[at + 1] = op.opcode
                  /\ op.opcode \in OpCodes
                  /\ Decode = Item(Len(c), op)

LEMMA Opening ==
    ASSUME Ready, NEW c \in Seq(Byte), Holds(bytes, at, c), Len(c) >= 1
    PROVE  bytes[at + 1] = c[1]
<1>1. 1 \in 1 .. Len(c)
  OBVIOUS
<1> QED
  BY <1>1 DEF Holds

LEMMA DecodesNewPC ==
    ASSUME Ready, NEW v \in Words, NEW c, c = <<NEWPC>> \o Bytes(v, width), Holds(bytes, at, c)
    PROVE  Decodes(c, OP_NEWPC(v))
<1>1. PICK a : a = Bytes(v, width)
  OBVIOUS
<1>2. a \in Seq(Byte) /\ Len(a) = width /\ width \in Nat
  BY <1>1, WordFits DEF Ready
<1>3. NEWPC \in OpCodes
  BY DEF OpCodes
<1>4. c \in Seq(Byte) /\ Len(c) = 1 + width /\ c[1] = NEWPC /\ Holds(c, 1, a)
  BY <1>1, <1>2, <1>3, OneField
<1>5. bytes[at + 1] = NEWPC
  <2>1. Len(c) >= 1
    BY <1>2, <1>4
  <2> QED
    BY <1>2, <1>4, <2>1, Opening
<1>6. Word(1) = v
  BY <1>1, <1>2, <1>4, Inside, WordIs, WordFits
<1>7. Decode = Item(1 + width, OP_NEWPC(Word(1)))
  BY <1>5 DEF Decode, NEWPC, MEMREAD, MEMWRITE, CALL, RET
<1>8. OP_NEWPC(v).opcode = NEWPC
  BY DEF OP_NEWPC
<1> QED
  BY <1>3, <1>4, <1>5, <1>6, <1>7, <1>8 DEF Decodes

LEMMA DecodesRet ==
    ASSUME Ready, NEW v \in Words, NEW c, c = <<RET>> \o Bytes(v, width), Holds(bytes, at, c)
    PROVE  Decodes(c, OP_RET(v))
<1>1. PICK a : a = Bytes(v, width)
  OBVIOUS
<1>2. a \in Seq(Byte) /\ Len(a) = width /\ width \in Nat
  BY <1>1, WordFits DEF Ready
<1>3. RET \in OpCodes
  BY DEF OpCodes
<1>4. c \in Seq(Byte) /\ Len(c) = 1 + width /\ c[1] = RET /\ Holds(c, 1, a)
  BY <1>1, <1>2, <1>3, OneField
<1>5. bytes[at + 1] = RET
  <2>1. Len(c) >= 1
    BY <1>2, <1>4
  <2> QED
    BY <1>2, <1>4, <2>1, Opening
<1>6. Word(1) = v
  BY <1>1, <1>2, <1>4, Inside, WordIs, WordFits
<1>7. Decode = Item(1 + width, OP_RET(Word(1)))
  BY <1>5 DEF Decode, NEWPC, MEMREAD, MEMWRITE, CALL, RET
<1>8. OP_RET(v).opcode = RET
  BY DEF OP_RET
<1> QED
  BY <1>3, <1>4, <1>5, <1>6, <1>7, <1>8 DEF Decodes

LEMMA DecodesRead ==
    ASSUME Ready, NEW v \in Words, NEW d \in DataSets, NEW c,
           c = <<MEMREAD>> \o (Bytes(v, width) \o Bytes(Len(d), SizeBytes)), Holds(bytes, at, c)
    PROVE  Decodes(c, OP_MEMREAD(v, Len(d)))
<1>1. PICK a, b : a = Bytes(v, width) /\ b = Bytes(Len(d), SizeBytes)
  OBVIOUS
<1>2. /\ a \in Seq(Byte) /\ Len(a) = width /\ width \in Nat
      /\ b \in Seq(Byte) /\ Len(b) = SizeBytes /\ SizeBytes \in Nat
      /\ Len(d) \in Nat /\ Fits(Len(d), SizeBytes)
  BY <1>1, WordFits, SizeFits, CodecAssumption DEF Ready
<1>3. MEMREAD \in OpCodes
  BY DEF OpCodes
<1>4. /\ c \in Seq(Byte) /\ Len(c) = 1 + width + SizeBytes /\ c[1] = MEMREAD
      /\ Holds(c, 1, a) /\ Holds(c, 1 + width, b)
  <2>1. c = <<MEMREAD>> \o (a \o b)
    BY <1>1
  <2>2. /\ c \in Seq(Byte) /\ Len(c) = 1 + Len(a) + Len(b) /\ c[1] = MEMREAD
        /\ Holds(c, 1, a) /\ Holds(c, 1 + Len(a), b)
    BY <1>2, <1>3, <2>1, TwoFields
  <2> QED
    BY <1>2, <2>2
<1>5. bytes[at + 1] = MEMREAD
  <2>1. Len(c) >= 1
    BY <1>2, <1>4
  <2> QED
    BY <1>2, <1>4, <2>1, Opening
<1>6. Word(1) = v
  BY <1>1, <1>2, <1>4, Inside, WordIs, WordFits
<1>7. Size(1 + width) = Len(d)
  <2>1. 1 + width \in Nat
    BY <1>2
  <2>2. Holds(bytes, at + (1 + width), b)
    BY <1>2, <1>4, <2>1, Inside
  <2> QED
    BY <1>1, <1>2, <2>1, <2>2, SizeIs
<1>8. Decode = Item(1 + width + SizeBytes, OP_MEMREAD(Word(1), Size(1 + width)))
  BY <1>5 DEF Decode, NEWPC, MEMREAD, MEMWRITE, CALL, RET
<1>9. OP_MEMREAD(v, Len(d)).opcode = MEMREAD
  BY DEF OP_MEMREAD
<1> QED
  BY <1>3, <1>4, <1>5, <1>6, <1>7, <1>8, <1>9 DEF Decodes

LEMMA DecodesWrite ==
    ASSUME Ready, NEW v \in Words, NEW d \in DataSets, NEW c,
           c = <<MEMWRITE>> \o ((Bytes(v, width) \o Bytes(Len(d), SizeBytes)) \o d), Holds(bytes, at, c)
    PROVE  Decodes(c, OP_MEMWRITE(v, d))
<1>1. PICK a, b : a = Bytes(v, width) /\ b = Bytes(Len(d), SizeBytes)
  OBVIOUS
<1>2. /\ a \in Seq(Byte) /\ Len(a) = width /\ width \in Nat
      /\ b \in Seq(Byte) /\ Len(b) = SizeBytes /\ SizeBytes \in Nat
      /\ d \in Seq(Byte) /\ Len(d) \in Nat /\ Fits(Len(d), SizeBytes)
  BY <1>1, WordFits, SizeFits, CodecAssumption DEF Ready
<1>3. MEMWRITE \in OpCodes
  BY DEF OpCodes
<1>4. /\ c \in Seq(Byte) /\ Len(c) = 1 + width + SizeBytes + Len(d) /\ c[1] = MEMWRITE
      /\ Holds(c, 1, a) /\ Holds(c, 1 + width, b) /\ Holds(c, 1 + width + SizeBytes, d)
  <2>1. c = <<MEMWRITE>> \o ((a \o b) \o d)
    BY <1>1
  <2>2. /\ c \in Seq(Byte) /\ Len(c) = 1 + Len(a) + Len(b) + Len(d) /\ c[1] = MEMWRITE
        /\ Holds(c, 1, a) /\ Holds(c, 1 + Len(a), b) /\ Holds(c, 1 + Len(a) + Len(b), d)
    BY <1>2, <1>3, <2>1, ThreeFields
  <2> QED
    BY <1>2, <2>2
<1>5. bytes[at + 1] = MEMWRITE
  <2>1. Len(c) >= 1
    BY <1>2, <1>4
  <2> QED
    BY <1>2, <1>4, <2>1, Opening
<1>6. Word(1) = v
  BY <1>1, <1>2, <1>4, Inside, WordIs, WordFits
<1>7. Size(1 + width) = Len(d)
  <2>1. 1 + width \in Nat
    BY <1>2
  <2>2. Holds(bytes, at + (1 + width), b)
    BY <1>2, <1>4, <2>1, Inside
  <2> QED
    BY <1>1, <1>2, <2>1, <2>2, SizeIs
<1>8. Data(1 + width) = d
  <2>1. 1 + width + SizeBytes \in Nat
    BY <1>2
  <2>2. Holds(bytes, at + (1 + width + SizeBytes), d)
    BY <1>2, <1>4, <2>1, Inside
  <2>3. Ahead(1 + width + SizeBytes, Len(d)) = d
    BY <1>2, <2>1, <2>2, AheadIs
  <2> QED
    BY <1>7, <2>3 DEF Data
<1>9. Decode = Item(1 + width + SizeBytes + Len(Data(1 + width)),
                    OP_MEMWRITE(Word(1), Data(1 + width)))
  BY <1>5 DEF Decode, NEWPC, MEMREAD, MEMWRITE, CALL, RET
<1>10. OP_MEMWRITE(v, d).opcode = MEMWRITE
  BY DEF OP_MEMWRITE
<1> QED
  BY <1>3, <1>4, <1>5, <1>6, <1>8, <1>9, <1>10 DEF Decodes

LEMMA DecodesCall ==
    ASSUME Ready, NEW v \in Words, NEW u \in Words, NEW d \in BOOLEAN, NEW c,
           c = <<CALL>> \o ((Bytes(v, width) \o Bytes(u, width)) \o Bool(d)), Holds(bytes, at, c)
    PROVE  Decodes(c, OP_CALL(v, u, d))
<1>1. PICK a, b, e : a = Bytes(v, width) /\ b = Bytes(u, width) /\ e = Bool(d)
  OBVIOUS
<1>2. /\ a \in Seq(Byte) /\ Len(a) = width /\ width \in Nat
      /\ b \in Seq(Byte) /\ Len(b) = width
  BY <1>1, WordFits DEF Ready
<1>3. e \in Seq(Byte) /\ Len(e) = 1
  <2>1. PICK x : x = IF d THEN 1 ELSE 0
    OBVIOUS
  <2>2. x \in Byte
    BY <2>1, CodecAssumption DEF Byte, RET
  <2>3. e = <<x>>
    BY <1>1, <2>1 DEF Bool
  <2> QED
    BY <2>2, <2>3
<1>4. CALL \in OpCodes
  BY DEF OpCodes
<1>5. /\ c \in Seq(Byte) /\ Len(c) = 2 + 2 * width /\ c[1] = CALL
      /\ Holds(c, 1, a) /\ Holds(c, 1 + width, b) /\ Holds(c, 1 + 2 * width, e)
  <2>1. c = <<CALL>> \o ((a \o b) \o e)
    BY <1>1
  <2>2. /\ c \in Seq(Byte) /\ Len(c) = 1 + Len(a) + Len(b) + Len(e) /\ c[1] = CALL
        /\ Holds(c, 1, a) /\ Holds(c, 1 + Len(a), b) /\ Holds(c, 1 + Len(a) + Len(b), e)
    BY <1>2, <1>3, <1>4, <2>1, ThreeFields
  <2>3. 1 + width + width + 1 = 2 + 2 * width /\ 1 + width + width = 1 + 2 * width
    BY <1>2
  <2> QED
    BY <1>2, <1>3, <2>2, <2>3
<1>6. bytes[at + 1] = CALL
  <2>1. Len(c) >= 1
    BY <1>2, <1>5
  <2> QED
    BY <1>2, <1>5, <2>1, Opening
<1>7. Word(1) = v
  BY <1>1, <1>2, <1>5, Inside, WordIs, WordFits
<1>8. Word(1 + width) = u
  <2>1. 1 + width \in Nat
    BY <1>2
  <2>2. Holds(bytes, at + (1 + width), b)
    BY <1>2, <1>5, <2>1, Inside
  <2> QED
    BY <1>1, <1>2, <2>1, <2>2, WordIs, WordFits
<1>9. Flag(1 + 2 * width) = d
  <2>1. 1 + 2 * width \in Nat
    BY <1>2
  <2>2. Holds(bytes, at + (1 + 2 * width), e)
    BY <1>3, <1>5, <2>1, Inside
  <2> QED
    BY <1>1, <2>1, <2>2, FlagIs
<1>10. Decode = Item(2 + 2 * width, OP_CALL(Word(1), Word(1 + width), Flag(1 + 2 * width)))
  BY <1>6 DEF Decode, NEWPC, MEMREAD, MEMWRITE, CALL, RET
<1>11. OP_CALL(v, u, d).opcode = CALL
  BY DEF OP_CALL
<1> QED
  BY <1>4, <1>5, <1>6, <1>7, <1>8, <1>9, <1>10, <1>11 DEF Decodes

(* The decoder undoes the encoder, whatever follows. *)
LEMMA DecodesForm ==
    ASSUME Ready, NEW op \in MicroOp, NEW c, c = Form(op, width), Holds(bytes, at, c)
    PROVE  Decodes(c, op)
<1>1. CASE op \in {OP_NEWPC(v) : v \in Words}
  <2>1. PICK v \in Words : op = OP_NEWPC(v)
    BY <1>1
  <2>2. c = <<NEWPC>> \o Bytes(v, width)
    BY <2>1 DEF Form, Fields, OP_NEWPC, NEWPC, MEMREAD, MEMWRITE, CALL, RET
  <2> QED
    BY <2>1, <2>2, DecodesNewPC
<1>2. CASE op \in {OP_MEMREAD(v, Len(d)) : v \in Words, d \in DataSets}
  <2>1. PICK v \in Words, d \in DataSets : op = OP_MEMREAD(v, Len(d))
    BY <1>2
  <2>2. c = <<MEMREAD>> \o (Bytes(v, width) \o Bytes(Len(d), SizeBytes))
    BY <2>1 DEF Form, Fields, OP_MEMREAD, NEWPC, MEMREAD, MEMWRITE, CALL, RET
  <2> QED
    BY <2>1, <2>2, DecodesRead
<1>3. CASE op \in {OP_MEMWRITE(v, d) : v \in Words, d \in DataSets}
  <2>1. PICK v \in Words, d \in DataSets : op = OP_MEMWRITE(v, d)
    BY <1>3
  <2>2. c = <<MEMWRITE>> \o ((Bytes(v, width) \o Bytes(Len(d), SizeBytes)) \o d)
    BY <2>1 DEF Form, Fields, OP_MEMWRITE, NEWPC, MEMREAD, MEMWRITE, CALL, RET
  <2> QED
    BY <2>1, <2>2, DecodesWrite
<1>4. CASE op \in {OP_CALL(v, u, b) : v \in Words, u \in Words, b \in BOOLEAN}
  <2>1. PICK v \in Words, u \in Words, b \in BOOLEAN : op = OP_CALL(v, u, b)
    BY <1>4
  <2>2. c = <<CALL>> \o ((Bytes(v, width) \o Bytes(u, width)) \o Bool(b))
    BY <2>1 DEF Form, Fields, OP_CALL, NEWPC, MEMREAD, MEMWRITE, CALL, RET
  <2> QED
    BY <2>1, <2>2, DecodesCall
<1>5. CASE op \in {OP_RET(v) : v \in Words}
  <2>1. PICK v \in Words : op = OP_RET(v)
    BY <1>5
  <2>2. c = <<RET>> \o Bytes(v, width)
    BY <2>1 DEF Form, Fields, OP_RET, NEWPC, MEMREAD, MEMWRITE, CALL, RET
  <2> QED
    BY <2>1, <2>2, DecodesRet
<1> QED
  BY <1>1, <1>2, <1>3, <1>4, <1>5 DEF MicroOp

----------------------------------------------------------------------------
(* Micro-ops cut into instructions. *)

StartsOf(ops) == {i \in DOMAIN ops : ops[i].opcode = NEWPC}

(* The m sequences gs are the first m instructions of the n micro-ops ops, *)
(* and st tells where these start and where the last of them ends.         *)
CutInto(st, gs, m, ops, n) ==
    /\ st \in [1 .. m + 1 -> 1 .. n + 1]
    /\ st[1] = 1
    /\ \A j \in 1 .. m :
          /\ st[j] \in StartsOf(ops)
          /\ st[j] < st[j + 1]
          /\ \A i \in st[j] + 1 .. st[j + 1] - 1 : i \notin StartsOf(ops)
          /\ gs[j] = SubSeq(ops, st[j], st[j + 1] - 1)

(* An instruction that starts at a goes on to d at least. *)
GoesOn(a, ops, d) == /\ a \in StartsOf(ops)
                   /\ a <= d
                   /\ \A i \in a + 1 .. d : i \notin StartsOf(ops)

LEMMA SubSeqIs ==
    ASSUME NEW T, NEW n \in Nat, NEW ops \in Seq(T), Len(ops) = n,
           NEW a \in 1 .. n + 1, NEW b \in 0 .. n, a <= b + 1
    PROVE  /\ SubSeq(ops, a, b) \in Seq(T)
           /\ Len(SubSeq(ops, a, b)) = b - a + 1
           /\ \A i \in 1 .. b - a + 1 : SubSeq(ops, a, b)[i] = ops[a + i - 1]
<1>1. SubSeq(ops, a, b) = [i \in 1 .. b - a + 1 |-> ops[a + i - 1]]
  OBVIOUS
<1>2. \A i \in 1 .. b - a + 1 : a + i - 1 \in 1 .. n
  OBVIOUS
<1>3. b - a + 1 \in Nat
  OBVIOUS
<1>4. PICK l : l = b - a + 1
  OBVIOUS
<1>5. SubSeq(ops, a, b) = [i \in 1 .. l |-> ops[a + i - 1]] /\ \A i \in 1 .. l : ops[a + i - 1] \in T
  BY <1>1, <1>2, <1>4
<1>6. PICK s : s = SubSeq(ops, a, b)
  OBVIOUS
<1>7. s \in [1 .. l -> T] /\ \A i \in 1 .. l : s[i] = ops[a + i - 1]
  BY <1>5, <1>6
<1>8. s \in Seq(T) /\ Len(s) = l
  BY <1>3, <1>4, <1>7
<1> QED
  BY <1>4, <1>6, <1>7, <1>8

(* The instruction ends at d. *)
LEMMA CutMore ==
    ASSUME NEW T, NEW n \in Nat, NEW ops \in Seq(T), Len(ops) = n,
           NEW m \in Nat, NEW gs \in Seq(Seq(T)), Len(gs) = m,
           NEW st, CutInto(st, gs, m, ops, n),
           NEW d \in 0 .. n, GoesOn(st[m + 1], ops, d)
    PROVE  \E q : /\ CutInto(q, Append(gs, SubSeq(ops, st[m + 1], d)), m + 1, ops, n)
                  /\ q[(m + 1) + 1] = d + 1
<1> DEFINE q == [j \in 1 .. (m + 1) + 1 |-> IF j <= m + 1 THEN st[j] ELSE d + 1]
<1>0. PICK g, hs : g = SubSeq(ops, st[m + 1], d) /\ hs = Append(gs, g)
  OBVIOUS
<1>1. /\ st \in [1 .. m + 1 -> 1 .. n + 1] /\ st[1] = 1
      /\ \A j \in 1 .. m : /\ st[j] \in StartsOf(ops)
                           /\ st[j] < st[j + 1]
                           /\ \A i \in st[j] + 1 .. st[j + 1] - 1 : i \notin StartsOf(ops)
                           /\ gs[j] = SubSeq(ops, st[j], st[j + 1] - 1)
  BY DEF CutInto
<1>2. /\ st[m + 1] \in StartsOf(ops) /\ st[m + 1] <= d
      /\ \A i \in st[m + 1] + 1 .. d : i \notin StartsOf(ops)
  BY DEF GoesOn
<1>3. (\A j \in 1 .. m + 1 : q[j] = st[j]) /\ q[(m + 1) + 1] = d + 1
  OBVIOUS
<1>4. q \in [1 .. (m + 1) + 1 -> 1 .. n + 1] /\ q[1] = 1
  <2>1. \A j \in 1 .. m + 1 : st[j] \in 1 .. n + 1
    BY <1>1
  <2>2. d + 1 \in 1 .. n + 1
    OBVIOUS
  <2>3. \A j \in 1 .. (m + 1) + 1 : q[j] \in 1 .. n + 1
    BY <2>1, <2>2
  <2>4. 1 \in 1 .. m + 1
    OBVIOUS
  <2> QED
    BY <1>1, <1>3, <2>3, <2>4
<1>5. (\A j \in 1 .. m : hs[j] = gs[j]) /\ hs[m + 1] = g
  <2>1. st[m + 1] \in 1 .. n + 1 /\ st[m + 1] <= d + 1
    BY <1>1, <1>2
  <2>2. g \in Seq(T)
    BY <1>0, <2>1, SubSeqIs
  <2>3. PICK U : U = Seq(T)
    OBVIOUS
  <2>4. gs \in Seq(U) /\ g \in U
    BY <2>2, <2>3
  <2>5. /\ \A j \in 1 .. Len(gs) : Append(gs, g)[j] = gs[j]
        /\ Append(gs, g)[Len(gs) + 1] = g
    BY <2>4, AppendProperties
  <2> QED
    BY <1>0, <2>5
<1> HIDE DEF q
<1>6. ASSUME NEW j \in 1 .. m + 1
      PROVE  /\ q[j] \in StartsOf(ops)
             /\ q[j] < q[j + 1]
             /\ \A i \in q[j] + 1 .. q[j + 1] - 1 : i \notin StartsOf(ops)
             /\ hs[j] = SubSeq(ops, q[j], q[j + 1] - 1)
  <2>1. CASE j = m + 1
    <3>0. m + 1 \in 1 .. m + 1 /\ (d + 1) - 1 = d
      OBVIOUS
    <3>1. q[m + 1] = st[m + 1] /\ q[(m + 1) + 1] = d + 1 /\ hs[m + 1] = g
      BY <1>3, <1>5, <3>0
    <3>2. st[m + 1] \in 1 .. n + 1
      BY <1>1
    <3> QED
      BY <1>0, <1>2, <2>1, <3>0, <3>1, <3>2
  <2>2. CASE j # m + 1
    <3>1. j \in 1 .. m /\ j + 1 \in 1 .. m + 1
      BY <2>2
    <3>2. q[j] = st[j] /\ q[j + 1] = st[j + 1] /\ hs[j] = gs[j]
      BY <1>3, <1>5, <3>1
    <3> QED
      BY <1>1, <3>1, <3>2
  <2> QED
    BY <2>1, <2>2
<1>7. CutInto(q, hs, m + 1, ops, n)
  BY <1>4, <1>6 DEF CutInto
<1> QED
  BY <1>0, <1>3, <1>7

(* Every micro-op before the end of the last instruction is in one. *)
LEMMA CutCovers ==
    ASSUME NEW n \in Nat, NEW ops, NEW m \in Nat, NEW gs, NEW st, CutInto(st, gs, m, ops, n),
           NEW i \in 1 .. n, i < st[m + 1]
    PROVE  \E j \in 1 .. m : st[j] <= i /\ i < st[j + 1]
<1> DEFINE T == {k \in 1 .. m + 1 : i < st[k]}
<1>1. st \in [1 .. m + 1 -> 1 .. n + 1] /\ st[1] = 1
  BY DEF CutInto
<1>2. T \in SUBSET Nat /\ m + 1 \in T
  OBVIOUS
<1>3. PICK k \in T : \A j \in T : k <= j
  <2> HIDE DEF T
  <2> QED
    BY <1>2, LeastNat
<1>4. k # 1
  BY <1>1, <1>3
<1>5. k - 1 \in 1 .. m /\ (k - 1) + 1 = k /\ k - 1 \notin T /\ k - 1 \in 1 .. m + 1
  BY <1>3, <1>4
<1>6. st[k - 1] \in 1 .. n + 1
  BY <1>1, <1>5
<1>7. st[k - 1] <= i
  BY <1>5, <1>6
<1> QED
  BY <1>3, <1>5, <1>7

(* Instructions that are all there put together again are the micro-ops. *)
LEMMA CutWhole ==
    ASSUME NEW T, NEW n \in Nat, NEW ops \in Seq(T), Len(ops) = n,
           NEW m \in Nat, NEW gs \in Seq(Seq(T)), Len(gs) = m,
           NEW st, CutInto(st, gs, m, ops, n), st[m + 1] = n + 1
    PROVE  FlattenSeq(gs) = ops
<1>1. PICK f, off : f = FlattenSeq(gs) /\ f \in Seq(T) /\ Laid(off, gs, m, f)
  BY Flatten
<1>2. /\ off \in [1 .. m + 1 -> Nat] /\ off[1] = 0 /\ Len(f) = off[m + 1]
      /\ \A j \in 1 .. m : off[j + 1] = off[j] + Len(gs[j]) /\ Holds(f, off[j], gs[j])
  BY <1>1 DEF Laid
<1>3. /\ st \in [1 .. m + 1 -> 1 .. n + 1] /\ st[1] = 1
      /\ \A j \in 1 .. m : st[j] < st[j + 1] /\ gs[j] = SubSeq(ops, st[j], st[j + 1] - 1)
  BY DEF CutInto
<1>4. ASSUME NEW j \in 1 .. m
      PROVE  /\ st[j] \in 1 .. n + 1 /\ st[j + 1] \in 1 .. n + 1
             /\ Len(gs[j]) = st[j + 1] - st[j]
             /\ \A i \in 1 .. st[j + 1] - st[j] : gs[j][i] = ops[st[j] + i - 1]
  <2>1. PICK a, b : a = st[j] /\ b = st[j + 1] - 1
    OBVIOUS
  <2>2. j \in 1 .. m + 1 /\ j + 1 \in 1 .. m + 1
    OBVIOUS
  <2>3. st[j] \in 1 .. n + 1 /\ st[j + 1] \in 1 .. n + 1
    BY <1>3, <2>2
  <2>4. a \in 1 .. n + 1 /\ b \in 0 .. n /\ a <= b + 1 /\ b - a + 1 = st[j + 1] - st[j]
    <3>1. PICK x, y : x = st[j] /\ y = st[j + 1]
      OBVIOUS
    <3>2. x \in 1 .. n + 1 /\ y \in 1 .. n + 1 /\ x < y /\ a = x /\ b = y - 1
      BY <1>3, <2>1, <2>3, <3>1
    <3>3. a \in 1 .. n + 1 /\ b \in 0 .. n /\ a <= b + 1 /\ b - a + 1 = y - x
      BY <3>2
    <3> QED
      BY <3>1, <3>3
  <2>5. gs[j] = SubSeq(ops, a, b)
    BY <1>3, <2>1
  <2>6. Len(gs[j]) = b - a + 1 /\ \A i \in 1 .. b - a + 1 : gs[j][i] = ops[a + i - 1]
    BY <2>4, <2>5, SubSeqIs
  <2> QED
    BY <2>1, <2>3, <2>4, <2>6
<1> DEFINE S == {j \in Nat : j + 1 <= m + 1 => off[j + 1] = st[j + 1] - 1}
<1>5. \A j \in Nat : j \in S
  <2>1. 0 \in S
    BY <1>2, <1>3
  <2>2. ASSUME NEW j \in Nat, j \in S PROVE j + 1 \in S
    <3> SUFFICES ASSUME (j + 1) + 1 <= m + 1 PROVE off[(j + 1) + 1] = st[(j + 1) + 1] - 1
      OBVIOUS
    <3>1. j + 1 \in 1 .. m /\ j + 1 <= m + 1
      OBVIOUS
    <3>2. off[(j + 1) + 1] = off[j + 1] + (st[(j + 1) + 1] - st[j + 1])
      BY <1>2, <1>4, <3>1
    <3>3. off[j + 1] = st[j + 1] - 1
      BY <2>2, <3>1
    <3>4. st[j + 1] \in 1 .. n + 1 /\ st[(j + 1) + 1] \in 1 .. n + 1
      BY <1>4, <3>1
    <3> QED
      BY <3>2, <3>3, <3>4
  <2> HIDE DEF S
  <2> QED
    BY <2>1, <2>2, Induction
<1>6. \A j \in 1 .. m + 1 : off[j] = st[j] - 1
  <2>1. ASSUME NEW j \in 1 .. m + 1 PROVE off[j] = st[j] - 1
    <3>1. j - 1 \in Nat /\ (j - 1) + 1 = j
      OBVIOUS
    <3>2. j - 1 \in S
      <4> HIDE DEF S
      <4> QED
        BY <1>5, <3>1
    <3> QED
      BY <3>1, <3>2
  <2> QED
    BY <2>1
<1>7. Len(f) = n
  <2>1. m + 1 \in 1 .. m + 1
    OBVIOUS
  <2> QED
    BY <1>2, <1>6, <2>1
<1>8. ASSUME NEW i \in 1 .. n PROVE f[i] = ops[i]
  <2>1. PICK j \in 1 .. m : st[j] <= i /\ i < st[j + 1]
    <3>1. i < st[m + 1]
      OBVIOUS
    <3> QED
      BY <3>1, CutCovers
  <2>2. j \in 1 .. m + 1 /\ st[j] \in 1 .. n + 1 /\ st[j + 1] \in 1 .. n + 1
    BY <1>4
  <2>3. PICK k : k = i - st[j] + 1
    OBVIOUS
  <2>4. k \in 1 .. st[j + 1] - st[j] /\ st[j] + k - 1 = i /\ (st[j] - 1) + k = i
    <3>1. PICK x, y : x = st[j] /\ y = st[j + 1]
      OBVIOUS
    <3>2. x \in 1 .. n + 1 /\ y \in 1 .. n + 1 /\ x <= i /\ i < y /\ k = i - x + 1
      BY <2>1, <2>2, <2>3, <3>1
    <3>3. k \in 1 .. y - x /\ x + k - 1 = i /\ (x - 1) + k = i
      BY <3>2
    <3> QED
      BY <3>1, <3>3
  <2>5. gs[j][k] = ops[i] /\ k \in 1 .. Len(gs[j])
    BY <1>4, <2>4
  <2>6. f[off[j] + k] = gs[j][k]
    BY <1>2, <2>5 DEF Holds
  <2>7. off[j] + k = i
    BY <1>6, <2>2, <2>4
  <2> QED
    BY <2>5, <2>6, <2>7
<1>9. f = ops
  BY <1>1, <1>7, <1>8, SeqEqual
<1> QED
  BY <1>1, <1>9

----------------------------------------------------------------------------
(* The invariant. *)

InputOK == /\ input \in Seq(MicroOp)
           /\ input # <<>> => input[1].opcode = NEWPC
           /\ pass \in {1, 2}
           /\ width = IF pass = 1 THEN TraceWord ELSE DbWord

(* Calls cannot be read again. *)
Readable == pass = 1 \/ NoCalls

Forms(ops, wd) == [i \in 1 .. Len(ops) |-> Form(ops[i], wd)]

(* b is the micro-ops ops with words of w bytes, and a is the place in it  *)
(* behind the first d of them.                                             *)
Placed(ops, wd, b, a, d) ==
    /\ b \in Seq(Byte)
    /\ \E off : Laid(off, Forms(ops, wd), Len(ops), b) /\ a = off[d + 1]

(* How many micro-ops the two iterators have returned. *)
Pulled(ops, dec, t, ph) ==
    /\ Len(dec) \in 0 .. Len(ops)
    /\ dec = SubSeq(ops, 1, Len(dec))
    /\ t \in Nat
    /\ \/ ph = "first" /\ Len(dec) = 0 /\ t = 0
       \/ ph = "take" /\ Len(dec) = t + 1
       \/ ph = "peek" /\ Len(dec) = t
       \/ ph = "done" /\ Len(dec) = Len(ops)

(* The groups are the first instructions, what follows them is in group,   *)
(* and all that was decoded belongs to one of these.                       *)
SplitAt(st, ops, gs, g, d, t, ph) ==
    /\ CutInto(st, gs, Len(gs), ops, Len(ops))
    /\ ph = "first" => gs = <<>> /\ g = <<>>
    /\ ph \in {"take", "peek"} => /\ GoesOn(st[Len(gs) + 1], ops, d)
                                  /\ g = SubSeq(ops, st[Len(gs) + 1], t)
    /\ ph = "done" => st[Len(gs) + 1] = Len(ops) + 1

Split(ops, gs, g, d, t, ph) ==
    /\ gs \in Seq(Seq(MicroOp))
    /\ \E st : SplitAt(st, ops, gs, g, d, t, ph)

Reading == /\ Placed(input, width, bytes, at, Len(decoded))
           /\ Pulled(input, decoded, taken, phase)
           /\ Split(input, groups, group, Len(decoded), taken, phase)

CodecInv == InputOK /\ (Readable => Reading)

LEMMA FormIsBytes ==
    ASSUME NEW op \in MicroOp, NEW wd \in Nat
    PROVE  Form(op, wd) \in Seq(Byte) /\ Len(Form(op, wd)) >= 1
<1> USE DEF NEWPC, MEMREAD, MEMWRITE, CALL, RET
<1>1. ASSUME NEW v \in Words PROVE Bytes(v, wd) \in Seq(Byte)
  BY CodecAssumption, BytesAre DEF Byte
<1>2. ASSUME NEW d \in DataSets PROVE Bytes(Len(d), SizeBytes) \in Seq(Byte) /\ d \in Seq(Byte)
  BY SizeFits
<1>3. ASSUME NEW b \in BOOLEAN PROVE Bool(b) \in Seq(Byte)
  BY CodecAssumption DEF Bool, Byte
<1>4. \A a, b \in Seq(Byte) : a \o b \in Seq(Byte)
  OBVIOUS
<1>5. ASSUME NEW o \in OpCodes, NEW a \in Seq(Byte)
      PROVE  <<o>> \o a \in Seq(Byte) /\ Len(<<o>> \o a) >= 1
  <2>1. PICK c : c = <<o>> \o a
    OBVIOUS
  <2>2. c \in Seq(Byte) /\ Len(c) = 1 + Len(a)
    BY <2>1, OneField
  <2> QED
    BY <2>1, <2>2
<1>6. op.opcode \in OpCodes /\ Fields(op, wd) \in Seq(Byte)
  <2>1. CASE op \in {OP_NEWPC(v) : v \in Words}
    BY <1>1, <2>1 DEF OpCodes, Fields, OP_NEWPC
  <2>2. CASE op \in {OP_MEMREAD(v, Len(d)) : v \in Words, d \in DataSets}
    <3>1. PICK v \in Words, d \in DataSets : op = OP_MEMREAD(v, Len(d))
      BY <2>2
    <3>2. Fields(op, wd) = Bytes(v, wd) \o Bytes(Len(d), SizeBytes)
      BY <3>1 DEF Fields, OP_MEMREAD
    <3>3. Fields(op, wd) \in Seq(Byte)
      BY <1>1, <1>2, <1>4, <3>2
    <3> QED
      BY <3>1, <3>3 DEF OpCodes, OP_MEMREAD
  <2>3. CASE op \in {OP_MEMWRITE(v, d) : v \in Words, d \in DataSets}
    <3>1. PICK v \in Words, d \in DataSets : op = OP_MEMWRITE(v, d)
      BY <2>3
    <3>2. Fields(op, wd) = (Bytes(v, wd) \o Bytes(Len(d), SizeBytes)) \o d
      BY <3>1 DEF Fields, OP_MEMWRITE
    <3>3. Fields(op, wd) \in Seq(Byte)
      BY <1>1, <1>2, <1>4, <3>2
    <3> QED
      BY <3>1, <3>3 DEF OpCodes, OP_MEMWRITE
  <2>4. CASE op \in {OP_CALL(v, u, b) : v \in Words, u \in Words, b \in BOOLEAN}
    <3>1. PICK v \in Words, u \in Words, b \in BOOLEAN : op = OP_CALL(v, u, b)
      BY <2>4
    <3>2. Fields(op, wd) = (Bytes(v, wd) \o Bytes(u, wd)) \o Bool(b)
      BY <3>1 DEF Fields, OP_CALL
    <3>3. Fields(op, wd) \in Seq(Byte)
      BY <1>1, <1>3, <1>4, <3>2
    <3> QED
      BY <3>1, <3>3 DEF OpCodes, OP_CALL
  <2>5. CASE op \in {OP_RET(v) : v \in Words}
    BY <1>1, <2>5 DEF OpCodes, Fields, OP_RET
  <2> QED
    BY <2>1, <2>2, <2>3, <2>4, <2>5 DEF MicroOp
<1> QED
  BY <1>5, <1>6 DEF Form

(* Micro-ops put one behind the other are at the places Placed speaks of.  *)
LEMMA FormsArePlaced ==
    ASSUME NEW ops \in Seq(MicroOp), NEW wd \in Nat
    PROVE  Placed(ops, wd, FlattenSeq(Forms(ops, wd)), 0, 0)
<1>1. PICK n, T : n = Len(ops) /\ T = Seq(Byte)
  OBVIOUS
<1>2. n \in Nat
  BY <1>1
<1>3. \A i \in 1 .. n : Form(ops[i], wd) \in T
  BY <1>1, FormIsBytes
<1>4. PICK ss : ss = Forms(ops, wd)
  OBVIOUS
<1>5. ss \in [1 .. n -> T]
  BY <1>1, <1>3, <1>4 DEF Forms
<1>6. ss \in Seq(T) /\ Len(ss) = n
  BY <1>2, <1>5
<1>7. PICK off : FlattenSeq(ss) \in Seq(Byte) /\ Laid(off, ss, n, FlattenSeq(ss))
  BY <1>1, <1>2, <1>6, Flatten
<1>8. off[0 + 1] = 0
  BY <1>7 DEF Laid
<1> QED
  BY <1>1, <1>4, <1>7, <1>8 DEF Placed

(* What the decoder finds behind d micro-ops: the next one, or the end. *)
LEMMA AtPlace ==
    ASSUME InputOK, NEW d \in 0 .. Len(input), Placed(input, width, bytes, at, d)
    PROVE  /\ ~Fails
           /\ d = Len(input) => Stopped
           /\ d # Len(input) => /\ ~Stopped
                                /\ Decode.op = input[d + 1]
                                /\ Placed(input, width, bytes, at + Decode.length, d + 1)
<1>1. PICK n \in Nat : n = Len(input)
  BY DEF InputOK
<1>2. width \in Nat /\ TraceWord <= width
  BY CodecAssumption DEF InputOK
<1>3. PICK ss, off : ss = Forms(input, width) /\ Laid(off, ss, n, bytes) /\ at = off[d + 1]
  BY <1>1 DEF Placed
<1>4. /\ off \in [1 .. n + 1 -> Nat] /\ Len(bytes) = off[n + 1]
      /\ \A i \in 1 .. n : off[i + 1] = off[i] + Len(ss[i]) /\ Holds(bytes, off[i], ss[i])
  BY <1>3 DEF Laid
<1>5. d + 1 \in 1 .. n + 1 /\ at \in Nat
  BY <1>1, <1>3, <1>4
<1>6. Ready
  BY <1>2, <1>5 DEF Ready, Placed
<1>7. CASE d = n
  <2>1. Stopped
    BY <1>3, <1>4, <1>7 DEF Stopped
  <2> QED
    BY <1>1, <1>7, <2>1 DEF Fails
<1>8. CASE d # n
  <2>1. d + 1 \in 1 .. n /\ (d + 1) + 1 \in 1 .. n + 1
    BY <1>1, <1>8
  <2>2. PICK op, c : op = input[d + 1] /\ c = ss[d + 1]
    OBVIOUS
  <2>3. op \in MicroOp
    BY <1>1, <2>1, <2>2 DEF InputOK
  <2>4. c = Form(op, width)
    BY <1>1, <1>3, <2>1, <2>2 DEF Forms
  <2>5. c \in Seq(Byte) /\ Len(c) >= 1 /\ Len(c) \in Nat
    BY <1>2, <2>3, <2>4, FormIsBytes
  <2>6. Holds(bytes, at, c) /\ off[(d + 1) + 1] = at + Len(c)
    BY <1>3, <1>4, <2>1, <2>2
  <2>7. Decodes(c, op)
    BY <1>6, <2>3, <2>4, <2>6, DecodesForm
  <2>8. /\ bytes[at + 1] \in OpCodes
        /\ Decode.length = Len(c) /\ Decode.op = op
    BY <2>7 DEF Decodes, Item
  <2>9. at + Len(c) <= Len(bytes) /\ Len(bytes) \in Nat
    BY <1>6, <2>6 DEF Holds, Ready
  <2>10. ~Stopped
    BY <1>5, <2>5, <2>9 DEF Stopped
  <2>11. ~Fails
    BY <1>5, <2>5, <2>8, <2>9 DEF Fails
  <2>12. Placed(input, width, bytes, at + Decode.length, d + 1)
    BY <1>1, <1>3, <2>6, <2>8 DEF Placed
  <2> QED
    BY <1>1, <1>8, <2>2, <2>8, <2>10, <2>11, <2>12
<1> QED
  BY <1>7, <1>8

LEMMA SubSeqMore ==
    ASSUME NEW T, NEW n \in Nat, NEW ops \in Seq(T), Len(ops) = n,
           NEW a \in 1 .. n + 1, NEW b \in 0 .. n, a <= b + 1, b < n
    PROVE  Append(SubSeq(ops, a, b), ops[b + 1]) = SubSeq(ops, a, b + 1)
<1>1. PICK s, q, l : s = SubSeq(ops, a, b) /\ q = SubSeq(ops, a, b + 1) /\ l = b - a + 1
  OBVIOUS
<1>2. l \in Nat /\ b + 1 \in 0 .. n /\ a <= (b + 1) + 1 /\ (b + 1) - a + 1 = l + 1 /\ a + (l + 1) - 1 = b + 1
  BY <1>1
<1>3. s \in Seq(T) /\ Len(s) = l /\ \A i \in 1 .. l : s[i] = ops[a + i - 1]
  BY <1>1, SubSeqIs
<1>4. q \in Seq(T) /\ Len(q) = l + 1 /\ \A i \in 1 .. l + 1 : q[i] = ops[a + i - 1]
  BY <1>1, <1>2, SubSeqIs
<1>5. ops[b + 1] \in T
  <2>1. b + 1 \in 1 .. n
    OBVIOUS
  <2> QED
    BY <2>1
<1>6. PICK rs : rs = Append(s, ops[b + 1])
  OBVIOUS
<1>7. /\ rs \in Seq(T) /\ Len(rs) = l + 1
      /\ \A i \in 1 .. l : rs[i] = s[i]
      /\ rs[l + 1] = ops[b + 1]
  BY <1>3, <1>5, <1>6, AppendProperties
<1>8. ASSUME NEW i \in 1 .. l + 1 PROVE rs[i] = q[i]
  <2>1. CASE i = l + 1
    <3>1. q[l + 1] = ops[a + (l + 1) - 1]
      BY <1>2, <1>4
    <3> QED
      BY <1>2, <1>7, <2>1, <3>1
  <2>2. CASE i # l + 1
    <3>1. i \in 1 .. l
      BY <1>2, <2>2
    <3> QED
      BY <1>3, <1>4, <1>7, <3>1
  <2> QED
    BY <2>1, <2>2
<1>9. rs = q
  BY <1>2, <1>4, <1>7, <1>8, SeqEqual
<1> QED
  BY <1>1, <1>6, <1>9

LEMMA LoggedForm ==
    ASSUME NEW op
    PROVE  Logged(op) = Form(op, TraceWord)
BY DEF Logged, Form, Fields

LEMMA EncodedForm ==
    ASSUME NEW op \in MicroOp, op.opcode # CALL
    PROVE  Encoded(op) = Form(op, DbWord)
<1> USE DEF NEWPC, MEMREAD, MEMWRITE, CALL, RET
<1>1. CASE op.opcode = NEWPC
  BY <1>1 DEF Encoded, Form, Fields
<1>2. CASE op.opcode = MEMREAD
  BY <1>2 DEF Encoded, Form, Fields
<1>3. CASE op.opcode = MEMWRITE
  BY <1>3 DEF Encoded, Form, Fields
<1>4. CASE op.opcode = RET
  BY <1>4 DEF Encoded, Form, Fields
<1>5. op.opcode \in {NEWPC, MEMREAD, MEMWRITE, CALL, RET}
  BY DEF MicroOp, OP_NEWPC, OP_MEMREAD, OP_MEMWRITE, OP_CALL, OP_RET
<1> QED
  BY <1>1, <1>2, <1>3, <1>4, <1>5

LEMMA ConcatLogged ==
    ASSUME NEW ops
    PROVE  Concat(Logged, ops) = FlattenSeq(Forms(ops, TraceWord))
<1>1. \A i \in 1 .. Len(ops) : Logged(ops[i]) = Form(ops[i], TraceWord)
  BY LoggedForm
<1>2. [i \in 1 .. Len(ops) |-> Logged(ops[i])] = Forms(ops, TraceWord)
  BY <1>1 DEF Forms
<1> QED
  BY <1>2 DEF Concat

LEMMA ConcatEncoded ==
    ASSUME NEW ops \in Seq(MicroOp), \A i \in 1 .. Len(ops) : ops[i].opcode # CALL
    PROVE  Concat(Encoded, ops) = FlattenSeq(Forms(ops, DbWord))
<1>1. ASSUME NEW i \in 1 .. Len(ops) PROVE Encoded(ops[i]) = Form(ops[i], DbWord)
  <2>1. ops[i] \in MicroOp
    OBVIOUS
  <2> QED
    BY <2>1, EncodedForm
<1>2. [i \in 1 .. Len(ops) |-> Encoded(ops[i])] = Forms(ops, DbWord)
  BY <1>1 DEF Forms
<1> QED
  BY <1>2 DEF Concat

(* Before anything is decoded. *)
LEMMA NothingPulled ==
    ASSUME NEW ops \in Seq(MicroOp)
    PROVE  /\ Pulled(ops, <<>>, 0, "first")
           /\ Split(ops, <<>>, <<>>, 0, 0, "first")
<1>1. PICK n \in Nat : n = Len(ops)
  OBVIOUS
<1>2. Len(<<>>) = 0 /\ <<>> = SubSeq(ops, 1, 0)
  BY <1>1
<1>3. Pulled(ops, <<>>, 0, "first")
  BY <1>1, <1>2 DEF Pulled
<1> DEFINE st == [i \in 1 .. 0 + 1 |-> 1]
<1>4. CutInto(st, <<>>, 0, ops, n)
  BY DEF CutInto
<1>5. SplitAt(st, ops, <<>>, <<>>, 0, 0, "first")
  BY <1>1, <1>2, <1>4 DEF SplitAt
<1> QED
  BY <1>3, <1>5 DEF Split

LEMMA CodecInit == DecodeInit => CodecInv
<1> SUFFICES ASSUME DecodeInit PROVE CodecInv
  OBVIOUS
<1>1. input \in Seq(MicroOp)
  <2>1. PICK n \in 0 .. MaxOps : input \in [1 .. n -> MicroOp]
    BY DEF DecodeInit
  <2>2. n \in Nat
    BY CodecAssumption
  <2> QED
    BY <2>1, <2>2
<1>2. InputOK
  BY <1>1 DEF InputOK, DecodeInit
<1>3. bytes = FlattenSeq(Forms(input, TraceWord)) /\ width = TraceWord /\ TraceWord \in Nat
  BY ConcatLogged, CodecAssumption DEF DecodeInit
<1>4. decoded = <<>> /\ Len(decoded) = 0 /\ at = 0 /\ taken = 0 /\ group = <<>> /\ groups = <<>> /\ phase = "first"
  BY DEF DecodeInit
<1>5. Placed(input, width, bytes, at, Len(decoded))
  BY <1>1, <1>3, <1>4, FormsArePlaced
<1> QED
  BY <1>1, <1>2, <1>4, <1>5, NothingPulled DEF CodecInv, Reading

----------------------------------------------------------------------------
(* Steps. *)

(* One more micro-op is decoded. *)
LEMMA PeeksOne ==
    ASSUME InputOK, Reading, Peeks
    PROVE  LET d == Len(decoded) IN
           /\ d \in Nat /\ d < Len(input)
           /\ Decode.op = input[d + 1]
           /\ Placed(input, width, bytes, at', d + 1)
           /\ decoded' = SubSeq(input, 1, d + 1)
           /\ Len(decoded') = d + 1
<1>0. PICK n \in Nat : n = Len(input)
  BY DEF InputOK
<1>1. PICK d : d = Len(decoded) /\ n = Len(input)
  BY <1>0
<1>2. d \in 0 .. n /\ decoded = SubSeq(input, 1, d)
  BY <1>1 DEF Reading, Pulled
<1>3. d # n
  BY <1>1, <1>2, AtPlace DEF Reading, Peeks
<1>4. Decode.op = input[d + 1] /\ Placed(input, width, bytes, at + Decode.length, d + 1)
  BY <1>1, <1>2, <1>3, AtPlace DEF Reading
<1>5. at' = at + Decode.length /\ decoded' = Append(decoded, Decode.op)
  BY DEF Peeks
<1>6. decoded' = SubSeq(input, 1, d + 1)
  <2>1. input \in Seq(MicroOp) /\ 1 \in 1 .. n + 1 /\ d \in 0 .. n /\ 1 <= d + 1 /\ d < n
    BY <1>2, <1>3 DEF InputOK
  <2>2. Append(SubSeq(input, 1, d), input[d + 1]) = SubSeq(input, 1, d + 1)
    BY <1>1, <1>2, <2>1, SubSeqMore
  <2> QED
    BY <1>2, <1>4, <1>5, <2>2
<1>7. Len(decoded') = d + 1
  <2>1. 1 \in 1 .. n + 1 /\ d + 1 \in 0 .. n /\ 1 <= (d + 1) + 1 /\ (d + 1) - 1 + 1 = d + 1
    BY <1>2, <1>3
  <2>2. Len(SubSeq(input, 1, d + 1)) = (d + 1) - 1 + 1
    BY <1>1, <1>2, <2>1, SubSeqIs DEF InputOK
  <2> QED
    BY <1>6, <2>1, <2>2
<1> QED
  BY <1>1, <1>2, <1>3, <1>4, <1>5, <1>6, <1>7

LEMMA FirstStep ==
    ASSUME InputOK, Reading, First
    PROVE  Reading'
<1>0. PICK n \in Nat : n = Len(input)
  BY DEF InputOK
<1>1. PICK ops : ops = input /\ n = Len(ops)
  BY <1>0
<1>2. ops \in Seq(MicroOp) /\ (n # 0 => ops[1].opcode = NEWPC)
  BY <1>1 DEF InputOK
<1>3. /\ phase = "first" /\ UNCHANGED <<input, bytes, width, taken, group, groups>>
  BY DEF First
<1>4. Len(decoded) = 0 /\ taken = 0
  BY <1>3 DEF Reading, Pulled
<1>5. PICK st : SplitAt(st, ops, groups, group, 0, 0, "first")
  BY <1>1, <1>3, <1>4 DEF Reading, Split
<1>6. groups = <<>> /\ group = <<>> /\ Len(groups) = 0
  BY <1>5 DEF SplitAt
<1>7. CutInto(st, <<>>, 0, ops, n) /\ st[0 + 1] = 1
  BY <1>1, <1>5, <1>6 DEF SplitAt, CutInto
<1>8. <<>> \in Seq(Seq(MicroOp)) /\ Len(<<>>) = 0
  OBVIOUS
<1>9. CASE Stopped /\ phase' = "done" /\ UNCHANGED <<at, decoded>>
  <2>1. n = 0
    BY <1>1, <1>4, <1>9, AtPlace DEF Reading
  <2>2. Placed(input, width, bytes, at, Len(decoded))'
    BY <1>3, <1>9 DEF Reading
  <2>3. Pulled(ops, decoded, taken, "done")
    BY <1>1, <1>3, <1>4, <2>1 DEF Reading, Pulled
  <2>4. SplitAt(st, ops, <<>>, <<>>, 0, 0, "done")
    BY <1>1, <1>7, <1>8, <2>1 DEF SplitAt
  <2>5. Split(ops, <<>>, <<>>, 0, 0, "done")
    BY <1>8, <2>4 DEF Split
  <2> QED
    BY <1>1, <1>3, <1>4, <1>6, <1>9, <2>2, <2>3, <2>5 DEF Reading
<1>10. CASE Peeks /\ phase' = "take"
  <2>1. /\ 0 < n
        /\ Placed(ops, width, bytes, at', 1)
        /\ decoded' = SubSeq(ops, 1, 1) /\ Len(decoded') = 1
    BY <1>1, <1>4, <1>10, PeeksOne
  <2>2. Pulled(ops, decoded', 0, "take")
    BY <1>1, <2>1 DEF Pulled
  <2>3. 1 \in StartsOf(ops)
    BY <1>1, <1>2, <2>1 DEF StartsOf
  <2>4. GoesOn(st[0 + 1], ops, 1)
    BY <1>7, <2>3 DEF GoesOn
  <2>5. <<>> = SubSeq(ops, st[0 + 1], 0)
    BY <1>1, <1>2, <1>7
  <2>6. SplitAt(st, ops, <<>>, <<>>, 1, 0, "take")
    BY <1>1, <1>7, <1>8, <2>4, <2>5 DEF SplitAt
  <2>7. Split(ops, <<>>, <<>>, 1, 0, "take")
    BY <1>8, <2>6 DEF Split
  <2> QED
    BY <1>1, <1>3, <1>4, <1>6, <1>10, <2>1, <2>2, <2>7 DEF Reading
<1> QED
  BY <1>9, <1>10 DEF First

LEMMA TakeOpStep ==
    ASSUME InputOK, Reading, TakeOp
    PROVE  Reading'
<1>0. PICK n \in Nat : n = Len(input)
  BY DEF InputOK
<1>1. PICK ops, d, t : ops = input /\ n = Len(ops) /\ d = Len(decoded) /\ t = taken
  BY <1>0
<1>2. ops \in Seq(MicroOp)
  BY <1>1 DEF InputOK
<1>3. /\ phase = "take" /\ phase' = "peek" /\ taken' = t + 1
      /\ group' = Append(group, decoded[t + 1])
      /\ UNCHANGED <<input, bytes, width, at, decoded, groups>>
  BY <1>1 DEF TakeOp
<1>4. /\ d \in 0 .. n /\ decoded = SubSeq(ops, 1, d) /\ t \in Nat /\ d = t + 1
  BY <1>1, <1>3 DEF Reading, Pulled
<1>5. decoded[t + 1] = ops[t + 1]
  <2>1. 1 \in 1 .. n + 1 /\ 1 <= d + 1 /\ t + 1 \in 1 .. d - 1 + 1 /\ 1 + (t + 1) - 1 = t + 1
    BY <1>4
  <2>2. SubSeq(ops, 1, d)[t + 1] = ops[1 + (t + 1) - 1]
    BY <1>1, <1>2, <1>4, <2>1, SubSeqIs
  <2> QED
    BY <1>4, <2>1, <2>2
<1>6. PICK gs, g, m, st : gs = groups /\ g = group /\ m = Len(gs) /\ SplitAt(st, ops, gs, g, d, t, "take")
  BY <1>1, <1>3 DEF Reading, Split
<1>7. m \in Nat /\ gs \in Seq(Seq(MicroOp))
  BY <1>6 DEF Reading, Split
<1>8. CutInto(st, gs, m, ops, n) /\ GoesOn(st[m + 1], ops, d) /\ g = SubSeq(ops, st[m + 1], t)
  BY <1>1, <1>6 DEF SplitAt
<1>9. Append(g, ops[t + 1]) = SubSeq(ops, st[m + 1], t + 1)
  <2>1. m + 1 \in 1 .. m + 1
    BY <1>7
  <2>2. st[m + 1] \in 1 .. n + 1 /\ st[m + 1] <= d
    BY <1>8, <2>1 DEF CutInto, GoesOn
  <2>3. st[m + 1] <= t + 1 /\ t \in 0 .. n /\ t < n
    BY <1>4, <2>2
  <2> QED
    BY <1>1, <1>2, <1>8, <2>2, <2>3, SubSeqMore
<1>10. SplitAt(st, ops, gs, Append(g, ops[t + 1]), d, t + 1, "peek")
  BY <1>1, <1>6, <1>8, <1>9 DEF SplitAt
<1>11. Split(ops, gs, Append(g, ops[t + 1]), d, t + 1, "peek")
  BY <1>7, <1>10 DEF Split
<1>12. Pulled(ops, decoded, t + 1, "peek")
  BY <1>1, <1>4 DEF Pulled
<1>13. Placed(input, width, bytes, at, Len(decoded))'
  BY <1>3 DEF Reading
<1> QED
  BY <1>1, <1>3, <1>5, <1>6, <1>11, <1>12, <1>13 DEF Reading

LEMMA PeekStep ==
    ASSUME InputOK, Reading, Peek
    PROVE  Reading'
<1>0. PICK n \in Nat : n = Len(input)
  BY DEF InputOK
<1>1. PICK ops, d, t : ops = input /\ n = Len(ops) /\ d = Len(decoded) /\ t = taken
  BY <1>0
<1>2. ops \in Seq(MicroOp)
  BY <1>1 DEF InputOK
<1>3. /\ phase = "peek" /\ phase' = "take" /\ Peeks
      /\ UNCHANGED <<input, bytes, width, taken>>
  BY DEF Peek
<1>4. d \in 0 .. n /\ t \in Nat /\ d = t
  BY <1>1, <1>3 DEF Reading, Pulled
<1>5. /\ d < n /\ Decode.op = ops[d + 1]
      /\ Placed(ops, width, bytes, at', d + 1)
      /\ decoded' = SubSeq(ops, 1, d + 1) /\ Len(decoded') = d + 1
  BY <1>1, <1>3, PeeksOne
<1>6. Pulled(ops, decoded', t, "take")
  <2>1. d + 1 \in 0 .. n
    BY <1>4, <1>5
  <2> QED
    BY <1>1, <1>4, <1>5, <2>1 DEF Pulled
<1>7. PICK gs, g, m, st : gs = groups /\ g = group /\ m = Len(gs) /\ SplitAt(st, ops, gs, g, d, t, "peek")
  BY <1>1, <1>3 DEF Reading, Split
<1>8. m \in Nat /\ gs \in Seq(Seq(MicroOp))
  BY <1>7 DEF Reading, Split
<1>9. CutInto(st, gs, m, ops, n) /\ GoesOn(st[m + 1], ops, d) /\ g = SubSeq(ops, st[m + 1], d)
  BY <1>1, <1>4, <1>7 DEF SplitAt
<1>10. st[m + 1] \in 1 .. n + 1 /\ st[m + 1] <= d
  <2>1. m + 1 \in 1 .. m + 1
    BY <1>8
  <2> QED
    BY <1>9, <2>1 DEF CutInto, GoesOn
<1>11. d + 1 \in 1 .. n /\ DOMAIN ops = 1 .. n
  BY <1>1, <1>2, <1>4, <1>5
<1>12. CASE Decode.op.opcode = NEWPC
  <2>1. groups' = Append(gs, g) /\ group' = <<>>
    BY <1>7, <1>12 DEF Peek
  <2>2. d + 1 \in StartsOf(ops)
    BY <1>5, <1>11, <1>12 DEF StartsOf
  <2>3. PICK q : CutInto(q, Append(gs, g), m + 1, ops, n) /\ q[(m + 1) + 1] = d + 1
    <3>1. \E q : /\ CutInto(q, Append(gs, SubSeq(ops, st[m + 1], d)), m + 1, ops, n)
                 /\ q[(m + 1) + 1] = d + 1
      BY <1>1, <1>2, <1>4, <1>7, <1>8, <1>9, CutMore
    <3> QED
      BY <1>9, <3>1
  <2>4. g \in Seq(MicroOp)
    BY <1>1, <1>2, <1>4, <1>9, <1>10, SubSeqIs
  <2>5. Append(gs, g) \in Seq(Seq(MicroOp)) /\ Len(Append(gs, g)) = m + 1
    <3>1. PICK U : U = Seq(MicroOp)
      OBVIOUS
    <3>2. gs \in Seq(U) /\ g \in U
      BY <1>8, <2>4, <3>1
    <3>3. Append(gs, g) \in Seq(U) /\ Len(Append(gs, g)) = Len(gs) + 1
      BY <3>2, AppendProperties
    <3> QED
      BY <1>7, <3>1, <3>3
  <2>6. GoesOn(q[(m + 1) + 1], ops, d + 1)
    BY <1>4, <2>2, <2>3 DEF GoesOn
  <2>7. <<>> = SubSeq(ops, q[(m + 1) + 1], t)
    BY <1>2, <1>4, <2>3
  <2>8. SplitAt(q, ops, Append(gs, g), <<>>, d + 1, t, "take")
    BY <1>1, <2>3, <2>5, <2>6, <2>7 DEF SplitAt
  <2>9. Split(ops, Append(gs, g), <<>>, d + 1, t, "take")
    BY <2>5, <2>8 DEF Split
  <2> QED
    BY <1>1, <1>3, <1>5, <1>6, <2>1, <2>9 DEF Reading
<1>13. CASE Decode.op.opcode # NEWPC
  <2>1. groups' = gs /\ group' = g
    BY <1>7, <1>13 DEF Peek
  <2>2. d + 1 \notin StartsOf(ops)
    BY <1>5, <1>11, <1>13 DEF StartsOf
  <2>3. GoesOn(st[m + 1], ops, d + 1)
    BY <1>4, <1>9, <1>10, <2>2 DEF GoesOn
  <2>4. SplitAt(st, ops, gs, g, d + 1, t, "take")
    BY <1>1, <1>4, <1>7, <1>9, <2>3 DEF SplitAt
  <2>5. Split(ops, gs, g, d + 1, t, "take")
    BY <1>8, <2>4 DEF Split
  <2> QED
    BY <1>1, <1>3, <1>5, <1>6, <2>1, <2>5 DEF Reading
<1> QED
  BY <1>12, <1>13

LEMMA PeekEndStep ==
    ASSUME InputOK, Reading, PeekEnd
    PROVE  Reading'
<1>0. PICK n \in Nat : n = Len(input)
  BY DEF InputOK
<1>1. PICK ops, d, t : ops = input /\ n = Len(ops) /\ d = Len(decoded) /\ t = taken
  BY <1>0
<1>2. ops \in Seq(MicroOp)
  BY <1>1 DEF InputOK
<1>3. /\ phase = "peek" /\ phase' = "done" /\ Stopped
      /\ groups' = Append(groups, group)
      /\ UNCHANGED <<input, bytes, width, at, decoded, taken, group>>
  BY DEF PeekEnd
<1>4. d \in 0 .. n /\ t \in Nat /\ d = t
  BY <1>1, <1>3 DEF Reading, Pulled
<1>5. d = n
  BY <1>1, <1>3, <1>4, AtPlace DEF Reading
<1>6. Pulled(ops, decoded, t, "done")
  BY <1>1, <1>4, <1>5 DEF Reading, Pulled
<1>7. PICK gs, g, m, st : gs = groups /\ g = group /\ m = Len(gs) /\ SplitAt(st, ops, gs, g, d, t, "peek")
  BY <1>1, <1>3 DEF Reading, Split
<1>8. m \in Nat /\ gs \in Seq(Seq(MicroOp))
  BY <1>7 DEF Reading, Split
<1>9. CutInto(st, gs, m, ops, n) /\ GoesOn(st[m + 1], ops, d) /\ g = SubSeq(ops, st[m + 1], d)
  BY <1>1, <1>4, <1>7 DEF SplitAt
<1>10. st[m + 1] \in 1 .. n + 1 /\ st[m + 1] <= d
  <2>1. m + 1 \in 1 .. m + 1
    BY <1>8
  <2> QED
    BY <1>9, <2>1 DEF CutInto, GoesOn
<1>11. PICK q : CutInto(q, Append(gs, g), m + 1, ops, n) /\ q[(m + 1) + 1] = d + 1
  <2>1. \E q : /\ CutInto(q, Append(gs, SubSeq(ops, st[m + 1], d)), m + 1, ops, n)
               /\ q[(m + 1) + 1] = d + 1
    BY <1>1, <1>2, <1>4, <1>7, <1>8, <1>9, CutMore
  <2> QED
    BY <1>9, <2>1
<1>12. g \in Seq(MicroOp)
  BY <1>1, <1>2, <1>4, <1>9, <1>10, SubSeqIs
<1>13. Append(gs, g) \in Seq(Seq(MicroOp)) /\ Len(Append(gs, g)) = m + 1
  <2>1. PICK U : U = Seq(MicroOp)
    OBVIOUS
  <2>2. gs \in Seq(U) /\ g \in U
    BY <1>8, <1>12, <2>1
  <2>3. Append(gs, g) \in Seq(U) /\ Len(Append(gs, g)) = Len(gs) + 1
    BY <2>2, AppendProperties
  <2> QED
    BY <1>7, <2>1, <2>3
<1>14. SplitAt(q, ops, Append(gs, g), g, d, t, "done")
  BY <1>1, <1>5, <1>11, <1>13 DEF SplitAt
<1>15. Split(ops, Append(gs, g), g, d, t, "done")
  BY <1>13, <1>14 DEF Split
<1>16. Placed(input, width, bytes, at, Len(decoded))'
  BY <1>3 DEF Reading
<1> QED
  BY <1>1, <1>3, <1>6, <1>7, <1>15, <1>16 DEF Reading

LEMMA PeekFailsNever == InputOK /\ Reading => ~PeekFails
BY AtPlace DEF Reading, Pulled, PeekFails

(* When all is split, the groups put together are the input. *)
LEMMA DoneGroups ==
    ASSUME InputOK, Reading, phase = "done"
    PROVE  FlattenSeq(groups) = input
<1>0. PICK n \in Nat : n = Len(input)
  BY DEF InputOK
<1>1. PICK ops : ops = input /\ n = Len(ops)
  BY <1>0
<1>2. ops \in Seq(MicroOp)
  BY <1>1 DEF InputOK
<1>3. PICK gs, m : gs = groups /\ m = Len(gs)
  OBVIOUS
<1>4. m \in Nat /\ gs \in Seq(Seq(MicroOp))
  BY <1>3 DEF Reading, Split
<1>5. PICK st : SplitAt(st, ops, gs, group, Len(decoded), taken, "done")
  BY <1>1, <1>3 DEF Reading, Split
<1>6. CutInto(st, gs, m, ops, n) /\ st[m + 1] = n + 1
  BY <1>1, <1>3, <1>5 DEF SplitAt
<1> QED
  BY <1>1, <1>2, <1>3, <1>4, <1>6, CutWhole

LEMMA ReencodeStep ==
    ASSUME InputOK, Reading, Reencode, NoCalls
    PROVE  Reading'
<1>1. /\ bytes' = Concat(Encoded, FlattenSeq(groups)) /\ width' = DbWord
      /\ at' = 0 /\ decoded' = <<>> /\ taken' = 0 /\ group' = <<>> /\ groups' = <<>>
      /\ phase = "done" /\ phase' = "first" /\ input' = input
  BY DEF Reencode
<1>2. input \in Seq(MicroOp) /\ DbWord \in Nat
  BY CodecAssumption DEF InputOK
<1>3. \A i \in 1 .. Len(input) : input[i].opcode # CALL
  BY <1>2 DEF NoCalls
<1>4. bytes' = FlattenSeq(Forms(input, DbWord))
  BY <1>1, <1>2, <1>3, DoneGroups, ConcatEncoded
<1>5. Len(decoded') = 0
  BY <1>1
<1>6. Placed(input, DbWord, bytes', 0, 0)
  BY <1>2, <1>4, FormsArePlaced
<1> QED
  BY <1>1, <1>2, <1>5, <1>6, NothingPulled DEF Reading

LEMMA CodecStep == CodecInv /\ [DecodeNext]_decodeVars => CodecInv'
<1> SUFFICES ASSUME CodecInv, [DecodeNext]_decodeVars PROVE CodecInv'
  OBVIOUS
<1>1. InputOK
  BY DEF CodecInv
<1>2. CASE Reencode
  <2>1. input' = input /\ pass = 1 /\ pass' = 2 /\ width' = DbWord
    BY <1>2 DEF Reencode
  <2>2. InputOK'
    BY <1>1, <2>1 DEF InputOK
  <2>3. Readable' => NoCalls
    BY <2>1 DEF Readable, NoCalls
  <2>4. Reading
    BY <2>1 DEF CodecInv, Readable
  <2> QED
    BY <1>1, <1>2, <2>2, <2>3, <2>4, ReencodeStep DEF CodecInv
<1>3. CASE ~Reencode
  <2>1. UNCHANGED <<input, pass, width>>
    BY <1>3 DEF DecodeNext, First, TakeOp, Peek, PeekEnd, PeekFails, DecodeOver, decodeVars
  <2>2. InputOK'
    BY <1>1, <2>1 DEF InputOK
  <2>3. Readable' = Readable
    BY <2>1 DEF Readable, NoCalls
  <2>4. SUFFICES ASSUME Reading PROVE Reading'
    BY <2>2, <2>3 DEF CodecInv
  <2>5. CASE UNCHANGED decodeVars
    BY <2>4, <2>5 DEF decodeVars, Reading
  <2> QED
    BY <1>1, <1>3, <2>4, <2>5, FirstStep, TakeOpStep, PeekStep, PeekEndStep, PeekFailsNever
       DEF DecodeNext, DecodeOver
<1> QED
  BY <1>2, <1>3

LEMMA CodecInvariant == DecodeSpec => []CodecInv
BY CodecInit, CodecStep, PTL DEF DecodeSpec

----------------------------------------------------------------------------
(* The micro-ops of a log are read as they were logged. *)

LEMMA PulledPrefix ==
    ASSUME NEW ops \in Seq(MicroOp), NEW s, s = SubSeq(ops, 1, Len(s)), Len(s) \in 0 .. Len(ops)
    PROVE  IsPrefix(s, ops) /\ (Len(s) = Len(ops) => s = ops)
<1>0. PICK n \in Nat : n = Len(ops)
  OBVIOUS
<1>1. PICK d : n = Len(ops) /\ d = Len(s)
  BY <1>0
<1>2. 1 \in 1 .. n + 1 /\ d \in 0 .. n /\ 1 <= d + 1 /\ d - 1 + 1 = d
  BY <1>1
<1>3. s \in Seq(MicroOp) /\ \A i \in 1 .. d : s[i] = ops[1 + i - 1]
  BY <1>1, <1>2, SubSeqIs
<1>4. \A i \in 1 .. d : s[i] = ops[i]
  <2>1. \A i \in 1 .. d : 1 + i - 1 = i
    BY <1>2
  <2> QED
    BY <1>3, <2>1
<1>5. SubSeq(s, 1, d) = s
  BY <1>1, <1>3
<1>6. d = n => s = ops
  BY <1>1, <1>3, <1>4, SeqEqual
<1>7. Len(s) <= Len(ops) /\ SubSeq(s, 1, Len(s)) = SubSeq(ops, 1, Len(s))
  BY <1>1, <1>5
<1>8. IsPrefix(s, ops)
  BY <1>7 DEF IsPrefix
<1> QED
  BY <1>1, <1>6, <1>8

(* The log is decoded without an error to the micro-ops that were logged,  *)
(* whatever their number, addresses and data.                              *)
THEOREM LogDecoded == DecodeSpec => []DecodesLog
<1>1. ASSUME CodecInv PROVE DecodesLog
  <2> SUFFICES ASSUME pass = 1
               PROVE  phase # "error" /\ IsPrefix(decoded, input) /\ (phase = "done" => decoded = input)
    BY DEF DecodesLog
  <2>1. InputOK /\ Reading
    BY <1>1 DEF CodecInv, Readable
  <2>2. Pulled(input, decoded, taken, phase) /\ input \in Seq(MicroOp)
    BY <2>1 DEF Reading, InputOK
  <2>3. phase # "error" /\ (phase = "done" => Len(decoded) = Len(input))
    BY <2>2 DEF Pulled
  <2>4. IsPrefix(decoded, input) /\ (Len(decoded) = Len(input) => decoded = input)
    BY <2>2, PulledPrefix DEF Pulled
  <2> QED
    BY <2>3, <2>4
<1> QED
  BY <1>1, CodecInvariant, PTL

----------------------------------------------------------------------------
(* The groups are the instructions. *)

StartsBefore(ops, i) == {j \in StartsOf(ops) : j < i}

LEMMA StartsFinite ==
    ASSUME NEW T, NEW n \in Nat, NEW ops \in Seq(T), Len(ops) = n
    PROVE  /\ StartsOf(ops) \subseteq 1 .. n
           /\ IsFiniteSet(StartsOf(ops))
           /\ \A i : IsFiniteSet(StartsBefore(ops, i)) /\ Cardinality(StartsBefore(ops, i)) \in Nat
<1>1. StartsOf(ops) \subseteq 1 .. n
  BY DEF StartsOf
<1>2. IsFiniteSet(1 .. n)
  BY FS_Interval
<1>3. IsFiniteSet(StartsOf(ops))
  BY <1>1, <1>2, FS_Subset
<1>4. ASSUME NEW i PROVE IsFiniteSet(StartsBefore(ops, i)) /\ Cardinality(StartsBefore(ops, i)) \in Nat
  <2>1. StartsBefore(ops, i) \subseteq StartsOf(ops)
    BY DEF StartsBefore
  <2> QED
    BY <1>3, <2>1, FS_Subset, FS_CardinalityType
<1> QED
  BY <1>1, <1>3, <1>4

(* Behind a start there are more starts than behind the one before it. *)
LEMMA StartsOrdered ==
    ASSUME NEW T, NEW n \in Nat, NEW ops \in Seq(T), Len(ops) = n,
           NEW i \in StartsOf(ops), NEW j \in Nat, i < j
    PROVE  Cardinality(StartsBefore(ops, i)) < Cardinality(StartsBefore(ops, j))
<1>1. PICK A, B : A = StartsBefore(ops, i) /\ B = StartsBefore(ops, j)
  OBVIOUS
<1>2. IsFiniteSet(A) /\ IsFiniteSet(B) /\ Cardinality(A) \in Nat /\ Cardinality(B) \in Nat
  BY <1>1, StartsFinite
<1>3. i \in Nat
  BY StartsFinite
<1>4. i \notin A /\ A \cup {i} \subseteq B
  <2>1. \A h \in StartsOf(ops) : h \in Nat
    BY StartsFinite
  <2>2. \A h \in A : h \in StartsOf(ops) /\ h < i
    BY <1>1 DEF StartsBefore
  <2>3. ASSUME NEW h \in A PROVE h < j
    <3>1. h \in Nat /\ h < i
      BY <2>1, <2>2
    <3> QED
      BY <1>3, <3>1
  <2>4. \A h \in A \cup {i} : h \in StartsOf(ops) /\ h < j
    BY <2>2, <2>3
  <2>5. i \notin A
    BY <1>3, <2>2
  <2> QED
    BY <1>1, <2>4, <2>5 DEF StartsBefore
<1>5. Cardinality(A \cup {i}) = Cardinality(A) + 1
  BY <1>2, <1>4, FS_AddElement
<1>6. Cardinality(A \cup {i}) <= Cardinality(B)
  BY <1>2, <1>4, FS_Subset
<1> QED
  BY <1>1, <1>2, <1>5, <1>6

(* Before the k-th instruction there are k - 1. *)
LEMMA StartsCounted ==
    ASSUME NEW T, NEW n \in Nat, NEW ops \in Seq(T), Len(ops) = n,
           NEW m \in Nat, NEW gs, NEW st, CutInto(st, gs, m, ops, n), NEW k \in 1 .. m + 1
    PROVE  Cardinality(StartsBefore(ops, st[k])) = k - 1
<1>1. /\ st \in [1 .. m + 1 -> 1 .. n + 1] /\ st[1] = 1
      /\ \A j \in 1 .. m : /\ st[j] \in StartsOf(ops)
                           /\ st[j] < st[j + 1]
                           /\ \A i \in st[j] + 1 .. st[j + 1] - 1 : i \notin StartsOf(ops)
  BY DEF CutInto
<1>2. StartsOf(ops) \subseteq 1 .. n
  BY StartsFinite
<1> DEFINE S == {j \in Nat : j + 1 <= m + 1 => Cardinality(StartsBefore(ops, st[j + 1])) = j}
<1>3. \A j \in Nat : j \in S
  <2>1. 0 \in S
    <3>1. \A i \in StartsOf(ops) : ~ (i < 1)
      BY <1>2
    <3>2. StartsBefore(ops, 1) = {}
      BY <3>1 DEF StartsBefore
    <3>3. Cardinality(StartsBefore(ops, 1)) = 0
      BY <3>2, FS_EmptySet
    <3>4. 0 + 1 = 1
      OBVIOUS
    <3>5. Cardinality(StartsBefore(ops, st[0 + 1])) = 0
      BY <1>1, <3>3, <3>4
    <3> QED
      BY <3>5
  <2>2. ASSUME NEW j \in Nat, j \in S PROVE j + 1 \in S
    <3> SUFFICES ASSUME (j + 1) + 1 <= m + 1
                 PROVE  Cardinality(StartsBefore(ops, st[(j + 1) + 1])) = j + 1
      OBVIOUS
    <3>1. j + 1 \in 1 .. m /\ j + 1 <= m + 1 /\ j + 1 \in 1 .. m + 1 /\ (j + 1) + 1 \in 1 .. m + 1
      OBVIOUS
    <3>2. PICK a, b : a = st[j + 1] /\ b = st[(j + 1) + 1]
      OBVIOUS
    <3>3. a \in 1 .. n + 1 /\ b \in 1 .. n + 1 /\ a \in StartsOf(ops) /\ a < b
          /\ \A i \in a + 1 .. b - 1 : i \notin StartsOf(ops)
      BY <1>1, <3>1, <3>2
    <3>4. Cardinality(StartsBefore(ops, a)) = j
      BY <2>2, <3>1, <3>2
    <3>5. StartsBefore(ops, b) = StartsBefore(ops, a) \cup {a}
      <4>1. \A i \in StartsOf(ops) : i < b <=> (i < a \/ i = a)
        <5>1. ASSUME NEW i \in StartsOf(ops) PROVE i < b <=> (i < a \/ i = a)
          <6>1. i \in Nat
            BY <1>2
          <6>2. i \notin a + 1 .. b - 1
            BY <3>3
          <6> QED
            BY <3>3, <6>1, <6>2
        <5> QED
          BY <5>1
      <4> QED
        BY <3>3, <4>1 DEF StartsBefore
    <3>6. a \notin StartsBefore(ops, a)
      BY <3>3 DEF StartsBefore
    <3>7. IsFiniteSet(StartsBefore(ops, a))
      BY StartsFinite
    <3>8. Cardinality(StartsBefore(ops, b)) = j + 1
      BY <3>4, <3>5, <3>6, <3>7, FS_AddElement
    <3> QED
      BY <3>2, <3>8
  <2> HIDE DEF S
  <2> QED
    BY <2>1, <2>2, Induction
<1>4. k - 1 \in Nat /\ (k - 1) + 1 = k
  OBVIOUS
<1>5. k - 1 \in S
  <2> HIDE DEF S
  <2> QED
    BY <1>3, <1>4
<1> QED
  BY <1>4, <1>5

LEMMA MinIs ==
    ASSUME NEW S, S \subseteq Int, NEW a \in S, \A x \in S : a <= x
    PROVE  Min(S) = a
<1> DEFINE P(x) == \A y \in S : x <= y
<1>1. P(a)
  OBVIOUS
<1>2. ASSUME NEW x \in S, P(x) PROVE x = a
  <2>1. x <= a /\ a <= x /\ x \in Int /\ a \in Int
    BY <1>2
  <2> QED
    BY <2>1
<1>3. Min(S) = CHOOSE x \in S : P(x)
  BY DEF Min
<1> HIDE DEF P
<1>4. (CHOOSE x \in S : P(x)) \in S /\ P(CHOOSE x \in S : P(x))
  BY <1>1
<1> QED
  BY <1>2, <1>3, <1>4

(* A group that was cut off is the instruction of its number. *)
LEMMA GroupIsInstruction ==
    ASSUME NEW T, NEW n \in Nat, input \in Seq(T), Len(input) = n,
           NEW m \in Nat, NEW gs, NEW st, CutInto(st, gs, m, input, n),
           st[m + 1] \in StartsOf(input) \cup {n + 1}, NEW k \in 1 .. m
    PROVE  /\ m <= Cardinality(Starts)
           /\ Instructions[k] = gs[k]
<1>0. PICK ops : ops = input
  OBVIOUS
<1>1. ops \in Seq(T) /\ Len(ops) = n /\ CutInto(st, gs, m, ops, n) /\ Starts = StartsOf(ops)
  BY <1>0 DEF Starts, StartsOf
<1>2. /\ st \in [1 .. m + 1 -> 1 .. n + 1] /\ st[1] = 1
      /\ \A j \in 1 .. m : /\ st[j] \in StartsOf(ops)
                           /\ st[j] < st[j + 1]
                           /\ \A i \in st[j] + 1 .. st[j + 1] - 1 : i \notin StartsOf(ops)
                           /\ gs[j] = SubSeq(ops, st[j], st[j + 1] - 1)
  BY <1>1 DEF CutInto
<1>3. /\ StartsOf(ops) \subseteq 1 .. n /\ IsFiniteSet(StartsOf(ops))
      /\ Cardinality(StartsOf(ops)) \in Nat
  BY <1>1, StartsFinite, FS_CardinalityType
<1>4. m <= Cardinality(Starts)
  <2>1. m + 1 \in 1 .. m + 1 /\ (m + 1) - 1 = m
    OBVIOUS
  <2>2. Cardinality(StartsBefore(ops, st[m + 1])) = m
    BY <1>1, <2>1, StartsCounted
  <2>3. StartsBefore(ops, st[m + 1]) \subseteq StartsOf(ops)
    BY DEF StartsBefore
  <2> QED
    BY <1>1, <1>3, <2>2, <2>3, FS_Subset
<1>5. PICK a, b : a = st[k] /\ b = st[k + 1]
  OBVIOUS
<1>6. k \in 1 .. m + 1 /\ k + 1 \in 1 .. m + 1
  OBVIOUS
<1>7. /\ a \in 1 .. n + 1 /\ b \in 1 .. n + 1 /\ a < b /\ a \in StartsOf(ops)
      /\ \A i \in a + 1 .. b - 1 : i \notin StartsOf(ops)
      /\ gs[k] = SubSeq(ops, a, b - 1)
  BY <1>2, <1>5, <1>6
<1>8. Cardinality(StartsBefore(ops, a)) = k - 1
  BY <1>1, <1>5, <1>6, StartsCounted
<1> DEFINE P(i) == Cardinality({j \in Starts : j < i}) = k - 1
<1>9. \A i : P(i) <=> Cardinality(StartsBefore(ops, i)) = k - 1
  BY <1>1 DEF StartsBefore
<1>10. P(a)
  BY <1>8, <1>9
<1>11. ASSUME NEW i \in Starts, P(i) PROVE i = a
  <2>1. Cardinality(StartsBefore(ops, i)) = k - 1
    BY <1>9, <1>11
  <2>2. i \in StartsOf(ops) /\ i \in Nat /\ a \in Nat
    BY <1>1, <1>3, <1>7
  <2>3. CASE i < a
    <3>1. Cardinality(StartsBefore(ops, i)) < Cardinality(StartsBefore(ops, a))
      BY <1>1, <2>2, <2>3, StartsOrdered
    <3> QED
      BY <1>8, <2>1, <3>1
  <2>4. CASE a < i
    <3>1. Cardinality(StartsBefore(ops, a)) < Cardinality(StartsBefore(ops, i))
      BY <1>1, <1>7, <2>2, <2>4, StartsOrdered
    <3> QED
      BY <1>8, <2>1, <3>1
  <2> QED
    BY <2>2, <2>3, <2>4
<1>12. (CHOOSE i \in Starts : P(i)) = a
  <2> HIDE DEF P
  <2>1. (CHOOSE i \in Starts : P(i)) \in Starts /\ P(CHOOSE i \in Starts : P(i))
    BY <1>1, <1>7, <1>10
  <2> QED
    BY <1>11, <2>1
<1>13. Min({j \in Starts : j > a} \cup {Len(input) + 1}) = b
  <2> DEFINE R == {j \in Starts : j > a} \cup {Len(input) + 1}
  <2>1. R \subseteq Int
    BY <1>1, <1>3
  <2>2. b \in StartsOf(ops) \cup {n + 1}
    <3>1. CASE k = m
      BY <1>0, <1>5, <3>1
    <3>2. CASE k # m
      <4>1. k + 1 \in 1 .. m
        BY <3>2
      <4> QED
        BY <1>2, <1>5, <4>1
    <3> QED
      BY <3>1, <3>2
  <2>3. b \in R
    BY <1>1, <1>7, <2>2
  <2>4. ASSUME NEW j \in R PROVE b <= j
    <3>1. CASE j = n + 1
      BY <1>7, <3>1
    <3>2. CASE j # n + 1
      <4>1. j \in StartsOf(ops) /\ j > a /\ j \in Nat
        BY <1>1, <1>3, <3>2
      <4>2. j \notin a + 1 .. b - 1
        BY <1>7, <4>1
      <4> QED
        BY <1>7, <4>1, <4>2
    <3> QED
      BY <3>1, <3>2
  <2> HIDE DEF R
  <2>5. Min(R) = b
    BY <2>1, <2>3, <2>4, MinIs
  <2> QED
    BY <2>5 DEF R
<1>14. k \in 1 .. Cardinality(Starts)
  BY <1>1, <1>3, <1>4
<1>15. Instructions[k] = SubSeq(input, CHOOSE i \in Starts : P(i),
                               Min({j \in Starts : j > CHOOSE i \in Starts : P(i)} \cup {Len(input) + 1}) - 1)
  BY <1>14, Zenon DEF Instructions
<1>16. Instructions[k] = SubSeq(input, a, b - 1)
  <2> HIDE DEF P
  <2> QED
    BY <1>12, <1>13, <1>15
<1> QED
  BY <1>0, <1>4, <1>7, <1>16

(* What was split off so far are the first instructions. *)
LEMMA GroupsPrefix ==
    ASSUME InputOK, Reading
    PROVE  IsPrefix(groups, Instructions) /\ (phase = "done" => groups = Instructions)
<1>0. PICK n \in Nat : n = Len(input)
  BY DEF InputOK
<1>1. PICK gs, m : n = Len(input) /\ gs = groups /\ m = Len(gs)
  BY <1>0
<1>2. input \in Seq(MicroOp) /\ gs \in Seq(Seq(MicroOp)) /\ m \in Nat
  BY <1>1 DEF InputOK, Reading, Split
<1>3. PICK st : SplitAt(st, input, gs, group, Len(decoded), taken, phase)
  BY <1>1 DEF Reading, Split
<1>4. CutInto(st, gs, m, input, n)
  BY <1>1, <1>3 DEF SplitAt
<1>5. PICK l, ins : l = Cardinality(Starts) /\ ins = Instructions
  OBVIOUS
<1>6. l \in Nat /\ ins = [k \in 1 .. l |-> ins[k]]
  <2>1. Starts = StartsOf(input)
    BY DEF Starts, StartsOf
  <2>2. l \in Nat
    BY <1>1, <1>2, <1>5, <2>1, StartsFinite, FS_CardinalityType
  <2>3. ins = [k \in 1 .. l |-> ins[k]]
    <3> DEFINE Opens(k) == CHOOSE i \in Starts : Cardinality({j \in Starts : j < i}) = k - 1
               After(k) == Min({j \in Starts : j > Opens(k)} \cup {Len(input) + 1})
               Cut(k) == SubSeq(input, Opens(k), After(k) - 1)
    <3>1. ins = [k \in 1 .. l |-> Cut(k)]
      BY <1>5, Zenon DEF Instructions
    <3> HIDE DEF Cut
    <3> QED
      BY <3>1
  <2> QED
    BY <2>2, <2>3
<1>7. phase \in {"first", "take", "peek", "done"}
  BY DEF Reading, Pulled
<1>8. phase # "first" => st[m + 1] \in StartsOf(input) \cup {n + 1}
  BY <1>1, <1>3, <1>7 DEF SplitAt, GoesOn
<1>9. m = 0 \/ phase # "first"
  BY <1>1, <1>3 DEF SplitAt
<1>10. m <= l /\ \A k \in 1 .. m : ins[k] = gs[k]
  <2>1. CASE m = 0
    BY <1>6, <2>1
  <2>2. CASE m # 0
    <3>0. st[m + 1] \in StartsOf(input) \cup {n + 1}
      BY <1>8, <1>9, <2>2
    <3>1. ASSUME NEW k \in 1 .. m PROVE m <= l /\ ins[k] = gs[k]
      <4>1. PICK T : T = MicroOp
        OBVIOUS
      <4>2. input \in Seq(T) /\ Len(input) = n
        BY <1>1, <1>2, <4>1
      <4>3. m <= Cardinality(Starts) /\ Instructions[k] = gs[k]
        BY <1>2, <1>4, <3>0, <4>2, GroupIsInstruction
      <4> QED
        BY <1>5, <4>3
    <3>2. m \in 1 .. m
      BY <1>2, <2>2
    <3> QED
      BY <3>1, <3>2
  <2> QED
    BY <2>1, <2>2
<1>11. Len(ins) = l
  BY <1>6
<1>12. IsPrefix(gs, ins)
  <2>1. SubSeq(gs, 1, m) = [k \in 1 .. m |-> gs[k]]
    BY <1>1, <1>2
  <2>2. SubSeq(ins, 1, m) = [k \in 1 .. m |-> ins[k]]
    BY <1>2, <1>6, <1>10, <1>11
  <2>3. SubSeq(gs, 1, m) = SubSeq(ins, 1, m)
    BY <1>10, <2>1, <2>2
  <2> QED
    BY <1>1, <1>10, <1>11, <2>3 DEF IsPrefix
<1>13. phase = "done" => gs = ins
  <2> SUFFICES ASSUME phase = "done" PROVE gs = ins
    OBVIOUS
  <2>1. st[m + 1] = n + 1
    BY <1>1, <1>3 DEF SplitAt
  <2>2. m + 1 \in 1 .. m + 1 /\ (m + 1) - 1 = m
    BY <1>2
  <2>3. Cardinality(StartsBefore(input, n + 1)) = m
    BY <1>1, <1>2, <1>4, <2>1, <2>2, StartsCounted
  <2>4. StartsBefore(input, n + 1) = Starts
    <3>1. \A i \in StartsOf(input) : i < n + 1
      BY <1>1, <1>2, StartsFinite
    <3> QED
      BY <3>1 DEF StartsBefore, Starts, StartsOf
  <2>5. m = l
    BY <1>5, <2>3, <2>4
  <2>6. gs = [k \in 1 .. m |-> gs[k]]
    BY <1>1, <1>2
  <2> QED
    BY <1>6, <1>10, <2>5, <2>6
<1> QED
  BY <1>1, <1>5, <1>12, <1>13

(* The groups of a log that is read are its instructions, none of them     *)
(* split, merged, lost or doubled.                                         *)
THEOREM LogSplit == DecodeSpec => []GroupsAreInstructions
<1>1. CodecInv => GroupsAreInstructions
  BY GroupsPrefix DEF CodecInv, Readable, GroupsAreInstructions
<1> QED
  BY <1>1, CodecInvariant, PTL

(* Instructions without calls that were encoded for the database are read  *)
(* again, whatever the size of a word there.                               *)
THEOREM DatabaseRead == DecodeSpec => []RoundTripButCalls
<1>1. CodecInv => RoundTripButCalls
  BY GroupsPrefix DEF CodecInv, Readable, RoundTripButCalls, Reading, Pulled
<1> QED
  BY <1>1, CodecInvariant, PTL
=============================================================================
