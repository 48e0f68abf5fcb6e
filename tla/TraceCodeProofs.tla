--------------------------- MODULE TraceCodeProofs ---------------------------
(***************************************************************************)
(* Theorems about TraceCode, for any number of threads, any addresses and  *)
(* images, and logs of any length.                                         *)
(***************************************************************************)
EXTENDS TraceCode, TLAPS

(* What the trace s tells of image i. *)
Loaded(s, i)   == \E d \in DOMAIN s : s[d].kind = "mod_load" /\ s[d].image = i
Unloaded(s, i) == \E d \in DOMAIN s : s[d].kind = "mod_unload" /\ s[d].image = i
SymbolsTold(s, i) == \E d \in DOMAIN s : s[d].kind = "mod_symbols" /\ s[d].image = i

Known(s, i) == Loaded(s, i) /\ ~Unloaded(s, i) /\ SymbolsTold(s, i)

(* Event e tells the code at a. *)
Tells(e, a) == e.kind = "trace_disasm" /\ a \in e.pcs

(* The last event that tells it says that it is of image i. *)
LastTells(s, a, i) ==
    \E d \in DOMAIN s : /\ Tells(s[d], a)
                        /\ s[d].image = i
                        /\ \A e \in DOMAIN s : Tells(s[e], a) => e <= d

(* Event e is before t's instruction n. *)
Sees(e, t, n) == \E r \in e.refs : r.tid = t /\ r.next <= n

(* A reader of s who goes by the references finds the code of t's x, ...   *)
CodeTold(s, t, x) ==
    \E d \in DOMAIN s : /\ Tells(s[d], x.ins.pc) /\ Sees(s[d], t, x.n)
                        /\ s[d].image = x.ins.image
                        /\ \A e \in DOMAIN s :
                              Tells(s[e], x.ins.pc) /\ Sees(s[e], t, x.n) => e <= d

(* ... and its image. *)
ImageTold(s, t, x) ==
    /\ \E d \in DOMAIN s : /\ Sees(s[d], t, x.n) /\ s[d].kind = "mod_load"
                           /\ s[d].image = x.ins.image /\ x.ins.pc \in s[d].pcs
    /\ \E d \in DOMAIN s : /\ Sees(s[d], t, x.n) /\ s[d].kind = "mod_symbols"
                           /\ s[d].image = x.ins.image
    /\ \A d \in DOMAIN s : Sees(s[d], t, x.n) /\ s[d].kind = "mod_unload"
                              => s[d].image # x.ins.image
    /\ \A d \in DOMAIN s :
          /\ Sees(s[d], t, x.n) /\ s[d].kind = "mod_load"
          /\ s[d].image # x.ins.image /\ x.ins.pc \in s[d].pcs
          => \E e \in DOMAIN s : /\ Sees(s[e], t, x.n) /\ s[e].kind = "mod_unload"
                                 /\ s[e].image = s[d].image

(* Event e does not disagree with t's x, if it is taken for an earlier one. *)
Agrees(e, t, x) ==
    Sees(e, t, x.n) =>
        /\ Tells(e, x.ins.pc) => e.image = x.ins.image
        /\ e.kind = "mod_load" => x.ins.pc \notin e.pcs
        /\ e.kind = "mod_unload" => e.image # x.ins.image

----------------------------------------------------------------------------
(* The invariant. *)

(* A thread in a callback has Pin's lock, who writes has something to.     *)
LockInv ==
    \A t \in Threads :
        /\ doing[t] \in {"load", "symbols", "unload", "compile"} <=> pinLock = t
        /\ outLock = t => doing[t] # "running"

(* What t is about to tell. *)
Pending(t) ==
    /\ doing[t] = "load" => /\ event[t].kind = "mod_load"
                            /\ event[t].image \in 1 .. images
                            /\ event[t].pcs = Span(event[t].image)
                            /\ ~Loaded(trace, event[t].image) /\ ~Unloaded(trace, event[t].image)
    /\ doing[t] = "symbols" => /\ event[t].kind = "mod_symbols"
                               /\ Loaded(trace, event[t].image) /\ ~Unloaded(trace, event[t].image)
    /\ doing[t] = "unload" => /\ event[t].kind = "mod_unload"
                              /\ event[t].image \in 1 .. images
                              /\ \A u \in Threads : at[u] \notin Span(event[t].image)
    /\ doing[t] = "compile" => /\ event[t].kind = "trace_disasm"
                               /\ event[t].image \in 1 .. images
                               /\ Known(trace, event[t].image)
                               /\ event[t].pcs \subseteq Span(event[t].image)
    /\ doing[t] = "flush" => /\ event[t].kind = "micro_event_log"
                             /\ event[t].start = count[t] - Len(log[t])
                             /\ event[t].ins = log[t]
                             /\ at[t] \in Addrs /\ cache[at[t]] # 0
    /\ doing[t] \notin {"running", "flush"} => event[t].ins = <<>>
    /\ doing[t] # "running" => event[t].tid = t

PendingInv == \A t \in Threads : Pending(t)

(* The images in memory are those the trace tells, but for one that is     *)
(* being loaded; each is loaded once, and where its event says.            *)
ImagesInv ==
    /\ \A a \in Addrs : mapped[a] # 0 =>
          \/ Known(trace, mapped[a])
          \/ \E t \in Threads : doing[t] \in {"load", "symbols"} /\ event[t].image = mapped[a]
    /\ \A d \in DOMAIN trace :
          /\ trace[d].kind \in {"mod_load", "mod_unload"} => trace[d].image \in 1 .. images
          /\ trace[d].kind = "mod_load" /\ ~Unloaded(trace, trace[d].image)
                => trace[d].pcs = Span(trace[d].image)
    /\ \A d, e \in DOMAIN trace :
          /\ trace[d].kind = "mod_load" /\ trace[e].kind = "mod_load"
          /\ trace[d].image = trace[e].image
          => d = e

(* There is code only of such images, and the trace has told it. *)
CacheInv ==
    \A a \in Addrs : cache[a] # 0 => /\ cache[a] = mapped[a]
                                     /\ Known(trace, cache[a])
                                     /\ LastTells(trace, a, cache[a])

(* Events refer to every thread, where it has been. *)
RefsInv ==
    /\ \A d \in DOMAIN trace : /\ \A t \in Threads : \E r \in trace[d].refs : r.tid = t
                               /\ \A r \in trace[d].refs : r.next <= count[r.tid]
    /\ \A t \in Threads : doing[t] # "running" =>
          \A r \in event[t].refs : r.next <= count[r.tid]

(* What t has executed is told, and not called in question by an event     *)
(* that is being written.                                                  *)
Told(t, x) ==
    /\ x.n \in Nat /\ x.n < count[t]
    /\ CodeTold(trace, t, x) /\ ImageTold(trace, t, x)
    /\ \A u \in Threads : doing[u] # "running" => Agrees(event[u], t, x)

ExecutedInv == \A t \in Threads : \A x \in Executed(t) : Told(t, x)

(* After event j of s, the images known are at different places, and the   *)
(* code it tells is in one of them.                                        *)
Consistent(s, j) ==
    /\ \A d, e \in 1 .. j :
          /\ s[d].kind = "mod_load" /\ s[e].kind = "mod_load"
          /\ s[d].image # s[e].image
          => \/ s[d].pcs \cap s[e].pcs = {}
             \/ \E k \in 1 .. j : /\ s[k].kind = "mod_unload"
                                 /\ s[k].image \in {s[d].image, s[e].image}
    /\ s[j].kind = "trace_disasm" =>
          /\ \E d \in 1 .. j : /\ s[d].kind = "mod_load" /\ s[d].image = s[j].image
                              /\ s[j].pcs \subseteq s[d].pcs
          /\ \E d \in 1 .. j : s[d].kind = "mod_symbols" /\ s[d].image = s[j].image
          /\ \A d \in 1 .. j : s[d].kind = "mod_unload" => s[d].image # s[j].image

MapInv == \A j \in DOMAIN trace : Consistent(trace, j)

(* A log's length fits the counter. *)
Types == TypeOK /\ LockInv /\ \A t \in Threads : Len(log[t]) <= count[t]

IInv == Types /\ PendingInv /\ ImagesInv /\ CacheInv /\ RefsInv /\ ExecutedInv /\ MapInv

----------------------------------------------------------------------------
(* One more event. *)

LEMMA OneMore ==
    ASSUME NEW S, NEW s \in Seq(S), NEW e \in S
    PROVE  /\ Len(s) \in Nat
           /\ DOMAIN s = 1 .. Len(s)
           /\ Append(s, e) \in Seq(S)
           /\ DOMAIN Append(s, e) = 1 .. (Len(s) + 1)
           /\ Append(s, e)[Len(s) + 1] = e
           /\ \A d \in 1 .. Len(s) : Append(s, e)[d] = s[d]
OBVIOUS

(* The new event is the last one. *)
LEMMA Newest ==
    ASSUME NEW s \in Seq(Event), NEW e \in Event
    PROVE  /\ Append(s, e) \in Seq(Event)
           /\ \A d \in DOMAIN s : d \in DOMAIN Append(s, e) /\ Append(s, e)[d] = s[d]
           /\ \A d \in DOMAIN Append(s, e) : d \in DOMAIN s \/ Append(s, e)[d] = e
           /\ \E d \in DOMAIN Append(s, e) :
                 /\ Append(s, e)[d] = e /\ d \notin DOMAIN s
                 /\ \A k \in DOMAIN Append(s, e) : k <= d
<1> DEFINE n == Len(s)
           a == Append(s, e)
<1> HIDE DEF Event
<1>1. /\ n \in Nat /\ DOMAIN s = 1 .. n /\ a \in Seq(Event)
      /\ DOMAIN a = 1 .. (n + 1) /\ a[n + 1] = e /\ \A d \in 1 .. n : a[d] = s[d]
  BY OneMore
<1> HIDE DEF n, a
<1>2. \A d \in 1 .. n : d \in 1 .. (n + 1)
  BY <1>1
<1>3. \A d \in 1 .. (n + 1) : d \in 1 .. n \/ d = n + 1
  BY <1>1
<1>4. n + 1 \in 1 .. (n + 1) /\ n + 1 \notin 1 .. n /\ \A k \in 1 .. (n + 1) : k <= n + 1
  BY <1>1
<1> QED
  BY <1>1, <1>2, <1>3, <1>4 DEF n, a

(* What is told of an image after it. *)
LEMMA TellsImage ==
    ASSUME NEW s \in Seq(Event), NEW e \in Event, NEW i
    PROVE  /\ Loaded(Append(s, e), i) <=> Loaded(s, i) \/ (e.kind = "mod_load" /\ e.image = i)
           /\ Unloaded(Append(s, e), i) <=> Unloaded(s, i) \/ (e.kind = "mod_unload" /\ e.image = i)
           /\ SymbolsTold(Append(s, e), i)
                 <=> SymbolsTold(s, i) \/ (e.kind = "mod_symbols" /\ e.image = i)
<1> DEFINE a == Append(s, e)
<1>1. /\ \A d \in DOMAIN s : d \in DOMAIN a /\ a[d] = s[d]
      /\ \A d \in DOMAIN a : d \in DOMAIN s \/ a[d] = e
      /\ \E d \in DOMAIN a : a[d] = e
  BY Newest
<1> HIDE DEF a
<1>2. Loaded(a, i) <=> Loaded(s, i) \/ (e.kind = "mod_load" /\ e.image = i)
  BY <1>1 DEF Loaded
<1>3. Unloaded(a, i) <=> Unloaded(s, i) \/ (e.kind = "mod_unload" /\ e.image = i)
  BY <1>1 DEF Unloaded
<1>4. SymbolsTold(a, i) <=> SymbolsTold(s, i) \/ (e.kind = "mod_symbols" /\ e.image = i)
  BY <1>1 DEF SymbolsTold
<1> QED
  BY <1>2, <1>3, <1>4 DEF a

(* Only the unloading of an image makes it unknown. *)
LEMMA StaysKnown ==
    ASSUME NEW s \in Seq(Event), NEW e \in Event, NEW i, Known(s, i),
           e.kind = "mod_unload" => e.image # i
    PROVE  Known(Append(s, e), i)
BY TellsImage DEF Known

(* The last event that tells a's code is the same one, or the new one.     *)
LEMMA StaysLast ==
    ASSUME NEW s \in Seq(Event), NEW e \in Event, NEW a, NEW i,
           LastTells(s, a, i) \/ Tells(e, a), Tells(e, a) => e.image = i
    PROVE  LastTells(Append(s, e), a, i)
<1> DEFINE b == Append(s, e)
<1>1. /\ \A d \in DOMAIN s : d \in DOMAIN b /\ b[d] = s[d]
      /\ \A d \in DOMAIN b : d \in DOMAIN s \/ b[d] = e
      /\ \E d \in DOMAIN b : b[d] = e /\ \A k \in DOMAIN b : k <= d
  BY Newest
<1> HIDE DEF b
<1>2. CASE Tells(e, a)
  BY <1>1, <1>2 DEF LastTells
<1>3. CASE ~Tells(e, a)
  BY <1>1, <1>3 DEF LastTells
<1> QED
  BY <1>2, <1>3 DEF b

(* What the trace tells of an executed instruction it tells also after an  *)
(* event that agrees with it.                                              *)
LEMMA StaysTold ==
    ASSUME NEW s \in Seq(Event), NEW e \in Event, NEW t, NEW x,
           CodeTold(s, t, x), ImageTold(s, t, x), Agrees(e, t, x)
    PROVE  CodeTold(Append(s, e), t, x) /\ ImageTold(Append(s, e), t, x)
<1> DEFINE b == Append(s, e)
<1>1. /\ \A d \in DOMAIN s : d \in DOMAIN b /\ b[d] = s[d]
      /\ \A d \in DOMAIN b : d \in DOMAIN s \/ b[d] = e
      /\ \E d \in DOMAIN b : b[d] = e /\ \A k \in DOMAIN b : k <= d
  BY Newest
<1> HIDE DEF b
<1>2. CodeTold(b, t, x)
  <2>1. CASE Tells(e, x.ins.pc) /\ Sees(e, t, x.n)
    <3>1. e.image = x.ins.image
      BY <2>1 DEF Agrees
    <3> QED
      BY <1>1, <2>1, <3>1 DEF CodeTold
  <2>2. CASE ~(Tells(e, x.ins.pc) /\ Sees(e, t, x.n))
    BY <1>1, <2>2 DEF CodeTold
  <2> QED
    BY <2>1, <2>2
<1>3. ImageTold(b, t, x)
  <2>1. \E d \in DOMAIN b : /\ Sees(b[d], t, x.n) /\ b[d].kind = "mod_load"
                            /\ b[d].image = x.ins.image /\ x.ins.pc \in b[d].pcs
    BY <1>1 DEF ImageTold
  <2>2. \E d \in DOMAIN b : /\ Sees(b[d], t, x.n) /\ b[d].kind = "mod_symbols"
                            /\ b[d].image = x.ins.image
    BY <1>1 DEF ImageTold
  <2>3. \A d \in DOMAIN b : Sees(b[d], t, x.n) /\ b[d].kind = "mod_unload"
                               => b[d].image # x.ins.image
    BY <1>1 DEF ImageTold, Agrees
  <2>4. ASSUME NEW d \in DOMAIN b, Sees(b[d], t, x.n), b[d].kind = "mod_load",
               b[d].image # x.ins.image, x.ins.pc \in b[d].pcs
        PROVE  \E k \in DOMAIN b : /\ Sees(b[k], t, x.n) /\ b[k].kind = "mod_unload"
                                   /\ b[k].image = b[d].image
    <3>1. d \in DOMAIN s /\ b[d] = s[d]
      BY <1>1, <2>4 DEF Agrees
    <3>2. PICK k \in DOMAIN s : /\ Sees(s[k], t, x.n) /\ s[k].kind = "mod_unload"
                                /\ s[k].image = s[d].image
      BY <2>4, <3>1 DEF ImageTold
    <3> QED
      BY <1>1, <3>1, <3>2
  <2> QED
    BY <2>1, <2>2, <2>3, <2>4 DEF ImageTold
<1> QED
  BY <1>2, <1>3 DEF b

(* The instructions of a block, and those of t in the trace s.             *)
Part(e) == {[n |-> e.start + k - 1, ins |-> e.ins[k]] : k \in DOMAIN e.ins}
Written(s, t) == UNION {Part(s[d]) : d \in {j \in DOMAIN s : s[j].tid = t}}

LEMMA ExecutedParts ==
    ASSUME NEW t
    PROVE  Executed(t) = Written(trace, t) \cup Part(LogEvent(t))
BY DEF Executed, Written, Part

LEMMA WrittenMore ==
    ASSUME NEW s \in Seq(Event), NEW e \in Event, NEW t
    PROVE  Written(Append(s, e), t) = Written(s, t) \cup (IF e.tid = t THEN Part(e) ELSE {})
<1> DEFINE b == Append(s, e)
<1>1. /\ \A d \in DOMAIN s : d \in DOMAIN b /\ b[d] = s[d]
      /\ \A d \in DOMAIN b : d \in DOMAIN s \/ b[d] = e
      /\ \E d \in DOMAIN b : b[d] = e
  BY Newest
<1> HIDE DEF b
<1>2. ASSUME NEW x PROVE x \in Written(b, t) <=> \E d \in DOMAIN b : b[d].tid = t /\ x \in Part(b[d])
  BY DEF Written
<1>3. ASSUME NEW x PROVE x \in Written(s, t) <=> \E d \in DOMAIN s : s[d].tid = t /\ x \in Part(s[d])
  BY DEF Written
<1>4. ASSUME NEW x
      PROVE  x \in Written(b, t) <=> x \in Written(s, t) \cup (IF e.tid = t THEN Part(e) ELSE {})
  <2>1. CASE x \in Written(b, t)
    BY <1>1, <1>2, <1>3, <2>1
  <2>2. CASE x \in Written(s, t)
    BY <1>1, <1>2, <1>3, <2>2
  <2>3. CASE e.tid = t /\ x \in Part(e)
    BY <1>1, <1>2, <2>3
  <2> QED
    BY <2>1, <2>2, <2>3
<1> QED
  BY <1>4 DEF b

----------------------------------------------------------------------------
(* Events and their types. *)

LEMMA MadeEvent ==
    ASSUME NEW t \in Threads, NEW kind \in Kinds, NEW i \in Nat, NEW pcs \in SUBSET Addrs
    PROVE  /\ MakeEvent(t, kind, i, pcs) \in Event
           /\ MakeEvent(t, kind, i, pcs).kind = kind
           /\ MakeEvent(t, kind, i, pcs).tid = t
           /\ MakeEvent(t, kind, i, pcs).image = i
           /\ MakeEvent(t, kind, i, pcs).pcs = pcs
           /\ MakeEvent(t, kind, i, pcs).ins = <<>>
           /\ MakeEvent(t, kind, i, pcs).refs = {}
<1>1. <<>> \in Seq(Instruction)
  OBVIOUS
<1> QED
  BY <1>1 DEF MakeEvent, Event

LEMMA LogEventType ==
    ASSUME NEW t \in Threads, log[t] \in Seq(Instruction), count[t] \in Nat,
           Len(log[t]) <= count[t]
    PROVE  /\ LogEvent(t) \in Event
           /\ LogEvent(t).kind = "micro_event_log"
           /\ LogEvent(t).tid = t
           /\ LogEvent(t).start = count[t] - Len(log[t])
           /\ LogEvent(t).ins = log[t]
           /\ LogEvent(t).refs = {}
<1>1. count[t] - Len(log[t]) \in Nat
  <2>1. Len(log[t]) \in Nat
    BY DEF Instruction
  <2> QED
    BY <2>1
<1>2. "micro_event_log" \in Kinds
  BY DEF Kinds
<1> QED
  BY <1>1, <1>2 DEF LogEvent, MakeEvent, Event

LEMMA Referring ==
    ASSUME NEW e \in Event, NEW u \in Threads, NEW n \in Nat
    PROVE  /\ WithXref(e, u, n) \in Event
           /\ WithXref(e, u, n).kind = e.kind
           /\ WithXref(e, u, n).tid = e.tid
           /\ WithXref(e, u, n).image = e.image
           /\ WithXref(e, u, n).pcs = e.pcs
           /\ WithXref(e, u, n).start = e.start
           /\ WithXref(e, u, n).ins = e.ins
           /\ WithXref(e, u, n).refs = e.refs \cup {[tid |-> u, next |-> n]}
BY DEF WithXref, Event

LEMMA NoEventIsNone == NoEvent \notin Event
BY DEF NoEvent, Event, Kinds

LEMMA TypesFacts ==
    ASSUME Types
    PROVE  /\ \A t \in Threads : doing[t] # "running" => event[t] \in Event
           /\ \A t \in Threads : Len(log[t]) \in Nat /\ count[t] \in Nat
           /\ \A t \in Threads : log[t] \in Seq(Instruction)
           /\ \A t \in Threads : outLock = t => event[t] \in Event /\ doing[t] # "running"
           /\ \A a \in Addrs : mapped[a] \in 0 .. images /\ cache[a] \in 0 .. images
           /\ images \in Nat
           /\ trace \in Seq(Event)
           /\ \A i : Span(i) \in SUBSET Addrs
<1>1. \A t \in Threads : doing[t] # "running" => event[t] \in Event
  BY DEF Types, TypeOK
<1>2. \A t \in Threads : log[t] \in Seq(Instruction) /\ count[t] \in Nat
  BY DEF Types, TypeOK
<1>3. \A t \in Threads : Len(log[t]) \in Nat
  <2> HIDE DEF Instruction
  <2> QED
    BY <1>2
<1>4. images \in Nat
  BY CodeAssumption DEF Types, TypeOK
<1> QED
  BY <1>1, <1>2, <1>3, <1>4 DEF Types, TypeOK, LockInv, Span

LEMMA InitTypes == Init => Types
<1> SUFFICES ASSUME Init PROVE Types
  OBVIOUS
<1>1. <<>> \in Seq(Event) /\ <<>> \in Seq(Instruction) /\ Len(<<>>) = 0
  OBVIOUS
<1>2. TypeOK
  BY <1>1, CodeAssumption DEF Init, TypeOK
<1>3. LockInv
  BY CodeAssumption DEF Init, LockInv
<1>4. \A t \in Threads : Len(log[t]) <= count[t]
  BY <1>1 DEF Init
<1> QED
  BY <1>2, <1>3, <1>4 DEF Types

(* Begin keeps the types of its variables. *)
LEMMA BeginTypes ==
    ASSUME Types, NEW t \in Threads,
           NEW what \in {"load", "symbols", "unload", "compile", "flush"},
           NEW e \in Event, e.refs = {}, Begin(t, what, e)
    PROVE  /\ doing' \in [Threads -> {"running", "load", "symbols", "unload", "compile", "flush"}]
           /\ event' \in [Threads -> Event \cup {NoEvent}]
           /\ \A u \in Threads : (doing'[u] = "running") <=> (event'[u] = NoEvent)
           /\ \A u \in Threads : doing'[u] # "running" /\ outLock # u => event'[u].refs = {}
           /\ \A u \in Threads \ {t} : doing'[u] = doing[u] /\ event'[u] = event[u]
           /\ doing[t] = "running" /\ doing'[t] = what /\ event'[t] = e
<1> HIDE DEF Event
<1> USE NoEventIsNone
<1>1. doing \in [Threads -> {"running", "load", "symbols", "unload", "compile", "flush"}]
      /\ event \in [Threads -> Event \cup {NoEvent}]
  BY DEF Types, TypeOK
<1>2. doing' = [doing EXCEPT ![t] = what] /\ event' = [event EXCEPT ![t] = e] /\ doing[t] = "running"
  BY DEF Begin
<1>3. /\ \A u \in Threads : (doing[u] = "running") <=> (event[u] = NoEvent)
      /\ \A u \in Threads : doing[u] # "running" /\ outLock # u => event[u].refs = {}
  BY DEF Types, TypeOK
<1> QED
  BY <1>1, <1>2, <1>3

(* Its event written, t runs the program. *)
LEMMA RunTypes ==
    ASSUME Types, NEW t \in Threads, NEW what, PutEvent(t, what), what # "running", Run(t)
    PROVE  /\ doing' \in [Threads -> {"running", "load", "symbols", "unload", "compile", "flush"}]
           /\ event' \in [Threads -> Event \cup {NoEvent}]
           /\ \A u \in Threads : (doing'[u] = "running") <=> (event'[u] = NoEvent)
           /\ \A u \in Threads : doing'[u] # "running" /\ outLock' # u => event'[u].refs = {}
           /\ \A u \in Threads \ {t} : doing'[u] = doing[u] /\ event'[u] = event[u]
           /\ doing'[t] = "running"
<1> HIDE DEF Event
<1> USE NoEventIsNone
<1>1. doing \in [Threads -> {"running", "load", "symbols", "unload", "compile", "flush"}]
      /\ event \in [Threads -> Event \cup {NoEvent}]
  BY DEF Types, TypeOK
<1>2. doing' = [doing EXCEPT ![t] = "running"] /\ event' = [event EXCEPT ![t] = NoEvent]
  BY DEF Run
<1>3. /\ \A u \in Threads : (doing[u] = "running") <=> (event[u] = NoEvent)
      /\ \A u \in Threads : doing[u] # "running" /\ outLock # u => event[u].refs = {}
  BY DEF Types, TypeOK
<1>4. outLock = t
  BY DEF PutEvent
<1> QED
  BY <1>1, <1>2, <1>3, <1>4

(* The event goes to the end of the trace. *)
LEMMA PutTypes ==
    ASSUME Types, NEW t \in Threads, NEW what, PutEvent(t, what)
    PROVE  /\ trace \in Seq(Event) /\ trace' \in Seq(Event)
           /\ event[t] \in Event /\ trace' = Append(trace, event[t])
           /\ outLock = t /\ outLock' = Nobody /\ doing[t] = what /\ what # "running"
           /\ \A u \in Threads \ {t} : doing[u] # "running" => event[u].refs = {}
           /\ \A u \in Threads : \E r \in event[t].refs : r.tid = u
<1>1. event[t] \in Event /\ trace \in Seq(Event) /\ doing[t] # "running"
  BY TypesFacts DEF PutEvent
<1>2. \A u \in Threads \ {t} : doing[u] # "running" => event[u].refs = {}
  BY DEF PutEvent, Types, TypeOK
<1>3. \A u \in Threads : \E r \in event[t].refs : r.tid = u
  BY DEF PutEvent, Referred
<1>4. trace' = Append(trace, event[t])
  BY DEF PutEvent
<1>5. trace' \in Seq(Event)
  BY <1>1, <1>4, Newest
<1> QED
  BY <1>1, <1>2, <1>3, <1>4, <1>5 DEF PutEvent

(* One more reference in t's event. *)
LEMMA ReferTypes ==
    ASSUME Types, NEW t \in Threads, NEW u \in Threads, doing[t] # "running",
           event' = [event EXCEPT ![t] = WithXref(@, u, Xref(u))]
    PROVE  /\ event[t] \in Event /\ event'[t] \in Event
           /\ event' \in [Threads -> Event \cup {NoEvent}]
           /\ \A v \in Threads \ {t} : event'[v] = event[v]
           /\ event'[t].kind = event[t].kind /\ event'[t].tid = event[t].tid
           /\ event'[t].image = event[t].image /\ event'[t].pcs = event[t].pcs
           /\ event'[t].start = event[t].start /\ event'[t].ins = event[t].ins
           /\ event'[t].refs = event[t].refs \cup {[tid |-> u, next |-> count[u]]}
<1> HIDE DEF Event
<1>1. event \in [Threads -> Event \cup {NoEvent}] /\ event[t] \in Event /\ count[u] \in Nat
  BY TypesFacts DEF Types, TypeOK
<1>2. event'[t] = WithXref(event[t], u, count[u])
  BY <1>1 DEF Xref
<1>3. \A v \in Threads \ {t} : event'[v] = event[v]
  BY <1>1
<1>4. event'[t] \in Event
  BY <1>1, <1>2, Referring
<1>5. event' \in [Threads -> Event \cup {NoEvent}]
  BY <1>1, <1>4
<1> QED
  BY <1>1, <1>2, <1>3, <1>4, <1>5, Referring

LEMMA TypesReferring ==
    ASSUME Types, NEW t \in Threads, GetOutputLock(t) \/ XrefThread(t)
    PROVE  Types'
<1>1. PICK u \in Threads : event' = [event EXCEPT ![t] = WithXref(@, u, Xref(u))]
  BY DEF GetOutputLock, XrefThread
<1>2. doing[t] # "running" /\ outLock' = t /\ (outLock = Nobody \/ outLock = t)
  BY DEF GetOutputLock, XrefThread, Types, LockInv
<1>3. UNCHANGED <<code, threads, pinLock, doing, trace>>
  BY DEF GetOutputLock, XrefThread
<1>4. TypeOK'
  <2> HIDE DEF Event
  <2>4. /\ event'[t] \in Event
        /\ event' \in [Threads -> Event \cup {NoEvent}]
        /\ \A v \in Threads \ {t} : event'[v] = event[v]
    BY <1>1, <1>2, ReferTypes
  <2>5. /\ \A v \in Threads : (doing[v] = "running") <=> (event[v] = NoEvent)
        /\ \A v \in Threads : doing[v] # "running" /\ outLock # v => event[v].refs = {}
    BY DEF Types, TypeOK
  <2>1. \A v \in Threads : (doing'[v] = "running") <=> (event'[v] = NoEvent)
    BY <1>2, <1>3, <2>4, <2>5, NoEventIsNone
  <2>2. \A v \in Threads : doing'[v] # "running" /\ outLock' # v => event'[v].refs = {}
    BY <1>2, <1>3, <2>4, <2>5, CodeAssumption
  <2> QED
    BY <1>2, <1>3, <2>1, <2>2, <2>4 DEF Types, TypeOK, code, threads
<1>5. LockInv'
  BY <1>2, <1>3, CodeAssumption DEF Types, LockInv
<1> QED
  BY <1>3, <1>4, <1>5 DEF Types, threads

LEMMA TypesLoad ==
    ASSUME Types, NEW t \in Threads, LoadImage(t)
    PROVE  Types'
<1> HIDE DEF Event
<1>1. PICK s \in Spans :
        /\ images < MaxLoads
        /\ images' = images + 1
        /\ mapped' = [a \in Addrs |-> IF a \in s THEN images' ELSE mapped[a]]
        /\ Callback(t, "load", MakeEvent(t, "mod_load", images', s))
        /\ UNCHANGED <<cache, at>>
  BY DEF LoadImage
<1> DEFINE e == MakeEvent(t, "mod_load", images', s)
<1>2. images' \in Nat /\ images \in Nat /\ images' \in 0 .. MaxLoads
  BY <1>1, TypesFacts, CodeAssumption
<1>3. e \in Event /\ e.refs = {}
  <2>1. s \in SUBSET Addrs
    BY CodeAssumption
  <2>2. "mod_load" \in Kinds
    BY DEF Kinds
  <2> DEFINE i == images'
  <2> HIDE DEF i
  <2>3. i \in Nat
    BY <1>2 DEF i
  <2>4. MakeEvent(t, "mod_load", i, s) \in Event /\ MakeEvent(t, "mod_load", i, s).refs = {}
    BY <2>1, <2>2, <2>3, MadeEvent
  <2> QED
    BY <2>4 DEF i
<1> HIDE DEF e
<1>4. Begin(t, "load", e) /\ pinLock = Nobody /\ pinLock' = t /\ UNCHANGED <<count, log, outLock, trace>>
  BY <1>1 DEF Callback, e
<1>5. /\ mapped \in [Addrs -> 0 .. images]
      /\ cache \in [Addrs -> 0 .. images]
  BY DEF Types, TypeOK
<1>6. /\ mapped' \in [Addrs -> 0 .. images']
      /\ cache' \in [Addrs -> 0 .. images']
  <2>1. \A i \in 0 .. images : i \in 0 .. images'
    BY <1>1, <1>2
  <2>2. images' \in 0 .. images'
    BY <1>2
  <2> QED
    BY <1>1, <1>5, <2>1, <2>2
<1>7. TypeOK'
  <2>1. /\ doing' \in [Threads -> {"running", "load", "symbols", "unload", "compile", "flush"}]
        /\ event' \in [Threads -> Event \cup {NoEvent}]
        /\ \A u \in Threads : (doing'[u] = "running") <=> (event'[u] = NoEvent)
        /\ \A u \in Threads : doing'[u] # "running" /\ outLock # u => event'[u].refs = {}
    <3>1. "load" \in {"load", "symbols", "unload", "compile", "flush"}
      OBVIOUS
    <3> QED
      BY ONLY <1>3, <1>4, <3>1, Types, t \in Threads, BeginTypes
  <2>2. {pinLock', outLock'} \subseteq Threads \cup {Nobody}
    BY <1>4 DEF Types, TypeOK
  <2>3. /\ at' \in [Threads -> Addrs \cup {Nowhere}] /\ count' \in [Threads -> Nat]
        /\ log' \in [Threads -> Seq(Instruction)] /\ trace' \in Seq(Event)
    BY <1>1, <1>4 DEF Types, TypeOK
  <2> QED
    BY <1>2, <1>4, <1>6, <2>1, <2>2, <2>3 DEF TypeOK
<1>8. LockInv'
  BY <1>3, <1>4, BeginTypes, CodeAssumption DEF Types, LockInv
<1> QED
  BY <1>4, <1>7, <1>8 DEF Types

(* The other callbacks, and a flush, begin. *)
LEMMA TypesBegin ==
    ASSUME Types, NEW t \in Threads, UnloadImage(t) \/ Compile(t) \/ Flush(t)
    PROVE  Types'
<1> HIDE DEF Event
<1>1. PICK what \in {"load", "symbols", "unload", "compile", "flush"}, e \in Event :
        /\ Begin(t, what, e) /\ e.refs = {}
        /\ UNCHANGED <<code, count, log, outLock, trace>>
        /\ at' \in [Threads -> Addrs \cup {Nowhere}]
        /\ IF what = "flush" THEN UNCHANGED pinLock ELSE pinLock = Nobody /\ pinLock' = t
  <2>1. at \in [Threads -> Addrs \cup {Nowhere}]
    BY DEF Types, TypeOK
  <2>2. CASE UnloadImage(t)
    <3>1. PICK i \in 1 .. images : /\ Callback(t, "unload", MakeEvent(t, "mod_unload", i, {}))
                                   /\ UNCHANGED <<code, at>>
      BY <2>2 DEF UnloadImage
    <3>2. i \in Nat
      BY TypesFacts
    <3>3. /\ MakeEvent(t, "mod_unload", i, {}) \in Event
          /\ MakeEvent(t, "mod_unload", i, {}).refs = {}
      BY <3>2, MadeEvent DEF Kinds
    <3> QED
      BY <2>1, <3>1, <3>3 DEF Callback
  <2>3. CASE Compile(t)
    <3>1. PICK a \in Addrs : \E s \in SUBSET Span(mapped[a]) :
            /\ at' = [at EXCEPT ![t] = a]
            /\ Callback(t, "compile", MakeEvent(t, "trace_disasm", mapped[a], s))
            /\ UNCHANGED code
      BY <2>3 DEF Compile
    <3>4. PICK s \in SUBSET Span(mapped[a]) :
            /\ at' = [at EXCEPT ![t] = a]
            /\ Callback(t, "compile", MakeEvent(t, "trace_disasm", mapped[a], s))
            /\ UNCHANGED code
      BY <3>1
    <3>2. mapped[a] \in Nat /\ s \in SUBSET Addrs
      BY TypesFacts
    <3>3. /\ MakeEvent(t, "trace_disasm", mapped[a], s) \in Event
          /\ MakeEvent(t, "trace_disasm", mapped[a], s).refs = {}
      BY <3>2, MadeEvent DEF Kinds
    <3> QED
      BY <2>1, <3>4, <3>3 DEF Callback
  <2>4. CASE Flush(t)
    <3>1. PICK a \in Addrs : /\ at' = [at EXCEPT ![t] = a]
                             /\ Begin(t, "flush", LogEvent(t))
                             /\ UNCHANGED <<code, count, log, pinLock, outLock, trace>>
      BY <2>4 DEF Flush
    <3>2. LogEvent(t) \in Event /\ LogEvent(t).refs = {}
      BY TypesFacts, LogEventType DEF Types
    <3> QED
      BY <2>1, <3>1, <3>2
  <2> QED
    BY <2>2, <2>3, <2>4
<1>2. TypeOK'
  <2>1. UNCHANGED <<images, mapped, cache, count, log, outLock, trace>>
    BY <1>1 DEF code
  <2>2. /\ doing' \in [Threads -> {"running", "load", "symbols", "unload", "compile", "flush"}]
        /\ event' \in [Threads -> Event \cup {NoEvent}]
        /\ \A u \in Threads : (doing'[u] = "running") <=> (event'[u] = NoEvent)
        /\ \A u \in Threads : doing'[u] # "running" /\ outLock # u => event'[u].refs = {}
    BY <1>1, BeginTypes
  <2>3. pinLock' \in Threads \cup {Nobody}
    BY <1>1 DEF Types, TypeOK
  <2> QED
    BY <1>1, <2>1, <2>2, <2>3 DEF Types, TypeOK
<1>3. LockInv'
  BY <1>1, BeginTypes, CodeAssumption DEF Types, LockInv
<1> QED
  BY <1>1, <1>2, <1>3 DEF Types

(* The events of images are written. *)
LEMMA TypesLoaded ==
    ASSUME Types, NEW t \in Threads, EndLoad(t)
    PROVE  Types' /\ event'[t] \in Event /\ event'[t].refs = {} /\ event'[t].kind = "mod_symbols"
           /\ event'[t].image = event[t].image /\ event'[t].ins = <<>> /\ event'[t].tid = t
           /\ doing'[t] = "symbols"
           /\ \A u \in Threads \ {t} : doing'[u] = doing[u] /\ event'[u] = event[u]
<1> DEFINE e == MakeEvent(t, "mod_symbols", event[t].image, {})
<1>1. /\ PutEvent(t, "load")
      /\ doing' = [doing EXCEPT ![t] = "symbols"]
      /\ event' = [event EXCEPT ![t] = e]
      /\ UNCHANGED <<code, threads, pinLock>>
  BY DEF EndLoad
<1>2. /\ event[t] \in Event /\ trace' \in Seq(Event) /\ outLock = t /\ outLock' = Nobody
      /\ doing[t] = "load"
  BY <1>1, PutTypes
<1>3. /\ e \in Event /\ e.refs = {} /\ e.kind = "mod_symbols" /\ e.image = event[t].image
      /\ e.ins = <<>> /\ e.tid = t
  <2>1. event[t].image \in Nat
    BY <1>2 DEF Event
  <2>2. "mod_symbols" \in Kinds
    BY DEF Kinds
  <2> QED
    BY <2>1, <2>2, MadeEvent
<1> HIDE DEF e, Event
<1>4. /\ doing \in [Threads -> {"running", "load", "symbols", "unload", "compile", "flush"}]
      /\ event \in [Threads -> Event \cup {NoEvent}]
      /\ \A u \in Threads : (doing[u] = "running") <=> (event[u] = NoEvent)
      /\ \A u \in Threads : doing[u] # "running" /\ outLock # u => event[u].refs = {}
  BY DEF Types, TypeOK
<1>5. /\ doing' \in [Threads -> {"running", "load", "symbols", "unload", "compile", "flush"}]
      /\ event' \in [Threads -> Event \cup {NoEvent}]
      /\ \A u \in Threads : (doing'[u] = "running") <=> (event'[u] = NoEvent)
      /\ \A u \in Threads : doing'[u] # "running" /\ outLock' # u => event'[u].refs = {}
  BY <1>1, <1>2, <1>3, <1>4, NoEventIsNone
<1>6. TypeOK'
  BY <1>1, <1>2, <1>5 DEF Types, TypeOK, code, threads
<1>7. LockInv'
  BY <1>1, <1>2, <1>4, CodeAssumption DEF Types, LockInv
<1> QED
  BY <1>1, <1>3, <1>4, <1>6, <1>7 DEF Types, threads

LEMMA TypesReturned ==
    ASSUME Types, NEW t \in Threads, EndSymbols(t) \/ EndUnload(t) \/ EndCompile(t),
           doing[t] = "compile" => event[t].image \in 1 .. images
    PROVE  Types'
<1> HIDE DEF Event
<1>1. PICK what \in {"symbols", "unload", "compile"} : Return(t, what)
  BY DEF EndSymbols, EndUnload, EndCompile
<1>2. PutEvent(t, what) /\ Run(t) /\ pinLock' = Nobody /\ UNCHANGED threads
  BY <1>1 DEF Return
<1>3. trace' \in Seq(Event) /\ outLock = t /\ outLock' = Nobody /\ event[t] \in Event /\ doing[t] = what
  BY <1>2, PutTypes
<1>4. /\ images' = images
      /\ mapped' \in [Addrs -> 0 .. images]
      /\ cache' \in [Addrs -> 0 .. images]
  <2>1. mapped \in [Addrs -> 0 .. images] /\ cache \in [Addrs -> 0 .. images] /\ images \in Nat
    BY TypesFacts DEF Types, TypeOK
  <2>2. CASE EndSymbols(t)
    BY <2>1, <2>2 DEF EndSymbols, code
  <2>3. CASE EndUnload(t)
    <3>1. 0 \in 0 .. images
      BY <2>1
    <3> QED
      BY <2>1, <2>3, <3>1 DEF EndUnload, DropImage
  <2>4. CASE EndCompile(t)
    <3>1. event[t].image \in 0 .. images
      <4>1. doing[t] = "compile"
        BY <2>4 DEF EndCompile, Return, PutEvent
      <4> QED
        BY <2>1, <4>1
    <3> QED
      BY <2>1, <2>4, <3>1 DEF EndCompile
  <2> QED
    BY <2>2, <2>3, <2>4
<1>5. TypeOK'
  BY <1>2, <1>3, <1>4, RunTypes DEF Types, TypeOK, threads
<1>6. LockInv'
  BY <1>2, <1>3, RunTypes, CodeAssumption DEF Types, LockInv
<1> QED
  BY <1>2, <1>5, <1>6 DEF Types, threads

(* An instruction is logged. *)
LEMMA InsType ==
    ASSUME Types, NEW a \in Addrs
    PROVE  Ins(a) \in Instruction /\ Ins(a).pc = a /\ Ins(a).image = cache[a]
<1>1. cache[a] \in Nat
  BY TypesFacts
<1> QED
  BY <1>1 DEF Ins, Instruction

LEMMA TypesExecuted ==
    ASSUME Types, NEW t \in Threads, Execute(t)
    PROVE  Types'
<1> HIDE DEF Event, Instruction
<1>1. PICK a \in Addrs :
        /\ log' = [log EXCEPT ![t] = Append(@, Ins(a))]
        /\ count' = [count EXCEPT ![t] = @ + 1]
        /\ at' = [at EXCEPT ![t] = Nowhere]
        /\ UNCHANGED <<code, pinLock, outLock, doing, event, trace>>
  BY DEF Execute
<1>2. log \in [Threads -> Seq(Instruction)] /\ count \in [Threads -> Nat]
      /\ at \in [Threads -> Addrs \cup {Nowhere}]
  BY DEF Types, TypeOK
<1>3. /\ Append(log[t], Ins(a)) \in Seq(Instruction)
      /\ Len(Append(log[t], Ins(a))) = Len(log[t]) + 1
      /\ Len(log[t]) \in Nat /\ count[t] \in Nat
  <2>1. log[t] \in Seq(Instruction) /\ Ins(a) \in Instruction
    BY <1>2, InsType
  <2> QED
    BY <1>2, <2>1
<1>4. /\ log' \in [Threads -> Seq(Instruction)] /\ count' \in [Threads -> Nat]
      /\ at' \in [Threads -> Addrs \cup {Nowhere}]
  <2>1. count[t] + 1 \in Nat
    BY <1>3
  <2> QED
    BY <1>1, <1>2, <1>3, <2>1
<1>5. ASSUME NEW u \in Threads PROVE Len(log'[u]) <= count'[u]
  <2>1. Len(log[u]) <= count[u]
    BY DEF Types
  <2>2. CASE u = t
    <3>1. log'[u] = Append(log[t], Ins(a)) /\ count'[u] = count[t] + 1
      BY <1>1, <1>2, <2>2
    <3> QED
      BY <1>3, <2>1, <2>2, <3>1
  <2>3. CASE u # t
    BY <1>1, <1>2, <2>1, <2>3
  <2> QED
    BY <2>2, <2>3
<1>6. TypeOK'
  BY <1>1, <1>4 DEF Types, TypeOK, code
<1>7. LockInv'
  BY <1>1 DEF Types, LockInv
<1> QED
  BY <1>5, <1>6, <1>7 DEF Types

LEMMA TypesFlushed ==
    ASSUME Types, NEW t \in Threads, EndFlush(t), at[t] \in Addrs
    PROVE  Types'
<1> HIDE DEF Event, Instruction
<1>1. /\ PutEvent(t, "flush") /\ Run(t)
      /\ log' = [log EXCEPT ![t] = <<Ins(at[t])>>]
      /\ count' = [count EXCEPT ![t] = @ + 1]
      /\ at' = [at EXCEPT ![t] = Nowhere]
      /\ UNCHANGED <<code, pinLock>>
  BY DEF EndFlush
<1>2. log \in [Threads -> Seq(Instruction)] /\ count \in [Threads -> Nat]
      /\ at \in [Threads -> Addrs \cup {Nowhere}]
  BY DEF Types, TypeOK
<1>3. /\ <<Ins(at[t])>> \in Seq(Instruction) /\ Len(<<Ins(at[t])>>) = 1
      /\ count[t] \in Nat /\ count[t] + 1 \in Nat
  BY <1>2, InsType
<1>4. /\ log' \in [Threads -> Seq(Instruction)] /\ count' \in [Threads -> Nat]
      /\ at' \in [Threads -> Addrs \cup {Nowhere}]
  BY <1>1, <1>2, <1>3
<1>5. ASSUME NEW u \in Threads PROVE Len(log'[u]) <= count'[u]
  <2>1. Len(log[u]) <= count[u]
    BY DEF Types
  <2>2. CASE u = t
    <3>1. log'[u] = <<Ins(at[t])>> /\ count'[u] = count[t] + 1
      BY <1>1, <1>2, <2>2
    <3> QED
      BY <1>3, <3>1
  <2>3. CASE u # t
    BY <1>1, <1>2, <2>1, <2>3
  <2> QED
    BY <2>2, <2>3
<1>6. trace' \in Seq(Event) /\ outLock = t /\ outLock' = Nobody /\ doing[t] = "flush"
  BY <1>1, PutTypes
<1>7. TypeOK'
  <2>1. /\ doing' \in [Threads -> {"running", "load", "symbols", "unload", "compile", "flush"}]
        /\ event' \in [Threads -> Event \cup {NoEvent}]
        /\ \A u \in Threads : (doing'[u] = "running") <=> (event'[u] = NoEvent)
        /\ \A u \in Threads : doing'[u] # "running" /\ outLock' # u => event'[u].refs = {}
    <3>1. "flush" # "running"
      OBVIOUS
    <3> QED
      BY ONLY <1>1, <3>1, Types, t \in Threads, RunTypes
  <2>2. {pinLock', outLock'} \subseteq Threads \cup {Nobody}
    BY <1>1, <1>6 DEF Types, TypeOK
  <2>3. /\ images' \in 0 .. MaxLoads
        /\ mapped' \in [Addrs -> 0 .. images'] /\ cache' \in [Addrs -> 0 .. images']
    BY <1>1 DEF Types, TypeOK, code
  <2> QED
    BY <1>4, <1>6, <2>1, <2>2, <2>3 DEF TypeOK
<1>8. LockInv'
  BY <1>1, <1>6, RunTypes, CodeAssumption DEF Types, LockInv
<1> QED
  BY <1>5, <1>7, <1>8 DEF Types

----------------------------------------------------------------------------
(* The invariant is kept.  First by a reference. *)

LEMMA KeptReferring ==
    ASSUME IInv, NEW t \in Threads, GetOutputLock(t) \/ XrefThread(t)
    PROVE  IInv'
<1>1. PICK u \in Threads : event' = [event EXCEPT ![t] = WithXref(@, u, Xref(u))]
  BY DEF GetOutputLock, XrefThread
<1>2. UNCHANGED <<images, mapped, cache, at, count, log, pinLock, doing, trace>>
  BY DEF GetOutputLock, XrefThread, code, threads
<1>3. Types /\ doing[t] # "running"
  BY DEF GetOutputLock, XrefThread, IInv, Types, LockInv
<1>4. /\ \A v \in Threads \ {t} : event'[v] = event[v]
      /\ event'[t].kind = event[t].kind /\ event'[t].tid = event[t].tid
      /\ event'[t].image = event[t].image /\ event'[t].pcs = event[t].pcs
      /\ event'[t].start = event[t].start /\ event'[t].ins = event[t].ins
      /\ event'[t].refs = event[t].refs \cup {[tid |-> u, next |-> count[u]]}
  BY <1>1, <1>3, ReferTypes
<1>5. /\ \A v \in Threads : count[v] \in Nat
      /\ \A v \in Threads \ {t} : doing[v] # "running" => event[v].refs = event'[v].refs
  BY <1>3, <1>4, TypesFacts
<1>6. Types'
  BY <1>3, TypesReferring
<1>7. PendingInv'
  <2> SUFFICES ASSUME NEW v \in Threads PROVE Pending(v)'
    BY DEF PendingInv
  <2>1. Pending(v)
    BY DEF IInv, PendingInv
  <2> QED
    BY <1>2, <1>4, <2>1 DEF Pending, Span
<1>8. ImagesInv' /\ CacheInv' /\ MapInv'
  BY <1>2, <1>4 DEF IInv, ImagesInv, CacheInv, MapInv, Span
<1>9. RefsInv'
  <2>1. count[u] <= count[u]
    BY <1>5
  <2> QED
    BY <1>2, <1>4, <2>1 DEF IInv, RefsInv
<1>10. ExecutedInv'
  <2> SUFFICES ASSUME NEW v \in Threads, NEW x \in Executed(v)'
               PROVE  Told(v, x)'
    BY DEF ExecutedInv
  <2>1. x \in Executed(v)
    BY <1>2 DEF Executed, LogEvent, MakeEvent
  <2>2. Told(v, x)
    BY <2>1 DEF IInv, ExecutedInv
  <2>3. ASSUME NEW w \in Threads, doing[w] # "running"
        PROVE  Agrees(event'[w], v, x)
    <3>1. Agrees(event[w], v, x)
      BY <2>2, <2>3 DEF Told
    <3>2. CASE w # t
      BY <1>4, <3>1, <3>2
    <3>3. CASE w = t
      <4>1. Sees(event'[t], v, x.n) => Sees(event[t], v, x.n)
        <5>1. ~(u = v /\ count[u] <= x.n)
          BY <1>5, <2>2 DEF Told
        <5> QED
          BY <1>4, <5>1 DEF Sees
      <4> QED
        BY <1>4, <3>1, <3>3, <4>1 DEF Agrees, Tells
    <3> QED
      BY <3>2, <3>3
  <2> QED
    BY <1>2, <2>2, <2>3 DEF Told
<1> QED
  BY <1>6, <1>7, <1>8, <1>9, <1>10 DEF IInv

(* An event that is begun, or one that follows another, refers to nobody   *)
(* yet, and so touches nothing that has been executed.                     *)
LEMMA KeptBeginning ==
    ASSUME IInv, NEW t \in Threads, event'[t].refs = {},
           \A u \in Threads \ {t} : doing'[u] = doing[u] /\ event'[u] = event[u],
           UNCHANGED <<count, log, trace>>
    PROVE  RefsInv' /\ ExecutedInv' /\ MapInv'
<1>1. RefsInv'
  BY DEF IInv, RefsInv
<1>2. MapInv'
  BY DEF IInv, MapInv
<1>3. ExecutedInv'
  <2> SUFFICES ASSUME NEW v \in Threads, NEW x \in Executed(v)'
               PROVE  Told(v, x)'
    BY DEF ExecutedInv
  <2>1. x \in Executed(v)
    BY DEF Executed, LogEvent, MakeEvent
  <2>2. Told(v, x)
    BY <2>1 DEF IInv, ExecutedInv
  <2>3. ASSUME NEW w \in Threads, doing'[w] # "running"
        PROVE  Agrees(event'[w], v, x)
    <3>1. CASE w = t
      BY <3>1 DEF Agrees, Sees
    <3>2. CASE w # t
      BY <2>2, <2>3, <3>2 DEF Told
    <3> QED
      BY <3>1, <3>2
  <2> QED
    BY <2>2, <2>3 DEF Told
<1> QED
  BY <1>1, <1>2, <1>3

(* As long as Pin's lock is free, no callback is being run, ...            *)
LEMMA NoCallback ==
    ASSUME IInv, NEW t \in Threads, pinLock \in {Nobody, t}, NEW u \in Threads, u # t
    PROVE  doing[u] \in {"running", "flush"}
<1>1. doing[u] \in {"running", "load", "symbols", "unload", "compile", "flush"}
  BY DEF IInv, Types, TypeOK
<1>2. doing[u] \notin {"load", "symbols", "unload", "compile"}
  BY CodeAssumption DEF IInv, Types, LockInv
<1> QED
  BY <1>1, <1>2

(* ... and whatever image is in memory is known. *)
LEMMA MappedIsKnown ==
    ASSUME IInv, pinLock = Nobody, NEW a \in Addrs, mapped[a] # 0
    PROVE  Known(trace, mapped[a]) /\ mapped[a] \in 1 .. images
<1>1. \A t \in Threads : doing[t] \notin {"load", "symbols"}
  BY CodeAssumption DEF IInv, Types, LockInv
<1>2. mapped[a] \in 0 .. images /\ images \in Nat
  BY TypesFacts DEF IInv
<1>3. mapped[a] \in 1 .. images
  BY <1>2
<1> QED
  BY <1>1, <1>3 DEF IInv, ImagesInv

LEMMA KeptLoading ==
    ASSUME IInv, NEW t \in Threads, LoadImage(t)
    PROVE  IInv'
<1> HIDE DEF Event
<1>1. PICK s \in Spans :
        /\ \A a \in s : mapped[a] = 0
        /\ images' = images + 1
        /\ mapped' = [a \in Addrs |-> IF a \in s THEN images' ELSE mapped[a]]
        /\ Callback(t, "load", MakeEvent(t, "mod_load", images', s))
        /\ UNCHANGED <<cache, at>>
  BY DEF LoadImage
<1>2. /\ images \in Nat /\ s \in SUBSET Addrs
      /\ \A a \in Addrs : mapped[a] \in 0 .. images
  BY TypesFacts, CodeAssumption DEF IInv
<1>3. PICK i \in Nat : /\ i \in 1 .. i /\ i \notin 0 .. images /\ images' = i
                      /\ \A k \in 1 .. images : k \in 1 .. i /\ k # i /\ k # 0
  BY <1>1, <1>2
<1> DEFINE e == MakeEvent(t, "mod_load", i, s)
<1>4. e \in Event /\ e.refs = {} /\ e.kind = "mod_load" /\ e.image = i /\ e.pcs = s
      /\ e.tid = t /\ e.ins = <<>>
  BY <1>2, <1>3, MadeEvent DEF Kinds
<1>5. Begin(t, "load", e) /\ pinLock = Nobody /\ UNCHANGED <<count, log, trace>>
  BY <1>1, <1>3 DEF Callback
<1> HIDE DEF e
<1>6. /\ \A u \in Threads \ {t} : doing'[u] = doing[u] /\ event'[u] = event[u]
      /\ doing'[t] = "load" /\ event'[t] = e /\ doing[t] = "running"
  BY <1>4, <1>5, BeginTypes DEF IInv
<1>7. /\ \A a \in Addrs : mapped'[a] = IF a \in s THEN i ELSE mapped[a]
      /\ \A a \in Addrs : mapped[a] # 0 => mapped'[a] = mapped[a]
      /\ \A k \in 1 .. images : {a \in Addrs : mapped'[a] = k} = Span(k)
      /\ {a \in Addrs : mapped'[a] = i} = s
  <2>1. \A a \in Addrs : mapped'[a] = IF a \in s THEN i ELSE mapped[a]
    BY <1>1, <1>3
  <2>2. \A a \in Addrs : mapped[a] # 0 => mapped'[a] = mapped[a]
    BY <1>1, <2>1
  <2>3. ASSUME NEW k \in 1 .. images PROVE \A a \in Addrs : mapped'[a] = k <=> mapped[a] = k
    BY <1>1, <1>3, <2>1
  <2>4. \A a \in Addrs : mapped'[a] = i <=> a \in s
    BY <1>2, <1>3, <2>1
  <2> QED
    <3>1. \A k \in 1 .. images : {a \in Addrs : mapped'[a] = k} = Span(k)
      BY <2>3 DEF Span
    <3>2. {a \in Addrs : mapped'[a] = i} = s
      BY <1>2, <2>4
    <3> QED
      BY <2>1, <2>2, <3>1, <3>2
<1>8. Types'
  BY TypesLoad DEF IInv
<1>9. ~Loaded(trace, i) /\ ~Unloaded(trace, i)
  <2>1. i \notin 1 .. images
    BY <1>2, <1>3
  <2> QED
    BY <2>1 DEF IInv, ImagesInv, Loaded, Unloaded
<1>10. PendingInv'
  <2> SUFFICES ASSUME NEW u \in Threads PROVE Pending(u)'
    BY DEF PendingInv
  <2>1. CASE u = t
    <3>1. event'[t].pcs = {a \in Addrs : mapped'[a] = event'[t].image}
      BY <1>4, <1>6, <1>7
    <3> QED
      BY <1>3, <1>4, <1>5, <1>6, <1>9, <2>1, <3>1 DEF Pending, Span
  <2>2. CASE u # t
    <3>1. Pending(u) /\ doing[u] \in {"running", "flush"}
      BY <1>5, <2>2, NoCallback DEF IInv, PendingInv
    <3> QED
      BY <1>1, <1>5, <1>6, <2>2, <3>1 DEF Pending
  <2> QED
    BY <2>1, <2>2
<1>11. ImagesInv'
  <2>1. ASSUME NEW a \in Addrs, mapped'[a] # 0
        PROVE  \/ Known(trace', mapped'[a])
               \/ \E u \in Threads : doing'[u] \in {"load", "symbols"} /\ event'[u].image = mapped'[a]
    <3>1. CASE a \in s
      BY <1>4, <1>6, <1>7, <3>1
    <3>2. CASE a \notin s
      BY <1>5, <1>7, <2>1, <3>2, MappedIsKnown
    <3> QED
      BY <3>1, <3>2
  <2>2. ASSUME NEW d \in DOMAIN trace
        PROVE  /\ trace[d].kind \in {"mod_load", "mod_unload"} => trace[d].image \in 1 .. i
               /\ trace[d].kind = "mod_load" /\ ~Unloaded(trace, trace[d].image)
                    => trace[d].pcs = {a \in Addrs : mapped'[a] = trace[d].image}
    <3>1. /\ trace[d].kind \in {"mod_load", "mod_unload"} => trace[d].image \in 1 .. images
          /\ trace[d].kind = "mod_load" /\ ~Unloaded(trace, trace[d].image)
                => trace[d].pcs = Span(trace[d].image)
      BY DEF IInv, ImagesInv
    <3> QED
      BY <1>3, <1>7, <3>1
  <2> QED
    BY <1>3, <1>5, <2>1, <2>2 DEF IInv, ImagesInv, Span
<1>12. CacheInv'
  BY <1>1, <1>5, <1>7 DEF IInv, CacheInv
<1> QED
  BY <1>4, <1>5, <1>6, <1>8, <1>10, <1>11, <1>12, KeptBeginning DEF IInv

LEMMA KeptUnloading ==
    ASSUME IInv, NEW t \in Threads, UnloadImage(t)
    PROVE  IInv'
<1> HIDE DEF Event
<1>1. PICK i \in 1 .. images :
        /\ \A u \in Threads : at[u] \notin Span(i)
        /\ Callback(t, "unload", MakeEvent(t, "mod_unload", i, {}))
        /\ UNCHANGED <<code, at>>
  BY DEF UnloadImage
<1> DEFINE e == MakeEvent(t, "mod_unload", i, {})
<1>2. e \in Event /\ e.refs = {} /\ e.kind = "mod_unload" /\ e.image = i /\ e.tid = t /\ e.ins = <<>>
  <2>1. i \in Nat
    BY TypesFacts DEF IInv
  <2> QED
    BY <2>1, MadeEvent DEF Kinds
<1>3. Begin(t, "unload", e) /\ pinLock = Nobody
  BY <1>1 DEF Callback
<1> HIDE DEF e
<1>4. UNCHANGED <<images, mapped, cache, at, count, log, outLock, trace>>
  BY <1>1 DEF Callback, code
<1>5. /\ \A u \in Threads \ {t} : doing'[u] = doing[u] /\ event'[u] = event[u]
      /\ doing'[t] = "unload" /\ event'[t] = e /\ doing[t] = "running"
  BY <1>2, <1>3, BeginTypes DEF IInv
<1>6. PendingInv'
  <2> SUFFICES ASSUME NEW u \in Threads PROVE Pending(u)'
    BY DEF PendingInv
  <2>1. CASE u = t
    BY <1>1, <1>2, <1>4, <1>5, <2>1 DEF Pending, Span
  <2>2. CASE u # t
    <3>1. Pending(u)
      BY DEF IInv, PendingInv
    <3> QED
      BY <1>4, <1>5, <2>2, <3>1 DEF Pending, Span
  <2> QED
    BY <2>1, <2>2
<1>7. ImagesInv'
  BY <1>3, <1>4, MappedIsKnown DEF IInv, ImagesInv, Span
<1>8. CacheInv'
  BY <1>4 DEF IInv, CacheInv
<1> QED
  BY <1>2, <1>4, <1>5, <1>6, <1>7, <1>8, KeptBeginning, TypesBegin DEF IInv

LEMMA KeptCompiling ==
    ASSUME IInv, NEW t \in Threads, Compile(t)
    PROVE  IInv'
<1> HIDE DEF Event
<1>1. PICK a \in Addrs : \E s \in SUBSET Span(mapped[a]) :
        /\ ComesTo(t, a)
        /\ at' = [at EXCEPT ![t] = a]
        /\ Callback(t, "compile", MakeEvent(t, "trace_disasm", mapped[a], s))
        /\ UNCHANGED code
  BY DEF Compile
<1>2. PICK s \in SUBSET Span(mapped[a]) :
        /\ ComesTo(t, a)
        /\ at' = [at EXCEPT ![t] = a]
        /\ Callback(t, "compile", MakeEvent(t, "trace_disasm", mapped[a], s))
        /\ UNCHANGED code
  BY <1>1
<1> DEFINE e == MakeEvent(t, "trace_disasm", mapped[a], s)
<1>3. /\ e \in Event /\ e.refs = {} /\ e.kind = "trace_disasm" /\ e.image = mapped[a]
      /\ e.pcs = s /\ e.tid = t /\ e.ins = <<>>
  <2>1. mapped[a] \in Nat /\ s \in SUBSET Addrs
    BY TypesFacts DEF IInv
  <2> QED
    BY <2>1, MadeEvent DEF Kinds
<1>4. Begin(t, "compile", e) /\ pinLock = Nobody
  BY <1>2 DEF Callback
<1> HIDE DEF e
<1>5. UNCHANGED <<images, mapped, cache, count, log, outLock, trace>>
  BY <1>2 DEF Callback, code
<1>6. /\ \A u \in Threads \ {t} : doing'[u] = doing[u] /\ event'[u] = event[u]
      /\ doing'[t] = "compile" /\ event'[t] = e /\ doing[t] = "running"
  BY <1>3, <1>4, BeginTypes DEF IInv
<1>7. \A u \in Threads \ {t} : at'[u] = at[u]
  BY <1>2 DEF IInv, Types, TypeOK
<1>8. Known(trace, mapped[a]) /\ mapped[a] \in 1 .. images
  BY <1>2, <1>4, MappedIsKnown DEF ComesTo
<1>9. PendingInv'
  <2> SUFFICES ASSUME NEW u \in Threads PROVE Pending(u)'
    BY DEF PendingInv
  <2>1. CASE u = t
    BY <1>3, <1>5, <1>6, <1>8, <2>1 DEF Pending, Span
  <2>2. CASE u # t
    <3>1. Pending(u) /\ doing[u] \in {"running", "flush"}
      BY <1>4, <2>2, NoCallback DEF IInv, PendingInv
    <3> QED
      BY <1>5, <1>6, <1>7, <2>2, <3>1 DEF Pending
  <2> QED
    BY <2>1, <2>2
<1>10. ImagesInv'
  BY <1>4, <1>5, MappedIsKnown DEF IInv, ImagesInv, Span
<1>11. CacheInv'
  BY <1>5 DEF IInv, CacheInv
<1> QED
  BY <1>3, <1>5, <1>6, <1>9, <1>10, <1>11, KeptBeginning, TypesBegin DEF IInv

LEMMA KeptFlushing ==
    ASSUME IInv, NEW t \in Threads, Flush(t)
    PROVE  IInv'
<1> HIDE DEF Event
<1>1. PICK a \in Addrs :
        /\ ComesTo(t, a)
        /\ cache[a] # 0
        /\ at' = [at EXCEPT ![t] = a]
        /\ Begin(t, "flush", LogEvent(t))
        /\ UNCHANGED <<code, count, log, pinLock, outLock, trace>>
  BY DEF Flush
<1> DEFINE e == LogEvent(t)
<1>2. /\ e \in Event /\ e.refs = {} /\ e.kind = "micro_event_log" /\ e.tid = t
      /\ e.start = count[t] - Len(log[t]) /\ e.ins = log[t]
  BY TypesFacts, LogEventType DEF IInv, Types
<1>3. Begin(t, "flush", e)
  BY <1>1
<1> HIDE DEF e
<1>4. UNCHANGED <<images, mapped, cache, count, log, outLock, pinLock, trace>>
  BY <1>1 DEF code
<1>5. /\ \A u \in Threads \ {t} : doing'[u] = doing[u] /\ event'[u] = event[u]
      /\ doing'[t] = "flush" /\ event'[t] = e /\ doing[t] = "running"
  BY <1>2, <1>3, BeginTypes DEF IInv
<1>6. at'[t] = a /\ \A u \in Threads \ {t} : at'[u] = at[u]
  BY <1>1 DEF IInv, Types, TypeOK
<1>7. PendingInv'
  <2> SUFFICES ASSUME NEW u \in Threads PROVE Pending(u)'
    BY DEF PendingInv
  <2>1. CASE u = t
    BY <1>1, <1>2, <1>4, <1>5, <1>6, <2>1 DEF Pending
  <2>2. CASE u # t
    <3>1. Pending(u)
      BY DEF IInv, PendingInv
    <3>2. doing[u] = "unload" => a \notin Span(event[u].image)
      BY <1>1 DEF ComesTo, Leaving, Span
    <3>3. doing[u] = "unload" => \A v \in Threads : at'[v] \notin Span(event[u].image)
      BY <1>6, <3>1, <3>2 DEF Pending
    <3> QED
      BY <1>4, <1>5, <1>6, <2>2, <3>1, <3>3 DEF Pending, Span
  <2> QED
    BY <2>1, <2>2
<1>8. ImagesInv'
  <2>1. \A u \in Threads : doing[u] \in {"load", "symbols"} => doing'[u] = doing[u] /\ event'[u] = event[u]
    BY <1>5
  <2> QED
    BY <1>4, <2>1 DEF IInv, ImagesInv, Span
<1>9. CacheInv'
  BY <1>4 DEF IInv, CacheInv
<1> QED
  BY <1>2, <1>4, <1>5, <1>7, <1>8, <1>9, KeptBeginning, TypesBegin DEF IInv

(* The kind of an event tells what its writer is doing. *)
LEMMA KindTells ==
    ASSUME IInv, NEW t \in Threads, doing[t] # "running"
    PROVE  /\ event[t].kind = "mod_load" <=> doing[t] = "load"
           /\ event[t].kind = "mod_symbols" <=> doing[t] = "symbols"
           /\ event[t].kind = "mod_unload" <=> doing[t] = "unload"
           /\ event[t].kind = "trace_disasm" <=> doing[t] = "compile"
           /\ event[t].kind = "micro_event_log" <=> doing[t] = "flush"
<1>1. doing[t] \in {"running", "load", "symbols", "unload", "compile", "flush"}
  BY DEF IInv, Types, TypeOK
<1>2. Pending(t)
  BY DEF IInv, PendingInv
<1> QED
  BY <1>1, <1>2 DEF Pending

(* The references of an event that is written. *)
LEMMA RefsWritten ==
    ASSUME IInv, NEW t \in Threads, NEW what, PutEvent(t, what),
           \A u \in Threads : count'[u] \in Nat /\ count[u] <= count'[u],
           \A u \in Threads \ {t} : doing'[u] = doing[u] /\ event'[u] = event[u],
           doing'[t] = "running" \/ event'[t].refs = {}
    PROVE  RefsInv'
<1> HIDE DEF Event
<1>1. /\ trace \in Seq(Event) /\ event[t] \in Event /\ trace' = Append(trace, event[t])
      /\ \A u \in Threads \ {t} : doing[u] # "running" => event[u].refs = {}
      /\ \A u \in Threads : \E r \in event[t].refs : r.tid = u
      /\ doing[t] # "running"
  BY PutTypes DEF IInv
<1>2. ASSUME NEW n \in Nat, NEW u \in Threads, n <= count[u] PROVE n <= count'[u]
  <2>1. count[u] \in Nat /\ count'[u] \in Nat /\ count[u] <= count'[u]
    BY TypesFacts DEF IInv
  <2> QED
    BY <1>2, <2>1
<1>3. ASSUME NEW e \in Event, \A r \in e.refs : r.next <= count[r.tid]
      PROVE  \A r \in e.refs : r.next <= count'[r.tid]
  <2>1. \A r \in e.refs : r.tid \in Threads /\ r.next \in Nat
    BY DEF Event
  <2> QED
    BY <1>2, <1>3, <2>1
<1>4. ASSUME NEW d \in DOMAIN trace'
      PROVE  /\ \A u \in Threads : \E r \in trace'[d].refs : r.tid = u
             /\ \A r \in trace'[d].refs : r.next <= count'[r.tid]
  <2>1. CASE d \in DOMAIN trace /\ trace'[d] = trace[d]
    <3>1. trace[d] \in Event
      BY <1>1, <2>1
    <3> QED
      BY <1>3, <2>1, <3>1 DEF IInv, RefsInv
  <2>2. CASE trace'[d] = event[t]
    <3>1. \A r \in event[t].refs : r.next <= count[r.tid]
      BY <1>1 DEF IInv, RefsInv
    <3> QED
      BY <1>1, <1>3, <2>2, <3>1
  <2> QED
    BY <1>1, <1>4, <2>1, <2>2, Newest
<1>5. ASSUME NEW u \in Threads, doing'[u] # "running"
      PROVE  \A r \in event'[u].refs : r.next <= count'[r.tid]
  BY <1>1, <1>5
<1> QED
  BY <1>4, <1>5 DEF RefsInv

(* What was executed stays told by an event that is written. *)
LEMMA ToldWritten ==
    ASSUME IInv, NEW t \in Threads, NEW what, PutEvent(t, what),
           \A u \in Threads \ {t} : doing'[u] = doing[u] /\ event'[u] = event[u],
           doing'[t] = "running" \/ event'[t].refs = {},
           NEW v \in Threads, NEW x \in Executed(v),
           count'[v] \in Nat, count[v] <= count'[v]
    PROVE  Told(v, x)'
<1> HIDE DEF Event
<1>1. /\ trace \in Seq(Event) /\ event[t] \in Event /\ trace' = Append(trace, event[t])
      /\ doing[t] # "running"
  BY PutTypes DEF IInv
<1>2. Told(v, x)
  BY DEF IInv, ExecutedInv
<1>3. CodeTold(trace', v, x) /\ ImageTold(trace', v, x)
  BY <1>1, <1>2, StaysTold DEF Told
<1>4. x.n < count'[v]
  <2>1. count[v] \in Nat
    BY TypesFacts DEF IInv
  <2> QED
    BY <1>2, <2>1 DEF Told
<1>5. ASSUME NEW u \in Threads, doing'[u] # "running" PROVE Agrees(event'[u], v, x)
  BY <1>2, <1>5 DEF Told, Agrees, Sees
<1> QED
  BY <1>2, <1>3, <1>4, <1>5 DEF Told

(* A callback's event has no instructions. *)
LEMMA ExecutedWritten ==
    ASSUME IInv, NEW t \in Threads, NEW what, PutEvent(t, what), what # "flush",
           \A u \in Threads \ {t} : doing'[u] = doing[u] /\ event'[u] = event[u],
           doing'[t] = "running" \/ event'[t].refs = {}, UNCHANGED <<count, log>>
    PROVE  RefsInv' /\ ExecutedInv'
<1> HIDE DEF Event
<1>1. /\ trace \in Seq(Event) /\ event[t] \in Event /\ trace' = Append(trace, event[t])
      /\ doing[t] = what /\ what # "running"
  BY PutTypes DEF IInv
<1>2. event[t].ins = <<>>
  BY <1>1 DEF IInv, PendingInv, Pending
<1>3. Part(event[t]) = {}
  BY <1>2 DEF Part
<1>4. ASSUME NEW v \in Threads PROVE Executed(v)' = Executed(v)
  <2>1. Written(trace', v) = Written(trace, v)
    <3>1. Written(trace', v) = Written(trace, v) \cup (IF event[t].tid = v THEN Part(event[t]) ELSE {})
      BY <1>1, WrittenMore
    <3> QED
      BY <1>3, <3>1
  <2>2. Part(LogEvent(v))' = Part(LogEvent(v))
    BY DEF Part, LogEvent, MakeEvent
  <2>3. Executed(v)' = Written(trace', v) \cup Part(LogEvent(v))'
    BY DEF Executed, Written, Part
  <2> QED
    BY <2>1, <2>2, <2>3, ExecutedParts
<1>5. \A u \in Threads : count'[u] \in Nat /\ count[u] <= count'[u]
  <2>1. \A u \in Threads : count[u] \in Nat
    BY TypesFacts DEF IInv
  <2> QED
    BY <2>1
<1>6. ExecutedInv'
  BY <1>4, <1>5, ToldWritten DEF ExecutedInv
<1> QED
  BY <1>5, <1>6, RefsWritten

(* After an event that is written, the known images are where memory has   *)
(* them, and so at different places.                                       *)
LEMMA MapWritten ==
    ASSUME IInv, NEW t \in Threads, NEW what, PutEvent(t, what), ImagesInv'
    PROVE  MapInv'
<1> HIDE DEF Event
<1>1. /\ trace \in Seq(Event) /\ event[t] \in Event /\ trace' = Append(trace, event[t])
      /\ doing[t] # "running"
  BY PutTypes DEF IInv
<1> DEFINE n == Len(trace)
<1>2. /\ n \in Nat /\ DOMAIN trace = 1 .. n /\ DOMAIN trace' = 1 .. (n + 1)
      /\ trace'[n + 1] = event[t]
      /\ \A d \in 1 .. n : trace'[d] = trace[d]
  BY <1>1, OneMore
<1>3. PICK m \in Nat : m = n
  BY <1>2
<1> HIDE DEF n
<1>4. /\ DOMAIN trace = 1 .. m /\ DOMAIN trace' = 1 .. (m + 1)
      /\ trace'[m + 1] = event[t]
      /\ \A d \in 1 .. m : trace'[d] = trace[d]
  BY <1>2, <1>3
<1>5. ASSUME NEW j \in 1 .. m PROVE Consistent(trace', j)
  <2>1. Consistent(trace, j)
    BY <1>4 DEF IInv, MapInv
  <2>2. \A d \in 1 .. j : trace'[d] = trace[d]
    BY <1>4
  <2>3. j \in 1 .. j
    OBVIOUS
  <2> QED
    BY <2>1, <2>2, <2>3 DEF Consistent
<1>6. Consistent(trace', m + 1)
  <2>1. ASSUME NEW d \in 1 .. (m + 1), NEW e \in 1 .. (m + 1),
               trace'[d].kind = "mod_load", trace'[e].kind = "mod_load",
               trace'[d].image # trace'[e].image
        PROVE  \/ trace'[d].pcs \cap trace'[e].pcs = {}
               \/ \E k \in 1 .. (m + 1) : /\ trace'[k].kind = "mod_unload"
                                          /\ trace'[k].image \in {trace'[d].image, trace'[e].image}
    <3>1. CASE Unloaded(trace', trace'[d].image) \/ Unloaded(trace', trace'[e].image)
      BY <1>4, <3>1 DEF Unloaded
    <3>2. CASE ~Unloaded(trace', trace'[d].image) /\ ~Unloaded(trace', trace'[e].image)
      <4>1. /\ trace'[d].pcs = {a \in Addrs : mapped'[a] = trace'[d].image}
            /\ trace'[e].pcs = {a \in Addrs : mapped'[a] = trace'[e].image}
        BY <1>4, <2>1, <3>2 DEF ImagesInv, Span
      <4> QED
        BY <2>1, <4>1
    <3> QED
      BY <3>1, <3>2
  <2>2. ASSUME event[t].kind = "trace_disasm"
        PROVE  /\ \E d \in 1 .. (m + 1) : /\ trace'[d].kind = "mod_load"
                                          /\ trace'[d].image = event[t].image
                                          /\ event[t].pcs \subseteq trace'[d].pcs
               /\ \E d \in 1 .. (m + 1) : /\ trace'[d].kind = "mod_symbols"
                                          /\ trace'[d].image = event[t].image
               /\ \A d \in 1 .. (m + 1) :
                     trace'[d].kind = "mod_unload" => trace'[d].image # event[t].image
    <3>1. doing[t] = "compile"
      BY <1>1, <2>2, KindTells
    <3>2. Known(trace, event[t].image) /\ event[t].pcs \subseteq Span(event[t].image)
      BY <3>1 DEF IInv, PendingInv, Pending
    <3>3. PICK d \in 1 .. m : trace[d].kind = "mod_load" /\ trace[d].image = event[t].image
      BY <1>4, <3>2 DEF Known, Loaded
    <3>4. trace[d].pcs = Span(event[t].image)
      BY <1>4, <3>2, <3>3 DEF IInv, ImagesInv, Known
    <3>5. PICK k \in 1 .. m : trace[k].kind = "mod_symbols" /\ trace[k].image = event[t].image
      BY <1>4, <3>2 DEF Known, SymbolsTold
    <3>6. d \in 1 .. (m + 1) /\ k \in 1 .. (m + 1)
      OBVIOUS
    <3>7. ASSUME NEW l \in 1 .. (m + 1), trace'[l].kind = "mod_unload"
          PROVE  trace'[l].image # event[t].image
      <4>1. l \in 1 .. m
        BY <1>4, <2>2, <3>7
      <4> QED
        BY <1>4, <3>2, <3>7, <4>1 DEF Known, Unloaded
    <3> QED
      BY <1>4, <3>2, <3>3, <3>4, <3>5, <3>6, <3>7
  <2> QED
    BY <1>4, <2>1, <2>2 DEF Consistent
<1>7. \A j \in 1 .. (m + 1) : j \in 1 .. m \/ j = m + 1
  OBVIOUS
<1> QED
  BY <1>4, <1>5, <1>6, <1>7 DEF MapInv

(* What remains of the invariant when memory and code stay the same.       *)
LEMMA CodeWritten ==
    ASSUME IInv, NEW t \in Threads, NEW what, PutEvent(t, what), what \notin {"unload", "compile"},
           UNCHANGED code
    PROVE  CacheInv'
<1> HIDE DEF Event
<1>1. /\ trace \in Seq(Event) /\ event[t] \in Event /\ trace' = Append(trace, event[t])
      /\ doing[t] = what /\ what # "running"
  BY PutTypes DEF IInv
<1>2. event[t].kind # "mod_unload" /\ event[t].kind # "trace_disasm"
  BY <1>1, KindTells
<1>3. ASSUME NEW a \in Addrs, cache[a] # 0
      PROVE  cache[a] = mapped[a] /\ Known(trace', cache[a]) /\ LastTells(trace', a, cache[a])
  <2>1. cache[a] = mapped[a] /\ Known(trace, cache[a]) /\ LastTells(trace, a, cache[a])
    BY <1>3 DEF IInv, CacheInv
  <2>2. Known(trace', cache[a])
    BY <1>1, <1>2, <2>1, StaysKnown
  <2>3. LastTells(trace', a, cache[a])
    BY <1>1, <1>2, <2>1, StaysLast DEF Tells
  <2> QED
    BY <2>1, <2>2, <2>3
<1> QED
  BY <1>3 DEF CacheInv, code

(* Load events and unloaded images after one more event. *)
LEMMA LoadsWritten ==
    ASSUME IInv, NEW t \in Threads, NEW what, PutEvent(t, what), images' = images
    PROVE  /\ \A d \in DOMAIN trace' :
                 trace'[d].kind \in {"mod_load", "mod_unload"} => trace'[d].image \in 1 .. images'
           /\ \A d, e \in DOMAIN trace' :
                 /\ trace'[d].kind = "mod_load" /\ trace'[e].kind = "mod_load"
                 /\ trace'[d].image = trace'[e].image
                 => d = e
           /\ \A d \in DOMAIN trace' :
                 /\ trace'[d].kind = "mod_load" /\ ~Unloaded(trace', trace'[d].image)
                 => /\ trace'[d].pcs = Span(trace'[d].image)
                    /\ trace'[d].image # 0
<1> HIDE DEF Event
<1>1. /\ trace \in Seq(Event) /\ event[t] \in Event /\ trace' = Append(trace, event[t])
      /\ doing[t] = what /\ what # "running"
  BY PutTypes DEF IInv
<1>2. /\ \A d \in DOMAIN trace : d \in DOMAIN trace' /\ trace'[d] = trace[d]
      /\ \A d \in DOMAIN trace' : d \in DOMAIN trace \/ trace'[d] = event[t]
      /\ \A d, e \in DOMAIN trace' : d \in DOMAIN trace \/ e \in DOMAIN trace \/ d = e
  <2>1. /\ Len(trace) \in Nat /\ DOMAIN trace = 1 .. Len(trace)
        /\ DOMAIN trace' = 1 .. (Len(trace) + 1)
    BY <1>1, OneMore
  <2>2. \A d, e \in DOMAIN trace' : d \in DOMAIN trace \/ e \in DOMAIN trace \/ d = e
    BY <2>1
  <2> QED
    BY <1>1, <2>2, Newest
<1>3. event[t].kind = "mod_load" => /\ event[t].image \in 1 .. images
                                    /\ event[t].pcs = Span(event[t].image)
                                    /\ ~Loaded(trace, event[t].image)
  BY <1>1, KindTells DEF IInv, PendingInv, Pending
<1>4. event[t].kind = "mod_unload" => event[t].image \in 1 .. images
  BY <1>1, KindTells DEF IInv, PendingInv, Pending
<1>5. \A d \in DOMAIN trace' :
         trace'[d].kind \in {"mod_load", "mod_unload"} => trace'[d].image \in 1 .. images
  BY <1>2, <1>3, <1>4 DEF IInv, ImagesInv
<1>6. ASSUME NEW d \in DOMAIN trace', NEW e \in DOMAIN trace',
             trace'[d].kind = "mod_load", trace'[e].kind = "mod_load",
             trace'[d].image = trace'[e].image
      PROVE  d = e
  <2>1. CASE d \in DOMAIN trace /\ e \in DOMAIN trace
    BY <1>2, <1>6, <2>1 DEF IInv, ImagesInv
  <2>2. CASE d \notin DOMAIN trace \/ e \notin DOMAIN trace
    BY <1>2, <1>3, <1>6, <2>2 DEF Loaded
  <2> QED
    BY <2>1, <2>2
<1>7. ASSUME NEW d \in DOMAIN trace', trace'[d].kind = "mod_load",
             ~Unloaded(trace', trace'[d].image)
      PROVE  trace'[d].pcs = Span(trace'[d].image)
  <2>1. CASE d \in DOMAIN trace
    <3>1. ~Unloaded(trace, trace[d].image)
      BY <1>1, <1>2, <1>7, <2>1, TellsImage
    <3> QED
      BY <1>2, <1>7, <2>1, <3>1 DEF IInv, ImagesInv
  <2>2. CASE trace'[d] = event[t]
    BY <1>3, <1>7, <2>2
  <2> QED
    BY <1>2, <2>1, <2>2
<1>8. \A k \in 1 .. images : k # 0
  OBVIOUS
<1> QED
  BY <1>5, <1>6, <1>7, <1>8

LEMMA KeptLoaded ==
    ASSUME IInv, NEW t \in Threads, EndLoad(t)
    PROVE  IInv'
<1> HIDE DEF Event
<1>1. PutEvent(t, "load") /\ UNCHANGED <<images, mapped, cache, at, count, log, pinLock>>
  BY DEF EndLoad, code, threads
<1>2. /\ trace \in Seq(Event) /\ event[t] \in Event /\ trace' = Append(trace, event[t])
      /\ doing[t] = "load"
  BY <1>1, PutTypes DEF IInv
<1>3. /\ Types' /\ event'[t].refs = {} /\ event'[t].kind = "mod_symbols"
      /\ event'[t].image = event[t].image /\ event'[t].ins = <<>> /\ event'[t].tid = t
      /\ doing'[t] = "symbols"
      /\ \A u \in Threads \ {t} : doing'[u] = doing[u] /\ event'[u] = event[u]
  BY TypesLoaded DEF IInv
<1>4. \A u \in Threads \ {t} : doing[u] \in {"running", "flush"}
  BY <1>2, NoCallback DEF IInv, Types, LockInv
<1>5. event[t].kind = "mod_load" /\ ~Unloaded(trace, event[t].image)
  BY <1>2 DEF IInv, PendingInv, Pending
<1>6. Loaded(trace', event[t].image) /\ ~Unloaded(trace', event[t].image)
  BY <1>2, <1>5, TellsImage
<1>7. PendingInv'
  <2> SUFFICES ASSUME NEW u \in Threads PROVE Pending(u)'
    BY DEF PendingInv
  <2>1. CASE u = t
    BY <1>3, <1>6, <2>1 DEF Pending
  <2>2. CASE u # t
    <3>1. Pending(u)
      BY DEF IInv, PendingInv
    <3> QED
      BY <1>1, <1>3, <1>4, <2>2, <3>1 DEF Pending
  <2> QED
    BY <2>1, <2>2
<1>8. ImagesInv'
  <2>1. ASSUME NEW a \in Addrs, mapped[a] # 0
        PROVE  \/ Known(trace', mapped[a])
               \/ \E u \in Threads : doing'[u] \in {"load", "symbols"} /\ event'[u].image = mapped[a]
    <3>1. CASE Known(trace, mapped[a])
      BY <1>2, <1>5, <3>1, StaysKnown
    <3>2. CASE \E u \in Threads : doing[u] \in {"load", "symbols"} /\ event[u].image = mapped[a]
      BY <1>3, <1>4, <3>2
    <3> QED
      BY <2>1, <3>1, <3>2 DEF IInv, ImagesInv
  <2> QED
    BY <1>1, <2>1, LoadsWritten DEF ImagesInv, Span
<1>9. CacheInv'
  BY <1>1, CodeWritten DEF code
<1>10. MapInv'
  BY <1>1, <1>8, MapWritten
<1>11. RefsInv' /\ ExecutedInv'
  BY <1>1, <1>3, ExecutedWritten
<1> QED
  BY <1>3, <1>7, <1>8, <1>9, <1>10, <1>11 DEF IInv

(* A callback that returns leaves nothing pending but flushes. *)
LEMMA ReturnFacts ==
    ASSUME IInv, NEW t \in Threads, NEW what \in {"symbols", "unload", "compile"}, Return(t, what)
    PROVE  /\ PutEvent(t, what) /\ UNCHANGED <<at, count, log>>
           /\ trace \in Seq(Event) /\ event[t] \in Event /\ trace' = Append(trace, event[t])
           /\ doing[t] = what /\ Pending(t)
           /\ \A u \in Threads \ {t} : doing'[u] = doing[u] /\ event'[u] = event[u]
           /\ doing'[t] = "running"
           /\ \A u \in Threads \ {t} : doing[u] \in {"running", "flush"}
           /\ RefsInv' /\ ExecutedInv'
<1> HIDE DEF Event
<1>1. PutEvent(t, what) /\ Run(t) /\ UNCHANGED <<at, count, log>>
  BY DEF Return, threads
<1>2. /\ trace \in Seq(Event) /\ event[t] \in Event /\ trace' = Append(trace, event[t])
      /\ doing[t] = what
  BY <1>1, PutTypes DEF IInv
<1>3. /\ \A u \in Threads \ {t} : doing'[u] = doing[u] /\ event'[u] = event[u]
      /\ doing'[t] = "running"
  BY <1>1, RunTypes DEF IInv
<1>4. pinLock = t
  BY <1>2 DEF IInv, Types, LockInv
<1>5. \A u \in Threads \ {t} : doing[u] \in {"running", "flush"}
  BY <1>4, NoCallback
<1>6. RefsInv' /\ ExecutedInv'
  BY <1>1, <1>3, ExecutedWritten
<1> QED
  BY <1>1, <1>2, <1>3, <1>5, <1>6 DEF IInv, PendingInv

LEMMA PendingReturned ==
    ASSUME IInv, NEW t \in Threads, NEW what \in {"symbols", "unload", "compile"}, Return(t, what),
           \A u \in Threads : doing[u] = "flush" => cache'[at[u]] # 0
    PROVE  PendingInv'
<1> SUFFICES ASSUME NEW u \in Threads PROVE Pending(u)'
  BY DEF PendingInv
<1>1. CASE u = t
  BY <1>1, ReturnFacts DEF Pending
<1>2. CASE u # t
  <2>1. Pending(u)
    BY DEF IInv, PendingInv
  <2>2. UNCHANGED <<at, count, log>> /\ doing'[u] = doing[u] /\ event'[u] = event[u]
        /\ doing[u] \in {"running", "flush"}
    BY <1>2, ReturnFacts
  <2> QED
    BY <2>1, <2>2 DEF Pending
<1> QED
  BY <1>1, <1>2

LEMMA KeptSymbols ==
    ASSUME IInv, NEW t \in Threads, EndSymbols(t)
    PROVE  IInv'
<1> HIDE DEF Event
<1>1. Return(t, "symbols") /\ UNCHANGED <<images, mapped, cache>>
  BY DEF EndSymbols, code
<1>2. /\ PutEvent(t, "symbols") /\ UNCHANGED <<at, count, log>>
      /\ trace \in Seq(Event) /\ event[t] \in Event /\ trace' = Append(trace, event[t])
      /\ doing[t] = "symbols" /\ Pending(t)
      /\ \A u \in Threads \ {t} : doing'[u] = doing[u] /\ event'[u] = event[u]
      /\ \A u \in Threads \ {t} : doing[u] \in {"running", "flush"}
      /\ RefsInv' /\ ExecutedInv'
  BY <1>1, ReturnFacts
<1>3. event[t].kind = "mod_symbols" /\ Loaded(trace, event[t].image) /\ ~Unloaded(trace, event[t].image)
  BY <1>2 DEF Pending
<1>4. Known(trace', event[t].image)
  BY <1>2, <1>3, TellsImage DEF Known
<1>5. PendingInv'
  <2>1. \A u \in Threads : doing[u] = "flush" => cache'[at[u]] # 0
    BY <1>1 DEF IInv, PendingInv, Pending
  <2> QED
    BY <1>1, <2>1, PendingReturned
<1>6. ImagesInv'
  <2>1. ASSUME NEW a \in Addrs, mapped[a] # 0 PROVE Known(trace', mapped[a])
    <3>1. CASE Known(trace, mapped[a])
      BY <1>2, <1>3, <3>1, StaysKnown
    <3>2. CASE \E u \in Threads : doing[u] \in {"load", "symbols"} /\ event[u].image = mapped[a]
      BY <1>2, <1>4, <3>2
    <3> QED
      BY <2>1, <3>1, <3>2 DEF IInv, ImagesInv
  <2> QED
    BY <1>1, <1>2, <2>1, LoadsWritten DEF ImagesInv, Span
<1>7. CacheInv'
  BY <1>1, <1>2, CodeWritten DEF code
<1>8. MapInv'
  BY <1>2, <1>6, MapWritten
<1>9. Types'
  BY <1>2, TypesReturned DEF IInv
<1> QED
  BY <1>2, <1>5, <1>6, <1>7, <1>8, <1>9 DEF IInv

LEMMA KeptUnloaded ==
    ASSUME IInv, NEW t \in Threads, EndUnload(t)
    PROVE  IInv'
<1> HIDE DEF Event
<1>1. Return(t, "unload") /\ DropImage(event[t].image)
  BY DEF EndUnload
<1>2. /\ PutEvent(t, "unload") /\ UNCHANGED <<at, count, log>>
      /\ trace \in Seq(Event) /\ event[t] \in Event /\ trace' = Append(trace, event[t])
      /\ doing[t] = "unload" /\ Pending(t)
      /\ \A u \in Threads \ {t} : doing'[u] = doing[u] /\ event'[u] = event[u]
      /\ \A u \in Threads \ {t} : doing[u] \in {"running", "flush"}
      /\ RefsInv' /\ ExecutedInv'
  BY <1>1, ReturnFacts
<1>3. PICK i \in 1 .. images : i = event[t].image
  BY <1>2 DEF Pending
<1>4. event[t].kind = "mod_unload" /\ \A u \in Threads : at[u] \notin Span(i)
  BY <1>2, <1>3 DEF Pending
<1>5. /\ \A a \in Addrs : mapped'[a] = IF mapped[a] = i THEN 0 ELSE mapped[a]
      /\ \A a \in Addrs : cache'[a] = IF mapped[a] = i THEN 0 ELSE cache[a]
      /\ images' = images
  BY <1>1, <1>3 DEF DropImage, Span
<1>6. ASSUME NEW k, Known(trace, k), k # i PROVE Known(trace', k)
  BY <1>2, <1>3, <1>6, StaysKnown
<1>7. PendingInv'
  <2>1. \A u \in Threads : doing[u] = "flush" => cache'[at[u]] # 0
    BY <1>4, <1>5 DEF IInv, PendingInv, Pending, Span
  <2> QED
    BY <1>1, <2>1, PendingReturned
<1>8. ImagesInv'
  <2>1. ASSUME NEW a \in Addrs, mapped'[a] # 0 PROVE Known(trace', mapped'[a])
    <3>1. mapped[a] # 0 /\ mapped'[a] = mapped[a] /\ mapped[a] # i
      BY <1>5, <2>1
    <3>2. Known(trace, mapped[a])
      BY <1>2, <3>1 DEF IInv, ImagesInv
    <3> QED
      BY <1>6, <3>1, <3>2
  <2>2. ASSUME NEW d \in DOMAIN trace', trace'[d].kind = "mod_load",
               ~Unloaded(trace', trace'[d].image)
        PROVE  trace'[d].pcs = {a \in Addrs : mapped'[a] = trace'[d].image}
    <3>1. trace'[d].pcs = Span(trace'[d].image) /\ trace'[d].image # 0
      BY <1>2, <1>5, <2>2, LoadsWritten
    <3>2. trace'[d].image # i
      BY <1>2, <1>3, <1>4, <2>2, TellsImage
    <3> QED
      BY <1>5, <3>1, <3>2 DEF Span
  <2>3. /\ \A d \in DOMAIN trace' :
              trace'[d].kind \in {"mod_load", "mod_unload"} => trace'[d].image \in 1 .. images'
        /\ \A d, e \in DOMAIN trace' :
              /\ trace'[d].kind = "mod_load" /\ trace'[e].kind = "mod_load"
              /\ trace'[d].image = trace'[e].image
              => d = e
    BY <1>2, <1>5, LoadsWritten
  <2> QED
    BY <2>1, <2>2, <2>3 DEF ImagesInv, Span
<1>9. CacheInv'
  <2>1. ASSUME NEW a \in Addrs, cache'[a] # 0
        PROVE  /\ cache'[a] = mapped'[a]
               /\ Known(trace', cache'[a]) /\ LastTells(trace', a, cache'[a])
    <3>1. cache'[a] = cache[a] /\ mapped'[a] = mapped[a] /\ mapped[a] # i /\ cache[a] # 0
      BY <1>5, <2>1
    <3>2. cache[a] = mapped[a] /\ Known(trace, cache[a]) /\ LastTells(trace, a, cache[a])
      BY <3>1 DEF IInv, CacheInv
    <3>3. LastTells(trace', a, cache[a])
      BY <1>2, <1>4, <3>2, StaysLast DEF Tells
    <3> QED
      BY <1>6, <3>1, <3>2, <3>3
  <2> QED
    BY <2>1 DEF CacheInv
<1>10. MapInv'
  BY <1>2, <1>8, MapWritten
<1>11. Types'
  BY <1>2, TypesReturned DEF IInv
<1> QED
  BY <1>2, <1>7, <1>8, <1>9, <1>10, <1>11 DEF IInv

LEMMA KeptCompiled ==
    ASSUME IInv, NEW t \in Threads, EndCompile(t)
    PROVE  IInv'
<1> HIDE DEF Event
<1>1. /\ Return(t, "compile") /\ UNCHANGED <<images, mapped>>
      /\ cache' = [a \in Addrs |-> IF a \in event[t].pcs THEN event[t].image ELSE cache[a]]
  BY DEF EndCompile
<1>2. /\ PutEvent(t, "compile") /\ UNCHANGED <<at, count, log>>
      /\ trace \in Seq(Event) /\ event[t] \in Event /\ trace' = Append(trace, event[t])
      /\ doing[t] = "compile" /\ Pending(t)
      /\ \A u \in Threads \ {t} : doing'[u] = doing[u] /\ event'[u] = event[u]
      /\ \A u \in Threads \ {t} : doing[u] \in {"running", "flush"}
      /\ RefsInv' /\ ExecutedInv'
  BY <1>1, ReturnFacts
<1>3. /\ event[t].kind = "trace_disasm" /\ event[t].image \in 1 .. images
      /\ Known(trace, event[t].image) /\ event[t].pcs \subseteq Span(event[t].image)
  BY <1>2 DEF Pending
<1>4. event[t].image # 0
  BY <1>3
<1>5. PendingInv'
  <2>1. \A u \in Threads : doing[u] = "flush" => cache'[at[u]] # 0
    BY <1>1, <1>4 DEF IInv, PendingInv, Pending
  <2> QED
    BY <1>1, <2>1, PendingReturned
<1>6. ImagesInv'
  <2>1. ASSUME NEW a \in Addrs, mapped[a] # 0 PROVE Known(trace', mapped[a])
    <3>1. Known(trace, mapped[a])
      BY <1>2, <2>1 DEF IInv, ImagesInv
    <3> QED
      BY <1>2, <1>3, <3>1, StaysKnown
  <2> QED
    BY <1>1, <1>2, <2>1, LoadsWritten DEF ImagesInv, Span
<1>7. CacheInv'
  <2>1. ASSUME NEW a \in Addrs, cache'[a] # 0
        PROVE  /\ cache'[a] = mapped[a]
               /\ Known(trace', cache'[a]) /\ LastTells(trace', a, cache'[a])
    <3>1. CASE a \in event[t].pcs
      <4>1. cache'[a] = event[t].image /\ mapped[a] = event[t].image
        BY <1>1, <1>3, <3>1 DEF Span
      <4>2. LastTells(trace', a, event[t].image)
        BY <1>2, <1>3, <3>1, StaysLast DEF Tells
      <4> QED
        BY <1>2, <1>3, <4>1, <4>2, StaysKnown
    <3>2. CASE a \notin event[t].pcs
      <4>1. cache'[a] = cache[a] /\ cache[a] # 0
        BY <1>1, <2>1, <3>2
      <4>2. cache[a] = mapped[a] /\ Known(trace, cache[a]) /\ LastTells(trace, a, cache[a])
        BY <4>1 DEF IInv, CacheInv
      <4>3. LastTells(trace', a, cache[a])
        BY <1>2, <3>2, <4>2, StaysLast DEF Tells
      <4> QED
        BY <1>2, <1>3, <4>1, <4>2, <4>3, StaysKnown
    <3> QED
      BY <3>1, <3>2
  <2> QED
    BY <1>1, <2>1 DEF CacheInv
<1>8. MapInv'
  BY <1>2, <1>6, MapWritten
<1>9. Types'
  BY <1>3, TypesReturned DEF IInv
<1> QED
  BY <1>2, <1>5, <1>6, <1>7, <1>8, <1>9 DEF IInv

----------------------------------------------------------------------------
(* Instructions are executed. *)

(* What a log s of a thread whose counter is c holds. *)
InLog(c, s) == {[n |-> c - Len(s) + k - 1, ins |-> s[k]] : k \in DOMAIN s}

LEMMA InLogMore ==
    ASSUME NEW c \in Nat, NEW s \in Seq(Instruction), NEW i \in Instruction
    PROVE  InLog(c + 1, Append(s, i)) = InLog(c, s) \cup {[n |-> c, ins |-> i]}
<1> HIDE DEF Instruction
<1> DEFINE l == Len(s)
           a == Append(s, i)
<1>1. /\ l \in Nat /\ DOMAIN s = 1 .. l /\ DOMAIN a = 1 .. (l + 1) /\ Len(a) = l + 1
      /\ a[l + 1] = i /\ \A k \in 1 .. l : a[k] = s[k]
  BY OneMore
<1>2. /\ InLog(c, s) = {[n |-> c - l + k - 1, ins |-> s[k]] : k \in 1 .. l}
      /\ InLog(c + 1, a) = {[n |-> (c + 1) - (l + 1) + k - 1, ins |-> a[k]] : k \in 1 .. (l + 1)}
  BY <1>1 DEF InLog
<1> HIDE DEF a, l
<1>3. /\ \A k \in 1 .. l : k \in 1 .. (l + 1) /\ (c + 1) - (l + 1) + k - 1 = c - l + k - 1
      /\ l + 1 \in 1 .. (l + 1) /\ (c + 1) - (l + 1) + (l + 1) - 1 = c
      /\ \A k \in 1 .. (l + 1) : k \in 1 .. l \/ k = l + 1
  BY <1>1
<1>4. ASSUME NEW x \in InLog(c + 1, a) PROVE x \in InLog(c, s) \cup {[n |-> c, ins |-> i]}
  <2>1. PICK k \in 1 .. (l + 1) : x = [n |-> (c + 1) - (l + 1) + k - 1, ins |-> a[k]]
    BY <1>2
  <2> QED
    BY <1>1, <1>2, <1>3, <2>1
<1>5. ASSUME NEW x \in InLog(c, s) PROVE x \in InLog(c + 1, a)
  <2>1. PICK k \in 1 .. l : x = [n |-> c - l + k - 1, ins |-> s[k]]
    BY <1>2
  <2>2. k \in 1 .. (l + 1) /\ (c + 1) - (l + 1) + k - 1 = c - l + k - 1 /\ a[k] = s[k]
    BY <1>1, <1>3
  <2>3. x = [n |-> (c + 1) - (l + 1) + k - 1, ins |-> a[k]]
    BY <2>1, <2>2
  <2> QED
    BY <1>2, <2>2, <2>3
<1>6. [n |-> c, ins |-> i] \in InLog(c + 1, a)
  <2>1. [n |-> c, ins |-> i] = [n |-> (c + 1) - (l + 1) + (l + 1) - 1, ins |-> a[l + 1]]
    BY <1>1, <1>3
  <2> QED
    BY <1>2, <1>3, <2>1
<1> QED
  BY <1>4, <1>5, <1>6 DEF a

LEMMA InLogOne ==
    ASSUME NEW c \in Nat, NEW i \in Instruction
    PROVE  InLog(c + 1, <<i>>) = {[n |-> c, ins |-> i]}
<1>1. Len(<<i>>) = 1 /\ DOMAIN <<i>> = {1} /\ <<i>>[1] = i
  OBVIOUS
<1>2. (c + 1) - 1 + 1 - 1 = c
  OBVIOUS
<1> QED
  BY <1>1, <1>2 DEF InLog

LEMMA ExecutedLogged ==
    ASSUME NEW t \in Threads
    PROVE  /\ Executed(t) = Written(trace, t) \cup InLog(count[t], log[t])
           /\ Executed(t)' = Written(trace', t) \cup InLog(count'[t], log'[t])
<1>1. /\ LogEvent(t).start = count[t] - Len(log[t]) /\ LogEvent(t).ins = log[t]
      /\ LogEvent(t)'.start = count'[t] - Len(log'[t]) /\ LogEvent(t)'.ins = log'[t]
  BY DEF LogEvent, MakeEvent
<1>2. /\ Part(LogEvent(t)) = InLog(count[t], log[t])
      /\ Part(LogEvent(t)') = InLog(count'[t], log'[t])
  BY <1>1 DEF Part, InLog
<1>3. /\ Executed(t) = Written(trace, t) \cup Part(LogEvent(t))
      /\ Executed(t)' = Written(trace', t) \cup Part(LogEvent(t)')
  BY DEF Executed, Written, Part
<1> QED
  BY <1>2, <1>3

(* Every event of the trace is before what is executed now. *)
LEMMA NewTold ==
    ASSUME IInv, NEW t \in Threads, NEW a \in Addrs, cache[a] # 0, NEW x,
           x.n = count[t], x.ins.pc = a, x.ins.image = cache[a]
    PROVE  CodeTold(trace, t, x) /\ ImageTold(trace, t, x)
<1>1. \A d \in DOMAIN trace : Sees(trace[d], t, x.n)
  BY DEF IInv, RefsInv, Sees
<1>2. cache[a] = mapped[a] /\ Known(trace, cache[a]) /\ LastTells(trace, a, cache[a])
  BY DEF IInv, CacheInv
<1>3. CodeTold(trace, t, x)
  BY <1>1, <1>2 DEF CodeTold, LastTells
<1>4. ASSUME NEW d \in DOMAIN trace, trace[d].kind = "mod_load", ~Unloaded(trace, trace[d].image)
      PROVE  a \in trace[d].pcs <=> trace[d].image = cache[a]
  BY <1>2, <1>4 DEF IInv, ImagesInv, Span
<1>5. \E d \in DOMAIN trace : /\ Sees(trace[d], t, x.n) /\ trace[d].kind = "mod_load"
                              /\ trace[d].image = x.ins.image /\ x.ins.pc \in trace[d].pcs
  BY <1>1, <1>2, <1>4 DEF Known, Loaded
<1>6. \E d \in DOMAIN trace : /\ Sees(trace[d], t, x.n) /\ trace[d].kind = "mod_symbols"
                              /\ trace[d].image = x.ins.image
  BY <1>1, <1>2 DEF Known, SymbolsTold
<1>7. \A d \in DOMAIN trace : trace[d].kind = "mod_unload" => trace[d].image # x.ins.image
  BY <1>2 DEF Known, Unloaded
<1>8. ASSUME NEW d \in DOMAIN trace, trace[d].kind = "mod_load",
             trace[d].image # x.ins.image, x.ins.pc \in trace[d].pcs
      PROVE  \E e \in DOMAIN trace : /\ Sees(trace[e], t, x.n) /\ trace[e].kind = "mod_unload"
                                     /\ trace[e].image = trace[d].image
  BY <1>1, <1>4, <1>8 DEF Unloaded
<1>9. ImageTold(trace, t, x)
  BY <1>5, <1>6, <1>7, <1>8 DEF ImageTold
<1> QED
  BY <1>3, <1>9

(* And what is being told does not contradict it. *)
LEMMA NewAgrees ==
    ASSUME IInv, NEW t \in Threads, NEW a \in Addrs, cache[a] # 0, ComesTo(t, a), NEW x,
           x.ins.pc = a, x.ins.image = cache[a],
           NEW u \in Threads, doing[u] # "running"
    PROVE  Agrees(event[u], t, x)
<1>1. cache[a] = mapped[a] /\ Known(trace, cache[a])
  BY DEF IInv, CacheInv
<1>2. Pending(u)
  BY DEF IInv, PendingInv
<1>3. Tells(event[u], a) => event[u].image = cache[a]
  <2>1. Tells(event[u], a) => doing[u] = "compile" /\ a \in event[u].pcs
    BY KindTells DEF Tells
  <2> QED
    BY <1>1, <1>2, <2>1 DEF Pending, Span
<1>4. event[u].kind = "mod_load" => a \notin event[u].pcs
  <2>1. event[u].kind = "mod_load" => doing[u] = "load"
    BY KindTells
  <2> QED
    BY <1>1, <1>2, <2>1 DEF Pending, Span, Known
<1>5. event[u].kind = "mod_unload" => event[u].image # cache[a]
  <2>1. event[u].kind = "mod_unload" => doing[u] = "unload"
    BY KindTells
  <2>2. doing[u] = "unload" => mapped[a] # event[u].image
    BY DEF ComesTo, Leaving
  <2> QED
    BY <1>1, <2>1, <2>2
<1> QED
  BY <1>3, <1>4, <1>5 DEF Agrees

LEMMA KeptExecuting ==
    ASSUME IInv, NEW t \in Threads, Execute(t)
    PROVE  IInv'
<1> HIDE DEF Event, Instruction
<1>1. PICK a \in Addrs :
        /\ doing[t] = "running" /\ ComesTo(t, a) /\ cache[a] # 0
        /\ log' = [log EXCEPT ![t] = Append(@, Ins(a))]
        /\ count' = [count EXCEPT ![t] = @ + 1]
        /\ at' = [at EXCEPT ![t] = Nowhere]
        /\ UNCHANGED <<images, mapped, cache, pinLock, outLock, doing, event, trace>>
  BY DEF Execute, code
<1>2. /\ log \in [Threads -> Seq(Instruction)] /\ count \in [Threads -> Nat]
      /\ at \in [Threads -> Addrs \cup {Nowhere}]
  BY DEF IInv, Types, TypeOK
<1>3. /\ at'[t] = Nowhere /\ log'[t] = Append(log[t], Ins(a)) /\ count'[t] = count[t] + 1
      /\ \A u \in Threads \ {t} : at'[u] = at[u] /\ log'[u] = log[u] /\ count'[u] = count[u]
  BY <1>1, <1>2
<1>4. Ins(a) \in Instruction /\ Ins(a).pc = a /\ Ins(a).image = cache[a]
  BY InsType DEF IInv
<1>5. \A u \in Threads : count[u] \in Nat /\ count'[u] \in Nat /\ count[u] <= count'[u]
  <2>1. ASSUME NEW u \in Threads PROVE count[u] \in Nat /\ count'[u] \in Nat /\ count[u] <= count'[u]
    <3>1. count[u] \in Nat
      BY <1>2
    <3>2. count'[u] = count[u] \/ count'[u] = count[u] + 1
      BY <1>3
    <3> QED
      BY <3>1, <3>2
  <2> QED
    BY <2>1
<1>6. Types'
  BY TypesExecuted DEF IInv
<1>7. PendingInv'
  <2> SUFFICES ASSUME NEW u \in Threads PROVE Pending(u)'
    BY DEF PendingInv
  <2>1. Pending(u)
    BY DEF IInv, PendingInv
  <2>2. \A v \in Threads : at'[v] = at[v] \/ at'[v] \notin Addrs
    BY <1>3, CodeAssumption
  <2>3. CASE u = t
    BY <1>1, <2>3 DEF Pending
  <2>4. CASE u # t
    <3>1. at'[u] = at[u] /\ log'[u] = log[u] /\ count'[u] = count[u]
      BY <1>3, <2>4
    <3> QED
      BY <1>1, <2>1, <2>2, <3>1 DEF Pending, Span
  <2> QED
    BY <2>3, <2>4
<1>8. ImagesInv' /\ CacheInv' /\ MapInv'
  BY <1>1 DEF IInv, ImagesInv, CacheInv, MapInv, Span
<1>9. RefsInv'
  <2>1. ASSUME NEW e \in Event, \A r \in e.refs : r.next <= count[r.tid]
        PROVE  \A r \in e.refs : r.next <= count'[r.tid]
    <3>1. \A r \in e.refs : r.tid \in Threads /\ r.next \in Nat
      BY DEF Event
    <3>2. \A n \in Nat : \A u \in Threads : n <= count[u] => n <= count'[u]
      BY <1>5
    <3> QED
      BY <2>1, <3>1, <3>2
  <2>2. trace \in Seq(Event) /\ \A u \in Threads : doing[u] # "running" => event[u] \in Event
    BY TypesFacts DEF IInv
  <2>3. \A d \in DOMAIN trace : trace[d] \in Event
    BY <2>2
  <2> QED
    BY <1>1, <2>1, <2>2, <2>3 DEF IInv, RefsInv
<1>10. ExecutedInv'
  <2> SUFFICES ASSUME NEW v \in Threads, NEW x \in Executed(v)' PROVE Told(v, x)'
    BY DEF ExecutedInv
  <2>1. CASE x \in Executed(v)
    <3>1. Told(v, x)
      BY <2>1 DEF IInv, ExecutedInv
    <3>2. x.n \in Nat /\ x.n < count'[v]
      <4>1. count[v] \in Nat /\ count'[v] \in Nat /\ count[v] <= count'[v]
        BY <1>5
      <4> QED
        BY <3>1, <4>1 DEF Told
    <3> QED
      BY <1>1, <3>1, <3>2 DEF Told
  <2>2. CASE v = t /\ x = [n |-> count[t], ins |-> Ins(a)]
    <3>1. /\ x.n = count[t] /\ x.ins.pc = a /\ x.ins.image = cache[a]
          /\ x.n \in Nat /\ x.n < count'[t]
      BY <1>3, <1>4, <1>5, <2>2
    <3>2. CodeTold(trace, t, x) /\ ImageTold(trace, t, x)
      BY <1>1, <3>1, NewTold
    <3>3. \A u \in Threads : doing[u] # "running" => Agrees(event[u], t, x)
      BY <1>1, <3>1, NewAgrees
    <3> QED
      BY <1>1, <2>2, <3>1, <3>2, <3>3 DEF Told
  <2>3. x \in Executed(v) \/ (v = t /\ x = [n |-> count[t], ins |-> Ins(a)])
    <3>1. CASE v = t
      <4>1. InLog(count'[t], log'[t]) = InLog(count[t], log[t]) \cup {[n |-> count[t], ins |-> Ins(a)]}
        BY <1>2, <1>3, <1>4, InLogMore
      <4> QED
        BY <1>1, <3>1, <4>1, ExecutedLogged
    <3>2. CASE v # t
      BY <1>1, <1>3, <3>2, ExecutedLogged
    <3> QED
      BY <3>1, <3>2
  <2> QED
    BY <2>1, <2>2, <2>3
<1> QED
  BY <1>6, <1>7, <1>8, <1>9, <1>10 DEF IInv

LEMMA KeptFlushed ==
    ASSUME IInv, NEW t \in Threads, EndFlush(t)
    PROVE  IInv'
<1> HIDE DEF Event, Instruction
<1>1. /\ PutEvent(t, "flush") /\ Run(t)
      /\ log' = [log EXCEPT ![t] = <<Ins(at[t])>>]
      /\ count' = [count EXCEPT ![t] = @ + 1]
      /\ at' = [at EXCEPT ![t] = Nowhere]
      /\ UNCHANGED <<images, mapped, cache, pinLock>>
  BY DEF EndFlush, code
<1>2. /\ trace \in Seq(Event) /\ event[t] \in Event /\ trace' = Append(trace, event[t])
      /\ doing[t] = "flush"
      /\ \A u \in Threads \ {t} : doing[u] # "running" => event[u].refs = {}
  BY <1>1, PutTypes DEF IInv
<1>3. PICK a \in Addrs : a = at[t] /\ cache[a] # 0
  BY <1>2 DEF IInv, PendingInv, Pending
<1>4. /\ event[t].kind = "micro_event_log" /\ event[t].tid = t
      /\ event[t].start = count[t] - Len(log[t]) /\ event[t].ins = log[t]
  BY <1>2 DEF IInv, PendingInv, Pending
<1>5. /\ doing'[t] = "running"
      /\ \A u \in Threads \ {t} : doing'[u] = doing[u] /\ event'[u] = event[u]
  BY <1>1, RunTypes DEF IInv
<1>6. /\ log \in [Threads -> Seq(Instruction)] /\ count \in [Threads -> Nat]
      /\ at \in [Threads -> Addrs \cup {Nowhere}]
  BY DEF IInv, Types, TypeOK
<1>7. /\ at'[t] = Nowhere /\ log'[t] = <<Ins(a)>> /\ count'[t] = count[t] + 1
      /\ \A u \in Threads \ {t} : at'[u] = at[u] /\ log'[u] = log[u] /\ count'[u] = count[u]
  BY <1>1, <1>3, <1>6
<1>8. Ins(a) \in Instruction /\ Ins(a).pc = a /\ Ins(a).image = cache[a]
  BY InsType DEF IInv
<1>9. \A u \in Threads : count'[u] \in Nat /\ count[u] <= count'[u]
  <2>1. ASSUME NEW u \in Threads PROVE count'[u] \in Nat /\ count[u] <= count'[u]
    <3>1. count[u] \in Nat
      BY <1>6
    <3>2. count'[u] = count[u] \/ count'[u] = count[u] + 1
      BY <1>7
    <3> QED
      BY <3>1, <3>2
  <2> QED
    BY <2>1
<1>10. Types'
  BY <1>3, TypesFlushed DEF IInv
<1>11. \A i : Known(trace, i) => Known(trace', i)
  BY <1>2, <1>4, StaysKnown
<1>12. PendingInv'
  <2> SUFFICES ASSUME NEW u \in Threads PROVE Pending(u)'
    BY DEF PendingInv
  <2>1. CASE u = t
    BY <1>5, <2>1 DEF Pending
  <2>2. CASE u # t
    <3>1. Pending(u)
      BY DEF IInv, PendingInv
    <3>2. \A v \in Threads : at'[v] = at[v] \/ at'[v] \notin Addrs
      BY <1>7, CodeAssumption
    <3>3. /\ doing'[u] = doing[u] /\ event'[u] = event[u]
          /\ at'[u] = at[u] /\ log'[u] = log[u] /\ count'[u] = count[u]
      BY <1>5, <1>7, <2>2
    <3>4. /\ Loaded(trace', event[u].image) <=> Loaded(trace, event[u].image)
          /\ Unloaded(trace', event[u].image) <=> Unloaded(trace, event[u].image)
      BY <1>2, <1>4, TellsImage
    <3>5. images' = images /\ cache' = cache /\ \A i : Span(i)' = Span(i)
      BY <1>1 DEF Span
    <3>6. doing[u] = "compile" => Known(trace', event[u].image)
      BY <1>11, <3>1 DEF Pending
    <3>7. doing[u] = "unload" => \A v \in Threads : at'[v] \notin Span(event[u].image)
      BY <3>1, <3>2 DEF Pending, Span
    <3> QED
      BY <3>1, <3>3, <3>4, <3>5, <3>6, <3>7 DEF Pending
  <2> QED
    BY <2>1, <2>2
<1>13. ImagesInv'
  <2>1. ASSUME NEW b \in Addrs, mapped[b] # 0
        PROVE  \/ Known(trace', mapped[b])
               \/ \E u \in Threads : doing'[u] \in {"load", "symbols"} /\ event'[u].image = mapped[b]
    <3>1. CASE Known(trace, mapped[b])
      BY <1>11, <3>1
    <3>2. CASE \E u \in Threads : doing[u] \in {"load", "symbols"} /\ event[u].image = mapped[b]
      BY <1>2, <1>5, <3>2
    <3> QED
      BY <2>1, <3>1, <3>2 DEF IInv, ImagesInv
  <2> QED
    BY <1>1, <2>1, LoadsWritten DEF ImagesInv, Span
<1>14. CacheInv'
  BY <1>1, CodeWritten DEF code
<1>15. MapInv'
  BY <1>1, <1>13, MapWritten
<1>16. RefsInv'
  BY <1>1, <1>5, <1>9, RefsWritten
<1>17. ExecutedInv'
  <2> SUFFICES ASSUME NEW v \in Threads, NEW x \in Executed(v)' PROVE Told(v, x)'
    BY DEF ExecutedInv
  <2>1. CASE x \in Executed(v)
    BY <1>1, <1>5, <1>9, <2>1, ToldWritten
  <2>2. CASE v = t /\ x = [n |-> count[t], ins |-> Ins(a)]
    <3>1. /\ x.n = count[t] /\ x.ins.pc = a /\ x.ins.image = cache[a]
          /\ x.n \in Nat /\ x.n < count'[t]
      <4>1. count[t] \in Nat
        BY <1>6
      <4> QED
        BY <1>7, <1>8, <2>2, <4>1
    <3>2. CodeTold(trace, t, x) /\ ImageTold(trace, t, x)
      BY <1>3, <3>1, NewTold
    <3>3. Agrees(event[t], t, x)
      BY <1>4 DEF Agrees, Tells
    <3>4. CodeTold(trace', t, x) /\ ImageTold(trace', t, x)
      BY <1>2, <3>2, <3>3, StaysTold
    <3>5. ASSUME NEW u \in Threads, doing'[u] # "running" PROVE Agrees(event'[u], t, x)
      BY <1>2, <1>5, <3>5 DEF Agrees, Sees
    <3> QED
      BY <2>2, <3>1, <3>4, <3>5 DEF Told
  <2>3. x \in Executed(v) \/ (v = t /\ x = [n |-> count[t], ins |-> Ins(a)])
    <3>1. Written(trace', v) = Written(trace, v) \cup (IF event[t].tid = v THEN Part(event[t]) ELSE {})
      BY <1>2, WrittenMore
    <3>2. Part(event[t]) = InLog(count[t], log[t])
      BY <1>4 DEF Part, InLog
    <3>3. CASE v = t
      <4>1. InLog(count'[t], log'[t]) = {[n |-> count[t], ins |-> Ins(a)]}
        BY <1>6, <1>7, <1>8, InLogOne
      <4> QED
        BY <1>4, <3>1, <3>2, <3>3, <4>1, ExecutedLogged
    <3>4. CASE v # t
      BY <1>4, <1>7, <3>1, <3>4, ExecutedLogged
    <3> QED
      BY <3>3, <3>4
  <2> QED
    BY <2>1, <2>2, <2>3
<1> QED
  BY <1>10, <1>12, <1>13, <1>14, <1>15, <1>16, <1>17 DEF IInv

----------------------------------------------------------------------------
(* The theorems. *)

LEMMA InitInv == Init => IInv
<1> SUFFICES ASSUME Init PROVE IInv
  OBVIOUS
<1>1. DOMAIN trace = {} /\ \A t \in Threads : doing[t] = "running"
  BY DEF Init
<1>2. \A t \in Threads : Executed(t) = {}
  <2>1. ASSUME NEW t \in Threads PROVE Executed(t) = {}
    <3>1. DOMAIN log[t] = {}
      BY DEF Init
    <3> QED
      BY <1>1, <3>1, ExecutedLogged DEF Written, InLog
  <2> QED
    BY <2>1
<1>3. PendingInv
  BY <1>1 DEF PendingInv, Pending
<1>4. ImagesInv /\ CacheInv
  BY <1>1 DEF Init, ImagesInv, CacheInv
<1>5. RefsInv /\ MapInv /\ ExecutedInv
  BY <1>1, <1>2 DEF RefsInv, MapInv, ExecutedInv
<1> QED
  BY <1>3, <1>4, <1>5, InitTypes DEF IInv

LEMMA StepInv == IInv /\ [Next]_vars => IInv'
<1> SUFFICES ASSUME IInv, [Next]_vars PROVE IInv'
  OBVIOUS
<1>1. CASE UNCHANGED vars
  <2>1. UNCHANGED <<images, mapped, cache, pinLock, outLock, doing, event, at, count, log, trace>>
    BY <1>1 DEF vars, code, threads
  <2>2. Types'
    BY <2>1 DEF IInv, Types, TypeOK, LockInv
  <2>3. PendingInv' /\ ImagesInv' /\ CacheInv'
    BY <2>1 DEF IInv, PendingInv, Pending, ImagesInv, CacheInv, Span
  <2>4. \A t \in Threads : Executed(t)' = Executed(t)
    BY <2>1, ExecutedLogged
  <2>5. RefsInv' /\ MapInv' /\ ExecutedInv'
    BY <2>1, <2>4 DEF IInv, RefsInv, MapInv, ExecutedInv, Told
  <2> QED
    BY <2>2, <2>3, <2>5 DEF IInv
<1>2. ASSUME NEW t \in Threads, WriteEvent(t) PROVE IInv'
  BY <1>2, KeptReferring, KeptLoaded, KeptSymbols, KeptUnloaded, KeptCompiled, KeptFlushed
     DEF WriteEvent
<1>3. ASSUME NEW t \in Threads, Program(t) PROVE IInv'
  BY <1>3, KeptLoading, KeptUnloading, KeptCompiling, KeptExecuting, KeptFlushing DEF Program
<1> QED
  BY <1>1, <1>2, <1>3 DEF Next, Rest

(* Whatever threads load, execute and flush in whatever order, the         *)
(* variables keep their types and an event refers to nobody before its     *)
(* writer has the output lock.                                             *)
THEOREM TypeCorrect == Spec => []TypeOK
<1>1. IInv => TypeOK
  BY DEF IInv, Types
<1> QED
  BY <1>1, InitInv, StepInv, PTL DEF Spec

(* Max is the last one. *)
LEMMA MaxIs ==
    ASSUME NEW S \in SUBSET Nat, NEW d \in S, \A e \in S : e <= d
    PROVE  Max(S) = d
<1>1. \A e \in S : d >= e
  <2>1. \A e \in S : e \in Nat /\ d \in Nat
    OBVIOUS
  <2> QED
    BY <2>1
<1>2. Max(S) \in S /\ \A e \in S : Max(S) >= e
  BY <1>1 DEF Max
<1>3. Max(S) \in Nat /\ d \in Nat /\ Max(S) >= d /\ Max(S) <= d
  BY <1>2
<1> QED
  BY <1>3

(* The text of an executed instruction is found by the cross references,   *)
(* however late its log is flushed and whatever replaced its image since,  *)
(* for any number of threads and images.                                   *)
THEOREM CodeIsDated == Spec => []XrefsDateTheCode
<1>1. IInv => XrefsDateTheCode
  <2> SUFFICES ASSUME IInv, NEW t \in Threads, NEW x \in Executed(t)
               PROVE  LET D == {i \in OfKind(Before(t, x.n), "trace_disasm") : x.ins.pc \in trace[i].pcs}
                      IN  D # {} /\ trace[Max(D)].image = x.ins.image
    BY DEF XrefsDateTheCode
  <2> DEFINE D == {i \in OfKind(Before(t, x.n), "trace_disasm") : x.ins.pc \in trace[i].pcs}
  <2>1. CodeTold(trace, t, x)
    BY DEF IInv, ExecutedInv, Told
  <2>2. D = {i \in DOMAIN trace : Tells(trace[i], x.ins.pc) /\ Sees(trace[i], t, x.n)}
    BY DEF OfKind, Before, Tells, Sees
  <2>3. PICK d \in D : trace[d].image = x.ins.image /\ \A e \in D : e <= d
    BY <2>1, <2>2 DEF CodeTold
  <2>4. DOMAIN trace \subseteq Nat
    <3>1. trace \in Seq(Event)
      BY TypesFacts DEF IInv
    <3> HIDE DEF Event
    <3> QED
      BY <3>1
  <2> HIDE DEF D
  <2>5. D \in SUBSET Nat
    BY <2>2, <2>4
  <2>6. Max(D) = d
    BY <2>3, <2>5, MaxIs
  <2>7. D # {} /\ trace[Max(D)].image = x.ins.image
    BY <2>3, <2>6
  <2> QED
    BY <2>7 DEF D
<1> QED
  BY <1>1, InitInv, StepInv, PTL DEF Spec

(* Where an image is, if it is loaded by event d. *)
LEMMA PlaceIs ==
    ASSUME IInv, NEW d \in DOMAIN trace, trace[d].kind = "mod_load"
    PROVE  Place(trace[d].image) = trace[d].pcs
<1>1. \A e \in DOMAIN trace :
         trace[e].kind = "mod_load" /\ trace[e].image = trace[d].image => e = d
  BY DEF IInv, ImagesInv
<1>2. {k \in OfKind(DOMAIN trace, "mod_load") : trace[k].image = trace[d].image} = {d}
  BY <1>1 DEF OfKind
<1> QED
  BY <1>2 DEF Place

(* So is its image: it has been loaded, its symbols are told, it has not   *)
(* been unloaded, and no other one is at the place.                        *)
THEOREM ImagesAreDated == Spec => []XrefsDateTheImage
<1>1. IInv => XrefsDateTheImage
  <2> SUFFICES ASSUME IInv, NEW t \in Threads, NEW x \in Executed(t)
               PROVE  LET I == Before(t, x.n)
                      IN  /\ {i \in Present(I) : x.ins.pc \in Place(i)} = {x.ins.image}
                          /\ x.ins.image \in Images(I, "mod_symbols")
    BY DEF XrefsDateTheImage
  <2> DEFINE I == Before(t, x.n)
  <2>1. ImageTold(trace, t, x)
    BY DEF IInv, ExecutedInv, Told
  <2>2. I = {i \in DOMAIN trace : Sees(trace[i], t, x.n)}
    BY DEF Before, Sees
  <2> HIDE DEF I
  <2>3. x.ins.image \in Images(I, "mod_symbols")
    BY <2>1, <2>2 DEF ImageTold, Images, OfKind
  <2>4. x.ins.image \in Present(I) /\ x.ins.pc \in Place(x.ins.image)
    <3>1. PICK d \in I : /\ trace[d].kind = "mod_load" /\ trace[d].image = x.ins.image
                         /\ x.ins.pc \in trace[d].pcs
      BY <2>1, <2>2 DEF ImageTold
    <3>2. x.ins.image \notin Images(I, "mod_unload")
      BY <2>1, <2>2 DEF ImageTold, Images, OfKind
    <3> QED
      BY <2>2, <3>1, <3>2, PlaceIs DEF Present, Images, OfKind
  <2>5. ASSUME NEW i \in Present(I), x.ins.pc \in Place(i) PROVE i = x.ins.image
    <3>1. PICK d \in I : trace[d].kind = "mod_load" /\ trace[d].image = i
      BY DEF Present, Images, OfKind
    <3>2. x.ins.pc \in trace[d].pcs
      BY <2>2, <2>5, <3>1, PlaceIs
    <3>3. \A e \in I : trace[e].kind = "mod_unload" => trace[e].image # i
      BY DEF Present, Images, OfKind
    <3> QED
      BY <2>1, <2>2, <3>1, <3>2, <3>3 DEF ImageTold
  <2>6. {i \in Present(I) : x.ins.pc \in Place(i)} = {x.ins.image}
    BY <2>4, <2>5
  <2> QED
    BY <2>3, <2>6 DEF I
<1> QED
  BY <1>1, InitInv, StepInv, PTL DEF Spec

(* In the order of the file images and code are told in step: a reader     *)
(* knows at most one image for an address, and one for any code.           *)
THEOREM MapIsTrue == Spec => []ModuleMapTrue
<1>1. IInv => ModuleMapTrue
  <2> SUFFICES ASSUME IInv, NEW j \in DOMAIN trace
               PROVE  LET P == Present(1 .. j)
                      IN  /\ \A i, k \in P : i # k => Place(i) \cap Place(k) = {}
                          /\ trace[j].kind = "trace_disasm" =>
                                /\ trace[j].image \in P \cap Images(1 .. j, "mod_symbols")
                                /\ trace[j].pcs \subseteq Place(trace[j].image)
    BY DEF ModuleMapTrue
  <2>1. Consistent(trace, j)
    BY DEF IInv, MapInv
  <2>2. 1 .. j \subseteq DOMAIN trace
    <3>1. trace \in Seq(Event)
      BY TypesFacts DEF IInv
    <3>2. DOMAIN trace = 1 .. Len(trace) /\ Len(trace) \in Nat
      <4> HIDE DEF Event
      <4> QED
        BY <3>1
    <3> QED
      BY <3>2
  <2>3. ASSUME NEW i \in Present(1 .. j), NEW k \in Present(1 .. j), i # k
        PROVE  Place(i) \cap Place(k) = {}
    <3>1. PICK d \in 1 .. j : trace[d].kind = "mod_load" /\ trace[d].image = i
      BY DEF Present, Images, OfKind
    <3>2. PICK e \in 1 .. j : trace[e].kind = "mod_load" /\ trace[e].image = k
      BY DEF Present, Images, OfKind
    <3>3. \A l \in 1 .. j : trace[l].kind = "mod_unload" => trace[l].image \notin {i, k}
      BY DEF Present, Images, OfKind
    <3>4. trace[d].pcs \cap trace[e].pcs = {}
      BY <2>1, <2>3, <3>1, <3>2, <3>3 DEF Consistent
    <3> QED
      BY <2>2, <3>1, <3>2, <3>4, PlaceIs
  <2>4. ASSUME trace[j].kind = "trace_disasm"
        PROVE  /\ trace[j].image \in Present(1 .. j) \cap Images(1 .. j, "mod_symbols")
               /\ trace[j].pcs \subseteq Place(trace[j].image)
    <3>1. PICK d \in 1 .. j : /\ trace[d].kind = "mod_load" /\ trace[d].image = trace[j].image
                              /\ trace[j].pcs \subseteq trace[d].pcs
      BY <2>1, <2>4 DEF Consistent
    <3>2. trace[j].pcs \subseteq Place(trace[j].image)
      BY <2>2, <3>1, PlaceIs
    <3> QED
      BY <2>1, <2>4, <3>1, <3>2 DEF Consistent, Present, Images, OfKind
  <2> QED
    BY <2>3, <2>4
<1> QED
  BY <1>1, InitInv, StepInv, PTL DEF Spec
=============================================================================
