----------------------------- MODULE TraceFile -----------------------------
(***************************************************************************)
(* The trace file: what the tracer's output stream makes of the events     *)
(* written to it (src/src/ZTracer.cpp), and how TraceFileReader reads it   *)
(* back (src/src/tools/ztrace/trace_file.py).                              *)
(*                                                                         *)
(* Contents are abstracted to offsets: the file is always a prefix of the  *)
(* bytes given to the stream, so its length says all.  An event is its     *)
(* size field and its body.  The stream's buffer passes bytes on whenever  *)
(* it likes and all of them when the stream is closed; the program may be  *)
(* killed, or abort, at any time, and what is in the buffer is lost.       *)
(* Errors of the disk are left out.                                        *)
(***************************************************************************)
EXTENDS Integers, Sequences

CONSTANTS SizeField,    \* bytes of the size field: 4
          BodySizes,    \* bytes an event's body may have
          Interleaved,  \* whether the client makes other calls while it iterates
          MaxEvents     \* bound: events of a trace

ASSUME FileAssumption ==
    /\ SizeField \in Nat \ {0}
    /\ BodySizes \subseteq Nat \ {0}   \* id, pid and tid of an event are required
    /\ Interleaved \in BOOLEAN
    /\ MaxEvents \in Nat

VARIABLES
    w,        \* the tracer: "open", "body" (a size is written), "closed", "killed"
    events,   \* the events begun: where each starts, the size of its body
    put,      \* bytes given to the stream
    length,   \* bytes in the file
    r,        \* where the reader is
    back,     \* where it goes on when count_events returns
    fp,       \* the position of the reader's file object
    yielded,  \* what events() has yielded: the offset, and if the body was cut
    count,    \* count_events' local count
    counted   \* what it returned last, -1 if nothing

tracer == <<w, events, put, length>>
reader == <<r, back, fp, yielded, count, counted>>

vars == <<tracer, reader>>

Init ==
    /\ w = "open"
    /\ events = <<>>
    /\ put = 0
    /\ length = 0
    /\ r = "unopened"
    /\ back = "ready"
    /\ fp = 0
    /\ yielded = <<>>
    /\ count = 0
    /\ counted = -1

End(e) == e.start + SizeField + e.size

----------------------------------------------------------------------------
(* The tracer. *)

(* WriteEventUnlocked writes the size, *)
PutSize ==
    /\ w = "open"
    /\ Len(events) < MaxEvents
    /\ \E s \in BodySizes : events' = Append(events, [start |-> put, size |-> s])
    /\ put' = put + SizeField
    /\ w' = "body"
    /\ UNCHANGED <<length, reader>>

(* then the body. *)
PutBody ==
    /\ w = "body"
    /\ put' = End(events[Len(events)])
    /\ w' = "open"
    /\ UNCHANGED <<events, length, reader>>

(* The stream's buffer writes some of what it has to the file. *)
Spill ==
    /\ w \in {"open", "body"}
    /\ \E n \in (length + 1) .. put : length' = n
    /\ UNCHANGED <<w, events, put, reader>>

(* Mutant: the stream is not closed. *)
CloseLogNot ==
    /\ w = "open"
    /\ Len(events) >= 2
    /\ w' = "closed"
    /\ UNCHANGED <<events, put, length, reader>>

(* The trace has its trace_start and its trace_end. *)
CloseLog ==
    /\ w = "open"
    /\ Len(events) >= 2
    /\ length' = put
    /\ w' = "closed"
    /\ UNCHANGED <<events, put, reader>>

Kill ==
    /\ w \in {"open", "body"}
    /\ w' = "killed"
    /\ UNCHANGED <<events, put, length, reader>>

----------------------------------------------------------------------------
(* The reader. *)

Outcome == [kind : {"none", "error", "event"}, cut : BOOLEAN, pos : Nat]

(* What _read_event_size may find at offset p, if not a whole size field:  *)
(* the end of the file, or a piece of one that struct.unpack refuses.      *)
NoSize(p) == IF p >= length THEN {[kind |-> "none", cut |-> FALSE, pos |-> p]}
             ELSE {[kind |-> "error", cut |-> FALSE, pos |-> length]}

(* Mutant: an event that ends where the file does is taken for a cut one. *)
ReadEventOffByOne(p) ==
    IF p + SizeField > length THEN NoSize(p)
    ELSE UNION {IF End(e) < length
                  THEN {[kind |-> "event", cut |-> FALSE, pos |-> End(e)]}
                  ELSE {[kind |-> k, cut |-> TRUE, pos |-> length] : k \in {"error", "event"}} :
                e \in {events[i] : i \in {j \in DOMAIN events : events[j].start = p}}}

(* What _read_event may do at offset p, where an event starts: a body that *)
(* is cut short may or may not parse.                                      *)
ReadEvent(p) ==
    IF p + SizeField > length THEN NoSize(p)
    ELSE UNION {IF End(e) <= length
                  THEN {[kind |-> "event", cut |-> FALSE, pos |-> End(e)]}
                  ELSE {[kind |-> k, cut |-> TRUE, pos |-> length] : k \in {"error", "event"}} :
                e \in {events[i] : i \in {j \in DOMAIN events : events[j].start = p}}}

(* The constructor, up to _get_arch; the trace is read when the program is *)
(* gone.                                                                   *)
Open ==
    /\ r = "unopened"
    /\ w \in {"closed", "killed"}
    /\ r' = "arch"
    /\ UNCHANGED <<tracer, back, fp, yielded, count, counted>>

(* _get_arch: the first event must be there and be a trace_start, which a  *)
(* cut one may no longer be.                                               *)
GetArch ==
    /\ r = "arch"
    /\ \E o \in ReadEvent(0) :
          /\ fp' = o.pos
          /\ \/ o.kind = "event" /\ r' = "ready"
             \/ (o.kind # "event" \/ o.cut) /\ r' = "unreadable"
    /\ UNCHANGED <<tracer, back, yielded, count, counted>>

(* Mutant: events() goes on from where the file object is. *)
EventsNoSeek ==
    /\ r = "ready"
    /\ r' = "iterating"
    /\ UNCHANGED <<tracer, back, fp, yielded, count, counted>>

(* The first step of the generator events(). *)
Events ==
    /\ r = "ready"
    /\ fp' = 0
    /\ r' = "iterating"
    /\ UNCHANGED <<tracer, back, yielded, count, counted>>

(* The next step of events(), from wherever the file object is. *)
NextEvent ==
    /\ r = "iterating"
    /\ \E o \in ReadEvent(fp) :
          \/ /\ o.kind = "event"
             /\ yielded' = Append(yielded, [at |-> fp, cut |-> o.cut])
             /\ fp' = o.pos
             /\ UNCHANGED r
          \/ /\ o.kind = "none"
             /\ r' = "done"
             /\ UNCHANGED <<yielded, fp>>
          \/ /\ o.kind = "error"
             /\ r' = "failed"
             /\ fp' = o.pos
             /\ UNCHANGED yielded
    /\ UNCHANGED <<tracer, back, count, counted>>

(* The client's other calls: before and after it iterates, or also while   *)
(* it does.                                                                *)
MayCall == r \in {"ready", "done"} \/ (r = "iterating" /\ Interleaved)

(* event_at, with the offset of an event the client has been given. *)
EventAt ==
    /\ MayCall
    /\ \E k \in DOMAIN yielded : \E o \in ReadEvent(yielded[k].at) :
          /\ fp' = o.pos
          /\ r' = IF o.kind = "event" THEN r ELSE "call_failed"
    /\ UNCHANGED <<tracer, back, yielded, count, counted>>

CountEvents ==
    /\ MayCall
    /\ counted = -1
    /\ fp' = 0
    /\ count' = 0
    /\ back' = r
    /\ r' = "counting"
    /\ UNCHANGED <<tracer, yielded, counted>>

(* One turn of count_events' loop: it skips the body without reading it,   *)
(* so that it may come to lie behind the end of the file.                  *)
CountNext ==
    /\ r = "counting"
    /\ IF fp + SizeField > length
         THEN \E o \in NoSize(fp) :
                /\ r' = IF o.kind = "none" THEN back ELSE "call_failed"
                /\ counted' = IF o.kind = "none" THEN count ELSE counted
                /\ fp' = o.pos
                /\ UNCHANGED count
         ELSE \E i \in DOMAIN events :
                /\ events[i].start = fp
                /\ fp' = End(events[i])
                /\ count' = count + 1
                /\ UNCHANGED <<r, counted>>
    /\ UNCHANGED <<tracer, back, yielded>>

Read == GetArch \/ Events \/ NextEvent \/ CountNext

Over == r \in {"unreadable", "done", "failed", "call_failed"} /\ UNCHANGED vars

Next == \/ PutSize
        \/ PutBody
        \/ Spill
        \/ CloseLog
        \/ Kill
        \/ Open
        \/ Read
        \/ EventAt
        \/ CountEvents
        \/ Over

Spec == Init /\ [][Next]_vars

----------------------------------------------------------------------------
(* Every variable has its type, positions are offsets, and the program is  *)
(* gone when there is a reader.                                            *)
TypeOK ==
    /\ w \in {"open", "body", "closed", "killed"}
    /\ events \in Seq([start : Nat, size : BodySizes])
    /\ put \in Nat
    /\ length \in Nat
    /\ r \in {"unopened", "arch", "ready", "iterating", "counting", "done", "failed",
              "call_failed", "unreadable"}
    /\ back \in {"ready", "iterating", "done"}
    /\ fp \in Nat
    /\ yielded \in Seq([at : Nat, cut : BOOLEAN])
    /\ count \in Nat
    /\ counted \in Nat \cup {-1}
    /\ w = "body" => events # <<>>
    /\ r # "unopened" => w \in {"closed", "killed"}

Whole(i) == End(events[i]) <= length

(* events() yields the events of the trace in their order, each once, from *)
(* the first on, at offsets from which event_at finds them again, and only *)
(* one whose end is not in the file may come cut (trace_file.py:50: "an    *)
(* ordered sequence of events").                                           *)
YieldsInOrder ==
    \A k \in DOMAIN yielded :
        /\ k \in DOMAIN events
        /\ yielded[k].at = events[k].start
        /\ yielded[k].cut <=> ~Whole(k)

(* Wherever the tracer was killed, every event that is wholly in the file  *)
(* has been yielded when events() ends or fails; and if count_events       *)
(* returns, it has counted these and the one that is cut, if any: it seeks *)
(* over its body without a look at where the file ends.                    *)
ReadsWhatIsThere ==
    /\ r \in {"done", "failed"} => \A i \in DOMAIN events : Whole(i) => i \in DOMAIN yielded
    /\ counted # -1 => \A i \in DOMAIN events : (i <= counted) <=> (events[i].start < length)

(* A trace that was closed is read without an error, to its last event,    *)
(* and count_events agrees.                                                *)
ClosedTraceReads ==
    w = "closed" =>
        /\ r \notin {"failed", "call_failed", "unreadable"}
        /\ r = "done" => Len(yielded) = Len(events)
        /\ counted \in {-1, Len(events)}
=============================================================================
