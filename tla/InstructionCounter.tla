------------------------ MODULE InstructionCounter ------------------------
(***************************************************************************)
(* The per-thread instruction counter (src/src/InstructionCounter.h): 64   *)
(* bits in two 32-bit words, counter_[0] (lo) and counter_[1] (hi).  The   *)
(* owning thread increments it for every instruction it executes, without  *)
(* the lock unless the low word carries; a thread that writes an event     *)
(* reads it under the lock, one word at a time.                            *)
(*                                                                         *)
(* One step is one access to a shared word or to the lock.  The order in   *)
(* which read() loads its two words is unspecified in C++, so both orders  *)
(* are allowed.                                                            *)
(***************************************************************************)
EXTENDS Integers

CONSTANTS Threads,     \* the threads of the process
          Owner,       \* the one thread that increments
          NoThread,    \* the value of a lock nobody holds
          WordMax,     \* the largest value of a word: 2^32 - 1 in the code
          MaxIncs      \* bound: increments in a behaviour

ASSUME CounterAssumption ==
    /\ Owner \in Threads
    /\ NoThread \notin Threads
    /\ WordMax \in Nat \ {0}
    /\ MaxIncs \in Nat
    /\ MaxIncs < (WordMax + 1) * (WordMax + 1)     \* the 64 bits suffice

VARIABLES lo, hi,      \* counter_[0] and counter_[1]
          lock,        \* lock_: its holder, or NoThread
          pc,          \* pc[t]: where t is in inc() or read()
          seenLo,      \* seenLo[t]: the low word t's read() has loaded
          seenHi,      \* seenHi[t]: the high word t's read() has loaded
          got,         \* got[t]: what t's latest read() returned
          began        \* history: the value when t's read() got the lock, else 0

vars == <<lo, hi, lock, pc, seenLo, seenHi, got, began>>

Radix  == WordMax + 1
Word   == 0 .. WordMax
Unread == -1

(* The number the two words stand for.  Between the two stores of a carry  *)
(* the low word is back to 0 and the high word still lacks its one.        *)
Value == IF pc[Owner] = "carryHigh" THEN (hi + 1) * Radix + lo
                                    ELSE hi * Radix + lo

Goto(t, from, to) == /\ pc[t] = from
                     /\ pc' = [pc EXCEPT ![t] = to]

Acquire(t) == lock = NoThread /\ lock' = t
Release(t) == lock' = NoThread

Init == /\ lo = 0
        /\ hi = 0
        /\ lock = NoThread
        /\ pc = [t \in Threads |-> "idle"]
        /\ seenLo = [t \in Threads |-> Unread]
        /\ seenHi = [t \in Threads |-> Unread]
        /\ got = [t \in Threads |-> 0]
        /\ began = [t \in Threads |-> 0]

----------------------------------------------------------------------------
(* inc(), by the owner. *)

reading == <<seenLo, seenHi, got, began>>

(* Mutant: the test is off by one and the carry never happens. *)
IncTestOffByOne ==
    /\ Value < MaxIncs
    /\ Goto(Owner, "idle", IF lo <= WordMax THEN "fast" ELSE "carryLock")
    /\ UNCHANGED <<lo, hi, lock, reading>>

IncTest ==
    /\ Value < MaxIncs
    /\ Goto(Owner, "idle", IF lo < WordMax THEN "fast" ELSE "carryLock")
    /\ UNCHANGED <<lo, hi, lock, reading>>

IncFast ==
    /\ Goto(Owner, "fast", "idle")
    /\ lo' = (lo + 1) % Radix
    /\ UNCHANGED <<hi, lock, reading>>

(* Mutant: the carry does not take the lock. *)
IncAcquireNothing ==
    /\ Goto(Owner, "carryLock", "carryLow")
    /\ UNCHANGED <<lo, hi, lock, reading>>

IncAcquire ==
    /\ Goto(Owner, "carryLock", "carryLow")
    /\ Acquire(Owner)
    /\ UNCHANGED <<lo, hi, reading>>

IncCarryLow ==
    /\ Goto(Owner, "carryLow", "carryHigh")
    /\ lo' = (lo + 1) % Radix
    /\ UNCHANGED <<hi, lock, reading>>

(* Mutant: the carry is lost. *)
IncCarryHighLost ==
    /\ Goto(Owner, "carryHigh", "carryUnlock")
    /\ UNCHANGED <<lo, hi, lock, reading>>

IncCarryHigh ==
    /\ Goto(Owner, "carryHigh", "carryUnlock")
    /\ hi' = (hi + 1) % Radix
    /\ UNCHANGED <<lo, lock, reading>>

(* Mutant: the slow path returns with the lock held. *)
IncReleaseNothing ==
    /\ Goto(Owner, "carryUnlock", "idle")
    /\ UNCHANGED <<lo, hi, lock, reading>>

IncRelease ==
    /\ Goto(Owner, "carryUnlock", "idle")
    /\ Release(Owner)
    /\ UNCHANGED <<lo, hi, reading>>

----------------------------------------------------------------------------
(* read(), by any thread. *)

ReadBegin(t) ==
    /\ Goto(t, "idle", "readLock")
    /\ UNCHANGED <<lo, hi, lock, reading>>

ReadAcquire(t) ==
    /\ Goto(t, "readLock", "readWords")
    /\ Acquire(t)
    /\ began' = [began EXCEPT ![t] = Value]
    /\ UNCHANGED <<lo, hi, seenLo, seenHi, got>>

ReadHigh(t) ==
    /\ pc[t] = "readWords"
    /\ seenHi[t] = Unread
    /\ seenHi' = [seenHi EXCEPT ![t] = hi]
    /\ UNCHANGED <<lo, hi, lock, pc, seenLo, got, began>>

ReadLow(t) ==
    /\ pc[t] = "readWords"
    /\ seenLo[t] = Unread
    /\ seenLo' = [seenLo EXCEPT ![t] = lo]
    /\ UNCHANGED <<lo, hi, lock, pc, seenHi, got, began>>

ReadRelease(t) ==
    /\ seenLo[t] # Unread
    /\ seenHi[t] # Unread
    /\ Goto(t, "readWords", "idle")
    /\ got' = [got EXCEPT ![t] = seenHi[t] * Radix + seenLo[t]]
    /\ seenLo' = [seenLo EXCEPT ![t] = Unread]
    /\ seenHi' = [seenHi EXCEPT ![t] = Unread]
    /\ began' = [began EXCEPT ![t] = 0]
    /\ Release(t)
    /\ UNCHANGED <<lo, hi>>

----------------------------------------------------------------------------
IncStep == \/ IncFast
           \/ IncAcquire
           \/ IncCarryLow
           \/ IncCarryHigh
           \/ IncRelease

ReadStep(t) == \/ ReadAcquire(t)
               \/ ReadHigh(t)
               \/ ReadLow(t)
               \/ ReadRelease(t)

Next == \/ IncTest
        \/ IncStep
        \/ \E t \in Threads : ReadBegin(t) \/ ReadStep(t)

(* A thread inside inc() or read() keeps running; when it calls them again *)
(* is up to the application, so IncTest and ReadBegin get no fairness.  A  *)
(* spin lock promises only that somebody gets it.                          *)
Fairness == /\ WF_vars(IncStep)
            /\ \A t \in Threads : WF_vars(ReadStep(t))

Spec == Init /\ [][Next]_vars /\ Fairness

----------------------------------------------------------------------------
(* The counter's words stay words, its lock has a thread of the process or *)
(* nobody, and only the owner is ever inside inc().                        *)
TypeOK ==
    /\ lo \in Word
    /\ hi \in Word
    /\ lock \in Threads \cup {NoThread}
    /\ pc \in [Threads -> {"idle", "fast", "carryLock", "carryLow", "carryHigh",
                           "carryUnlock", "readLock", "readWords"}]
    /\ \A t \in Threads \ {Owner} : pc[t] \in {"idle", "readLock", "readWords"}
    /\ seenLo \in [Threads -> Word \cup {Unread}]
    /\ seenHi \in [Threads -> Word \cup {Unread}]
    /\ got \in [Threads -> Nat]
    /\ began \in [Threads -> Nat]

(* "OK for the reader to see a slightly out-of-date (lower) value, but     *)
(* torn reads are not OK": both words a read() has loaded make a number    *)
(* the counter has had since that read() took the lock, however the        *)
(* lock-free increments and the carries of the owner fall between them.    *)
NoTornRead ==
    \A t \in Threads :
        seenLo[t] # Unread /\ seenHi[t] # Unread
            => seenHi[t] * Radix + seenLo[t] \in began[t] .. Value

(* Two successive reads by the same thread never see the counter go back,  *)
(* which is what lets the cross references of successive events be         *)
(* compared.                                                               *)
ReadsNeverGoBack == [][\A t \in Threads : got'[t] >= got[t]]_vars

(* The value in abstract terms: a read() takes effect when it loads the    *)
(* low word, an increment when it stores the low word.                     *)
Counter == INSTANCE AtomicCounter WITH
    value <- Value,
    got   <- [t \in Threads |->
                 IF seenLo[t] # Unread THEN hi * Radix + seenLo[t] ELSE got[t]]

(* InstructionCounter behaves as a counter whose operations are atomic.    *)
IsAtomicCounter == Counter!Spec

(* The carry and the readers exclude one another for a finite time only:   *)
(* whoever holds the lock gives it back.                                   *)
LockReleased == \A t \in Threads : (lock = t) ~> (lock # t)
=============================================================================
