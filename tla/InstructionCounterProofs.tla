---------------------- MODULE InstructionCounterProofs ----------------------
(***************************************************************************)
(* Theorems about InstructionCounter, for any number of threads and any    *)
(* word size: type correctness, no torn reads, and the refinement of       *)
(* AtomicCounter.                                                          *)
(*                                                                         *)
(* The inductive invariant says what the lock protects.  A thread is in    *)
(* its critical section exactly when it holds the lock, so no carry        *)
(* happens while a read is loading words: the high word it loaded is still *)
(* the high word, and the low word it loaded is at most the low word.      *)
(***************************************************************************)
EXTENDS InstructionCounter, TLAPS

InCarry == pc[Owner] \in {"carryLow", "carryHigh", "carryUnlock"}

(* Lock discipline: the lock's holder is the one thread that is in a       *)
(* critical section.                                                       *)
LockInv == \A t \in Threads :
               lock = t <=> \/ pc[t] = "readWords"
                            \/ t = Owner /\ InCarry

(* What the owner knows of the low word between its test and its store. *)
OwnerInv == /\ pc[Owner] = "fast" => lo < WordMax
            /\ pc[Owner] \in {"carryLock", "carryLow"} => lo = WordMax
            /\ pc[Owner] = "carryHigh" => lo = 0

(* What a reader has loaded, against what the words are now. *)
ReadInv == \A t \in Threads :
               /\ pc[t] # "readWords" => seenLo[t] = Unread /\ seenHi[t] = Unread
               /\ pc[t] = "readWords" => began[t] <= hi * Radix + lo
               /\ seenHi[t] # Unread => seenHi[t] = hi
               /\ seenLo[t] # Unread => /\ seenLo[t] <= lo
                                        /\ began[t] <= hi * Radix + seenLo[t]

(* The value fits the two words; an increment under way will still fit. *)
RangeInv == /\ Value <= MaxIncs
            /\ pc[Owner] \in {"fast", "carryLock", "carryLow"} => Value < MaxIncs

IInv == TypeOK /\ LockInv /\ OwnerInv /\ ReadInv /\ RangeInv

(* What a thread has read so far, against what it will read next. *)
GotInv == \A t \in Threads : /\ got[t] <= Value
                             /\ pc[t] = "readWords" => got[t] <= began[t]
----------------------------------------------------------------------------
(* A word that is incremented wraps at WordMax and nowhere else: what      *)
(* counter_[0]++ and counter_[1]++ do.                                     *)
LEMMA WordIncrement ==
    ASSUME NEW w \in Word
    PROVE  /\ (w + 1) % Radix \in Word
           /\ w < WordMax => (w + 1) % Radix = w + 1
           /\ w = WordMax => (w + 1) % Radix = 0
<1>1. WordMax \in Nat /\ w \in Nat /\ w <= WordMax
  BY CounterAssumption DEF Word
<1>2. CASE w < WordMax
  <2>1. w + 1 \in 0 .. (Radix - 1)
    BY <1>1, <1>2 DEF Radix
  <2>2. (w + 1) % Radix = w + 1
    BY <1>1, <2>1 DEF Radix
  <2> QED
    BY <1>1, <1>2, <2>2 DEF Word
<1>3. CASE w = WordMax
  <2>1. (w + 1) % Radix = 0
    BY <1>1, <1>3 DEF Radix
  <2> QED
    BY <1>1, <1>3, <2>1 DEF Word
<1> QED
  BY <1>1, <1>2, <1>3

LEMMA WordNat ==
    ASSUME NEW w \in Word
    PROVE  w \in Nat /\ w + 1 \in Nat
BY CounterAssumption DEF Word

(* The number two words stand for is natural, and one more high word is    *)
(* worth Radix.                                                            *)
LEMMA Places ==
    ASSUME NEW h \in Nat
    PROVE  /\ Radix \in Nat
           /\ h * Radix \in Nat
           /\ (h + 1) * Radix = h * Radix + Radix
<1>1. Radix \in Nat
  BY CounterAssumption DEF Radix
<1> QED
  BY <1>1

(* A number below Radix * Radix has a high word below Radix. *)
LEMMA HighWordFits ==
    ASSUME NEW h \in Nat, h * Radix < Radix * Radix
    PROVE  h < Radix
<1>1. Radix \in Nat
  BY CounterAssumption DEF Radix
<1>2. SUFFICES ASSUME h >= Radix PROVE FALSE
  BY <1>1
<1>3. PICK d \in Nat : h = Radix + d
  BY <1>1, <1>2
<1>4. h * Radix = Radix * Radix + d * Radix /\ d * Radix \in Nat
  BY <1>1, <1>3
<1> QED
  BY <1>1, <1>4

LEMMA ValueNat ==
    ASSUME TypeOK
    PROVE  Value \in Nat
<1>1. lo \in Nat /\ hi \in Nat /\ hi + 1 \in Nat
  BY CounterAssumption DEF TypeOK, Word
<1>2. hi * Radix \in Nat /\ (hi + 1) * Radix \in Nat
  BY <1>1, Places
<1> QED
  BY <1>1, <1>2 DEF Value

----------------------------------------------------------------------------
(* Type correctness: the words never leave their width, and only the owner *)
(* is ever inside inc().                                                   *)
THEOREM TypeCorrect == Spec => []TypeOK
<1>1. Init => TypeOK
  BY CounterAssumption DEF Init, TypeOK, Word, Unread
<1>2. TypeOK /\ [Next]_vars => TypeOK'
  <2> SUFFICES ASSUME TypeOK, [Next]_vars PROVE TypeOK'
    OBVIOUS
  <2> USE CounterAssumption DEF TypeOK, Goto, reading
  <2>1. CASE IncTest
    BY <2>1 DEF IncTest
  <2>2. CASE IncFast
    BY <2>2, WordIncrement DEF IncFast
  <2>3. CASE IncAcquire
    BY <2>3 DEF IncAcquire, Acquire
  <2>4. CASE IncCarryLow
    BY <2>4, WordIncrement DEF IncCarryLow
  <2>5. CASE IncCarryHigh
    BY <2>5, WordIncrement DEF IncCarryHigh
  <2>6. CASE IncRelease
    BY <2>6 DEF IncRelease, Release
  <2>7. ASSUME NEW t \in Threads, ReadBegin(t) PROVE TypeOK'
    BY <2>7 DEF ReadBegin
  <2>8. ASSUME NEW t \in Threads, ReadAcquire(t) PROVE TypeOK'
    <3>1. Value \in Nat
      BY ValueNat
    <3> QED
      BY <2>8, <3>1 DEF ReadAcquire, Acquire
  <2>9. ASSUME NEW t \in Threads, ReadHigh(t) PROVE TypeOK'
    BY <2>9 DEF ReadHigh
  <2>10. ASSUME NEW t \in Threads, ReadLow(t) PROVE TypeOK'
    BY <2>10 DEF ReadLow
  <2>11. ASSUME NEW t \in Threads, ReadRelease(t) PROVE TypeOK'
    <3>1. seenLo[t] \in Nat /\ seenHi[t] \in Nat
      BY <2>11 DEF ReadRelease, Word, Unread
    <3>2. seenHi[t] * Radix \in Nat
      BY <3>1, Places
    <3>3. seenHi[t] * Radix + seenLo[t] \in Nat
      BY <3>1, <3>2
    <3> QED
      BY <2>11, <3>3 DEF ReadRelease, Release
  <2>12. CASE UNCHANGED vars
    BY <2>12 DEF vars
  <2> QED
    BY <2>1, <2>2, <2>3, <2>4, <2>5, <2>6, <2>7, <2>8, <2>9, <2>10, <2>11, <2>12
    DEF Next, IncStep, ReadStep
<1> QED
  BY <1>1, <1>2, PTL DEF Spec

----------------------------------------------------------------------------
(* The inductive invariant. *)
LEMMA InductiveInit == Init => IInv
<1> SUFFICES ASSUME Init PROVE IInv
  OBVIOUS
<1>1. TypeOK
  BY CounterAssumption DEF Init, TypeOK, Word, Unread
<1>2. Value = 0
  <2>1. 0 * Radix = 0
    BY CounterAssumption DEF Radix
  <2> QED
    BY <2>1, CounterAssumption DEF Init, Value
<1>3. LockInv
  BY CounterAssumption DEF Init, LockInv, InCarry
<1> QED
  BY <1>1, <1>2, <1>3, CounterAssumption
  DEF Init, IInv, OwnerInv, ReadInv, RangeInv

(* The types of the state, as the steps below use them. *)
LEMMA Types ==
    ASSUME TypeOK
    PROVE  /\ lo \in Nat /\ hi \in Nat /\ lo <= WordMax /\ hi <= WordMax
           /\ Radix = WordMax + 1 /\ WordMax \in Nat /\ MaxIncs \in Nat
           /\ hi * Radix \in Nat /\ (hi + 1) * Radix = hi * Radix + Radix
           /\ DOMAIN pc = Threads /\ DOMAIN began = Threads /\ DOMAIN got = Threads
           /\ DOMAIN seenLo = Threads /\ DOMAIN seenHi = Threads
           /\ \A t \in Threads : /\ began[t] \in Nat
                                 /\ got[t] \in Nat
                                 /\ seenLo[t] \in Nat \cup {Unread}
                                 /\ seenHi[t] \in Nat \cup {Unread}
                                 /\ t # Owner => pc[t] \in {"idle", "readLock", "readWords"}
<1>1. lo \in Nat /\ hi \in Nat /\ lo <= WordMax /\ hi <= WordMax
  BY CounterAssumption DEF TypeOK, Word
<1>2. hi * Radix \in Nat /\ (hi + 1) * Radix = hi * Radix + Radix
  BY <1>1, Places
<1> QED
  BY <1>1, <1>2, CounterAssumption DEF TypeOK, Word, Radix

(* A carry finds a high word that can still be incremented. *)
LEMMA CarryFits ==
    ASSUME IInv, pc[Owner] = "carryHigh"
    PROVE  (hi + 1) % Radix = hi + 1
<1>1. TypeOK
  BY DEF IInv
<1>2. hi + 1 \in Nat /\ (hi + 1) * Radix \in Nat /\ lo \in Nat /\ MaxIncs \in Nat
  BY <1>1, Types
<1>3. (hi + 1) * Radix <= MaxIncs
  BY <1>2 DEF IInv, RangeInv, Value
<1>4. MaxIncs < Radix * Radix /\ Radix * Radix \in Nat
  BY CounterAssumption DEF Radix
<1>5. hi + 1 < Radix
  BY <1>2, <1>3, <1>4, HighWordFits
<1> QED
  BY <1>1, <1>5, WordIncrement, Types DEF TypeOK

LEMMA InductiveStep ==
    ASSUME IInv, TypeOK', [Next]_vars
    PROVE  IInv'
<1> SUFFICES LockInv' /\ OwnerInv' /\ ReadInv' /\ RangeInv'
  BY DEF IInv
<1> USE CounterAssumption DEF Goto, Unread
<1>0. TypeOK /\ LockInv /\ OwnerInv /\ ReadInv /\ RangeInv
  BY DEF IInv
<1>1. CASE IncTest
  <2>1. LockInv'
    BY <1>0, <1>1, Types DEF IncTest, LockInv, InCarry
  <2>2. OwnerInv'
    BY <1>0, <1>1, Types DEF IncTest, OwnerInv
  <2>3. ReadInv'
    BY <1>0, <1>1, Types DEF IncTest, ReadInv, reading
  <2>4. RangeInv'
    BY <1>0, <1>1, Types DEF IncTest, RangeInv, Value
  <2> QED
    BY <2>1, <2>2, <2>3, <2>4
<1>2. CASE IncFast
  <2>0. lo' = lo + 1
    BY <1>0, <1>2, WordIncrement, Types DEF IncFast, OwnerInv, TypeOK
  <2>1. LockInv'
    BY <1>0, <1>2, Types DEF IncFast, LockInv, InCarry
  <2>2. OwnerInv'
    BY <1>0, <1>2, Types DEF IncFast, OwnerInv
  <2>3. ReadInv'
    BY <1>0, <1>2, <2>0, Types DEF IncFast, ReadInv, reading
  <2>4. RangeInv'
    BY <1>0, <1>2, <2>0, Types DEF IncFast, RangeInv, Value
  <2> QED
    BY <2>1, <2>2, <2>3, <2>4
<1>3. CASE IncAcquire
  <2>1. LockInv'
    BY <1>0, <1>3, Types DEF IncAcquire, Acquire, LockInv, InCarry
  <2>2. OwnerInv'
    BY <1>0, <1>3, Types DEF IncAcquire, OwnerInv
  <2>3. ReadInv'
    BY <1>0, <1>3, Types DEF IncAcquire, ReadInv, reading
  <2>4. RangeInv'
    BY <1>0, <1>3, Types DEF IncAcquire, RangeInv, Value
  <2> QED
    BY <2>1, <2>2, <2>3, <2>4
<1>4. CASE IncCarryLow
  <2>0. lo = WordMax /\ lo' = 0
    BY <1>0, <1>4, WordIncrement, Types DEF IncCarryLow, OwnerInv, TypeOK
  <2>1. LockInv'
    BY <1>0, <1>4, Types DEF IncCarryLow, LockInv, InCarry
  <2>2. OwnerInv'
    BY <1>0, <1>4, <2>0, Types DEF IncCarryLow, OwnerInv
  <2>3. \A t \in Threads : pc[t] # "readWords"
    BY <1>0, <1>4, Types DEF IncCarryLow, LockInv, InCarry
  <2>4. ReadInv'
    BY <1>0, <1>4, <2>3, Types DEF IncCarryLow, ReadInv, reading
  <2>5. RangeInv'
    BY <1>0, <1>4, <2>0, Types DEF IncCarryLow, RangeInv, Value
  <2> QED
    BY <2>1, <2>2, <2>4, <2>5
<1>5. CASE IncCarryHigh
  <2>0. hi' = hi + 1
    BY <1>5, CarryFits DEF IncCarryHigh
  <2>1. LockInv'
    BY <1>0, <1>5, Types DEF IncCarryHigh, LockInv, InCarry
  <2>2. OwnerInv'
    BY <1>0, <1>5, Types DEF IncCarryHigh, OwnerInv
  <2>3. \A t \in Threads : pc[t] # "readWords"
    BY <1>0, <1>5, Types DEF IncCarryHigh, LockInv, InCarry
  <2>4. ReadInv'
    BY <1>0, <1>5, <2>3, Types DEF IncCarryHigh, ReadInv, reading
  <2>5. RangeInv'
    BY <1>0, <1>5, <2>0, Types DEF IncCarryHigh, RangeInv, Value
  <2> QED
    BY <2>1, <2>2, <2>4, <2>5
<1>6. CASE IncRelease
  <2>1. LockInv'
    BY <1>0, <1>6, Types DEF IncRelease, Release, LockInv, InCarry
  <2>2. OwnerInv'
    BY <1>0, <1>6, Types DEF IncRelease, OwnerInv
  <2>3. ReadInv'
    BY <1>0, <1>6, Types DEF IncRelease, ReadInv, reading
  <2>4. RangeInv'
    BY <1>0, <1>6, Types DEF IncRelease, RangeInv, Value
  <2> QED
    BY <2>1, <2>2, <2>3, <2>4
<1>7. ASSUME NEW t \in Threads, ReadBegin(t) PROVE LockInv' /\ OwnerInv' /\ ReadInv' /\ RangeInv'
  <2>1. LockInv'
    BY <1>0, <1>7, Types DEF ReadBegin, LockInv, InCarry
  <2>2. OwnerInv'
    BY <1>0, <1>7, Types DEF ReadBegin, OwnerInv
  <2>3. ReadInv'
    BY <1>0, <1>7, Types DEF ReadBegin, ReadInv, reading
  <2>4. RangeInv'
    BY <1>0, <1>7, Types DEF ReadBegin, RangeInv, Value
  <2> QED
    BY <2>1, <2>2, <2>3, <2>4
<1>8. ASSUME NEW t \in Threads, ReadAcquire(t) PROVE LockInv' /\ OwnerInv' /\ ReadInv' /\ RangeInv'
  <2>0. Value = hi * Radix + lo
    BY <1>0, <1>8, Types DEF ReadAcquire, Acquire, LockInv, InCarry, Value
  <2>1. LockInv'
    BY <1>0, <1>8, Types DEF ReadAcquire, Acquire, LockInv, InCarry
  <2>2. OwnerInv'
    BY <1>0, <1>8, Types DEF ReadAcquire, OwnerInv
  <2>3. ReadInv'
    BY <1>0, <1>8, <2>0, Types DEF ReadAcquire, ReadInv
  <2>4. RangeInv'
    BY <1>0, <1>8, Types DEF ReadAcquire, RangeInv, Value
  <2> QED
    BY <2>1, <2>2, <2>3, <2>4
<1>9. ASSUME NEW t \in Threads, ReadHigh(t) PROVE LockInv' /\ OwnerInv' /\ ReadInv' /\ RangeInv'
  <2>1. LockInv'
    BY <1>0, <1>9, Types DEF ReadHigh, LockInv, InCarry
  <2>2. OwnerInv'
    BY <1>0, <1>9, Types DEF ReadHigh, OwnerInv
  <2>3. ReadInv'
    BY <1>0, <1>9, Types DEF ReadHigh, ReadInv
  <2>4. RangeInv'
    BY <1>0, <1>9, Types DEF ReadHigh, RangeInv, Value
  <2> QED
    BY <2>1, <2>2, <2>3, <2>4
<1>10. ASSUME NEW t \in Threads, ReadLow(t) PROVE LockInv' /\ OwnerInv' /\ ReadInv' /\ RangeInv'
  <2>1. LockInv'
    BY <1>0, <1>10, Types DEF ReadLow, LockInv, InCarry
  <2>2. OwnerInv'
    BY <1>0, <1>10, Types DEF ReadLow, OwnerInv
  <2>3. ReadInv'
    BY <1>0, <1>10, Types DEF ReadLow, ReadInv
  <2>4. RangeInv'
    BY <1>0, <1>10, Types DEF ReadLow, RangeInv, Value
  <2> QED
    BY <2>1, <2>2, <2>3, <2>4
<1>11. ASSUME NEW t \in Threads, ReadRelease(t) PROVE LockInv' /\ OwnerInv' /\ ReadInv' /\ RangeInv'
  <2>1. LockInv'
    BY <1>0, <1>11, Types DEF ReadRelease, Release, LockInv, InCarry
  <2>2. OwnerInv'
    BY <1>0, <1>11, Types DEF ReadRelease, OwnerInv
  <2>3. ReadInv'
    BY <1>0, <1>11, Types DEF ReadRelease, ReadInv
  <2>4. RangeInv'
    BY <1>0, <1>11, Types DEF ReadRelease, RangeInv, Value
  <2> QED
    BY <2>1, <2>2, <2>3, <2>4
<1>12. CASE UNCHANGED vars
  BY <1>0, <1>12 DEF vars, LockInv, InCarry, OwnerInv, ReadInv, RangeInv, Value
<1> QED
  BY <1>1, <1>2, <1>3, <1>4, <1>5, <1>6, <1>7, <1>8, <1>9, <1>10, <1>11, <1>12
  DEF Next, IncStep, ReadStep

LEMMA Inductive == Spec => []IInv
<1>1. IInv /\ TypeOK' /\ [Next]_vars => IInv'
  BY InductiveStep
<1> QED
  BY <1>1, InductiveInit, TypeCorrect, PTL DEF Spec

(* No read is torn: the two words a read() has loaded make a number the    *)
(* counter has had since that read() got the lock, for every word size and *)
(* number of readers.                                                      *)
THEOREM NeverTorn == Spec => []NoTornRead
<1>1. IInv => NoTornRead
  <2> SUFFICES ASSUME IInv, NEW t \in Threads,
                      seenLo[t] # Unread, seenHi[t] # Unread
               PROVE  seenHi[t] * Radix + seenLo[t] \in began[t] .. Value
    BY DEF NoTornRead
  <2>1. TypeOK
    BY DEF IInv
  <2>2. pc[t] = "readWords" /\ seenHi[t] = hi
    BY DEF IInv, ReadInv
  <2>3. Value = hi * Radix + lo
    BY <2>1, <2>2, Types, CounterAssumption DEF IInv, LockInv, InCarry, Value
  <2>4. /\ began[t] <= hi * Radix + seenLo[t]
        /\ seenLo[t] <= lo
    BY DEF IInv, ReadInv
  <2> QED
    BY <2>1, <2>2, <2>3, <2>4, Types
<1> QED
  BY <1>1, Inductive, PTL

----------------------------------------------------------------------------
(* What each step does to the abstract counter. *)
LEMMA StepRefines ==
    ASSUME IInv, IInv', [Next]_vars
    PROVE  [Counter!Next]_(Counter!vars)
<1> USE CounterAssumption DEF Goto, Unread, Counter!vars
<1> DEFINE Got == [t \in Threads |->
                     IF seenLo[t] # Unread THEN hi * Radix + seenLo[t] ELSE got[t]]
<1>0. TypeOK /\ LockInv /\ OwnerInv /\ ReadInv /\ RangeInv
  BY DEF IInv
<1>a. SUFFICES \/ Value' = Value /\ Got' = Got
               \/ Value' = Value + 1 /\ Got' = Got
               \/ \E t \in Threads : Value' = Value /\ Got' = [Got EXCEPT ![t] = Value]
  BY DEF Counter!Next, Counter!Inc, Counter!Read
<1>1. CASE IncTest
  BY <1>0, <1>1, Types DEF IncTest, Value, reading
<1>2. CASE IncFast
  <2>1. lo' = lo + 1
    BY <1>0, <1>2, WordIncrement, Types DEF IncFast, OwnerInv, TypeOK
  <2>2. Value' = Value + 1
    BY <1>0, <1>2, <2>1, Types DEF IncFast, Value
  <2>3. Got' = Got
    BY <1>2 DEF IncFast, reading
  <2> QED
    BY <2>2, <2>3
<1>3. CASE IncAcquire
  BY <1>0, <1>3, Types DEF IncAcquire, Value, reading
<1>4. CASE IncCarryLow
  <2>1. lo = WordMax /\ lo' = 0
    BY <1>0, <1>4, WordIncrement, Types DEF IncCarryLow, OwnerInv, TypeOK
  <2>2. Value' = Value + 1
    BY <1>0, <1>4, <2>1, Types DEF IncCarryLow, Value
  <2>3. Got' = Got
    BY <1>4 DEF IncCarryLow, reading
  <2> QED
    BY <2>2, <2>3
<1>5. CASE IncCarryHigh
  <2>1. hi' = hi + 1
    BY <1>5, CarryFits DEF IncCarryHigh
  <2>2. Value' = Value
    BY <1>0, <1>5, <2>1, Types DEF IncCarryHigh, Value
  <2>3. \A t \in Threads : seenLo[t] = Unread
    BY <1>0, <1>5, Types DEF IncCarryHigh, LockInv, InCarry, ReadInv
  <2>4. Got' = Got
    BY <1>5, <2>3 DEF IncCarryHigh, reading
  <2> QED
    BY <2>2, <2>4
<1>6. CASE IncRelease
  BY <1>0, <1>6, Types DEF IncRelease, Value, reading
<1>7. ASSUME NEW t \in Threads, ReadBegin(t) PROVE Value' = Value /\ Got' = Got
  BY <1>0, <1>7, Types DEF ReadBegin, Value, reading
<1>8. ASSUME NEW t \in Threads, ReadAcquire(t) PROVE Value' = Value /\ Got' = Got
  BY <1>0, <1>8, Types DEF ReadAcquire, Value
<1>9. ASSUME NEW t \in Threads, ReadHigh(t) PROVE Value' = Value /\ Got' = Got
  BY <1>0, <1>9, Types DEF ReadHigh, Value
<1>10. ASSUME NEW t \in Threads, ReadLow(t)
       PROVE  Value' = Value /\ Got' = [Got EXCEPT ![t] = Value]
  <2>1. Value = hi * Radix + lo
    BY <1>0, <1>10, Types DEF ReadLow, LockInv, InCarry, Value
  <2>2. Value' = Value
    BY <1>0, <1>10, Types DEF ReadLow, Value
  <2>3. Got' = [Got EXCEPT ![t] = Value]
    <3>1. lo \in Nat /\ DOMAIN seenLo = Threads
      BY <1>0, Types
    <3>2. \A u \in Threads : seenLo'[u] = IF u = t THEN lo ELSE seenLo[u]
      BY <1>10, <3>1 DEF ReadLow
    <3>3. hi' = hi /\ got' = got
      BY <1>10 DEF ReadLow
    <3>4. \A u \in Threads : Got'[u] = IF u = t THEN Value ELSE Got[u]
      BY <2>1, <3>1, <3>2, <3>3
    <3> QED
      BY <3>4
  <2> QED
    BY <2>2, <2>3
<1>11. ASSUME NEW t \in Threads, ReadRelease(t) PROVE Value' = Value /\ Got' = Got
  <2>1. Value' = Value
    BY <1>0, <1>11, Types DEF ReadRelease, Value
  <2>2. seenHi[t] = hi
    BY <1>0, <1>11 DEF ReadRelease, ReadInv
  <2>3. Got' = Got
    BY <1>0, <1>11, <2>2, Types DEF ReadRelease
  <2> QED
    BY <2>1, <2>3
<1>12. CASE UNCHANGED vars
  BY <1>12 DEF vars, Value
<1> QED
  BY <1>1, <1>2, <1>3, <1>4, <1>5, <1>6, <1>7, <1>8, <1>9, <1>10, <1>11, <1>12
  DEF Next, IncStep, ReadStep

(* InstructionCounter implements AtomicCounter: every step of inc() and    *)
(* read() is one atomic increment, one atomic read, or invisible.          *)
THEOREM Refinement == Spec => IsAtomicCounter
<1>1. Init => Counter!Init
  <2>1. 0 * Radix = 0
    BY CounterAssumption DEF Radix
  <2> QED
    BY <2>1, CounterAssumption DEF Init, Counter!Init, Value
<1>2. IInv /\ IInv' /\ [Next]_vars => [Counter!Next]_(Counter!vars)
  BY StepRefines
<1> QED
  BY <1>1, <1>2, Inductive, PTL DEF Spec, IsAtomicCounter, Counter!Spec

----------------------------------------------------------------------------
LEMMA GotStep ==
    ASSUME IInv, IInv', GotInv, [Next]_vars
    PROVE  GotInv' /\ \A t \in Threads : got'[t] >= got[t]
<1> USE CounterAssumption DEF Goto, Unread
<1>0. /\ TypeOK /\ LockInv /\ OwnerInv /\ ReadInv /\ RangeInv
      /\ Value \in Nat /\ Value' \in Nat
      /\ \A t \in Threads : got[t] \in Nat /\ began[t] \in Nat
  <2>1. TypeOK /\ TypeOK'
    BY DEF IInv
  <2>2. Value \in Nat
    BY <2>1, ValueNat
  <2>3. Value' \in Nat
    <3>0. lo' \in Word /\ hi' \in Word
      BY <2>1 DEF TypeOK
    <3>1. lo' \in Nat /\ hi' \in Nat /\ hi' + 1 \in Nat
      BY <3>0, WordNat
    <3>2. hi' * Radix \in Nat /\ (hi' + 1) * Radix \in Nat
      BY <3>1, Places
    <3> QED
      BY <3>1, <3>2 DEF Value
  <2> QED
    BY <2>1, <2>2, <2>3, Types DEF IInv
<1>1. Value' >= Value
  <2>1. Value' = Value \/ Value' = Value + 1
    BY StepRefines DEF Counter!Next, Counter!Inc, Counter!Read, Counter!vars
  <2> QED
    BY <1>0, <2>1
<1>2. ASSUME NEW t \in Threads, ReadRelease(t)
      PROVE  GotInv' /\ \A u \in Threads : got'[u] >= got[u]
  <2>1. /\ seenHi[t] = hi
        /\ began[t] <= hi * Radix + seenLo[t]
        /\ seenLo[t] <= lo
        /\ got[t] <= began[t]
    BY <1>0, <1>2 DEF ReadRelease, ReadInv, GotInv
  <2>2. Value = hi * Radix + lo
    BY <1>0, <1>2, Types DEF ReadRelease, LockInv, InCarry, Value
  <2>3. got'[t] \in Nat /\ got'[t] <= Value /\ got'[t] >= got[t]
    BY <1>0, <1>2, <2>1, <2>2, Types DEF ReadRelease
  <2>4. \A u \in Threads \ {t} : /\ got'[u] = got[u]
                                 /\ began'[u] = began[u]
                                 /\ pc'[u] = pc[u]
    BY <1>0, <1>2, Types DEF ReadRelease
  <2>5. pc'[t] = "idle"
    BY <1>0, <1>2, Types DEF ReadRelease
  <2> QED
    BY <1>0, <1>1, <2>3, <2>4, <2>5 DEF GotInv
<1>3. ASSUME NEW t \in Threads, ReadAcquire(t)
      PROVE  GotInv' /\ \A u \in Threads : got'[u] >= got[u]
  BY <1>0, <1>1, <1>3, Types DEF ReadAcquire, GotInv
<1>4. ASSUME got' = got, began' = began,
             \A t \in Threads : pc'[t] = "readWords" => pc[t] = "readWords"
      PROVE  GotInv' /\ \A u \in Threads : got'[u] >= got[u]
  BY <1>0, <1>1, <1>4 DEF GotInv
<1>5. CASE IncTest \/ IncStep \/ UNCHANGED vars
  <2>1. /\ got' = got /\ began' = began
        /\ \A t \in Threads : pc'[t] = "readWords" => pc[t] = "readWords"
    BY <1>0, <1>5, Types
    DEF IncTest, IncStep, IncFast, IncAcquire, IncCarryLow, IncCarryHigh,
        IncRelease, reading, vars
  <2> QED
    BY <1>4, <2>1
<1>6. ASSUME NEW t \in Threads, ReadBegin(t) \/ ReadHigh(t) \/ ReadLow(t)
      PROVE  GotInv' /\ \A u \in Threads : got'[u] >= got[u]
  <2>1. /\ got' = got /\ began' = began
        /\ \A u \in Threads : pc'[u] = "readWords" => pc[u] = "readWords"
    BY <1>0, <1>6, Types DEF ReadBegin, ReadHigh, ReadLow, reading
  <2> QED
    BY <1>4, <2>1
<1> QED
  BY <1>2, <1>3, <1>5, <1>6 DEF Next, ReadStep

(* A thread never reads a smaller number than it read before. *)
THEOREM ReadsMonotone == Spec => ReadsNeverGoBack
<1>1. Init => GotInv
  <2> SUFFICES ASSUME Init PROVE GotInv
    OBVIOUS
  <2>1. 0 * Radix = 0
    BY CounterAssumption DEF Radix
  <2>2. Value = 0
    BY <2>1, CounterAssumption DEF Init, Value
  <2>3. \A t \in Threads : got[t] = 0 /\ pc[t] = "idle"
    BY DEF Init
  <2>4. ASSUME NEW t \in Threads PROVE got[t] <= Value
    BY <2>2, <2>3
  <2> QED
    BY <2>3, <2>4 DEF GotInv
<1>2. IInv /\ IInv' /\ GotInv /\ [Next]_vars => GotInv'
  BY GotStep
<1>3. IInv /\ IInv' /\ GotInv /\ [Next]_vars
        => [\A t \in Threads : got'[t] >= got[t]]_vars
  BY GotStep
<1> QED
  BY <1>1, <1>2, <1>3, Inductive, PTL DEF Spec, ReadsNeverGoBack
=============================================================================
