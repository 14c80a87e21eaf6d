------------------------- MODULE RWMutexCondProofs -------------------------
(***************************************************************************)
(* The monitor of cw09/zad1a, for any finite sets of readers and writers:   *)
(* one inductive invariant gives exact counters, the exclusion of the       *)
(* writers, their precedence and the absence of lost wake-ups, and the      *)
(* refinement of ReadersWriters.                                            *)
(***************************************************************************)
EXTENDS RWMutexCond, FiniteSetTheorems, TLAPS

\* The mutex is held by the thread that is between a lock and the next unlock.
MutexHeld == \A t \in Threads : HoldsMutex(t) <=> mutex = t

IInv == /\ TypeOK
        /\ MutexHeld
        /\ CountersExact
        /\ Exclusion
        /\ NoLostWakeUp

-----------------------------------------------------------------------------
LEMMA FiniteSets ==
    /\ IsFiniteSet(ReadingNow) /\ IsFiniteSet(WritingNow) /\ IsFiniteSet(Announced)
    /\ Cardinality(ReadingNow) = 0 <=> ReadingNow = {}
    /\ Cardinality(WritingNow) = 0 <=> WritingNow = {}
    /\ Cardinality(Announced) = 0 <=> Announced = {}
    /\ Cardinality(ReadingNow) \in Nat
    /\ Cardinality(WritingNow) \in Nat
    /\ Cardinality(Announced) \in Nat
<1>1. ReadingNow \subseteq Readers /\ WritingNow \subseteq Writers /\ Announced \subseteq Writers
  BY DEF ReadingNow, WritingNow, Announced
<1>2. IsFiniteSet(ReadingNow) /\ IsFiniteSet(WritingNow) /\ IsFiniteSet(Announced)
  BY <1>1, ThreadsAssumption, FS_Subset
<1> QED  BY <1>2, FS_CardinalityType, FS_EmptySet

LEMMA Moved ==
    ASSUME TypeOK, NEW t \in Threads, NEW from, NEW to, Goto(t, from, to)
    PROVE  /\ pc[t] = from /\ pc'[t] = to
           /\ \A s \in Threads : s # t => pc'[s] = pc[s]
           /\ t \in Readers => t \notin Writers
           /\ t \in Writers => t \notin Readers
           /\ t # Nobody
  BY ThreadsAssumption, NobodyAssumption DEF TypeOK, Goto, Threads

LEMMA InitIInv == Init => IInv
<1> SUFFICES ASSUME Init PROVE IInv
  OBVIOUS
<1>1. ReadingNow = {} /\ Announced = {} /\ WritingNow = {}
  BY DEF Init, ReadingNow, Announced, WritingNow, Threads
<1>2. TypeOK
  BY DEF Init, TypeOK, Threads, ReaderLabels, WriterLabels
<1>3. MutexHeld
  BY NobodyAssumption DEF Init, MutexHeld, HoldsMutex, Threads
<1>4. CountersExact
  BY <1>1, FS_EmptySet DEF Init, CountersExact
<1>5. Exclusion /\ NoLostWakeUp
  BY <1>1 DEF Init, Threads, Exclusion, NoLostWakeUp
<1> QED  BY <1>2, <1>3, <1>4, <1>5 DEF IInv

-----------------------------------------------------------------------------
(* One lemma per action. *)

LEMMA StepBroadcast ==
    ASSUME IInv, NEW t \in Threads, Broadcast(t)
    PROVE  IInv'
<1> USE DEF IInv
<1>1. /\ pc[t] = "broadcast" /\ pc'[t] = "unlock"
      /\ \A s \in Threads : s # t => pc'[s] = IF pc[s] = "waiting" THEN "awake" ELSE pc[s]
      /\ UNCHANGED <<mutex, readers, writers, writersInQueue>>
      /\ DOMAIN pc' = Threads
  BY DEF Broadcast, counters
<1>2. ReadingNow' = ReadingNow /\ WritingNow' = WritingNow /\ Announced' = Announced
  BY <1>1 DEF ReadingNow, WritingNow, Announced, Threads
<1>3. TypeOK'
  <2>1. \A s \in Threads : pc'[s] \in WriterLabels
    BY <1>1 DEF TypeOK, WriterLabels, ReaderLabels
  <2>2. \A s \in Readers : pc'[s] \in ReaderLabels
    BY <1>1 DEF TypeOK, ReaderLabels, Threads
  <2>3. pc' \in [Threads -> WriterLabels]
    BY <2>1 DEF Broadcast
  <2> QED  BY <1>1, <2>2, <2>3 DEF TypeOK
<1>4. MutexHeld'
  BY <1>1 DEF MutexHeld, HoldsMutex
<1>5. CountersExact' /\ Exclusion'
  BY <1>1, <1>2 DEF CountersExact, Exclusion
<1>6. NoLostWakeUp'
  BY <1>1 DEF NoLostWakeUp, Threads
<1> QED  BY <1>3, <1>4, <1>5, <1>6

LEMMA StepRelock ==
    ASSUME IInv, NEW t \in Threads, Relock(t)
    PROVE  IInv'
<1> USE DEF IInv
<1>1. /\ pc[t] = "awake" /\ pc'[t] = "test"
      /\ \A s \in Threads : s # t => pc'[s] = pc[s]
      /\ t \in Threads /\ t # Nobody
  BY Moved DEF Relock, Threads
<1>2. mutex = Nobody /\ mutex' = t /\ UNCHANGED <<readers, writers, writersInQueue>>
  BY DEF Relock, LockMutex, counters
<1>3. ReadingNow' = ReadingNow /\ WritingNow' = WritingNow /\ Announced' = Announced
  BY <1>1 DEF ReadingNow, WritingNow, Announced, Threads
<1>4. TypeOK'
  <2>1. /\ pc' \in [Threads -> WriterLabels]
        /\ \A s \in Readers : pc'[s] \in ReaderLabels
    BY <1>1 DEF Relock, Goto, TypeOK, Threads, ReaderLabels, WriterLabels
  <2> QED  BY <1>1, <1>2, <2>1, SMT DEF TypeOK, Threads
<1>5. MutexHeld'
  BY <1>1, <1>2, NobodyAssumption DEF MutexHeld, HoldsMutex, Threads
<1>6. CountersExact'
  BY <1>2, <1>3 DEF CountersExact
<1>7. Exclusion'
  BY <1>1, <1>3 DEF Exclusion
<1>8. NoLostWakeUp'
  BY <1>1, <1>3 DEF NoLostWakeUp, Threads
<1> QED  BY <1>4, <1>5, <1>6, <1>7, <1>8

LEMMA StepAdmitted ==
    ASSUME IInv, NEW t \in Threads, Admitted(t)
    PROVE  IInv'
<1> USE DEF IInv
<1>1. /\ pc[t] = "admitted" /\ pc'[t] = "using"
      /\ \A s \in Threads : s # t => pc'[s] = pc[s]
      /\ t \in Threads /\ t # Nobody
  BY Moved DEF Admitted, Threads
<1>2. mutex' = Nobody /\ UNCHANGED <<readers, writers, writersInQueue>>
  BY DEF Admitted, UnlockMutex, counters
<1>3. ReadingNow' = ReadingNow /\ WritingNow' = WritingNow /\ Announced' = Announced
  BY <1>1 DEF ReadingNow, WritingNow, Announced, Threads
<1>4. TypeOK'
  <2>1. /\ pc' \in [Threads -> WriterLabels]
        /\ \A s \in Readers : pc'[s] \in ReaderLabels
    BY <1>1 DEF Admitted, Goto, TypeOK, Threads, ReaderLabels, WriterLabels
  <2> QED  BY <1>1, <1>2, <2>1, SMT DEF TypeOK, Threads
<1>5. MutexHeld'
  BY <1>1, <1>2, NobodyAssumption DEF MutexHeld, HoldsMutex, Threads
<1>6. CountersExact'
  BY <1>2, <1>3 DEF CountersExact
<1>7. Exclusion'
  BY <1>1, <1>3 DEF Exclusion
<1>8. NoLostWakeUp'
  BY <1>1, <1>3 DEF NoLostWakeUp, Threads
<1> QED  BY <1>4, <1>5, <1>6, <1>7, <1>8

LEMMA StepFinishUse ==
    ASSUME IInv, NEW t \in Threads, FinishUse(t)
    PROVE  IInv'
<1> USE DEF IInv
<1>1. /\ pc[t] = "using" /\ pc'[t] = "leave"
      /\ \A s \in Threads : s # t => pc'[s] = pc[s]
      /\ t \in Threads /\ t # Nobody
  BY Moved DEF FinishUse, Threads
<1>2. mutex = Nobody /\ mutex' = t /\ UNCHANGED <<readers, writers, writersInQueue>>
  BY DEF FinishUse, LockMutex, counters
<1>3. ReadingNow' = ReadingNow /\ WritingNow' = WritingNow /\ Announced' = Announced
  BY <1>1 DEF ReadingNow, WritingNow, Announced, Threads
<1>4. TypeOK'
  <2>1. /\ pc' \in [Threads -> WriterLabels]
        /\ \A s \in Readers : pc'[s] \in ReaderLabels
    BY <1>1 DEF FinishUse, Goto, TypeOK, Threads, ReaderLabels, WriterLabels
  <2> QED  BY <1>1, <1>2, <2>1, SMT DEF TypeOK, Threads
<1>5. MutexHeld'
  BY <1>1, <1>2, NobodyAssumption DEF MutexHeld, HoldsMutex, Threads
<1>6. CountersExact'
  BY <1>2, <1>3 DEF CountersExact
<1>7. Exclusion'
  BY <1>1, <1>3 DEF Exclusion
<1>8. NoLostWakeUp'
  BY <1>1, <1>3 DEF NoLostWakeUp, Threads
<1> QED  BY <1>4, <1>5, <1>6, <1>7, <1>8

LEMMA StepUnlock ==
    ASSUME IInv, NEW t \in Threads, Unlock(t)
    PROVE  IInv'
<1> USE DEF IInv
<1>1. /\ pc[t] = "unlock" /\ pc'[t] = "idle"
      /\ \A s \in Threads : s # t => pc'[s] = pc[s]
      /\ t \in Threads /\ t # Nobody
  BY Moved DEF Unlock, Threads
<1>2. mutex' = Nobody /\ UNCHANGED <<readers, writers, writersInQueue>>
  BY DEF Unlock, UnlockMutex, counters
<1>3. ReadingNow' = ReadingNow /\ WritingNow' = WritingNow /\ Announced' = Announced
  BY <1>1 DEF ReadingNow, WritingNow, Announced, Threads
<1>4. TypeOK'
  <2>1. /\ pc' \in [Threads -> WriterLabels]
        /\ \A s \in Readers : pc'[s] \in ReaderLabels
    BY <1>1 DEF Unlock, Goto, TypeOK, Threads, ReaderLabels, WriterLabels
  <2> QED  BY <1>1, <1>2, <2>1, SMT DEF TypeOK, Threads
<1>5. MutexHeld'
  BY <1>1, <1>2, NobodyAssumption DEF MutexHeld, HoldsMutex, Threads
<1>6. CountersExact'
  BY <1>2, <1>3 DEF CountersExact
<1>7. Exclusion'
  BY <1>1, <1>3 DEF Exclusion
<1>8. NoLostWakeUp'
  BY <1>1, <1>3 DEF NoLostWakeUp, Threads
<1> QED  BY <1>4, <1>5, <1>6, <1>7, <1>8

LEMMA StepSpurious ==
    ASSUME IInv, NEW t \in Threads, Spurious(t)
    PROVE  IInv'
<1> USE DEF IInv
<1>1. /\ pc[t] = "waiting" /\ pc'[t] = "awake"
      /\ \A s \in Threads : s # t => pc'[s] = pc[s]
      /\ t \in Threads /\ t # Nobody
  BY Moved DEF Spurious, Threads
<1>2. mutex' = mutex /\ UNCHANGED <<readers, writers, writersInQueue>>
  BY DEF Spurious, counters
<1>3. ReadingNow' = ReadingNow /\ WritingNow' = WritingNow /\ Announced' = Announced
  BY <1>1 DEF ReadingNow, WritingNow, Announced, Threads
<1>4. TypeOK'
  <2>1. /\ pc' \in [Threads -> WriterLabels]
        /\ \A s \in Readers : pc'[s] \in ReaderLabels
    BY <1>1 DEF Spurious, Goto, TypeOK, Threads, ReaderLabels, WriterLabels
  <2> QED  BY <1>1, <1>2, <2>1, SMT DEF TypeOK, Threads
<1>5. MutexHeld'
  BY <1>1, <1>2, NobodyAssumption DEF MutexHeld, HoldsMutex, Threads
<1>6. CountersExact'
  BY <1>2, <1>3 DEF CountersExact
<1>7. Exclusion'
  BY <1>1, <1>3 DEF Exclusion
<1>8. NoLostWakeUp'
  BY <1>1, <1>3 DEF NoLostWakeUp, Threads
<1> QED  BY <1>4, <1>5, <1>6, <1>7, <1>8

LEMMA StepEnterReader ==
    ASSUME IInv, NEW r \in Readers, EnterReader(r)
    PROVE  IInv'
<1> USE DEF IInv
<1>1. /\ pc[r] = "idle" /\ pc'[r] = "test"
      /\ \A s \in Threads : s # r => pc'[s] = pc[s]
      /\ r \in Threads /\ r \notin Writers /\ r # Nobody
  BY Moved DEF EnterReader, Threads
<1>2. mutex = Nobody /\ mutex' = r /\ UNCHANGED <<readers, writers, writersInQueue>>
  BY DEF EnterReader, LockMutex, counters
<1>3. ReadingNow' = ReadingNow /\ WritingNow' = WritingNow /\ Announced' = Announced
  BY <1>1 DEF ReadingNow, WritingNow, Announced, Threads
<1>4. TypeOK'
  <2>1. /\ pc' \in [Threads -> WriterLabels]
        /\ \A s \in Readers : pc'[s] \in ReaderLabels
    BY <1>1 DEF EnterReader, Goto, TypeOK, Threads, ReaderLabels, WriterLabels
  <2> QED  BY <1>1, <1>2, <2>1, SMT DEF TypeOK, Threads
<1>5. MutexHeld'
  BY <1>1, <1>2, NobodyAssumption DEF MutexHeld, HoldsMutex, Threads
<1>6. CountersExact'
  BY <1>2, <1>3 DEF CountersExact
<1>7. Exclusion'
  BY <1>1, <1>3 DEF Exclusion
<1>8. NoLostWakeUp'
  BY <1>1, <1>3 DEF NoLostWakeUp, Threads
<1> QED  BY <1>4, <1>5, <1>6, <1>7, <1>8

LEMMA StepWaitReader ==
    ASSUME IInv, NEW r \in Readers, WaitReader(r)
    PROVE  IInv'
<1> USE DEF IInv
<1>1. /\ pc[r] = "test" /\ pc'[r] = "waiting"
      /\ \A s \in Threads : s # r => pc'[s] = pc[s]
      /\ r \in Threads /\ r \notin Writers /\ r # Nobody
  BY Moved DEF WaitReader, BeginWait, Threads
<1>2. writersInQueue # 0 /\ mutex' = Nobody /\ UNCHANGED <<readers, writers, writersInQueue>>
  BY DEF WaitReader, BeginWait, UnlockMutex, counters
<1>3. ReadingNow' = ReadingNow /\ WritingNow' = WritingNow /\ Announced' = Announced
  BY <1>1 DEF ReadingNow, WritingNow, Announced, Threads
<1>4. Announced # {}
  BY <1>2, FiniteSets DEF CountersExact
<1>5. TypeOK'
  <2>1. /\ pc' \in [Threads -> WriterLabels]
        /\ \A s \in Readers : pc'[s] \in ReaderLabels
    BY <1>1 DEF WaitReader, BeginWait, Goto, TypeOK, Threads, ReaderLabels, WriterLabels
  <2> QED  BY <1>1, <1>2, <2>1, SMT DEF TypeOK, Threads
<1>6. MutexHeld'
  BY <1>1, <1>2, NobodyAssumption DEF MutexHeld, HoldsMutex, Threads
<1>7. CountersExact'
  BY <1>2, <1>3 DEF CountersExact
<1>8. Exclusion'
  BY <1>1, <1>3 DEF Exclusion
<1>9. NoLostWakeUp'
  BY <1>1, <1>3, <1>4 DEF NoLostWakeUp, Threads
<1> QED  BY <1>5, <1>6, <1>7, <1>8, <1>9

LEMMA StepAdmitReader ==
    ASSUME IInv, NEW r \in Readers, AdmitReader(r)
    PROVE  IInv'
<1> USE DEF IInv
<1>1. /\ pc[r] = "test" /\ pc'[r] = "admitted"
      /\ \A s \in Threads : s # r => pc'[s] = pc[s]
      /\ r \in Threads /\ r \notin Writers /\ r # Nobody
  BY Moved DEF AdmitReader, Threads
<1>2. /\ writersInQueue = 0 /\ readers' = readers + 1
      /\ UNCHANGED <<mutex, writers, writersInQueue>>
  BY DEF AdmitReader
<1>3. /\ ReadingNow' = ReadingNow \cup {r} /\ r \notin ReadingNow
      /\ WritingNow' = WritingNow /\ Announced' = Announced
  BY <1>1 DEF ReadingNow, WritingNow, Announced, Threads
<1>4. Announced = {}
  BY <1>2, FiniteSets DEF CountersExact
<1>5. WritingNow = {}
  BY <1>4 DEF Announced, WritingNow
<1>6. TypeOK'
  <2>1. /\ pc' \in [Threads -> WriterLabels]
        /\ \A s \in Readers : pc'[s] \in ReaderLabels
    BY <1>1 DEF AdmitReader, Goto, TypeOK, Threads, ReaderLabels, WriterLabels
  <2> QED  BY <1>1, <1>2, <2>1, SMT DEF TypeOK, Threads
<1>7. MutexHeld'
  BY <1>1, <1>2, NobodyAssumption DEF MutexHeld, HoldsMutex, Threads
<1>8. CountersExact'
  BY <1>2, <1>3, FiniteSets, FS_AddElement DEF CountersExact
<1>9. Exclusion'
  BY <1>1, <1>3, <1>5 DEF Exclusion
<1>10. NoLostWakeUp'
  BY <1>1, <1>3, <1>4 DEF NoLostWakeUp, Threads
<1> QED  BY <1>6, <1>7, <1>8, <1>9, <1>10

LEMMA StepLeaveReader ==
    ASSUME IInv, NEW r \in Readers, LeaveReader(r)
    PROVE  IInv'
<1> USE DEF IInv
<1>1. /\ pc[r] = "leave" /\ pc'[r] = "broadcast"
      /\ \A s \in Threads : s # r => pc'[s] = pc[s]
      /\ r \in Threads /\ r \notin Writers /\ r # Nobody
  BY Moved DEF LeaveReader, Threads
<1>2. readers' = readers - 1 /\ UNCHANGED <<mutex, writers, writersInQueue>>
  BY DEF LeaveReader
<1>3. /\ ReadingNow' = ReadingNow \ {r} /\ r \in ReadingNow
      /\ WritingNow' = WritingNow /\ Announced' = Announced
  BY <1>1 DEF ReadingNow, WritingNow, Announced, Threads
<1>4. readers' \in Nat
  BY <1>2, <1>3, FiniteSets, SMT DEF CountersExact
<1>5. TypeOK'
  <2>1. /\ pc' \in [Threads -> WriterLabels]
        /\ \A s \in Readers : pc'[s] \in ReaderLabels
    BY <1>1 DEF LeaveReader, Goto, TypeOK, Threads, ReaderLabels, WriterLabels
  <2> QED  BY <1>1, <1>2, <2>1, <1>4, SMT DEF TypeOK, Threads
<1>6. MutexHeld'
  BY <1>1, <1>2, NobodyAssumption DEF MutexHeld, HoldsMutex, Threads
<1>7. CountersExact'
  BY <1>2, <1>3, FiniteSets, FS_RemoveElement DEF CountersExact
<1>8. Exclusion'
  BY <1>1, <1>3 DEF Exclusion
<1>9. NoLostWakeUp'
  BY <1>1, <1>3 DEF NoLostWakeUp, Threads
<1> QED  BY <1>5, <1>6, <1>7, <1>8, <1>9

LEMMA StepEnterWriter ==
    ASSUME IInv, NEW w \in Writers, EnterWriter(w)
    PROVE  IInv'
<1> USE DEF IInv
<1>1. /\ pc[w] = "idle" /\ pc'[w] = "announce"
      /\ \A s \in Threads : s # w => pc'[s] = pc[s]
      /\ w \in Threads /\ w \notin Readers /\ w # Nobody
  BY Moved DEF EnterWriter, Threads
<1>2. mutex = Nobody /\ mutex' = w /\ UNCHANGED <<readers, writers, writersInQueue>>
  BY DEF EnterWriter, LockMutex, counters
<1>3. ReadingNow' = ReadingNow /\ WritingNow' = WritingNow /\ Announced' = Announced
  BY <1>1 DEF ReadingNow, WritingNow, Announced, Threads
<1>4. TypeOK'
  <2>1. /\ pc' \in [Threads -> WriterLabels]
        /\ \A s \in Readers : pc'[s] \in ReaderLabels
    BY <1>1 DEF EnterWriter, Goto, TypeOK, Threads, ReaderLabels, WriterLabels
  <2> QED  BY <1>1, <1>2, <2>1, SMT DEF TypeOK, Threads
<1>5. MutexHeld'
  BY <1>1, <1>2, NobodyAssumption DEF MutexHeld, HoldsMutex, Threads
<1>6. CountersExact'
  BY <1>2, <1>3 DEF CountersExact
<1>7. Exclusion'
  BY <1>1, <1>3 DEF Exclusion
<1>8. NoLostWakeUp'
  BY <1>1, <1>3 DEF NoLostWakeUp, Threads
<1> QED  BY <1>4, <1>5, <1>6, <1>7, <1>8

LEMMA StepAnnounce ==
    ASSUME IInv, NEW w \in Writers, Announce(w)
    PROVE  IInv'
<1> USE DEF IInv
<1>1. /\ pc[w] = "announce" /\ pc'[w] = "test"
      /\ \A s \in Threads : s # w => pc'[s] = pc[s]
      /\ w \in Threads /\ w \notin Readers /\ w # Nobody
  BY Moved DEF Announce, Threads
<1>2. writersInQueue' = writersInQueue + 1 /\ UNCHANGED <<mutex, readers, writers>>
  BY DEF Announce
<1>3. /\ Announced' = Announced \cup {w} /\ w \notin Announced
      /\ ReadingNow' = ReadingNow /\ WritingNow' = WritingNow
  BY <1>1 DEF ReadingNow, WritingNow, Announced, Threads
<1>4. TypeOK'
  <2>1. /\ pc' \in [Threads -> WriterLabels]
        /\ \A s \in Readers : pc'[s] \in ReaderLabels
    BY <1>1 DEF Announce, Goto, TypeOK, Threads, ReaderLabels, WriterLabels
  <2> QED  BY <1>1, <1>2, <2>1, SMT DEF TypeOK, Threads
<1>5. MutexHeld'
  BY <1>1, <1>2, NobodyAssumption DEF MutexHeld, HoldsMutex, Threads
<1>6. CountersExact'
  BY <1>2, <1>3, FiniteSets, FS_AddElement DEF CountersExact
<1>7. Exclusion'
  BY <1>1, <1>3 DEF Exclusion
<1>8. NoLostWakeUp'
  BY <1>1, <1>3 DEF NoLostWakeUp, Threads
<1> QED  BY <1>4, <1>5, <1>6, <1>7, <1>8

LEMMA StepWaitWriter ==
    ASSUME IInv, NEW w \in Writers, WaitWriter(w)
    PROVE  IInv'
<1> USE DEF IInv
<1>1. /\ pc[w] = "test" /\ pc'[w] = "waiting"
      /\ \A s \in Threads : s # w => pc'[s] = pc[s]
      /\ w \in Threads /\ w \notin Readers /\ w # Nobody
  BY Moved DEF WaitWriter, BeginWait, Threads
<1>2. (readers # 0 \/ writers # 0) /\ mutex' = Nobody /\ UNCHANGED <<readers, writers, writersInQueue>>
  BY DEF WaitWriter, BeginWait, UnlockMutex, counters
<1>3. ReadingNow' = ReadingNow /\ WritingNow' = WritingNow /\ Announced' = Announced
  BY <1>1 DEF ReadingNow, WritingNow, Announced, Threads
<1>4. ReadingNow # {} \/ WritingNow # {}
  BY <1>2, FiniteSets DEF CountersExact
<1>5. TypeOK'
  <2>1. /\ pc' \in [Threads -> WriterLabels]
        /\ \A s \in Readers : pc'[s] \in ReaderLabels
    BY <1>1 DEF WaitWriter, BeginWait, Goto, TypeOK, Threads, ReaderLabels, WriterLabels
  <2> QED  BY <1>1, <1>2, <2>1, SMT DEF TypeOK, Threads
<1>6. MutexHeld'
  BY <1>1, <1>2, NobodyAssumption DEF MutexHeld, HoldsMutex, Threads
<1>7. CountersExact'
  BY <1>2, <1>3 DEF CountersExact
<1>8. Exclusion'
  BY <1>1, <1>3 DEF Exclusion
<1>9. NoLostWakeUp'
  BY <1>1, <1>3, <1>4 DEF NoLostWakeUp, Threads
<1> QED  BY <1>5, <1>6, <1>7, <1>8, <1>9

LEMMA StepAdmitWriter ==
    ASSUME IInv, NEW w \in Writers, AdmitWriter(w)
    PROVE  IInv'
<1> USE DEF IInv
<1>1. /\ pc[w] = "test" /\ pc'[w] = "admitted"
      /\ \A s \in Threads : s # w => pc'[s] = pc[s]
      /\ w \in Threads /\ w \notin Readers /\ w # Nobody
  BY Moved DEF AdmitWriter, Threads
<1>2. /\ readers = 0 /\ writers = 0 /\ writers' = writers + 1
      /\ UNCHANGED <<mutex, readers, writersInQueue>>
  BY DEF AdmitWriter
<1>3. /\ WritingNow' = WritingNow \cup {w} /\ w \notin WritingNow
      /\ ReadingNow' = ReadingNow /\ Announced' = Announced
  BY <1>1 DEF ReadingNow, WritingNow, Announced, Threads
<1>4. ReadingNow = {} /\ WritingNow = {}
  BY <1>2, FiniteSets DEF CountersExact
<1>5. TypeOK'
  <2>1. /\ pc' \in [Threads -> WriterLabels]
        /\ \A s \in Readers : pc'[s] \in ReaderLabels
    BY <1>1 DEF AdmitWriter, Goto, TypeOK, Threads, ReaderLabels, WriterLabels
  <2> QED  BY <1>1, <1>2, <2>1, SMT DEF TypeOK, Threads
<1>6. MutexHeld'
  BY <1>1, <1>2, NobodyAssumption DEF MutexHeld, HoldsMutex, Threads
<1>7. CountersExact'
  <2>1. Cardinality(WritingNow') = 1 /\ writers' = 1
    BY <1>2, <1>3, <1>4, FS_Singleton, SMT
  <2> QED  BY <1>2, <1>3, <2>1 DEF CountersExact
<1>8. Exclusion'
  BY <1>1, <1>3, <1>4 DEF Exclusion
<1>9. NoLostWakeUp'
  BY <1>1, <1>3 DEF NoLostWakeUp, Threads
<1> QED  BY <1>5, <1>6, <1>7, <1>8, <1>9

LEMMA StepLeaveWriter ==
    ASSUME IInv, NEW w \in Writers, LeaveWriter(w)
    PROVE  IInv'
<1> USE DEF IInv
<1>1. /\ pc[w] = "leave" /\ pc'[w] = "withdraw"
      /\ \A s \in Threads : s # w => pc'[s] = pc[s]
      /\ w \in Threads /\ w \notin Readers /\ w # Nobody
  BY Moved DEF LeaveWriter, Threads
<1>2. writers' = writers - 1 /\ UNCHANGED <<mutex, readers, writersInQueue>>
  BY DEF LeaveWriter
<1>3. /\ WritingNow' = WritingNow \ {w} /\ w \in WritingNow
      /\ ReadingNow' = ReadingNow /\ Announced' = Announced
  BY <1>1 DEF ReadingNow, WritingNow, Announced, Threads
<1>4. writers' \in Nat
  BY <1>2, <1>3, FiniteSets, SMT DEF CountersExact
<1>5. TypeOK'
  <2>1. /\ pc' \in [Threads -> WriterLabels]
        /\ \A s \in Readers : pc'[s] \in ReaderLabels
    BY <1>1 DEF LeaveWriter, Goto, TypeOK, Threads, ReaderLabels, WriterLabels
  <2> QED  BY <1>1, <1>2, <2>1, <1>4, SMT DEF TypeOK, Threads
<1>6. MutexHeld'
  BY <1>1, <1>2, NobodyAssumption DEF MutexHeld, HoldsMutex, Threads
<1>7. CountersExact'
  BY <1>2, <1>3, FiniteSets, FS_RemoveElement DEF CountersExact
<1>8. Exclusion'
  BY <1>1, <1>3 DEF Exclusion
<1>9. NoLostWakeUp'
  BY <1>1, <1>3 DEF NoLostWakeUp, Threads
<1> QED  BY <1>5, <1>6, <1>7, <1>8, <1>9

LEMMA StepWithdraw ==
    ASSUME IInv, NEW w \in Writers, Withdraw(w)
    PROVE  IInv'
<1> USE DEF IInv
<1>1. /\ pc[w] = "withdraw" /\ pc'[w] = "broadcast"
      /\ \A s \in Threads : s # w => pc'[s] = pc[s]
      /\ w \in Threads /\ w \notin Readers /\ w # Nobody
  BY Moved DEF Withdraw, Threads
<1>2. writersInQueue' = writersInQueue - 1 /\ UNCHANGED <<mutex, readers, writers>>
  BY DEF Withdraw
<1>3. /\ Announced' = Announced \ {w} /\ w \in Announced
      /\ ReadingNow' = ReadingNow /\ WritingNow' = WritingNow
  BY <1>1 DEF ReadingNow, WritingNow, Announced, Threads
<1>4. writersInQueue' \in Nat
  BY <1>2, <1>3, FiniteSets, SMT DEF CountersExact
<1>5. TypeOK'
  <2>1. /\ pc' \in [Threads -> WriterLabels]
        /\ \A s \in Readers : pc'[s] \in ReaderLabels
    BY <1>1 DEF Withdraw, Goto, TypeOK, Threads, ReaderLabels, WriterLabels
  <2> QED  BY <1>1, <1>2, <2>1, <1>4, SMT DEF TypeOK, Threads
<1>6. MutexHeld'
  BY <1>1, <1>2, NobodyAssumption DEF MutexHeld, HoldsMutex, Threads
<1>7. CountersExact'
  BY <1>2, <1>3, FiniteSets, FS_RemoveElement DEF CountersExact
<1>8. Exclusion'
  BY <1>1, <1>3 DEF Exclusion
<1>9. NoLostWakeUp'
  BY <1>1, <1>3 DEF NoLostWakeUp, Threads
<1> QED  BY <1>5, <1>6, <1>7, <1>8, <1>9

-----------------------------------------------------------------------------
LEMMA CommonIInv ==
    ASSUME IInv, NEW t \in Threads, Common(t)
    PROVE  IInv'
  BY StepBroadcast, StepRelock, StepAdmitted, StepFinishUse, StepUnlock DEF Common

LEMMA NextIInv == IInv /\ [Next]_vars => IInv'
<1> SUFFICES ASSUME IInv, [Next]_vars
             PROVE  IInv'
  OBVIOUS
<1>1. ASSUME NEW r \in Readers, Reader(r)
      PROVE  IInv'
  BY <1>1, CommonIInv, StepEnterReader, StepWaitReader, StepAdmitReader,
     StepLeaveReader DEF Reader, Threads
<1>2. ASSUME NEW w \in Writers, Writer(w)
      PROVE  IInv'
  BY <1>2, CommonIInv, StepEnterWriter, StepAnnounce, StepWaitWriter,
     StepAdmitWriter, StepLeaveWriter, StepWithdraw DEF Writer, Threads
<1>3. ASSUME NEW t \in Threads, Spurious(t)
      PROVE  IInv'
  BY <1>3, StepSpurious
<1>4. CASE UNCHANGED vars
  BY <1>4 DEF vars, IInv, TypeOK, MutexHeld, HoldsMutex, CountersExact, Exclusion,
     NoLostWakeUp, ReadingNow, WritingNow, Announced
<1> QED  BY <1>1, <1>2, <1>3, <1>4 DEF Next

THEOREM Invariance == Spec => []IInv
  BY InitIInv, NextIInv, PTL DEF Spec

\* Counters never fall below zero and every thread is at one of its labels; the
\* counters of the monitor count the threads they are named for
\* (main.c:76, 91, 105, 109, 122-123).
THEOREM MonitorCounts == Spec => []CountersOK
<1>1. IInv => CountersOK
  BY DEF IInv, CountersOK
<1> QED  BY <1>1, Invariance, PTL

\* However many readers and writers there are, a writer never shares the table
\* (main.c:73-76, 106-109).
THEOREM MonitorExcludes == Spec => []Exclusion
  BY Invariance, PTL DEF IInv

\* No thread stays in pthread_cond_wait after its condition has come true
\* without a broadcast on the way (main.c:74, 92, 107, 124).
THEOREM MonitorLosesNoWakeUp == Spec => []NoLostWakeUp
  BY Invariance, PTL DEF IInv

\* A reader that begins to read found no writer announced (main.c:73-76, 105).
THEOREM MonitorFavoursWriters == Spec => WritersFirst
<1>1. ASSUME IInv, [Next]_vars, NEW r \in Readers, r \in ReadingNow' \ ReadingNow
      PROVE  Announced = {}
  <2>1. r \notin Writers /\ r \in Threads
    BY ThreadsAssumption DEF Threads
  <2>2. pc'[r] \in {"admitted", "using", "leave"} /\ pc[r] \notin {"admitted", "using", "leave"}
    BY <1>1 DEF ReadingNow
  <2>3. ASSUME NEW t \in Threads, Common(t) \/ Spurious(t)
        PROVE  FALSE
    <3>1. CASE Broadcast(t)
      BY <2>1, <2>2, <3>1 DEF Broadcast
    <3>2. CASE Relock(t) \/ Admitted(t) \/ FinishUse(t) \/ Unlock(t) \/ Spurious(t)
      BY <1>1, <2>1, <2>2, <3>2, Moved
      DEF IInv, Relock, Admitted, FinishUse, Unlock, Spurious
    <3> QED  BY <2>3, <3>1, <3>2 DEF Common
  <2>4. ASSUME NEW s \in Readers, Reader(s)
        PROVE  AdmitReader(s)
    <3>1. CASE EnterReader(s) \/ WaitReader(s) \/ LeaveReader(s)
      BY <1>1, <2>1, <2>2, <3>1, Moved
      DEF IInv, EnterReader, WaitReader, BeginWait, LeaveReader, Threads
    <3> QED  BY <2>3, <2>4, <3>1 DEF Reader, Threads
  <2>5. ASSUME NEW w \in Writers, Writer(w)
        PROVE  FALSE
    <3>1. CASE \/ EnterWriter(w) \/ Announce(w) \/ WaitWriter(w) \/ AdmitWriter(w)
               \/ LeaveWriter(w) \/ Withdraw(w)
      BY <1>1, <2>1, <2>2, <3>1, Moved
      DEF IInv, EnterWriter, Announce, WaitWriter, BeginWait, AdmitWriter, LeaveWriter,
          Withdraw, Threads
    <3> QED  BY <2>3, <2>5, <3>1 DEF Writer, Threads
  <2>6. PICK s \in Readers : AdmitReader(s)
    <3>1. ~UNCHANGED vars
      BY <2>2 DEF vars
    <3>2. Next
      BY <1>1, <3>1
    <3> QED  BY <2>3, <2>4, <2>5, <3>2 DEF Next
  <2>7. writersInQueue = 0
    BY <2>6 DEF AdmitReader
  <2> QED  BY <1>1, <2>7, FiniteSets DEF IInv, CountersExact
<1>2. IInv /\ [Next]_vars =>
        [\A r \in Readers : r \in ReadingNow' \ ReadingNow => Announced = {}]_vars
  BY <1>1
<1> QED  BY <1>2, Invariance, PTL DEF Spec, WritersFirst

-----------------------------------------------------------------------------
\* The monitor of cw09/zad1a implements the readers-writers object.
THEOREM MonitorImplementsTable == Spec => TableSpec
<1> DEFINE R == {r \in Readers : pc[r] \in {"admitted", "using"}}
           W == {w \in Writers : pc[w] \in {"admitted", "using"}}
           Stutter == R' = R /\ W' = W
<1>1. Init => Table!Init
  BY DEF Init, Table!Init, Threads
<1>2. IInv /\ [Next]_vars => [Table!Next]_(Table!vars)
  <2> SUFFICES ASSUME IInv, [Next]_vars
               PROVE  [Table!Next]_(Table!vars)
    OBVIOUS
  <2> USE DEF Threads
  <2>1. ASSUME NEW t \in Threads,
               Broadcast(t) \/ Relock(t) \/ Admitted(t) \/ Unlock(t) \/ Spurious(t)
        PROVE  Stutter
    <3>1. CASE Broadcast(t)
      BY <3>1 DEF Broadcast
    <3>2. CASE Relock(t) \/ Admitted(t) \/ Unlock(t) \/ Spurious(t)
      BY <3>2, Moved DEF IInv, Relock, Admitted, Unlock, Spurious
    <3> QED  BY <2>1, <3>1, <3>2
  <2>2. ASSUME NEW r \in Readers, Reader(r)
        PROVE  Stutter \/ Table!StartRead(r) \/ Table!EndRead(r)
    <3>1. CASE EnterReader(r) \/ WaitReader(r) \/ LeaveReader(r)
      <4>1. Stutter
        BY <3>1, Moved DEF IInv, EnterReader, WaitReader, BeginWait, LeaveReader
      <4> QED  BY <4>1
    <3>2. CASE AdmitReader(r)
      <4>1. R' = R \cup {r} /\ r \notin R /\ W' = W
        BY <3>2, Moved DEF IInv, AdmitReader
      <4>2. Announced = {}
        BY <3>2, FiniteSets DEF IInv, CountersExact, AdmitReader
      <4>3. W = {}
        BY <4>2 DEF Announced
      <4> QED  BY <4>1, <4>3 DEF Table!StartRead
    <3>3. CASE FinishUse(r)
      <4>1. R' = R \ {r} /\ r \in R /\ W' = W
        BY <3>3, Moved DEF IInv, FinishUse
      <4> QED  BY <4>1 DEF Table!EndRead
    <3> QED  BY <2>1, <2>2, <3>1, <3>2, <3>3 DEF Reader, Common
  <2>3. ASSUME NEW w \in Writers, Writer(w)
        PROVE  Stutter \/ Table!StartWrite(w) \/ Table!EndWrite(w)
    <3>1. CASE EnterWriter(w) \/ Announce(w) \/ WaitWriter(w) \/ LeaveWriter(w) \/ Withdraw(w)
      <4>1. Stutter
        BY <3>1, Moved DEF IInv, EnterWriter, Announce, WaitWriter, BeginWait,
           LeaveWriter, Withdraw
      <4> QED  BY <4>1
    <3>2. CASE AdmitWriter(w)
      <4>1. R' = R /\ W' = W \cup {w}
        BY <3>2, Moved DEF IInv, AdmitWriter
      <4>2. ReadingNow = {} /\ WritingNow = {}
        BY <3>2, FiniteSets DEF IInv, CountersExact, AdmitWriter
      <4>3. R = {} /\ W = {}
        BY <4>2 DEF ReadingNow, WritingNow
      <4> QED  BY <4>1, <4>3 DEF Table!StartWrite
    <3>3. CASE FinishUse(w)
      <4>1. W' = W \ {w} /\ w \in W /\ R' = R
        BY <3>3, Moved DEF IInv, FinishUse
      <4> QED  BY <4>1 DEF Table!EndWrite
    <3> QED  BY <2>1, <2>3, <3>1, <3>2, <3>3 DEF Writer, Common
  <2>4. CASE UNCHANGED vars
    BY <2>4 DEF vars, Table!vars
  <2> QED  BY <2>1, <2>2, <2>3, <2>4 DEF Next, Table!Next, Table!vars
<1> QED  BY <1>1, <1>2, Invariance, PTL DEF Spec, TableSpec, Table!Spec
=============================================================================
