------------------------- MODULE RWSemaphoresProofs -------------------------
(***************************************************************************)
(* The semaphores of cw09/zad1b, for any finite sets of readers and         *)
(* writers: one inductive invariant gives the exclusion of the writers, the *)
(* baton and the waiting writer, and the refinement of ReadersWriters.      *)
(***************************************************************************)
EXTENDS RWSemaphores, FiniteSetTheorems, TLAPS

\* What the counters stand for.
ReadersExact == readersIn = Cardinality(SemReadingNow)
WritersExact == writersIn = IF SemAnnounced = {} THEN 0 ELSE 1

\* semWriter lets one writer past line 108.
OneWriterIn == /\ \A v, w \in Writers : semPc[v] # "idle" /\ semPc[w] # "idle" => v = w
               /\ semWriter = 1 => \A w \in Writers : semPc[w] = "idle"

\* A writer gives semCheck up only because somebody reads.
YieldsToReaders == \A w \in Writers : semPc[w] = "yield" => SemReadingNow # {}

IInv == /\ SemTypeOK
        /\ ReadersExact
        /\ WritersExact
        /\ OneWriterIn
        /\ OneBaton
        /\ SemExclusion
        /\ YieldsToReaders
        /\ WriterNotForgotten

-----------------------------------------------------------------------------
LEMMA ReadingFinite ==
    /\ IsFiniteSet(SemReadingNow)
    /\ Cardinality(SemReadingNow) \in Nat
    /\ Cardinality(SemReadingNow) = 0 <=> SemReadingNow = {}
<1>1. SemReadingNow \subseteq Readers
  BY DEF SemReadingNow
<1>2. IsFiniteSet(SemReadingNow)
  BY <1>1, ThreadsAssumption, FS_Subset
<1> QED  BY <1>2, FS_CardinalityType, FS_EmptySet

\* One thread moves; the sets of threads follow.
LEMMA Moved ==
    ASSUME SemTypeOK, NEW t \in Threads, NEW from, NEW to, SemGoto(t, from, to)
    PROVE  /\ semPc[t] = from /\ semPc'[t] = to
           /\ \A s \in Threads : s # t => semPc'[s] = semPc[s]
           /\ t \in Readers => t \notin Writers
           /\ t \in Writers => t \notin Readers
  BY ThreadsAssumption DEF SemTypeOK, SemGoto, Threads

LEMMA InitIInv == SemInit => IInv
<1> SUFFICES ASSUME SemInit PROVE IInv
  OBVIOUS
<1>1. SemReadingNow = {} /\ SemAnnounced = {} /\ SemWritingNow = {} /\ Owners = {}
  BY DEF SemInit, SemReadingNow, SemAnnounced, SemWritingNow, Owners, Threads
<1>2. SemTypeOK
  BY DEF SemInit, SemTypeOK, Threads, SemReaderLabels, SemWriterLabels
<1>3. ReadersExact /\ WritersExact
  BY <1>1, FS_EmptySet DEF SemInit, ReadersExact, WritersExact
<1>4. OneWriterIn /\ OneBaton /\ SemExclusion /\ YieldsToReaders /\ WriterNotForgotten
  BY <1>1 DEF SemInit, Threads, OneWriterIn, OneBaton, SemExclusion, YieldsToReaders,
              WriterNotForgotten
<1> QED  BY <1>2, <1>3, <1>4 DEF IInv

-----------------------------------------------------------------------------
(* One lemma per action. *)

LEMMA StepEnterReader ==
    ASSUME IInv, NEW r \in Readers, SemEnterReader(r)
    PROVE  IInv'
<1> USE DEF IInv
<1>1. /\ semPc[r] = "idle" /\ semPc'[r] = "arrive"
      /\ \A s \in Threads : s # r => semPc'[s] = semPc[s]
      /\ r \in Threads /\ r \notin Writers
  BY Moved DEF SemEnterReader, Threads
<1>2. semCheck = 1 /\ semCheck' = 0 /\ UNCHANGED <<semWait, semWriter, readersIn, writersIn>>
  BY SMT DEF SemEnterReader, CheckP, semCounters, SemTypeOK
<1>3. /\ SemReadingNow' = SemReadingNow
      /\ SemWritingNow' = SemWritingNow
      /\ SemAnnounced' = SemAnnounced
  BY <1>1 DEF SemReadingNow, SemWritingNow, SemAnnounced, Threads
<1>4. ReadersExact' /\ WritersExact'
  BY <1>2, <1>3 DEF ReadersExact, WritersExact
<1>5. SemTypeOK'
  <2>1. /\ semPc' \in [Threads -> SemReaderLabels \cup SemWriterLabels]
        /\ \A t \in Readers : semPc'[t] \in SemReaderLabels
        /\ \A t \in Writers : semPc'[t] \in SemWriterLabels
    BY <1>1 DEF SemEnterReader, SemGoto, SemTypeOK, Threads, SemReaderLabels, SemWriterLabels
  <2>2. /\ semWait' \in 0 .. 1 /\ semWriter' \in 0 .. 1 /\ semCheck' \in 0 .. 1
        /\ readersIn' \in Nat /\ writersIn' \in Nat
    BY <1>2, SMT DEF SemTypeOK
  <2> QED  BY <2>1, <2>2 DEF SemTypeOK
<1>6. OneWriterIn'
  BY <1>1, <1>2 DEF OneWriterIn, Threads
<1>7. OneBaton'
  BY <1>1, <1>2, SMT DEF OneBaton, Owners, Threads, SemTypeOK
<1>8. SemExclusion' /\ YieldsToReaders'
  BY <1>1, <1>3 DEF SemExclusion, YieldsToReaders, Threads
<1>9. WriterNotForgotten'
  BY <1>1, <1>2, <1>3 DEF WriterNotForgotten, Threads
<1> QED  BY <1>5, <1>4, <1>6, <1>7, <1>8, <1>9

LEMMA StepArrive ==
    ASSUME IInv, NEW r \in Readers, Arrive(r)
    PROVE  IInv'
<1> USE DEF IInv
<1>1. /\ semPc[r] = "arrive" /\ semPc'[r] = "admit"
      /\ \A s \in Threads : s # r => semPc'[s] = semPc[s]
      /\ r \in Threads /\ r \notin Writers
  BY Moved DEF Arrive, Threads
<1>2. readersIn' = readersIn + 1 /\ UNCHANGED <<semWait, semWriter, semCheck, writersIn>>
  BY DEF Arrive, semaphores
<1>3. /\ SemReadingNow' = SemReadingNow \cup {r} /\ r \notin SemReadingNow
      /\ SemWritingNow' = SemWritingNow /\ SemAnnounced' = SemAnnounced
  BY <1>1 DEF SemReadingNow, SemWritingNow, SemAnnounced, Threads
<1>4. SemWritingNow = {} /\ (\A w \in Writers : semPc[w] # "yield") /\ semWait = 0
  BY <1>1, SMT DEF OneBaton, Owners, SemWritingNow, Threads, SemTypeOK
<1>5. ReadersExact' /\ WritersExact'
  BY <1>2, <1>3, ReadingFinite, FS_AddElement DEF ReadersExact, WritersExact
<1>6. SemTypeOK'
  <2>1. /\ semPc' \in [Threads -> SemReaderLabels \cup SemWriterLabels]
        /\ \A t \in Readers : semPc'[t] \in SemReaderLabels
        /\ \A t \in Writers : semPc'[t] \in SemWriterLabels
    BY <1>1 DEF Arrive, SemGoto, SemTypeOK, Threads, SemReaderLabels, SemWriterLabels
  <2>2. /\ semWait' \in 0 .. 1 /\ semWriter' \in 0 .. 1 /\ semCheck' \in 0 .. 1
        /\ readersIn' \in Nat /\ writersIn' \in Nat
    BY <1>2, <1>4, SMT DEF SemTypeOK
  <2> QED  BY <2>1, <2>2 DEF SemTypeOK
<1>7. OneWriterIn'
  BY <1>1, <1>2 DEF OneWriterIn, Threads
<1>8. OneBaton'
  BY <1>1, <1>2, SMT DEF OneBaton, Owners, Threads, SemTypeOK
<1>9. SemExclusion' /\ YieldsToReaders'
  BY <1>1, <1>3, <1>4 DEF SemExclusion, YieldsToReaders, Threads
<1>10. WriterNotForgotten'
  BY <1>1, <1>2, <1>3, <1>4 DEF WriterNotForgotten, Threads
<1> QED  BY <1>6, <1>5, <1>7, <1>8, <1>9, <1>10

LEMMA StepAdmit ==
    ASSUME IInv, NEW r \in Readers, Admit(r)
    PROVE  IInv'
<1> USE DEF IInv
<1>1. /\ semPc[r] = "admit" /\ semPc'[r] = "reading"
      /\ \A s \in Threads : s # r => semPc'[s] = semPc[s]
      /\ r \in Threads /\ r \notin Writers
  BY Moved DEF Admit, Threads
<1>2. semCheck' = semCheck + 1 /\ UNCHANGED <<semWait, semWriter, readersIn, writersIn>>
  BY DEF Admit, CheckV, semCounters
<1>3. /\ SemReadingNow' = SemReadingNow
      /\ SemWritingNow' = SemWritingNow
      /\ SemAnnounced' = SemAnnounced
  BY <1>1 DEF SemReadingNow, SemWritingNow, SemAnnounced, Threads
<1>4. semCheck = 0 /\ semWait = 0
  BY <1>1, SMT DEF OneBaton, Owners, Threads, SemTypeOK
<1>5. ReadersExact' /\ WritersExact'
  BY <1>2, <1>3 DEF ReadersExact, WritersExact
<1>6. SemTypeOK'
  <2>1. /\ semPc' \in [Threads -> SemReaderLabels \cup SemWriterLabels]
        /\ \A t \in Readers : semPc'[t] \in SemReaderLabels
        /\ \A t \in Writers : semPc'[t] \in SemWriterLabels
    BY <1>1 DEF Admit, SemGoto, SemTypeOK, Threads, SemReaderLabels, SemWriterLabels
  <2>2. /\ semWait' \in 0 .. 1 /\ semWriter' \in 0 .. 1 /\ semCheck' \in 0 .. 1
        /\ readersIn' \in Nat /\ writersIn' \in Nat
    BY <1>2, <1>4, SMT DEF SemTypeOK
  <2> QED  BY <2>1, <2>2 DEF SemTypeOK
<1>7. OneWriterIn'
  BY <1>1, <1>2 DEF OneWriterIn, Threads
<1>8. OneBaton'
  BY <1>1, <1>2, SMT DEF OneBaton, Owners, Threads, SemTypeOK
<1>9. SemExclusion' /\ YieldsToReaders'
  BY <1>1, <1>3, <1>4 DEF SemExclusion, YieldsToReaders, Threads
<1>10. WriterNotForgotten'
  BY <1>1, <1>2, <1>3, <1>4 DEF WriterNotForgotten, Threads
<1> QED  BY <1>6, <1>5, <1>7, <1>8, <1>9, <1>10

LEMMA StepEndReading ==
    ASSUME IInv, NEW r \in Readers, EndReading(r)
    PROVE  IInv'
<1> USE DEF IInv
<1>1. /\ semPc[r] = "reading" /\ semPc'[r] = "leave"
      /\ \A s \in Threads : s # r => semPc'[s] = semPc[s]
      /\ r \in Threads /\ r \notin Writers
  BY Moved DEF EndReading, Threads
<1>2. semCheck = 1 /\ semCheck' = 0 /\ UNCHANGED <<semWait, semWriter, readersIn, writersIn>>
  BY SMT DEF EndReading, CheckP, semCounters, SemTypeOK
<1>3. /\ SemReadingNow' = SemReadingNow
      /\ SemWritingNow' = SemWritingNow
      /\ SemAnnounced' = SemAnnounced
  BY <1>1 DEF SemReadingNow, SemWritingNow, SemAnnounced, Threads
<1>4. ReadersExact' /\ WritersExact'
  BY <1>2, <1>3 DEF ReadersExact, WritersExact
<1>5. SemTypeOK'
  <2>1. /\ semPc' \in [Threads -> SemReaderLabels \cup SemWriterLabels]
        /\ \A t \in Readers : semPc'[t] \in SemReaderLabels
        /\ \A t \in Writers : semPc'[t] \in SemWriterLabels
    BY <1>1 DEF EndReading, SemGoto, SemTypeOK, Threads, SemReaderLabels, SemWriterLabels
  <2>2. /\ semWait' \in 0 .. 1 /\ semWriter' \in 0 .. 1 /\ semCheck' \in 0 .. 1
        /\ readersIn' \in Nat /\ writersIn' \in Nat
    BY <1>2, SMT DEF SemTypeOK
  <2> QED  BY <2>1, <2>2 DEF SemTypeOK
<1>6. OneWriterIn'
  BY <1>1, <1>2 DEF OneWriterIn, Threads
<1>7. OneBaton'
  BY <1>1, <1>2, SMT DEF OneBaton, Owners, Threads, SemTypeOK
<1>8. SemExclusion' /\ YieldsToReaders'
  BY <1>1, <1>3 DEF SemExclusion, YieldsToReaders, Threads
<1>9. WriterNotForgotten'
  BY <1>1, <1>2, <1>3 DEF WriterNotForgotten, Threads
<1> QED  BY <1>5, <1>4, <1>6, <1>7, <1>8, <1>9

LEMMA StepLeave ==
    ASSUME IInv, NEW r \in Readers, SemLeave(r)
    PROVE  IInv'
<1> USE DEF IInv
<1>1. /\ semPc[r] = "leave" /\ semPc'[r] = "pass"
      /\ \A s \in Threads : s # r => semPc'[s] = semPc[s]
      /\ r \in Threads /\ r \notin Writers
  BY Moved DEF SemLeave, Threads
<1>2. readersIn' = readersIn - 1 /\ UNCHANGED <<semWait, semWriter, semCheck, writersIn>>
  BY DEF SemLeave, semaphores
<1>3. /\ SemReadingNow' = SemReadingNow \ {r} /\ r \in SemReadingNow
      /\ SemWritingNow' = SemWritingNow /\ SemAnnounced' = SemAnnounced
  BY <1>1 DEF SemReadingNow, SemWritingNow, SemAnnounced, Threads
<1>4. SemWritingNow = {} /\ (\A w \in Writers : semPc[w] # "yield") /\ semWait = 0
  BY <1>1, SMT DEF OneBaton, Owners, SemWritingNow, Threads, SemTypeOK
<1>5. readersIn \in Nat \ {0} /\ readersIn' \in Nat
  BY <1>2, <1>3, ReadingFinite, SMT DEF ReadersExact, SemTypeOK
<1>6. ReadersExact' /\ WritersExact'
  BY <1>2, <1>3, ReadingFinite, FS_RemoveElement DEF ReadersExact, WritersExact
<1>7. SemTypeOK'
  <2>1. /\ semPc' \in [Threads -> SemReaderLabels \cup SemWriterLabels]
        /\ \A t \in Readers : semPc'[t] \in SemReaderLabels
        /\ \A t \in Writers : semPc'[t] \in SemWriterLabels
    BY <1>1 DEF SemLeave, SemGoto, SemTypeOK, Threads, SemReaderLabels, SemWriterLabels
  <2>2. /\ semWait' \in 0 .. 1 /\ semWriter' \in 0 .. 1 /\ semCheck' \in 0 .. 1
        /\ readersIn' \in Nat /\ writersIn' \in Nat
    BY <1>2, <1>5, SMT DEF SemTypeOK
  <2> QED  BY <2>1, <2>2 DEF SemTypeOK
<1>8. OneWriterIn'
  BY <1>1, <1>2 DEF OneWriterIn, Threads
<1>9. OneBaton'
  BY <1>1, <1>2, SMT DEF OneBaton, Owners, Threads, SemTypeOK
<1>10. SemExclusion' /\ YieldsToReaders'
  BY <1>1, <1>3, <1>4 DEF SemExclusion, YieldsToReaders, Threads
<1>11. WriterNotForgotten'
  BY <1>1, <1>2, <1>3, <1>4 DEF WriterNotForgotten, Threads
<1> QED  BY <1>7, <1>6, <1>8, <1>9, <1>10, <1>11

LEMMA StepPassToWriter ==
    ASSUME IInv, NEW r \in Readers, PassToWriter(r)
    PROVE  IInv'
<1> USE DEF IInv
<1>1. /\ semPc[r] = "pass" /\ semPc'[r] = "idle"
      /\ \A s \in Threads : s # r => semPc'[s] = semPc[s]
      /\ r \in Threads /\ r \notin Writers
  BY Moved DEF PassToWriter, Threads
<1>2. /\ readersIn = 0 /\ writersIn # 0 /\ semWait' = semWait + 1
      /\ UNCHANGED <<semWriter, semCheck, readersIn, writersIn>>
  BY DEF PassToWriter, semCounters
<1>3. /\ SemReadingNow' = SemReadingNow
      /\ SemWritingNow' = SemWritingNow
      /\ SemAnnounced' = SemAnnounced
  BY <1>1 DEF SemReadingNow, SemWritingNow, SemAnnounced, Threads
<1>4. semCheck = 0 /\ semWait = 0
  BY <1>1, SMT DEF OneBaton, Owners, Threads, SemTypeOK
<1>5. SemReadingNow = {}
  BY <1>2, ReadingFinite DEF ReadersExact
<1>6. PICK w \in Writers : semPc[w] = "await"
  <2>1. PICK w \in SemAnnounced : TRUE
    BY <1>2 DEF WritersExact
  <2>2. w \notin Owners
    BY <1>1, <2>1 DEF OneBaton, Owners, SemAnnounced, Threads
  <2> QED  BY <2>1, <2>2 DEF Owners, SemAnnounced
<1>7. ReadersExact' /\ WritersExact'
  BY <1>2, <1>3 DEF ReadersExact, WritersExact
<1>8. SemTypeOK'
  <2>1. /\ semPc' \in [Threads -> SemReaderLabels \cup SemWriterLabels]
        /\ \A t \in Readers : semPc'[t] \in SemReaderLabels
        /\ \A t \in Writers : semPc'[t] \in SemWriterLabels
    BY <1>1 DEF PassToWriter, SemGoto, SemTypeOK, Threads, SemReaderLabels, SemWriterLabels
  <2>2. /\ semWait' \in 0 .. 1 /\ semWriter' \in 0 .. 1 /\ semCheck' \in 0 .. 1
        /\ readersIn' \in Nat /\ writersIn' \in Nat
    BY <1>2, <1>4, <1>5, <1>6, SMT DEF SemTypeOK
  <2> QED  BY <2>1, <2>2 DEF SemTypeOK
<1>9. OneWriterIn'
  BY <1>1, <1>2 DEF OneWriterIn, Threads
<1>10. OneBaton'
  BY <1>1, <1>2, SMT DEF OneBaton, Owners, Threads, SemTypeOK
<1>11. SemExclusion' /\ YieldsToReaders'
  BY <1>1, <1>3, <1>4, <1>5, <1>6 DEF SemExclusion, YieldsToReaders, Threads
<1>12. WriterNotForgotten'
  BY <1>1, <1>2, <1>3, <1>4, <1>5, <1>6 DEF WriterNotForgotten, Threads
<1> QED  BY <1>8, <1>7, <1>9, <1>10, <1>11, <1>12

LEMMA StepPassBack ==
    ASSUME IInv, NEW r \in Readers, PassBack(r)
    PROVE  IInv'
<1> USE DEF IInv
<1>1. /\ semPc[r] = "pass" /\ semPc'[r] = "idle"
      /\ \A s \in Threads : s # r => semPc'[s] = semPc[s]
      /\ r \in Threads /\ r \notin Writers
  BY Moved DEF PassBack, Threads
<1>2. /\ readersIn # 0 \/ writersIn = 0
      /\ semCheck' = semCheck + 1
      /\ UNCHANGED <<semWait, semWriter, readersIn, writersIn>>
  BY DEF PassBack, CheckV, semCounters
<1>3. /\ SemReadingNow' = SemReadingNow
      /\ SemWritingNow' = SemWritingNow
      /\ SemAnnounced' = SemAnnounced
  BY <1>1 DEF SemReadingNow, SemWritingNow, SemAnnounced, Threads
<1>4. semCheck = 0 /\ semWait = 0
  BY <1>1, SMT DEF OneBaton, Owners, Threads, SemTypeOK
<1>5. SemReadingNow # {} \/ \A w \in Writers : semPc[w] # "await"
  BY <1>2, ReadingFinite DEF ReadersExact, WritersExact, SemAnnounced
<1>6. ReadersExact' /\ WritersExact'
  BY <1>2, <1>3 DEF ReadersExact, WritersExact
<1>7. SemTypeOK'
  <2>1. /\ semPc' \in [Threads -> SemReaderLabels \cup SemWriterLabels]
        /\ \A t \in Readers : semPc'[t] \in SemReaderLabels
        /\ \A t \in Writers : semPc'[t] \in SemWriterLabels
    BY <1>1 DEF PassBack, SemGoto, SemTypeOK, Threads, SemReaderLabels, SemWriterLabels
  <2>2. /\ semWait' \in 0 .. 1 /\ semWriter' \in 0 .. 1 /\ semCheck' \in 0 .. 1
        /\ readersIn' \in Nat /\ writersIn' \in Nat
    BY <1>2, <1>4, <1>5, SMT DEF SemTypeOK
  <2> QED  BY <2>1, <2>2 DEF SemTypeOK
<1>8. OneWriterIn'
  BY <1>1, <1>2 DEF OneWriterIn, Threads
<1>9. OneBaton'
  BY <1>1, <1>2, SMT DEF OneBaton, Owners, Threads, SemTypeOK
<1>10. SemExclusion' /\ YieldsToReaders'
  BY <1>1, <1>3, <1>4, <1>5 DEF SemExclusion, YieldsToReaders, Threads
<1>11. WriterNotForgotten'
  BY <1>1, <1>2, <1>3, <1>4, <1>5 DEF WriterNotForgotten, Threads
<1> QED  BY <1>7, <1>6, <1>8, <1>9, <1>10, <1>11

LEMMA StepEnterWriter ==
    ASSUME IInv, NEW w \in Writers, SemEnterWriter(w)
    PROVE  IInv'
<1> USE DEF IInv
<1>1. /\ semPc[w] = "idle" /\ semPc'[w] = "check"
      /\ \A s \in Threads : s # w => semPc'[s] = semPc[s]
      /\ w \in Threads /\ w \notin Readers
  BY Moved DEF SemEnterWriter, Threads
<1>2. /\ semWriter = 1 /\ semWriter' = 0
      /\ UNCHANGED <<semWait, semCheck, readersIn, writersIn>>
  BY SMT DEF SemEnterWriter, semCounters, SemTypeOK
<1>3. /\ SemReadingNow' = SemReadingNow
      /\ SemWritingNow' = SemWritingNow
      /\ SemAnnounced' = SemAnnounced
  BY <1>1 DEF SemReadingNow, SemWritingNow, SemAnnounced, Threads
<1>4. ReadersExact' /\ WritersExact'
  BY <1>2, <1>3 DEF ReadersExact, WritersExact
<1>5. SemTypeOK'
  <2>1. /\ semPc' \in [Threads -> SemReaderLabels \cup SemWriterLabels]
        /\ \A t \in Readers : semPc'[t] \in SemReaderLabels
        /\ \A t \in Writers : semPc'[t] \in SemWriterLabels
    BY <1>1 DEF SemEnterWriter, SemGoto, SemTypeOK, Threads, SemReaderLabels, SemWriterLabels
  <2>2. /\ semWait' \in 0 .. 1 /\ semWriter' \in 0 .. 1 /\ semCheck' \in 0 .. 1
        /\ readersIn' \in Nat /\ writersIn' \in Nat
    BY <1>2, SMT DEF SemTypeOK
  <2> QED  BY <2>1, <2>2 DEF SemTypeOK
<1>6. OneWriterIn'
  BY <1>1, <1>2, SMT DEF OneWriterIn, Threads, SemTypeOK
<1>7. OneBaton'
  BY <1>1, <1>2, SMT DEF OneBaton, Owners, Threads, SemTypeOK
<1>8. SemExclusion' /\ YieldsToReaders'
  BY <1>1, <1>3 DEF SemExclusion, YieldsToReaders, Threads
<1>9. WriterNotForgotten'
  BY <1>1, <1>2, <1>3 DEF WriterNotForgotten, Threads
<1> QED  BY <1>5, <1>4, <1>6, <1>7, <1>8, <1>9

LEMMA StepCheckWriter ==
    ASSUME IInv, NEW w \in Writers, CheckWriter(w)
    PROVE  IInv'
<1> USE DEF IInv
<1>1. /\ semPc[w] = "check" /\ semPc'[w] = "announce"
      /\ \A s \in Threads : s # w => semPc'[s] = semPc[s]
      /\ w \in Threads /\ w \notin Readers
  BY Moved DEF CheckWriter, Threads
<1>2. semCheck = 1 /\ semCheck' = 0 /\ UNCHANGED <<semWait, semWriter, readersIn, writersIn>>
  BY SMT DEF CheckWriter, CheckP, semCounters, SemTypeOK
<1>3. /\ SemReadingNow' = SemReadingNow
      /\ SemWritingNow' = SemWritingNow
      /\ SemAnnounced' = SemAnnounced
  BY <1>1 DEF SemReadingNow, SemWritingNow, SemAnnounced, Threads
<1>4. ReadersExact' /\ WritersExact'
  BY <1>2, <1>3 DEF ReadersExact, WritersExact
<1>5. SemTypeOK'
  <2>1. /\ semPc' \in [Threads -> SemReaderLabels \cup SemWriterLabels]
        /\ \A t \in Readers : semPc'[t] \in SemReaderLabels
        /\ \A t \in Writers : semPc'[t] \in SemWriterLabels
    BY <1>1 DEF CheckWriter, SemGoto, SemTypeOK, Threads, SemReaderLabels, SemWriterLabels
  <2>2. /\ semWait' \in 0 .. 1 /\ semWriter' \in 0 .. 1 /\ semCheck' \in 0 .. 1
        /\ readersIn' \in Nat /\ writersIn' \in Nat
    BY <1>2, SMT DEF SemTypeOK
  <2> QED  BY <2>1, <2>2 DEF SemTypeOK
<1>6. OneWriterIn'
  BY <1>1, <1>2, SMT DEF OneWriterIn, Threads, SemTypeOK
<1>7. OneBaton'
  BY <1>1, <1>2, SMT DEF OneBaton, Owners, Threads, SemTypeOK
<1>8. SemExclusion' /\ YieldsToReaders'
  BY <1>1, <1>3 DEF SemExclusion, YieldsToReaders, Threads
<1>9. WriterNotForgotten'
  BY <1>1, <1>2, <1>3 DEF WriterNotForgotten, Threads
<1> QED  BY <1>5, <1>4, <1>6, <1>7, <1>8, <1>9

LEMMA StepAnnounce ==
    ASSUME IInv, NEW w \in Writers, SemAnnounce(w)
    PROVE  IInv'
<1> USE DEF IInv
<1>1. /\ semPc[w] = "announce" /\ semPc'[w] = "test"
      /\ \A s \in Threads : s # w => semPc'[s] = semPc[s]
      /\ w \in Threads /\ w \notin Readers
  BY Moved DEF SemAnnounce, Threads
<1>2. writersIn' = writersIn + 1 /\ UNCHANGED <<semWait, semWriter, semCheck, readersIn>>
  BY DEF SemAnnounce, semaphores
<1>3. /\ SemAnnounced = {} /\ SemAnnounced' = {w}
      /\ SemReadingNow' = SemReadingNow /\ SemWritingNow' = SemWritingNow
  BY <1>1 DEF SemReadingNow, SemWritingNow, SemAnnounced, Threads, OneWriterIn
<1>4. ReadersExact' /\ WritersExact'
  BY <1>2, <1>3, SMT DEF ReadersExact, WritersExact
<1>5. SemTypeOK'
  <2>1. /\ semPc' \in [Threads -> SemReaderLabels \cup SemWriterLabels]
        /\ \A t \in Readers : semPc'[t] \in SemReaderLabels
        /\ \A t \in Writers : semPc'[t] \in SemWriterLabels
    BY <1>1 DEF SemAnnounce, SemGoto, SemTypeOK, Threads, SemReaderLabels, SemWriterLabels
  <2>2. /\ semWait' \in 0 .. 1 /\ semWriter' \in 0 .. 1 /\ semCheck' \in 0 .. 1
        /\ readersIn' \in Nat /\ writersIn' \in Nat
    BY <1>2, <1>4, SMT DEF SemTypeOK, WritersExact
  <2> QED  BY <2>1, <2>2 DEF SemTypeOK
<1>6. OneWriterIn'
  BY <1>1, <1>2, SMT DEF OneWriterIn, Threads, SemTypeOK
<1>7. OneBaton'
  BY <1>1, <1>2, SMT DEF OneBaton, Owners, Threads, SemTypeOK
<1>8. SemExclusion' /\ YieldsToReaders'
  BY <1>1, <1>3 DEF SemExclusion, YieldsToReaders, Threads
<1>9. WriterNotForgotten'
  BY <1>1, <1>2, <1>3 DEF WriterNotForgotten, Threads
<1> QED  BY <1>5, <1>4, <1>6, <1>7, <1>8, <1>9

LEMMA StepTest ==
    ASSUME IInv, NEW w \in Writers, Test(w)
    PROVE  IInv'
<1> USE DEF IInv
<1>1. /\ semPc[w] = "test" /\ semPc'[w] = "writing"
      /\ \A s \in Threads : s # w => semPc'[s] = semPc[s]
      /\ w \in Threads /\ w \notin Readers
  BY Moved DEF Test, Threads
<1>2. readersIn = 0 /\ UNCHANGED <<semWait, semWriter, semCheck, readersIn, writersIn>>
  BY DEF Test, semaphores, semCounters
<1>3. /\ SemAnnounced' = SemAnnounced /\ SemReadingNow' = SemReadingNow
      /\ SemWritingNow' = {w}
  BY <1>1 DEF SemReadingNow, SemWritingNow, SemAnnounced, Threads, OneWriterIn
<1>4. SemReadingNow = {}
  BY <1>2, ReadingFinite DEF ReadersExact
<1>5. ReadersExact' /\ WritersExact'
  BY <1>2, <1>3 DEF ReadersExact, WritersExact
<1>6. SemTypeOK'
  <2>1. /\ semPc' \in [Threads -> SemReaderLabels \cup SemWriterLabels]
        /\ \A t \in Readers : semPc'[t] \in SemReaderLabels
        /\ \A t \in Writers : semPc'[t] \in SemWriterLabels
    BY <1>1 DEF Test, SemGoto, SemTypeOK, Threads, SemReaderLabels, SemWriterLabels
  <2>2. /\ semWait' \in 0 .. 1 /\ semWriter' \in 0 .. 1 /\ semCheck' \in 0 .. 1
        /\ readersIn' \in Nat /\ writersIn' \in Nat
    BY <1>2, <1>4, SMT DEF SemTypeOK
  <2> QED  BY <2>1, <2>2 DEF SemTypeOK
<1>7. OneWriterIn'
  BY <1>1, <1>2, SMT DEF OneWriterIn, Threads, SemTypeOK
<1>8. OneBaton'
  BY <1>1, <1>2, SMT DEF OneBaton, Owners, Threads, SemTypeOK
<1>9. SemExclusion' /\ YieldsToReaders'
  BY <1>1, <1>3, <1>4 DEF SemExclusion, YieldsToReaders, Threads
<1>10. WriterNotForgotten'
  BY <1>1, <1>2, <1>3, <1>4 DEF WriterNotForgotten, Threads
<1> QED  BY <1>6, <1>5, <1>7, <1>8, <1>9, <1>10

LEMMA StepTestTaken ==
    ASSUME IInv, NEW w \in Writers, TestTaken(w)
    PROVE  IInv'
<1> USE DEF IInv
<1>1. /\ semPc[w] = "test" /\ semPc'[w] = "yield"
      /\ \A s \in Threads : s # w => semPc'[s] = semPc[s]
      /\ w \in Threads /\ w \notin Readers
  BY Moved DEF TestTaken, Threads
<1>2. readersIn > 0 /\ UNCHANGED <<semWait, semWriter, semCheck, readersIn, writersIn>>
  BY DEF TestTaken, semaphores, semCounters
<1>3. /\ SemReadingNow' = SemReadingNow
      /\ SemWritingNow' = SemWritingNow
      /\ SemAnnounced' = SemAnnounced
  BY <1>1 DEF SemReadingNow, SemWritingNow, SemAnnounced, Threads
<1>4. SemReadingNow # {}
  BY <1>2, ReadingFinite, SMT DEF ReadersExact
<1>5. ReadersExact' /\ WritersExact'
  BY <1>2, <1>3 DEF ReadersExact, WritersExact
<1>6. SemTypeOK'
  <2>1. /\ semPc' \in [Threads -> SemReaderLabels \cup SemWriterLabels]
        /\ \A t \in Readers : semPc'[t] \in SemReaderLabels
        /\ \A t \in Writers : semPc'[t] \in SemWriterLabels
    BY <1>1 DEF TestTaken, SemGoto, SemTypeOK, Threads, SemReaderLabels, SemWriterLabels
  <2>2. /\ semWait' \in 0 .. 1 /\ semWriter' \in 0 .. 1 /\ semCheck' \in 0 .. 1
        /\ readersIn' \in Nat /\ writersIn' \in Nat
    BY <1>2, <1>4, SMT DEF SemTypeOK
  <2> QED  BY <2>1, <2>2 DEF SemTypeOK
<1>7. OneWriterIn'
  BY <1>1, <1>2, SMT DEF OneWriterIn, Threads, SemTypeOK
<1>8. OneBaton'
  BY <1>1, <1>2, SMT DEF OneBaton, Owners, Threads, SemTypeOK
<1>9. SemExclusion' /\ YieldsToReaders'
  BY <1>1, <1>3, <1>4 DEF SemExclusion, YieldsToReaders, Threads
<1>10. WriterNotForgotten'
  BY <1>1, <1>2, <1>3, <1>4 DEF WriterNotForgotten, Threads
<1> QED  BY <1>6, <1>5, <1>7, <1>8, <1>9, <1>10

LEMMA StepYield ==
    ASSUME IInv, NEW w \in Writers, Yield(w)
    PROVE  IInv'
<1> USE DEF IInv
<1>1. /\ semPc[w] = "yield" /\ semPc'[w] = "await"
      /\ \A s \in Threads : s # w => semPc'[s] = semPc[s]
      /\ w \in Threads /\ w \notin Readers
  BY Moved DEF Yield, Threads
<1>2. semCheck' = semCheck + 1 /\ UNCHANGED <<semWait, semWriter, readersIn, writersIn>>
  BY DEF Yield, CheckV, semCounters
<1>3. /\ SemReadingNow' = SemReadingNow
      /\ SemWritingNow' = SemWritingNow
      /\ SemAnnounced' = SemAnnounced
  BY <1>1 DEF SemReadingNow, SemWritingNow, SemAnnounced, Threads
<1>4. semCheck = 0 /\ semWait = 0 /\ SemReadingNow # {}
  BY <1>1, SMT DEF OneBaton, Owners, Threads, SemTypeOK, YieldsToReaders
<1>5. ReadersExact' /\ WritersExact'
  BY <1>2, <1>3 DEF ReadersExact, WritersExact
<1>6. SemTypeOK'
  <2>1. /\ semPc' \in [Threads -> SemReaderLabels \cup SemWriterLabels]
        /\ \A t \in Readers : semPc'[t] \in SemReaderLabels
        /\ \A t \in Writers : semPc'[t] \in SemWriterLabels
    BY <1>1 DEF Yield, SemGoto, SemTypeOK, Threads, SemReaderLabels, SemWriterLabels
  <2>2. /\ semWait' \in 0 .. 1 /\ semWriter' \in 0 .. 1 /\ semCheck' \in 0 .. 1
        /\ readersIn' \in Nat /\ writersIn' \in Nat
    BY <1>2, <1>4, SMT DEF SemTypeOK
  <2> QED  BY <2>1, <2>2 DEF SemTypeOK
<1>7. OneWriterIn'
  BY <1>1, <1>2, SMT DEF OneWriterIn, Threads, SemTypeOK
<1>8. OneBaton'
  BY <1>1, <1>2, SMT DEF OneBaton, Owners, Threads, SemTypeOK
<1>9. SemExclusion' /\ YieldsToReaders'
  BY <1>1, <1>3, <1>4 DEF SemExclusion, YieldsToReaders, Threads
<1>10. WriterNotForgotten'
  BY <1>1, <1>2, <1>3, <1>4 DEF WriterNotForgotten, Threads
<1> QED  BY <1>6, <1>5, <1>7, <1>8, <1>9, <1>10

LEMMA StepAwait ==
    ASSUME IInv, NEW w \in Writers, Await(w)
    PROVE  IInv'
<1> USE DEF IInv
<1>1. /\ semPc[w] = "await" /\ semPc'[w] = "writing"
      /\ \A s \in Threads : s # w => semPc'[s] = semPc[s]
      /\ w \in Threads /\ w \notin Readers
  BY Moved DEF Await, Threads
<1>2. /\ semWait = 1 /\ semWait' = 0
      /\ UNCHANGED <<semWriter, semCheck, readersIn, writersIn>>
  BY SMT DEF Await, semCounters, SemTypeOK
<1>3. /\ SemAnnounced' = SemAnnounced /\ SemReadingNow' = SemReadingNow
      /\ SemWritingNow' = {w}
  BY <1>1 DEF SemReadingNow, SemWritingNow, SemAnnounced, Threads, OneWriterIn
<1>4. /\ SemReadingNow = {}
      /\ \A v \in Writers : v # w => semPc[v] = "idle"
  BY <1>1, <1>2 DEF WriterNotForgotten, OneWriterIn
<1>5. ReadersExact' /\ WritersExact'
  BY <1>2, <1>3 DEF ReadersExact, WritersExact
<1>6. SemTypeOK'
  <2>1. /\ semPc' \in [Threads -> SemReaderLabels \cup SemWriterLabels]
        /\ \A t \in Readers : semPc'[t] \in SemReaderLabels
        /\ \A t \in Writers : semPc'[t] \in SemWriterLabels
    BY <1>1 DEF Await, SemGoto, SemTypeOK, Threads, SemReaderLabels, SemWriterLabels
  <2>2. /\ semWait' \in 0 .. 1 /\ semWriter' \in 0 .. 1 /\ semCheck' \in 0 .. 1
        /\ readersIn' \in Nat /\ writersIn' \in Nat
    BY <1>2, <1>4, SMT DEF SemTypeOK
  <2> QED  BY <2>1, <2>2 DEF SemTypeOK
<1>7. OneWriterIn'
  BY <1>1, <1>2, SMT DEF OneWriterIn, Threads, SemTypeOK
<1>8. OneBaton'
  BY <1>1, <1>2, SMT DEF OneBaton, Owners, Threads, SemTypeOK
<1>9. SemExclusion' /\ YieldsToReaders'
  BY <1>1, <1>3, <1>4 DEF SemExclusion, YieldsToReaders, Threads
<1>10. WriterNotForgotten'
  BY <1>1, <1>2, <1>3, <1>4 DEF WriterNotForgotten, Threads
<1> QED  BY <1>6, <1>5, <1>7, <1>8, <1>9, <1>10

LEMMA StepEndWriting ==
    ASSUME IInv, NEW w \in Writers, EndWriting(w)
    PROVE  IInv'
<1> USE DEF IInv
<1>1. /\ semPc[w] = "writing" /\ semPc'[w] = "release"
      /\ \A s \in Threads : s # w => semPc'[s] = semPc[s]
      /\ w \in Threads /\ w \notin Readers
  BY Moved DEF EndWriting, Threads
<1>2. writersIn' = writersIn - 1 /\ UNCHANGED <<semWait, semWriter, semCheck, readersIn>>
  BY DEF EndWriting, semaphores
<1>3. /\ w \in SemAnnounced /\ SemAnnounced' = {}
      /\ SemReadingNow' = SemReadingNow /\ SemWritingNow' = {}
  BY <1>1 DEF SemReadingNow, SemWritingNow, SemAnnounced, Threads, OneWriterIn
<1>4. ReadersExact' /\ WritersExact'
  BY <1>2, <1>3, SMT DEF ReadersExact, WritersExact
<1>5. SemTypeOK'
  <2>1. /\ semPc' \in [Threads -> SemReaderLabels \cup SemWriterLabels]
        /\ \A t \in Readers : semPc'[t] \in SemReaderLabels
        /\ \A t \in Writers : semPc'[t] \in SemWriterLabels
    BY <1>1 DEF EndWriting, SemGoto, SemTypeOK, Threads, SemReaderLabels, SemWriterLabels
  <2>2. /\ semWait' \in 0 .. 1 /\ semWriter' \in 0 .. 1 /\ semCheck' \in 0 .. 1
        /\ readersIn' \in Nat /\ writersIn' \in Nat
    BY <1>2, <1>4, SMT DEF SemTypeOK, WritersExact
  <2> QED  BY <2>1, <2>2 DEF SemTypeOK
<1>6. OneWriterIn'
  BY <1>1, <1>2, SMT DEF OneWriterIn, Threads, SemTypeOK
<1>7. OneBaton'
  BY <1>1, <1>2, SMT DEF OneBaton, Owners, Threads, SemTypeOK
<1>8. SemExclusion' /\ YieldsToReaders'
  BY <1>1, <1>3 DEF SemExclusion, YieldsToReaders, Threads
<1>9. WriterNotForgotten'
  BY <1>1, <1>2, <1>3 DEF WriterNotForgotten, Threads
<1> QED  BY <1>5, <1>4, <1>6, <1>7, <1>8, <1>9

LEMMA StepRelease ==
    ASSUME IInv, NEW w \in Writers, Release(w)
    PROVE  IInv'
<1> USE DEF IInv
<1>1. /\ semPc[w] = "release" /\ semPc'[w] = "releaseWriter"
      /\ \A s \in Threads : s # w => semPc'[s] = semPc[s]
      /\ w \in Threads /\ w \notin Readers
  BY Moved DEF Release, Threads
<1>2. semCheck' = semCheck + 1 /\ UNCHANGED <<semWait, semWriter, readersIn, writersIn>>
  BY DEF Release, CheckV, semCounters
<1>3. /\ SemReadingNow' = SemReadingNow
      /\ SemWritingNow' = SemWritingNow
      /\ SemAnnounced' = SemAnnounced
  BY <1>1 DEF SemReadingNow, SemWritingNow, SemAnnounced, Threads
<1>4. semCheck = 0 /\ semWait = 0
  BY <1>1, SMT DEF OneBaton, Owners, Threads, SemTypeOK
<1>5. ReadersExact' /\ WritersExact'
  BY <1>2, <1>3 DEF ReadersExact, WritersExact
<1>6. SemTypeOK'
  <2>1. /\ semPc' \in [Threads -> SemReaderLabels \cup SemWriterLabels]
        /\ \A t \in Readers : semPc'[t] \in SemReaderLabels
        /\ \A t \in Writers : semPc'[t] \in SemWriterLabels
    BY <1>1 DEF Release, SemGoto, SemTypeOK, Threads, SemReaderLabels, SemWriterLabels
  <2>2. /\ semWait' \in 0 .. 1 /\ semWriter' \in 0 .. 1 /\ semCheck' \in 0 .. 1
        /\ readersIn' \in Nat /\ writersIn' \in Nat
    BY <1>2, <1>4, SMT DEF SemTypeOK
  <2> QED  BY <2>1, <2>2 DEF SemTypeOK
<1>7. OneWriterIn'
  BY <1>1, <1>2, SMT DEF OneWriterIn, Threads, SemTypeOK
<1>8. OneBaton'
  BY <1>1, <1>2, SMT DEF OneBaton, Owners, Threads, SemTypeOK
<1>9. SemExclusion' /\ YieldsToReaders'
  BY <1>1, <1>3, <1>4 DEF SemExclusion, YieldsToReaders, Threads
<1>10. WriterNotForgotten'
  BY <1>1, <1>2, <1>3, <1>4 DEF WriterNotForgotten, Threads
<1> QED  BY <1>6, <1>5, <1>7, <1>8, <1>9, <1>10

LEMMA StepReleaseWriter ==
    ASSUME IInv, NEW w \in Writers, ReleaseWriter(w)
    PROVE  IInv'
<1> USE DEF IInv
<1>1. /\ semPc[w] = "releaseWriter" /\ semPc'[w] = "idle"
      /\ \A s \in Threads : s # w => semPc'[s] = semPc[s]
      /\ w \in Threads /\ w \notin Readers
  BY Moved DEF ReleaseWriter, Threads
<1>2. semWriter' = semWriter + 1 /\ UNCHANGED <<semWait, semCheck, readersIn, writersIn>>
  BY DEF ReleaseWriter, semCounters
<1>3. /\ SemReadingNow' = SemReadingNow
      /\ SemWritingNow' = SemWritingNow
      /\ SemAnnounced' = SemAnnounced
  BY <1>1 DEF SemReadingNow, SemWritingNow, SemAnnounced, Threads
<1>4. semWriter = 0
  BY <1>1 DEF OneWriterIn, SemTypeOK
<1>5. ReadersExact' /\ WritersExact'
  BY <1>2, <1>3 DEF ReadersExact, WritersExact
<1>6. SemTypeOK'
  <2>1. /\ semPc' \in [Threads -> SemReaderLabels \cup SemWriterLabels]
        /\ \A t \in Readers : semPc'[t] \in SemReaderLabels
        /\ \A t \in Writers : semPc'[t] \in SemWriterLabels
    BY <1>1 DEF ReleaseWriter, SemGoto, SemTypeOK, Threads, SemReaderLabels, SemWriterLabels
  <2>2. /\ semWait' \in 0 .. 1 /\ semWriter' \in 0 .. 1 /\ semCheck' \in 0 .. 1
        /\ readersIn' \in Nat /\ writersIn' \in Nat
    BY <1>2, <1>4, SMT DEF SemTypeOK
  <2> QED  BY <2>1, <2>2 DEF SemTypeOK
<1>7. OneWriterIn'
  BY <1>1, <1>2, SMT DEF OneWriterIn, Threads, SemTypeOK
<1>8. OneBaton'
  BY <1>1, <1>2, SMT DEF OneBaton, Owners, Threads, SemTypeOK
<1>9. SemExclusion' /\ YieldsToReaders'
  BY <1>1, <1>3, <1>4 DEF SemExclusion, YieldsToReaders, Threads
<1>10. WriterNotForgotten'
  BY <1>1, <1>2, <1>3, <1>4 DEF WriterNotForgotten, Threads
<1> QED  BY <1>6, <1>5, <1>7, <1>8, <1>9, <1>10

-----------------------------------------------------------------------------
LEMMA NextIInv == IInv /\ [SemNext]_semVars => IInv'
<1> SUFFICES ASSUME IInv, [SemNext]_semVars
             PROVE  IInv'
  OBVIOUS
<1>1. ASSUME NEW r \in Readers, SemReader(r)
      PROVE  IInv'
  BY <1>1, StepEnterReader, StepArrive, StepAdmit, StepEndReading, StepLeave,
     StepPassToWriter, StepPassBack DEF SemReader
<1>2. ASSUME NEW w \in Writers, SemWriter(w)
      PROVE  IInv'
  BY <1>2, StepEnterWriter, StepCheckWriter, StepAnnounce, StepTest, StepTestTaken,
     StepYield, StepAwait, StepEndWriting, StepRelease, StepReleaseWriter DEF SemWriter
<1>3. CASE UNCHANGED semVars
  BY <1>3 DEF semVars, IInv, SemTypeOK, ReadersExact, WritersExact, OneWriterIn, OneBaton,
     SemExclusion, YieldsToReaders, WriterNotForgotten, Owners, SemReadingNow, SemWritingNow,
     SemAnnounced
<1> QED  BY <1>1, <1>2, <1>3 DEF SemNext

THEOREM Invariance == SemSpec => []IInv
  BY InitIInv, NextIInv, PTL DEF SemSpec

\* However many readers and writers there are, a writer never shares the table
\* (main.c:92-96, 113-116).
THEOREM SemaphoresExclude == SemSpec => []SemExclusion
  BY Invariance, PTL DEF IInv

\* The semaphores stay binary, the counters never go below zero, and semCheck is
\* handed on as one baton: it is never doubled and never in two hands
\* (main.c:76-78, 90-96, 109-116, 127).
THEOREM SemaphoresOneBaton == SemSpec => []BatonOK
<1>1. IInv => BatonOK
  BY DEF IInv, BatonOK
<1> QED  BY <1>1, Invariance, PTL

\* A writer that waits on semWait is not forgotten when the last reader leaves
\* (main.c:91-96, 113-116).
THEOREM SemaphoresRememberWriter == SemSpec => []WriterNotForgotten
  BY Invariance, PTL DEF IInv

-----------------------------------------------------------------------------
\* The semaphores of cw09/zad1b implement the readers-writers object: every step
\* is a step of a reader or a writer at the table, or not visible there.
THEOREM SemaphoresImplementTable == SemSpec => SemTableSpec
<1>1. SemInit => SemTable!Init
  BY DEF SemInit, SemTable!Init, SemReadingNow, SemWritingNow, Threads
<1>2. IInv /\ IInv' /\ [SemNext]_semVars => [SemTable!Next]_(SemTable!vars)
  <2> SUFFICES ASSUME IInv, IInv', [SemNext]_semVars
               PROVE  [SemTable!Next]_(SemTable!vars)
    OBVIOUS
  <2> DEFINE Stutter == SemReadingNow' = SemReadingNow /\ SemWritingNow' = SemWritingNow
  <2>1. ASSUME NEW r \in Readers, SemReader(r)
        PROVE  Stutter \/ SemTable!StartRead(r) \/ SemTable!EndRead(r)
    <3> USE DEF Threads
    <3>1. CASE SemEnterReader(r) \/ Admit(r) \/ EndReading(r) \/ PassToWriter(r) \/ PassBack(r)
      <4>1. SemReadingNow' = SemReadingNow /\ SemWritingNow' = SemWritingNow
        BY <3>1, Moved DEF IInv, SemReadingNow, SemWritingNow, SemEnterReader, Admit,
           EndReading, PassToWriter, PassBack
      <4> QED  BY <4>1
    <3>2. CASE Arrive(r)
      <4>1. /\ SemReadingNow' = SemReadingNow \cup {r} /\ r \notin SemReadingNow
            /\ SemWritingNow' = SemWritingNow
        BY <3>2, Moved DEF IInv, SemReadingNow, SemWritingNow, Arrive
      <4>2. SemWritingNow = {}
        BY <4>1 DEF IInv, SemExclusion
      <4> QED  BY <4>1, <4>2 DEF SemTable!StartRead
    <3>3. CASE SemLeave(r)
      <4>1. /\ SemReadingNow' = SemReadingNow \ {r} /\ r \in SemReadingNow
            /\ SemWritingNow' = SemWritingNow
        BY <3>3, Moved DEF IInv, SemReadingNow, SemWritingNow, SemLeave
      <4> QED  BY <4>1 DEF SemTable!EndRead
    <3> QED  BY <2>1, <3>1, <3>2, <3>3 DEF SemReader
  <2>2. ASSUME NEW w \in Writers, SemWriter(w)
        PROVE  Stutter \/ SemTable!StartWrite(w) \/ SemTable!EndWrite(w)
    <3> USE DEF Threads
    <3>1. CASE \/ SemEnterWriter(w) \/ CheckWriter(w) \/ SemAnnounce(w) \/ TestTaken(w)
               \/ Yield(w) \/ Release(w) \/ ReleaseWriter(w)
      <4>1. SemReadingNow' = SemReadingNow /\ SemWritingNow' = SemWritingNow
        BY <3>1, Moved DEF IInv, SemReadingNow, SemWritingNow, SemEnterWriter, CheckWriter,
           SemAnnounce, TestTaken, Yield, Release, ReleaseWriter
      <4> QED  BY <4>1
    <3>2. CASE Test(w) \/ Await(w)
      <4>1. /\ semPc[w] \in {"test", "await"} /\ semPc'[w] = "writing"
            /\ \A s \in Threads : s # w => semPc'[s] = semPc[s]
            /\ w \notin Readers
        BY <3>2, Moved DEF IInv, Test, Await
      <4>2. SemWritingNow = {} /\ SemWritingNow' = {w} /\ SemReadingNow' = SemReadingNow
        BY <4>1 DEF IInv, OneWriterIn, SemReadingNow, SemWritingNow
      <4>3. SemReadingNow = {}
        BY <4>2 DEF IInv, SemExclusion
      <4> QED  BY <4>2, <4>3 DEF SemTable!StartWrite
    <3>3. CASE EndWriting(w)
      <4>1. /\ SemWritingNow' = SemWritingNow \ {w} /\ w \in SemWritingNow
            /\ SemReadingNow' = SemReadingNow
        BY <3>3, Moved DEF IInv, SemReadingNow, SemWritingNow, EndWriting
      <4> QED  BY <4>1 DEF SemTable!EndWrite
    <3> QED  BY <2>2, <3>1, <3>2, <3>3 DEF SemWriter
  <2>3. CASE UNCHANGED semVars
    BY <2>3 DEF semVars, SemReadingNow, SemWritingNow, SemTable!vars
  <2> QED  BY <2>1, <2>2, <2>3 DEF SemNext, SemTable!Next, SemTable!vars
<1> QED  BY <1>1, <1>2, Invariance, PTL DEF SemSpec, SemTableSpec, SemTable!Spec
=============================================================================
