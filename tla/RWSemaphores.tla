---------------------------- MODULE RWSemaphores ----------------------------
(***************************************************************************)
(* The readers and writers of cw09/zad1b: three semaphores, the readers     *)
(* favoured.  semCheck protects the counters; semWriter admits one writer   *)
(* at a time to the competition; on semWait that writer waits for the last  *)
(* reader, who hands semCheck over to it instead of posting it.  A writer   *)
(* keeps semCheck while it writes, which is what stops the readers.         *)
(* One action per statement on the shared state; the label of an action is  *)
(* the value of semPc that enables it.  What RWMutexCond has too is called  *)
(* Sem... here: the two can run side by side.                               *)
(***************************************************************************)
EXTENDS TableThreads

VARIABLES semWait, semWriter, semCheck,
          readersIn,   \* the counter of the threads that read
          writersIn,   \* the counter of the writers past semWriter
          semPc         \* where each thread is

semVars == <<semWait, semWriter, semCheck, readersIn, writersIn, semPc>>
semaphores == <<semWait, semWriter, semCheck>>
semCounters == <<readersIn, writersIn>>

SemReaderLabels == {"idle", "arrive", "admit", "reading", "leave", "pass"}
SemWriterLabels == {"idle", "check", "announce", "test", "yield", "await",
                    "writing", "release", "releaseWriter"}

SemInit == /\ semWait = 0 /\ semWriter = 1 /\ semCheck = 1
           /\ readersIn = 0 /\ writersIn = 0
           /\ semPc = [t \in Threads |-> "idle"]

-----------------------------------------------------------------------------
SemGoto(t, from, to) == /\ semPc[t] = from
                        /\ semPc' = [semPc EXCEPT ![t] = to]

CheckP == /\ semCheck > 0
          /\ semCheck' = semCheck - 1
          /\ UNCHANGED <<semWait, semWriter>>

CheckV == /\ semCheck' = semCheck + 1
          /\ UNCHANGED <<semWait, semWriter>>

-----------------------------------------------------------------------------
(* rFunc *)

SemEnterReader(r) == /\ SemGoto(r, "idle", "arrive")
                     /\ CheckP
                     /\ UNCHANGED semCounters

Arrive(r) == /\ SemGoto(r, "arrive", "admit")
             /\ readersIn' = readersIn + 1
             /\ UNCHANGED <<semaphores, writersIn>>

Admit(r) == /\ SemGoto(r, "admit", "reading")
            /\ CheckV
            /\ UNCHANGED semCounters

EndReading(r) == /\ SemGoto(r, "reading", "leave")
                 /\ CheckP
                 /\ UNCHANGED semCounters

SemLeave(r) == /\ SemGoto(r, "leave", "pass")
               /\ readersIn' = readersIn - 1
               /\ UNCHANGED <<semaphores, writersIn>>

\* Mutant: the last reader wakes the writer and posts semCheck as well.
PassToBoth(r) == /\ readersIn = 0 /\ writersIn # 0
                 /\ SemGoto(r, "pass", "idle")
                 /\ semWait' = semWait + 1
                 /\ semCheck' = semCheck + 1
                 /\ UNCHANGED <<semWriter, semCounters>>

\* The last reader hands semCheck to the writer that waits.
PassToWriter(r) == /\ readersIn = 0 /\ writersIn # 0
                   /\ SemGoto(r, "pass", "idle")
                   /\ semWait' = semWait + 1
                   /\ UNCHANGED <<semWriter, semCheck, semCounters>>

\* Mutant: a reader that leaves others behind keeps semCheck.
PassNever(r) == /\ readersIn # 0 \/ writersIn = 0
                /\ SemGoto(r, "pass", "idle")
                /\ UNCHANGED <<semaphores, semCounters>>

PassBack(r) == /\ readersIn # 0 \/ writersIn = 0
               /\ SemGoto(r, "pass", "idle")
               /\ CheckV
               /\ UNCHANGED semCounters

SemReader(r) == \/ SemEnterReader(r) \/ Arrive(r) \/ Admit(r)
                \/ EndReading(r) \/ SemLeave(r) \/ PassToWriter(r) \/ PassBack(r)

-----------------------------------------------------------------------------
(* wFunc *)

SemEnterWriter(w) == /\ semWriter > 0
                     /\ SemGoto(w, "idle", "check")
                     /\ semWriter' = semWriter - 1
                     /\ UNCHANGED <<semWait, semCheck, semCounters>>

CheckWriter(w) == /\ SemGoto(w, "check", "announce")
                  /\ CheckP
                  /\ UNCHANGED semCounters

\* Mutant: the writer is announced once it has been let in.
AnnounceForgotten(w) == /\ SemGoto(w, "announce", "test")
                        /\ UNCHANGED <<semaphores, semCounters>>

SemAnnounce(w) == /\ SemGoto(w, "announce", "test")
                  /\ writersIn' = writersIn + 1
                  /\ UNCHANGED <<semaphores, readersIn>>

\* The table is free: on to the writing with semCheck still held.
Test(w) == /\ readersIn = 0
           /\ SemGoto(w, "test", "writing")
           /\ UNCHANGED <<semaphores, semCounters>>

\* Mutant: the writer does not care for the readers.
TestTakenRash(w) == /\ readersIn > 0
                    /\ SemGoto(w, "test", "writing")
                    /\ UNCHANGED <<semaphores, semCounters>>

TestTaken(w) == /\ readersIn > 0
                /\ SemGoto(w, "test", "yield")
                /\ UNCHANGED <<semaphores, semCounters>>

Yield(w) == /\ SemGoto(w, "yield", "await")
            /\ CheckV
            /\ UNCHANGED semCounters

Await(w) == /\ semWait > 0
            /\ SemGoto(w, "await", "writing")
            /\ semWait' = semWait - 1
            /\ UNCHANGED <<semWriter, semCheck, semCounters>>

EndWriting(w) == /\ SemGoto(w, "writing", "release")
                 /\ writersIn' = writersIn - 1
                 /\ UNCHANGED <<semaphores, readersIn>>

Release(w) == /\ SemGoto(w, "release", "releaseWriter")
              /\ CheckV
              /\ UNCHANGED semCounters

ReleaseWriter(w) == /\ SemGoto(w, "releaseWriter", "idle")
                    /\ semWriter' = semWriter + 1
                    /\ UNCHANGED <<semWait, semCheck, semCounters>>

SemWriter(w) == \/ SemEnterWriter(w) \/ CheckWriter(w) \/ SemAnnounce(w)
                \/ Test(w) \/ TestTaken(w) \/ Yield(w) \/ Await(w)
                \/ EndWriting(w) \/ Release(w) \/ ReleaseWriter(w)

-----------------------------------------------------------------------------
SemNext == \/ \E r \in Readers : SemReader(r)
           \/ \E w \in Writers : SemWriter(w)

SemSpec == SemInit /\ [][SemNext]_semVars

\* Every thread goes on, and one that keeps asking for a semaphore which becomes
\* free again and again gets it in the end (an assumption about the scheduler).
SemFairness == /\ \A r \in Readers : SF_semVars(SemReader(r))
               /\ \A w \in Writers : SF_semVars(SemWriter(w))

-----------------------------------------------------------------------------
\* The threads that read or hold the counter up, and the writer past semWriter.
SemReadingNow == {r \in Readers : semPc[r] \in {"admit", "reading", "leave"}}
SemWritingNow == {w \in Writers : semPc[w] = "writing"}
SemAnnounced == {w \in Writers : semPc[w] \in {"test", "yield", "await", "writing"}}

SemTypeOK == /\ semWait \in 0 .. 1 /\ semWriter \in 0 .. 1 /\ semCheck \in 0 .. 1
             /\ readersIn \in Nat /\ writersIn \in Nat
             /\ semPc \in [Threads -> SemReaderLabels \cup SemWriterLabels]
             /\ \A r \in Readers : semPc[r] \in SemReaderLabels
             /\ \A w \in Writers : semPc[w] \in SemWriterLabels

\* The threads that own semCheck: the one that took it, or the writer to which
\* the last reader handed it.
Owners == {r \in Readers : semPc[r] \in {"arrive", "admit", "leave", "pass"}}
            \cup {w \in Writers : semPc[w] \in {"announce", "test", "yield",
                                             "writing", "release"}}

\* semCheck is a baton: it lies free, or travels through semWait, or has one
\* owner, and never two of these at once (main.c:76-78, 90-96, 109-116, 127).
OneBaton == /\ semCheck + semWait <= 1
            /\ semCheck + semWait = 1 => Owners = {}
            /\ \A s, t \in Owners : s = t

\* Types, and one baton.
BatonOK == SemTypeOK /\ OneBaton

\* A writer never shares the table (main.c:92-96, 113-116).
SemExclusion == /\ \A v, w \in SemWritingNow : v = w
                /\ SemWritingNow # {} => SemReadingNow = {}

\* The writer that waits is never forgotten: when nobody reads any more the
\* baton is on its way to it, in semWait or in the hands of the last reader;
\* and nothing is left in semWait for a writer that does not wait
\* (main.c:91-96, 113-116).
WriterNotForgotten ==
    /\ \A w \in Writers :
          semPc[w] = "await" /\ SemReadingNow = {} =>
             \/ semWait = 1
             \/ \E r \in Readers : semPc[r] \in {"arrive", "pass"}
    /\ semWait = 1 => /\ SemReadingNow = {}
                      /\ \E w \in Writers : semPc[w] = "await"

\* Seen from the table, the semaphores are the readers-writers object.
SemTable == INSTANCE ReadersWriters WITH reading <- SemReadingNow, writing <- SemWritingNow

SemTableSpec == SemTable!Spec

\* The readers are favoured: whoever wants to read gets to, however many
\* writers compete (main.c:1, cw09/Zadanie9).
ReadersServed == \A r \in Readers : []<>(semPc[r] = "reading")
=============================================================================
