----------------------------- MODULE RWMutexCond -----------------------------
(***************************************************************************)
(* The readers and writers of cw09/zad1a: a monitor of one mutex and one    *)
(* condition variable that favours the writers.  One action per statement   *)
(* on the shared state; the label of an action is the value of pc that      *)
(* enables it.                                                              *)
(*                                                                          *)
(* A thread at "waiting" is in pthread_cond_wait, which gives up the mutex  *)
(* in the step that begins the wait.  It leaves by a broadcast or, as POSIX *)
(* allows, spontaneously, and takes the mutex again ("awake") before it     *)
(* tests its condition once more.                                           *)
(***************************************************************************)
EXTENDS TableThreads

CONSTANT Nobody   \* the mutex is free

ASSUME NobodyAssumption == Nobody \notin Threads

VARIABLES mutex,            \* the thread that holds the mutex, or Nobody
          readers,          \* the counter of the threads that read
          writers,          \* the counter of the threads that write
          writersInQueue,   \* the counter of the writers that write or want to
          pc                \* where each thread is

vars == <<mutex, readers, writers, writersInQueue, pc>>
counters == <<readers, writers, writersInQueue>>

ReaderLabels == {"idle", "test", "waiting", "awake", "admitted", "using",
                 "leave", "broadcast", "unlock"}
WriterLabels == ReaderLabels \cup {"announce", "withdraw"}

Init == /\ mutex = Nobody
        /\ readers = 0
        /\ writers = 0
        /\ writersInQueue = 0
        /\ pc = [t \in Threads |-> "idle"]

-----------------------------------------------------------------------------
Goto(t, from, to) == /\ pc[t] = from
                     /\ pc' = [pc EXCEPT ![t] = to]

LockMutex(t) == /\ mutex = Nobody
                /\ mutex' = t

UnlockMutex == mutex' = Nobody

\* Mutant: pthread_cond_signal in place of the broadcast.
SignalOne(t) ==
    /\ pc[t] = "broadcast"
    /\ \/ /\ \E s \in Threads : pc[s] = "waiting"
          /\ \E s \in Threads : /\ pc[s] = "waiting"
                                /\ pc' = [pc EXCEPT ![s] = "awake", ![t] = "unlock"]
       \/ /\ \A s \in Threads : pc[s] # "waiting"
          /\ pc' = [pc EXCEPT ![t] = "unlock"]
    /\ UNCHANGED <<mutex, counters>>

\* pthread_cond_broadcast: every thread in the wait leaves it, and the caller
\* goes on.
Broadcast(t) ==
    /\ pc[t] = "broadcast"
    /\ pc' = [s \in Threads |-> IF s = t THEN "unlock"
                                ELSE IF pc[s] = "waiting" THEN "awake" ELSE pc[s]]
    /\ UNCHANGED <<mutex, counters>>

\* A spurious wake-up.
Spurious(t) == /\ Goto(t, "waiting", "awake")
               /\ UNCHANGED <<mutex, counters>>

\* The end of pthread_cond_wait.
Relock(t) == /\ Goto(t, "awake", "test")
             /\ LockMutex(t)
             /\ UNCHANGED counters

\* pthread_cond_wait, called with the mutex held.
BeginWait(t) == /\ Goto(t, "test", "waiting")
                /\ UnlockMutex
                /\ UNCHANGED counters

\* The mutex is released before the table is used, and again at the end.
Admitted(t) == /\ Goto(t, "admitted", "using")
               /\ UnlockMutex
               /\ UNCHANGED counters

FinishUse(t) == /\ Goto(t, "using", "leave")
                /\ LockMutex(t)
                /\ UNCHANGED counters

Unlock(t) == /\ Goto(t, "unlock", "idle")
             /\ UnlockMutex
             /\ UNCHANGED counters

Common(t) == \/ Broadcast(t) \/ Relock(t) \/ Admitted(t)
             \/ FinishUse(t) \/ Unlock(t)

-----------------------------------------------------------------------------
(* rFunc *)

EnterReader(r) == /\ Goto(r, "idle", "test")
                  /\ LockMutex(r)
                  /\ UNCHANGED counters

WaitReader(r) == writersInQueue # 0 /\ BeginWait(r)

\* Mutant: a reader waits for the writer that writes only.
AdmitReaderLate(r) == /\ writers = 0
                      /\ Goto(r, "test", "admitted")
                      /\ readers' = readers + 1
                      /\ UNCHANGED <<mutex, writers, writersInQueue>>

AdmitReader(r) == /\ writersInQueue = 0
                  /\ Goto(r, "test", "admitted")
                  /\ readers' = readers + 1
                  /\ UNCHANGED <<mutex, writers, writersInQueue>>

\* Mutant: the reader leaves without the broadcast.
LeaveReaderQuietly(r) == /\ Goto(r, "leave", "unlock")
                         /\ readers' = readers - 1
                         /\ UNCHANGED <<mutex, writers, writersInQueue>>

LeaveReader(r) == /\ Goto(r, "leave", "broadcast")
                  /\ readers' = readers - 1
                  /\ UNCHANGED <<mutex, writers, writersInQueue>>

Reader(r) == \/ EnterReader(r) \/ WaitReader(r) \/ AdmitReader(r)
             \/ LeaveReader(r) \/ Common(r)

-----------------------------------------------------------------------------
(* wFunc *)

EnterWriter(w) == /\ Goto(w, "idle", "announce")
                  /\ LockMutex(w)
                  /\ UNCHANGED counters

Announce(w) == /\ Goto(w, "announce", "test")
               /\ writersInQueue' = writersInQueue + 1
               /\ UNCHANGED <<mutex, readers, writers>>

WaitWriter(w) == (readers # 0 \/ writers # 0) /\ BeginWait(w)

\* Mutant: the writer looks at the writers only.
AdmitWriterNoTest(w) == /\ writers = 0
                        /\ Goto(w, "test", "admitted")
                        /\ writers' = writers + 1
                        /\ UNCHANGED <<mutex, readers, writersInQueue>>

AdmitWriter(w) == /\ readers = 0 /\ writers = 0
                  /\ Goto(w, "test", "admitted")
                  /\ writers' = writers + 1
                  /\ UNCHANGED <<mutex, readers, writersInQueue>>

LeaveWriter(w) == /\ Goto(w, "leave", "withdraw")
                  /\ writers' = writers - 1
                  /\ UNCHANGED <<mutex, readers, writersInQueue>>

\* Mutant: the writer does not withdraw its announcement.
WithdrawForgotten(w) == /\ Goto(w, "withdraw", "broadcast")
                        /\ UNCHANGED <<mutex, counters>>

Withdraw(w) == /\ Goto(w, "withdraw", "broadcast")
               /\ writersInQueue' = writersInQueue - 1
               /\ UNCHANGED <<mutex, readers, writers>>

Writer(w) == \/ EnterWriter(w) \/ Announce(w) \/ WaitWriter(w) \/ AdmitWriter(w)
             \/ LeaveWriter(w) \/ Withdraw(w) \/ Common(w)

-----------------------------------------------------------------------------
Next == \/ \E r \in Readers : Reader(r)
        \/ \E w \in Writers : Writer(w)
        \/ \E t \in Threads : Spurious(t)

Spec == Init /\ [][Next]_vars

\* Every thread goes on, and one that keeps asking for the mutex gets it in the
\* end (an assumption about the scheduler: a futex does not promise it).  No
\* fairness for spurious wake-ups: the program must not need them.
Fairness == /\ \A r \in Readers : SF_vars(Reader(r))
            /\ \A w \in Writers : SF_vars(Writer(w))

-----------------------------------------------------------------------------
HoldsMutex(t) == pc[t] \in {"test", "admitted", "leave", "broadcast", "unlock",
                            "announce", "withdraw"}
ReadingNow == {r \in Readers : pc[r] \in {"admitted", "using", "leave"}}
WritingNow == {w \in Writers : pc[w] \in {"admitted", "using", "leave"}}
Announced == {w \in Writers : pc[w] \in {"test", "waiting", "awake", "admitted",
                                         "using", "leave", "withdraw"}}

TypeOK == /\ mutex \in Threads \cup {Nobody}
          /\ readers \in Nat /\ writers \in Nat /\ writersInQueue \in Nat
          /\ pc \in [Threads -> WriterLabels]
          /\ \A r \in Readers : pc[r] \in ReaderLabels

\* The three counters say what the threads really do, whatever the order in
\* which they come and go (main.c:76, 91, 105, 109, 122-123).
CountersExact == /\ readers = Cardinality(ReadingNow)
                 /\ writers = Cardinality(WritingNow)
                 /\ writersInQueue = Cardinality(Announced)

\* Types, and counters that count.
CountersOK == TypeOK /\ CountersExact

\* A writer never shares the table, neither with another writer nor with a
\* reader (main.c:73-76, 106-109).
Exclusion == /\ \A v, w \in WritingNow : v = w
             /\ WritingNow # {} => ReadingNow = {}

\* No wake-up is lost: a thread that stays in pthread_cond_wait although its
\* condition has come true will get a broadcast, since the thread that made it
\* true still holds the mutex and is on its way to line 92 or 124.
NoLostWakeUp ==
    LET OnItsWay == \E t \in Threads : pc[t] \in {"withdraw", "broadcast"}
    IN /\ \A r \in Readers : pc[r] = "waiting" /\ Announced = {} => OnItsWay
       /\ \A w \in Writers :
             pc[w] = "waiting" /\ ReadingNow = {} /\ WritingNow = {} => OnItsWay

\* No reader is let in once a writer has announced itself: the variant that
\* favours the writers (main.c:1, cw09/Zadanie9).
WritersFirst ==
    [][\A r \in Readers : r \in ReadingNow' \ ReadingNow => Announced = {}]_vars

\* Seen from the table, the monitor is the readers-writers object.
Table == INSTANCE ReadersWriters WITH
             reading <- {r \in Readers : pc[r] \in {"admitted", "using"}},
             writing <- {w \in Writers : pc[w] \in {"admitted", "using"}}

TableSpec == Table!Spec

\* As long as writers want the table, one of them gets it, however many readers
\* come and go.
SomeWriterWrites == Announced # {} ~> \E w \in Writers : pc[w] = "using"
=============================================================================
