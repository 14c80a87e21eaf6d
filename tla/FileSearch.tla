----------------------------- MODULE FileSearch -----------------------------
(***************************************************************************)
(* cw08/zad1: threads that read batches of records from one file under a    *)
(* mutex and search them for a word.  VERSION (a macro, 3 as checked in) is *)
(* how the search ends: 1 and 2, the finder cancels the others, at any      *)
(* instruction or at cancellation points; 3, every thread returns.          *)
(*                                                                          *)
(* Records are numbered; record 0 is an empty buffer.  The loops that       *)
(* cancel test pthread_self and run over threads in order.                  *)
(***************************************************************************)
EXTENDS Naturals, FiniteSets

CONSTANTS ThreadsNo, RecordsNo,   \* arguments: threads, records of a batch
          FileSize,               \* records in the file
          Hits                    \* the records that hold the word

Thread == 0 .. ThreadsNo - 1
Slots == 1 .. RecordsNo
Free == ThreadsNo

VARIABLES VERSION,
          offset,       \* of the open file: the records that have been read
          mutex,        \* the thread that holds it, or Free
          at,           \* where each thread is
          k,            \* each thread's loop variable: a slot or a thread
          buffer,       \* readingBuffer of each thread
          CharsReaded,  \* each thread's CharsReaded_no # 0
          cancelled,    \* threads for which pthread_cancel has been called
          returned      \* threads that have returned from run

vars == <<VERSION, offset, mutex, at, k, buffer, CharsReaded, cancelled, returned>>

Init == /\ VERSION \in 1 .. 3
        /\ offset = 0
        /\ mutex = Free
        /\ at = [t \in Thread |-> "lock"]
        /\ k = [t \in Thread |-> 1]
        /\ buffer = [t \in Thread |-> [s \in Slots |-> 0]]
        /\ CharsReaded = [t \in Thread |-> TRUE]
        /\ cancelled = {}
        /\ returned = {}

Goto(t, from, to, n) == /\ at[t] = from
                        /\ at' = [at EXCEPT ![t] = to]
                        /\ k' = [k EXCEPT ![t] = n]

-----------------------------------------------------------------------------
\* Mutant: the mutex is not taken.
LockSkipped(t) == /\ Goto(t, "lock", "read", 1)
                  /\ UNCHANGED <<VERSION, offset, mutex, buffer, CharsReaded, cancelled,
                                 returned>>

Lock(t) == /\ Goto(t, "lock", "read", 1)
           /\ mutex = Free
           /\ mutex' = t
           /\ UNCHANGED <<VERSION, offset, buffer, CharsReaded, cancelled, returned>>

\* read: at the end of the file it returns 0 and leaves the buffer as it was.  It
\* is a cancellation point.
Read(t) == /\ at[t] = "read"
           /\ ~(VERSION = 2 /\ t \in cancelled)
           /\ offset' = IF offset < FileSize THEN offset + 1 ELSE offset
           /\ buffer' = IF offset < FileSize
                        THEN [buffer EXCEPT ![t][k[t]] = offset + 1] ELSE buffer
           /\ CharsReaded' = [CharsReaded EXCEPT ![t] = offset < FileSize]
           /\ IF k[t] < RecordsNo THEN Goto(t, "read", "read", k[t] + 1)
              ELSE IF VERSION = 1 /\ ~CharsReaded'[t] THEN Goto(t, "read", "endCancel", 0)
              ELSE Goto(t, "read", "unlock", 1)
           /\ UNCHANGED <<VERSION, mutex, cancelled, returned>>

\* Mutant: the mutex is given back only in the loop that cancels.
UnlockForgotten(t) ==
    /\ Goto(t, "unlock", IF VERSION = 2 THEN "testcancel" ELSE "search", 1)
    /\ UNCHANGED <<VERSION, offset, mutex, buffer, CharsReaded, cancelled, returned>>

Unlock(t) == /\ Goto(t, "unlock", IF VERSION = 2 THEN "testcancel" ELSE "search", 1)
             /\ mutex' = Free
             /\ UNCHANGED <<VERSION, offset, buffer, CharsReaded, cancelled, returned>>

\* usleep and pthread_testcancel.
TestCancel(t) == /\ Goto(t, "testcancel", "search", 1)
                 /\ t \notin cancelled
                 /\ UNCHANGED <<VERSION, offset, mutex, buffer, CharsReaded, cancelled,
                                returned>>

\* The records of the batch in which the word is found.
Found(t) == {s \in Slots : buffer[t][s] \in Hits}

\* Version 3 prints every hit and returns after this one batch.
SearchOnce(t) == /\ VERSION = 3
                 /\ Goto(t, "search", "gone", 1)
                 /\ returned' = returned \cup {t}
                 /\ UNCHANGED <<VERSION, offset, mutex, buffer, CharsReaded, cancelled>>

\* Versions 1 and 2 print the first hit and cancel the others.
SearchOn(t) == /\ VERSION # 3
               /\ IF Found(t) = {} THEN Goto(t, "search", "lock", 1)
                  ELSE Goto(t, "search", "cancel", 0)
               /\ UNCHANGED <<VERSION, offset, mutex, buffer, CharsReaded, cancelled,
                              returned>>

\* pthread_cancel; for a thread that has ended it makes no difference.
CancelOther(t) == /\ at[t] \in {"cancel", "endCancel"}
                  /\ k[t] \in Thread
                  /\ cancelled' = IF k[t] = t THEN cancelled ELSE cancelled \cup {k[t]}
                  /\ k' = [k EXCEPT ![t] = @ + 1]
                  /\ UNCHANGED <<VERSION, offset, mutex, at, buffer, CharsReaded, returned>>

\* The last statement of both loops; at the end of the file the mutex is given back.
Return(t) == /\ at[t] \in {"cancel", "endCancel"} /\ k[t] = ThreadsNo
             /\ Goto(t, at[t], "gone", 1)
             /\ mutex' = IF at[t] = "endCancel" THEN Free ELSE mutex
             /\ returned' = returned \cup {t}
             /\ UNCHANGED <<VERSION, offset, buffer, CharsReaded, cancelled>>

\* A cancelled thread ends: anywhere in version 1; in version 2 in read, usleep
\* and pthread_testcancel, and perhaps in printf.  A mutex it holds stays locked.
\* Version 3 cancels nobody.
Die(t) == /\ t \in cancelled /\ at[t] # "gone"
          /\ \/ VERSION = 1
             \/ VERSION = 2 /\ \/ at[t] \in {"read", "testcancel"}
                               \/ at[t] = "cancel" /\ k[t] = 0
          /\ Goto(t, at[t], "gone", 1)
          /\ UNCHANGED <<VERSION, offset, mutex, buffer, CharsReaded, cancelled, returned>>

Run(t) == \/ Lock(t) \/ Read(t) \/ Unlock(t) \/ TestCancel(t) \/ SearchOnce(t)
          \/ SearchOn(t) \/ CancelOther(t) \/ Return(t) \/ Die(t)

\* A thread that was cancelled with the mutex in its hands.
MutexLost == mutex # Free /\ at[mutex] = "gone"

\* Everybody has ended, or waits for the mutex of a dead thread.
Stopped == /\ \A t \in Thread : at[t] = "gone" \/ (at[t] = "lock" /\ MutexLost)
           /\ UNCHANGED vars

Next == (\E t \in Thread : Run(t)) \/ Stopped

Spec == Init /\ [][Next]_vars

-----------------------------------------------------------------------------
\* A batch is a run of the file: with the mutex held nobody else moves the file
\* offset, so the records of a thread that has just read a whole batch follow one
\* another, and no record is in the buffers of two threads (main.c:91-99).
BatchesAreRuns ==
    /\ \A t \in Thread : at[t] \in {"unlock", "search"} /\ CharsReaded[t] =>
          \A s \in Slots : buffer[t][s] = buffer[t][1] + s - 1
    /\ \A t, u \in Thread : t # u =>
          \A s, r \in Slots : buffer[t][s] = buffer[u][r] => buffer[t][s] = 0
=============================================================================
