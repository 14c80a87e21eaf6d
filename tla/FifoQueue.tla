------------------------------ MODULE FifoQueue ------------------------------
(***************************************************************************)
(* The ring of Fifo driven by one caller at a time: the calls of popFifo    *)
(* and pushFifo that the FIFO semaphore serialises.  It is shown to be a    *)
(* bounded first-in first-out queue.                                        *)
(***************************************************************************)
EXTENDS Fifo

CONSTANTS Full, Empty, Ok   \* the results -1 of pushFifo, -1 of popFifo, 0

VARIABLES ring,     \* the ring in shared memory
          answer    \* what the last call returned

ringVars == <<ring, answer>>

RingInit == /\ ring = fifoInit
            /\ answer = Ok

PushCall(p) == /\ ~isFullFifo(ring)
               /\ ring' = pushFifo(ring, p)
               /\ answer' = Ok

PushRefused == /\ isFullFifo(ring)
               /\ answer' = Full
               /\ UNCHANGED ring

PopCall == /\ ~isEmptyFifo(ring)
           /\ ring' = popFifo(ring)
           /\ answer' = ring'.chair

PopRefused == /\ isEmptyFifo(ring)
              /\ answer' = Empty
              /\ UNCHANGED ring

RingNext == \/ \E p \in Client : PushCall(p)
            \/ PushRefused
            \/ PopCall
            \/ PopRefused

RingSpec == RingInit /\ [][RingNext]_ringVars

-----------------------------------------------------------------------------
\* The ring stays a ring, and every slot between head and tail holds a process
\* rather than the initial value or a slot never written (fifo.c:21-41).
RingOK == /\ ring \in FifoType
          /\ Contents(ring) \in Seq(Client)

\* Through the wrap-around and the reuse of slots, pushFifo and popFifo behave
\* as a bounded first-in first-out queue of Chairs processes: nobody is
\* dropped, doubled or overtaken, and a push is refused only when Chairs
\* processes wait (fifo.c:21-41).
Queue == INSTANCE BoundedQueue WITH queue <- Contents(ring), Capacity <- Chairs

QueueSpec == Queue!Spec
=============================================================================
