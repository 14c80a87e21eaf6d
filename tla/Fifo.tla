-------------------------------- MODULE Fifo --------------------------------
(***************************************************************************)
(* The waiting room of the barber shop: the ring of cw07/zad1/fifo.c (the   *)
(* file of cw07/zad2 has the same functions), kept in shared memory.  Only  *)
(* constant-level operators: a queue is a record, and an operator returns   *)
(* the queue the C function leaves behind.                                  *)
(*                                                                          *)
(* head is the slot of the longest waiting process, or -1 when nobody       *)
(* waits; tail is the next slot to fill; head = tail means full.  chair is  *)
(* the process last invited to the barber's chair.                          *)
(***************************************************************************)
EXTENDS Integers, Sequences

CONSTANTS Client,   \* the processes that may be queued
          NoPid,    \* what is no process: the 0 of fifoInit, the -1 of popFifo
          Chairs    \* the field max: the command-line argument of the barber

\* barber.c:25 accepts 2..100 chairs; the ring needs only one slot.
ASSUME FifoAssumption == /\ NoPid \notin Client
                         /\ Chairs \in Nat \ {0}

Slot == 0 .. Chairs - 1

FifoType == [head  : Slot \cup {-1},
             tail  : Slot,
             chair : Client \cup {NoPid},
             tab   : [Slot -> Client \cup {NoPid}]]

fifoInit == [head  |-> -1,
             tail  |-> 0,
             chair |-> NoPid,
             tab   |-> [i \in Slot |-> NoPid]]

isEmptyFifo(f) == f.head = -1

isFullFifo(f) == f.head = f.tail

\* The increment and wrap-around of an index.
Advance(i) == IF i + 1 = Chairs THEN 0 ELSE i + 1

\* Mutant: the emptied ring is not marked empty.
popFifoNoReset(f) == [head  |-> Advance(f.head),
                      tail  |-> f.tail,
                      chair |-> f.tab[f.head],
                      tab   |-> f.tab]

\* A pop of a queue that is not empty.  The process that leaves the queue is
\* the new value of chair, which is also what the function returns.
popFifo(f) ==
    LET next == Advance(f.head)
    IN [head  |-> IF next = f.tail THEN -1 ELSE next,
        tail  |-> f.tail,
        chair |-> f.tab[f.head],
        tab   |-> f.tab]

\* Mutant: the first process to arrive does not move the head off -1.
pushFifoNoHead(f, x) == [head  |-> f.head,
                         tail  |-> Advance(f.tail),
                         chair |-> f.chair,
                         tab   |-> [f.tab EXCEPT ![f.tail] = x]]

\* A push on a queue that is not full.
pushFifo(f, x) == [head  |-> IF isEmptyFifo(f) THEN f.tail ELSE f.head,
                   tail  |-> Advance(f.tail),
                   chair |-> f.chair,
                   tab   |-> [f.tab EXCEPT ![f.tail] = x]]

-----------------------------------------------------------------------------
(* What the ring stands for. *)

Length(f) == IF isEmptyFifo(f) THEN 0
             ELSE IF f.head < f.tail THEN f.tail - f.head
             ELSE f.tail - f.head + Chairs

\* The slot k places behind the head.
SlotOf(f, k) == IF f.head + k < Chairs THEN f.head + k ELSE f.head + k - Chairs

\* The waiting processes, the one to be served next first.
Contents(f) == [i \in 1 .. Length(f) |-> f.tab[SlotOf(f, i - 1)]]
=============================================================================
