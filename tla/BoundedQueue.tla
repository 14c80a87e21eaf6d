---------------------------- MODULE BoundedQueue ----------------------------
(***************************************************************************)
(* What the waiting room promises: a first-in first-out queue of at most    *)
(* Capacity processes that refuses a process exactly when it is full and    *)
(* hands out the longest waiting one.                                       *)
(***************************************************************************)
EXTENDS Integers, Sequences

CONSTANTS Client, Capacity, Full, Empty, Ok

VARIABLES queue,    \* the waiting processes
          answer    \* what the last operation returned

vars == <<queue, answer>>

Init == /\ queue = <<>>
        /\ answer = Ok

Put(p) == /\ Len(queue) < Capacity
          /\ queue' = Append(queue, p)
          /\ answer' = Ok

Refuse == /\ Len(queue) = Capacity
          /\ answer' = Full
          /\ UNCHANGED queue

Take == /\ queue # <<>>
        /\ answer' = Head(queue)
        /\ queue' = Tail(queue)

TakeNothing == /\ queue = <<>>
               /\ answer' = Empty
               /\ UNCHANGED queue

Next == \/ \E p \in Client : Put(p)
        \/ Refuse
        \/ Take
        \/ TakeNothing

Spec == Init /\ [][Next]_vars
=============================================================================
