----------------------------- MODULE BarberShop -----------------------------
(***************************************************************************)
(* What cw07 promises of its two barber shops (cw07/Zadanie7): one barber,  *)
(* who sleeps only when nobody waits and is woken by the client who finds   *)
(* him asleep; a waiting room of Chairs seats served in order of arrival; a *)
(* client is turned away only when every seat is taken, and gets up again   *)
(* after exactly one cut.                                                   *)
(***************************************************************************)
EXTENDS Integers, Sequences

CONSTANTS Client, NoPid, Chairs, CutsNumber

VARIABLES asleep,    \* the barber sleeps
          chair,     \* the client in the barber's chair, or NoPid
          queue,     \* the clients in the waiting room, longest waiting first
          finished,  \* the clients whose cut is finished, still to get up
          away,      \* the clients that were turned away, still to leave
          cuts       \* the cuts each client has got

vars == <<asleep, chair, queue, finished, away, cuts>>

InShop(c) == \/ c = chair
             \/ \E i \in 1 .. Len(queue) : queue[i] = c
             \/ c \in finished
             \/ c \in away

Init == /\ asleep = TRUE
        /\ chair = NoPid
        /\ queue = <<>>
        /\ finished = {}
        /\ away = {}
        /\ cuts = [c \in Client |-> 0]

\* A client finds the barber asleep, wakes him and sits in his chair.
Wake(c) == /\ ~InShop(c)
           /\ cuts[c] < CutsNumber
           /\ asleep
           /\ asleep' = FALSE
           /\ chair' = c
           /\ UNCHANGED <<queue, finished, away, cuts>>

TakeSeat(c) == /\ ~InShop(c)
               /\ cuts[c] < CutsNumber
               /\ ~asleep
               /\ Len(queue) < Chairs
               /\ queue' = Append(queue, c)
               /\ UNCHANGED <<asleep, chair, finished, away, cuts>>

TurnAway(c) == /\ ~InShop(c)
               /\ cuts[c] < CutsNumber
               /\ ~asleep
               /\ Len(queue) = Chairs
               /\ away' = away \cup {c}
               /\ UNCHANGED <<asleep, chair, queue, finished, cuts>>

Return(c) == /\ c \in away
             /\ away' = away \ {c}
             /\ UNCHANGED <<asleep, chair, queue, finished, cuts>>

FinishCut == /\ chair # NoPid
             /\ finished' = finished \cup {chair}
             /\ chair' = NoPid
             /\ UNCHANGED <<asleep, queue, away, cuts>>

Invite == /\ chair = NoPid
          /\ queue # <<>>
          /\ chair' = Head(queue)
          /\ queue' = Tail(queue)
          /\ UNCHANGED <<asleep, finished, away, cuts>>

FallAsleep == /\ ~asleep
              /\ chair = NoPid
              /\ queue = <<>>
              /\ asleep' = TRUE
              /\ UNCHANGED <<chair, queue, finished, away, cuts>>

GetUp(c) == /\ c \in finished
            /\ finished' = finished \ {c}
            /\ cuts' = [cuts EXCEPT ![c] = @ + 1]
            /\ UNCHANGED <<asleep, chair, queue, away>>

Next == \/ FinishCut \/ Invite \/ FallAsleep
        \/ \E c \in Client : \/ Wake(c) \/ TakeSeat(c) \/ TurnAway(c)
                             \/ Return(c) \/ GetUp(c)

Spec == Init /\ [][Next]_vars
=============================================================================
