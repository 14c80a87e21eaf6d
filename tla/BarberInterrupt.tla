--------------------------- MODULE BarberInterrupt ---------------------------
(***************************************************************************)
(* Barber with processes that SIGINT ends.  Both programs install           *)
(* intHandler, which calls exit(2), and leave SIGINT unblocked everywhere,  *)
(* in sigsuspend too.  The semaphore operations carry no SEM_UNDO: a client *)
(* that ends gives nothing back, and neither its place in the queue nor the *)
(* signal it waits for is withdrawn.  The barber removes the semaphores     *)
(* when he ends; the shared memory stays until the last client has gone.    *)
(***************************************************************************)
EXTENDS Barber

CONSTANT InterruptAt   \* the labels at which the signal may reach a client

ASSUME InterruptAssumption == InterruptAt \subseteq ClientLabels \ {"done"}

End(c) == cpc' = [cpc EXCEPT ![c] = "interrupted"]

Interrupt(c) == /\ cpc[c] \in InterruptAt
                /\ End(c)
                /\ UNCHANGED <<fifo, sem, barberVars, res, cuts, pending>>

\* intHandler and cleanAtExit of the barber.
InterruptBarber == /\ bpc \in BarberLabels
                   /\ bpc' = "interrupted"
                   /\ UNCHANGED <<fifo, sem, toCut, clientVars, pending>>

Removed == bpc = "interrupted"

AtSemaphore(c) == cpc[c] \in {"check", "lock", "stat", "wake1", "wake2", "unlock", "uncheck"}

\* semop or semctl fails, where the client was waiting or when it calls it.
Error(c) == /\ Removed /\ AtSemaphore(c)
            /\ End(c)
            /\ UNCHANGED <<fifo, sem, barberVars, res, cuts, pending>>

Go(c) == \/ ClientNext(c) /\ ~(Removed /\ AtSemaphore(c))
         \/ Error(c)

\* Nobody will signal it any more.
LeftWaiting(c) == Removed /\ cpc[c] = "suspend" /\ pending[c] = 0

AllGone == \A c \in Client : cpc[c] \in {"done", "interrupted"} \/ LeftWaiting(c)

ClosedEarly == /\ AllGone
               /\ Removed \/ (~Bred /\ bpc = "sleep" /\ sem["BARBER"] = 0)
               /\ UNCHANGED vars

InterruptNext == \/ BarberNext \/ InterruptBarber
                 \/ \E c \in Client : Go(c) \/ Interrupt(c)
                 \/ Closed \/ ClosedEarly

InterruptSpec == Init /\ [][InterruptNext]_vars

\* The processes go on as in Barber; nothing is assumed about the signals.
InterruptFairness == /\ SF_vars(BarberNext)
                     /\ \A c \in Client : SF_vars(Go(c))

-----------------------------------------------------------------------------
\* "Synchronizacja procesow musi wykluczac zakleszczenia" (cw07/Zadanie7: the
\* synchronisation must rule deadlocks out): as long as the barber and a client are
\* left, the barber or a client can go on.
NoDeadlock == \/ AllGone \/ Removed
              \/ ENABLED BarberNext
              \/ \E c \in Client : ENABLED Go(c)

\* When the signal arrives at a client that holds neither CHECK nor FIFO, the
\* others still get all their cuts: the barber pops and signals a pid that no
\* longer exists, ignores the failure of kill (barber.c:112) and goes on.  When it
\* arrives at the barber, wherever he is, every client ends, with an error or a
\* last cut, except those that wait for a signal he has not sent: they are left
\* waiting (barber.c:147-154, breeder.c:97-122).
SurvivorsServed == <>AllGone
=============================================================================
