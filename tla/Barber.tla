------------------------------- MODULE Barber -------------------------------
(***************************************************************************)
(* The sleeping barber of cw07/zad1 (System V semaphores and shared         *)
(* memory): the process of barber.c, which never ends by itself, and the    *)
(* clients that breeder.c forks.  One action per access to shared state;    *)
(* the label of an action is the value of bpc or cpc that enables it.       *)
(*                                                                          *)
(* A semop with -1 waits until the value is positive; sem is the set of     *)
(* semaphores SID.  A SIGRTMIN that kill sends is queued (it is a real-time *)
(* signal and the clients block it) until the client calls sigsuspend.      *)
(***************************************************************************)
EXTENDS Fifo   \* Client: the children of every breeder; Chairs: the argument
               \* of barber.out

CONSTANT CutsNumber   \* argument of breeder.out

ASSUME BarberAssumption == CutsNumber \in Nat \ {0}

VARIABLES fifo,      \* shared memory: the ring and the chair
          sem,       \* the values of the semaphores
          bpc,       \* where the barber is
          toCut,     \* the barber's variable: whom he cuts
          cpc,       \* where each client is
          res,       \* each client's variable: what takePlace returned
          cuts,      \* cutsCounter of each client
          pending    \* the SIGRTMIN signals queued for each client

vars == <<fifo, sem, bpc, toCut, cpc, res, cuts, pending>>

barberVars == <<bpc, toCut>>
clientVars == <<cpc, res, cuts>>

BarberLabels == {"sleep", "chairLock", "chairRead", "chairRelease", "cut",
                 "loopLock", "pop", "popRelease", "goSleep", "sleepRelease"}
ClientLabels == {"test", "check", "lock", "stat", "wake1", "wake2", "sit",
                 "push", "unlock", "uncheck", "suspend", "done"}

Woke == 1          \* what takePlace returns: the client woke the barber,
Seated == 0        \* took a place in the queue,
TurnedAway == -1   \* or found none

Init == /\ fifo = fifoInit
        /\ sem = [BARBER |-> 0, FIFO |-> 1, CHECK |-> 1]
        /\ bpc = "sleep"
        /\ toCut = NoPid
        /\ cpc = [c \in Client |-> "test"]
        /\ res = [c \in Client |-> TurnedAway]
        /\ cuts = [c \in Client |-> 0]
        /\ pending = [c \in Client |-> 0]

-----------------------------------------------------------------------------
\* semop with sem_op -1, which may block, and with sem_op 1.
P(s) == /\ sem[s] > 0
        /\ sem' = [sem EXCEPT ![s] = @ - 1]

V(s) == sem' = [sem EXCEPT ![s] = @ + 1]

BarberGoto(from, to) == /\ bpc = from
                        /\ bpc' = to

ClientGoto(c, from, to) == /\ cpc[c] = from
                           /\ cpc' = [cpc EXCEPT ![c] = to]

-----------------------------------------------------------------------------
(* The barber: startWork, takeChair, cut. *)

WakeUp == /\ BarberGoto("sleep", "chairLock")
          /\ P("BARBER")
          /\ UNCHANGED <<fifo, toCut, clientVars, pending>>

ChairLock == /\ BarberGoto("chairLock", "chairRead")
             /\ P("FIFO")
             /\ UNCHANGED <<fifo, toCut, clientVars, pending>>

ChairRead == /\ BarberGoto("chairRead", "chairRelease")
             /\ toCut' = fifo.chair
             /\ UNCHANGED <<fifo, sem, clientVars, pending>>

ChairRelease == /\ BarberGoto("chairRelease", "cut")
                /\ V("FIFO")
                /\ UNCHANGED <<fifo, toCut, clientVars, pending>>

\* Mutant: the cut client is not signalled.
CutUnsignalled == /\ BarberGoto("cut", "loopLock")
                  /\ UNCHANGED <<fifo, sem, toCut, clientVars, pending>>

\* Mutant: a kill that fails ends the barber, as every other failing call does.
CutOrEnd ==
    /\ bpc = "cut"
    /\ bpc' = IF cpc[toCut] = "interrupted" THEN "ended" ELSE "loopLock"
    /\ pending' = [pending EXCEPT ![toCut] = @ + 1]
    /\ UNCHANGED <<fifo, sem, toCut, clientVars>>

\* kill(toCut, SIGRTMIN); its result is not looked at.
Cut == /\ BarberGoto("cut", "loopLock")
       /\ pending' = [pending EXCEPT ![toCut] = @ + 1]
       /\ UNCHANGED <<fifo, sem, toCut, clientVars>>

LoopLock == /\ BarberGoto("loopLock", "pop")
            /\ P("FIFO")
            /\ UNCHANGED <<fifo, toCut, clientVars, pending>>

PopNext == /\ ~isEmptyFifo(fifo)
           /\ BarberGoto("pop", "popRelease")
           /\ fifo' = popFifo(fifo)
           /\ toCut' = fifo'.chair
           /\ UNCHANGED <<sem, clientVars, pending>>

PopNobody == /\ isEmptyFifo(fifo)
             /\ BarberGoto("pop", "goSleep")
             /\ toCut' = NoPid
             /\ UNCHANGED <<fifo, sem, clientVars, pending>>

PopRelease == /\ BarberGoto("popRelease", "cut")
              /\ V("FIFO")
              /\ UNCHANGED <<fifo, toCut, clientVars, pending>>

\* Mutant: the barber goes to sleep without taking the unit back.
GoSleepSkipped == /\ BarberGoto("goSleep", "sleepRelease")
                  /\ UNCHANGED <<fifo, sem, toCut, clientVars, pending>>

\* The barber takes back the second unit of the client who woke him.
GoSleep == /\ BarberGoto("goSleep", "sleepRelease")
           /\ P("BARBER")
           /\ UNCHANGED <<fifo, toCut, clientVars, pending>>

SleepRelease == /\ BarberGoto("sleepRelease", "sleep")
                /\ V("FIFO")
                /\ UNCHANGED <<fifo, toCut, clientVars, pending>>

BarberNext == \/ WakeUp \/ ChairLock \/ ChairRead \/ ChairRelease \/ Cut
              \/ LoopLock \/ PopNext \/ PopNobody \/ PopRelease
              \/ GoSleep \/ SleepRelease

-----------------------------------------------------------------------------
(* A client: getCut, takePlace. *)

TestCuts(c) == /\ ClientGoto(c, "test",
                             IF cuts[c] < CutsNumber THEN "check" ELSE "done")
               /\ UNCHANGED <<fifo, sem, barberVars, res, cuts, pending>>

Check(c) == /\ ClientGoto(c, "check", "lock")
            /\ P("CHECK")
            /\ UNCHANGED <<fifo, barberVars, res, cuts, pending>>

\* Mutant: the client does not take the FIFO semaphore.
LockSkipped(c) == /\ ClientGoto(c, "lock", "stat")
                  /\ UNCHANGED <<fifo, sem, barberVars, res, cuts, pending>>

Lock(c) == /\ ClientGoto(c, "lock", "stat")
           /\ P("FIFO")
           /\ UNCHANGED <<fifo, barberVars, res, cuts, pending>>

\* Mutant: the unit of a working barber is overlooked.
StatOffByOne(c) ==
    /\ ClientGoto(c, "stat", IF sem["BARBER"] <= 1 THEN "wake1" ELSE "push")
    /\ UNCHANGED <<fifo, sem, barberVars, res, cuts, pending>>

\* semctl(GETVAL): a semaphore of value 0 means a sleeping barber.
Stat(c) == /\ ClientGoto(c, "stat", IF sem["BARBER"] = 0 THEN "wake1" ELSE "push")
           /\ UNCHANGED <<fifo, sem, barberVars, res, cuts, pending>>

Wake1(c) == /\ ClientGoto(c, "wake1", "wake2")
            /\ V("BARBER")
            /\ UNCHANGED <<fifo, barberVars, res, cuts, pending>>

Wake2(c) == /\ ClientGoto(c, "wake2", "sit")
            /\ V("BARBER")
            /\ UNCHANGED <<fifo, barberVars, res, cuts, pending>>

Sit(c) == /\ ClientGoto(c, "sit", "unlock")
          /\ fifo' = [fifo EXCEPT !.chair = c]
          /\ res' = [res EXCEPT ![c] = Woke]
          /\ UNCHANGED <<sem, barberVars, cuts, pending>>

Push(c) == /\ ~isFullFifo(fifo)
           /\ ClientGoto(c, "push", "unlock")
           /\ fifo' = pushFifo(fifo, c)
           /\ res' = [res EXCEPT ![c] = Seated]
           /\ UNCHANGED <<sem, barberVars, cuts, pending>>

\* Mutant: one chair is always left free.
PushFullEarly(c) == /\ Length(fifo) >= Chairs - 1
                    /\ ClientGoto(c, "push", "unlock")
                    /\ res' = [res EXCEPT ![c] = TurnedAway]
                    /\ UNCHANGED <<fifo, sem, barberVars, cuts, pending>>

PushFull(c) == /\ isFullFifo(fifo)
               /\ ClientGoto(c, "push", "unlock")
               /\ res' = [res EXCEPT ![c] = TurnedAway]
               /\ UNCHANGED <<fifo, sem, barberVars, cuts, pending>>

Unlock(c) == /\ ClientGoto(c, "unlock", "uncheck")
             /\ V("FIFO")
             /\ UNCHANGED <<fifo, barberVars, res, cuts, pending>>

Uncheck(c) == /\ ClientGoto(c, "uncheck",
                            IF res[c] = TurnedAway THEN "test" ELSE "suspend")
              /\ V("CHECK")
              /\ UNCHANGED <<fifo, barberVars, res, cuts, pending>>

\* sigsuspend returns when rtminHandler has run.
Suspend(c) == /\ pending[c] > 0
              /\ ClientGoto(c, "suspend", "test")
              /\ pending' = [pending EXCEPT ![c] = @ - 1]
              /\ cuts' = [cuts EXCEPT ![c] = @ + 1]
              /\ UNCHANGED <<fifo, sem, barberVars, res>>

ClientNext(c) == \/ TestCuts(c) \/ Check(c) \/ Lock(c) \/ Stat(c)
                 \/ Wake1(c) \/ Wake2(c) \/ Sit(c) \/ Push(c) \/ PushFull(c)
                 \/ Unlock(c) \/ Uncheck(c) \/ Suspend(c)

\* Every client has gone home: breeder.out ends, the barber sleeps on.
Bred == \A c \in Client : cpc[c] = "done"

Closed == /\ Bred
          /\ bpc = "sleep"
          /\ sem["BARBER"] = 0
          /\ UNCHANGED vars

Next == BarberNext \/ (\E c \in Client : ClientNext(c)) \/ Closed

Spec == Init /\ [][Next]_vars

\* The kernel serves the processes that wait on a semaphore in order of
\* arrival, so a process that keeps waiting on FIFO or CHECK, which become free
\* again and again, gets through: strong fairness.  For the other steps, which
\* stay enabled until they are taken, it is the same as weak fairness.
Fairness == /\ SF_vars(BarberNext)
            /\ \A c \in Client : SF_vars(ClientNext(c))

FairSpec == Spec /\ Fairness

-----------------------------------------------------------------------------
TypeOK == /\ fifo \in FifoType
          /\ sem \in [BARBER : 0 .. 2, FIFO : 0 .. 1, CHECK : 0 .. 1]
          /\ bpc \in BarberLabels
          /\ toCut \in Client \cup {NoPid}
          /\ cpc \in [Client -> ClientLabels]
          /\ res \in [Client -> {Woke, Seated, TurnedAway}]
          /\ cuts \in [Client -> 0 .. CutsNumber]
          /\ pending \in [Client -> {0, 1}]

BarberHoldsFifo == bpc \in {"chairRead", "chairRelease", "pop", "popRelease",
                            "goSleep", "sleepRelease"}
HoldsFifo(c) == cpc[c] \in {"stat", "wake1", "wake2", "sit", "push", "unlock"}

\* Nobody else touches the ring, the chair or the state of the barber while
\* somebody does (the FIFO semaphore: barber.c:95-106 and 70-90,
\* breeder.c:106-111).
OneInTheWaitingRoom ==
    /\ \A c, d \in Client : HoldsFifo(c) /\ HoldsFifo(d) => c = d
    /\ \A c \in Client : HoldsFifo(c) => ~BarberHoldsFifo

\* Types, and one process at a time in the waiting room.
WaitingRoomOK == TypeOK /\ OneInTheWaitingRoom

\* A client that has incremented BARBER but not yet written its pid in chair.
TakingChair(c) == cpc[c] \in {"wake2", "sit"}

\* The barber has been woken and has still to read the chair.
Called == \/ bpc = "sleep" /\ sem["BARBER"] > 0
          \/ bpc \in {"chairLock", "chairRead"}

Asleep == \/ bpc = "sleep" /\ sem["BARBER"] = 0
          \/ bpc = "sleepRelease"

\* Whoever looks at BARBER with the FIFO semaphore held learns the truth: its
\* value is 0 exactly when the barber sleeps, and then the queue is empty
\* (barber.c:79-90, breeder.c:125).  So a client that decides to wake him does
\* not jump the queue, and one that queues is not left behind.
SleepsOnlyWhenNobodyWaits ==
    /\ Asleep => isEmptyFifo(fifo)
    /\ \A c \in Client : /\ cpc[c] = "wake1" => bpc = "sleep" /\ Asleep
                         /\ cpc[c] = "push" => ~Asleep

\* The places in which a client in the shop can be.
Queued(c) == \E i \in 1 .. Length(fifo) : Contents(fifo)[i] = c
OnChair(c) == \/ TakingChair(c)
              \/ Called /\ fifo.chair = c /\ \A d \in Client : ~TakingChair(d)
BeingCut(c) == toCut = c /\ bpc \in {"chairRelease", "popRelease", "cut"}
Signalled(c) == pending[c] = 1

InShop(c) == \/ TakingChair(c)
             \/ cpc[c] \in {"unlock", "uncheck"} /\ res[c] # TurnedAway
             \/ cpc[c] = "suspend"

\* No wake-up is lost and none is sent twice: a client that waits for its
\* signal is in one place of the shop and in one only, once in the queue, or
\* on the chair, or being cut, or already signalled; and nothing in the shop
\* belongs to a client that does not wait (breeder.c:97-156, barber.c:57-116).
NobodyForgotten ==
    /\ \A c \in Client :
          /\ InShop(c) <=> Queued(c) \/ OnChair(c) \/ BeingCut(c) \/ Signalled(c)
          /\ Queued(c) => ~OnChair(c) /\ ~BeingCut(c) /\ ~Signalled(c)
          /\ OnChair(c) => ~BeingCut(c) /\ ~Signalled(c)
          /\ BeingCut(c) => ~Signalled(c)
    /\ \A i, j \in 1 .. Length(fifo) :
          Contents(fifo)[i] = Contents(fifo)[j] => i = j

\* The program is a barber shop as cw07/Zadanie7 describes it: arrivals are
\* served in order, a client is turned away only when every chair is taken,
\* only a client that finds the barber asleep goes straight to his chair, and
\* each signal stands for one cut.
Shop == INSTANCE BarberShop WITH
            asleep   <- Asleep,
            chair    <- IF \E c \in Client : OnChair(c)
                        THEN CHOOSE c \in Client : OnChair(c)
                        ELSE IF \E c \in Client : BeingCut(c) THEN toCut
                        ELSE NoPid,
            queue    <- Contents(fifo),
            finished <- {c \in Client : Signalled(c)},
            away     <- {c \in Client : /\ cpc[c] \in {"unlock", "uncheck"}
                                        /\ res[c] = TurnedAway}

ShopSpec == Shop!Spec
=============================================================================
