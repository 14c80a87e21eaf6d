---------------------------- MODULE BarberPosixProofs ----------------------------
(***************************************************************************)
(* The sleeping barber of cw07/zad2, proved for every set of clients, every *)
(* number of chairs and every number of cuts.  The invariant differs from    *)
(* the one of BarberProofs where the program does: in the units of BARBER,   *)
(* which the barber puts back, and of SLOWER, on which his client waits.     *)
(***************************************************************************)
EXTENDS BarberPosix, FifoProofs

HoldsCheck(c) == cpc[c] \in {"lock", "stat", "wake", "handshake", "sit", "push",
                             "unlock", "uncheck"}

\* FIFO and CHECKER are 0 exactly while somebody holds them.
SemaphoresHeld ==
    /\ sem["FIFO"] = 0 <=> BarberHoldsFifo \/ \E c \in Client : HoldsFifo(c)
    /\ sem["CHECKER"] = 0 <=> \E c \in Client : HoldsCheck(c)
    /\ \A c, d \in Client : HoldsCheck(c) /\ HoldsCheck(d) => c = d

Waking == \E c \in Client : cpc[c] = "handshake"

\* The unit of BARBER: it is there while the barber is awake, but for the moment
\* between the sem_wait that wakes him and the sem_post that puts it back.  The
\* unit of SLOWER: it is there from his answer to the client who takes it.
UnitsOfBarber ==
    /\ Waking => bpc \in {"sleep", "putBack", "answer", "chairLock"}
    /\ bpc \in {"putBack", "answer"} => Waking
    /\ \A c \in Client : cpc[c] = "sit" => bpc = "chairLock"
    /\ bpc = "sleep" => sem["BARBER"] = IF Waking THEN 1 ELSE 0
    /\ bpc \in {"putBack", "sleepRelease"} => sem["BARBER"] = 0
    /\ bpc \notin {"sleep", "putBack", "sleepRelease"} => sem["BARBER"] = 1
    /\ sem["SLOWER"] = IF bpc = "chairLock" /\ Waking THEN 1 ELSE 0

\* A barber who goes for somebody finds a client there.
SomebodyToCut ==
    /\ Called /\ (\A c \in Client : ~TakingChair(c)) => fifo.chair \in Client
    /\ bpc \in {"chairRelease", "popRelease", "cut"} => toCut \in Client

CutsBounded == \A c \in Client : cpc[c] \notin {"test", "done"} => cuts[c] < CutsNumber

IInv == /\ TypeOK
        /\ SemaphoresHeld
        /\ OneInTheWaitingRoom
        /\ UnitsOfBarber
        /\ SleepsOnlyWhenNobodyWaits
        /\ bpc = "goSleep" => isEmptyFifo(fifo)
        /\ Contents(fifo) \in Seq(Client)
        /\ SomebodyToCut
        /\ CutsBounded
        /\ NobodyForgotten

-----------------------------------------------------------------------------
(* What sem_wait and sem_post do to the semaphores, when the value they leave *)
(* is one the type allows.                                                   *)

SemNames == {"BARBER", "SLOWER", "FIFO", "CHECKER"}

SemType == [BARBER : 0 .. 1, SLOWER : 0 .. 1, FIFO : 0 .. 1, CHECKER : 0 .. 1]

LEMMA SemP ==
    ASSUME TypeOK, NEW s \in SemNames, P(s)
    PROVE  /\ sem[s] > 0 /\ sem'[s] = sem[s] - 1
           /\ \A r \in SemNames : r # s => sem'[r] = sem[r]
           /\ sem' \in SemType
  BY SMT DEF TypeOK, SemNames, SemType, P

LEMMA SemV ==
    ASSUME TypeOK, NEW s \in SemNames, V(s), sem[s] + 1 <= 1
    PROVE  /\ sem'[s] = sem[s] + 1
           /\ \A r \in SemNames : r # s => sem'[r] = sem[r]
           /\ sem' \in SemType
  BY SMT DEF TypeOK, SemNames, SemType, V

\* Who is where is looked at in every step.
USE DEF HoldsFifo, BarberHoldsFifo, HoldsCheck, TakingChair, Asleep, Called, Waking,
        SemType

-----------------------------------------------------------------------------
(* The steps of the barber. *)

LEMMA StepWakeUp ==
    ASSUME IInv, WakeUp
    PROVE  IInv'
<1> USE DEF IInv, TypeOK
<1>1. /\ bpc = "sleep" /\ bpc' = "putBack"
      /\ UNCHANGED <<cpc, res, cuts>>
  BY DEF WakeUp, BarberGoto, clientVars
<1>2. /\ sem["BARBER"] > 0 /\ sem'["BARBER"] = sem["BARBER"] - 1
      /\ sem'["FIFO"] = sem["FIFO"]
      /\ sem'["CHECKER"] = sem["CHECKER"]
      /\ sem'["SLOWER"] = sem["SLOWER"]
      /\ sem' \in SemType
  BY SemP DEF WakeUp, SemNames
<1>3. UNCHANGED <<fifo, pending, toCut>>
  BY DEF WakeUp
<1>4. /\ Contents(fifo)' = Contents(fifo) /\ Length(fifo)' = Length(fifo)
      /\ isEmptyFifo(fifo)' = isEmptyFifo(fifo)
  BY <1>3
<1>5. TypeOK' /\ (Contents(fifo) \in Seq(Client))'
  BY <1>1, <1>2, <1>3, <1>4 DEF BarberLabels
<1>6. SemaphoresHeld'
  BY <1>1, <1>2, <1>3, <1>4 DEF SemaphoresHeld
<1>7. OneInTheWaitingRoom'
  BY <1>1, <1>2, <1>3, <1>4 DEF OneInTheWaitingRoom
<1>8. UnitsOfBarber'
  BY <1>1, <1>2, <1>3, <1>4 DEF UnitsOfBarber
<1>9. /\ SleepsOnlyWhenNobodyWaits'
      /\ (bpc = "goSleep" => isEmptyFifo(fifo))'
  BY <1>1, <1>2, <1>3, <1>4 DEF SleepsOnlyWhenNobodyWaits
<1>10. SomebodyToCut'
  BY <1>1, <1>2, <1>3, <1>4 DEF SomebodyToCut
<1>11. CutsBounded'
  BY <1>1, <1>2, <1>3, <1>4 DEF CutsBounded
<1>12. NobodyForgotten'
  BY <1>1, <1>2, <1>3, <1>4 DEF NobodyForgotten, InShop, Queued, OnChair, BeingCut,
     Signalled
<1> QED  BY <1>5, <1>6, <1>7, <1>8, <1>9, <1>10, <1>11, <1>12

LEMMA StepPutBack ==
    ASSUME IInv, PutBack
    PROVE  IInv'
<1> USE DEF IInv, TypeOK
<1>1. /\ bpc = "putBack" /\ bpc' = "answer"
      /\ UNCHANGED <<cpc, res, cuts>>
  BY DEF PutBack, BarberGoto, clientVars
<1>2. /\ sem'["BARBER"] = sem["BARBER"] + 1
      /\ sem'["SLOWER"] = sem["SLOWER"]
      /\ sem'["FIFO"] = sem["FIFO"]
      /\ sem'["CHECKER"] = sem["CHECKER"]
      /\ sem' \in SemType
  <2>1. sem["BARBER"] + 1 <= 1
    BY <1>1, SMT DEF UnitsOfBarber
  <2> QED  BY <2>1, SemV DEF PutBack, SemNames
<1>3. UNCHANGED <<fifo, pending, toCut>>
  BY DEF PutBack
<1>4. /\ Contents(fifo)' = Contents(fifo) /\ Length(fifo)' = Length(fifo)
      /\ isEmptyFifo(fifo)' = isEmptyFifo(fifo)
  BY <1>3
<1>5. TypeOK' /\ (Contents(fifo) \in Seq(Client))'
  BY <1>1, <1>2, <1>3, <1>4 DEF BarberLabels
<1>6. SemaphoresHeld'
  BY <1>1, <1>2, <1>3, <1>4 DEF SemaphoresHeld, OneInTheWaitingRoom
<1>7. OneInTheWaitingRoom'
  BY <1>1, <1>2, <1>3, <1>4 DEF OneInTheWaitingRoom
<1>8. UnitsOfBarber'
  BY <1>1, <1>2, <1>3, <1>4 DEF UnitsOfBarber
<1>9. /\ SleepsOnlyWhenNobodyWaits'
      /\ (bpc = "goSleep" => isEmptyFifo(fifo))'
  BY <1>1, <1>2, <1>3, <1>4 DEF SleepsOnlyWhenNobodyWaits
<1>10. SomebodyToCut'
  BY <1>1, <1>2, <1>3, <1>4 DEF SomebodyToCut
<1>11. CutsBounded'
  BY <1>1, <1>2, <1>3, <1>4 DEF CutsBounded
<1>12. NobodyForgotten'
  BY <1>1, <1>2, <1>3, <1>4 DEF NobodyForgotten, InShop, Queued, OnChair, BeingCut,
     Signalled
<1> QED  BY <1>5, <1>6, <1>7, <1>8, <1>9, <1>10, <1>11, <1>12

LEMMA StepAnswer ==
    ASSUME IInv, Answer
    PROVE  IInv'
<1> USE DEF IInv, TypeOK
<1>1. /\ bpc = "answer" /\ bpc' = "chairLock"
      /\ UNCHANGED <<cpc, res, cuts>>
  BY DEF Answer, BarberGoto, clientVars
<1>2. /\ sem'["SLOWER"] = sem["SLOWER"] + 1
      /\ sem'["BARBER"] = sem["BARBER"]
      /\ sem'["FIFO"] = sem["FIFO"]
      /\ sem'["CHECKER"] = sem["CHECKER"]
      /\ sem' \in SemType
  <2>1. sem["SLOWER"] + 1 <= 1
    BY <1>1, SMT DEF UnitsOfBarber
  <2> QED  BY <2>1, SemV DEF Answer, SemNames
<1>3. UNCHANGED <<fifo, pending, toCut>>
  BY DEF Answer
<1>4. /\ Contents(fifo)' = Contents(fifo) /\ Length(fifo)' = Length(fifo)
      /\ isEmptyFifo(fifo)' = isEmptyFifo(fifo)
  BY <1>3
<1>5. TypeOK' /\ (Contents(fifo) \in Seq(Client))'
  BY <1>1, <1>2, <1>3, <1>4 DEF BarberLabels
<1>6. SemaphoresHeld'
  BY <1>1, <1>2, <1>3, <1>4 DEF SemaphoresHeld, OneInTheWaitingRoom
<1>7. OneInTheWaitingRoom'
  BY <1>1, <1>2, <1>3, <1>4 DEF OneInTheWaitingRoom
<1>8. UnitsOfBarber'
  BY <1>1, <1>2, <1>3, <1>4 DEF UnitsOfBarber
<1>9. /\ SleepsOnlyWhenNobodyWaits'
      /\ (bpc = "goSleep" => isEmptyFifo(fifo))'
  BY <1>1, <1>2, <1>3, <1>4 DEF SleepsOnlyWhenNobodyWaits
<1>10. SomebodyToCut'
  BY <1>1, <1>2, <1>3, <1>4 DEF SomebodyToCut
<1>11. CutsBounded'
  BY <1>1, <1>2, <1>3, <1>4 DEF CutsBounded
<1>12. NobodyForgotten'
  BY <1>1, <1>2, <1>3, <1>4 DEF NobodyForgotten, InShop, Queued, OnChair, BeingCut,
     Signalled
<1> QED  BY <1>5, <1>6, <1>7, <1>8, <1>9, <1>10, <1>11, <1>12

LEMMA StepChairLock ==
    ASSUME IInv, ChairLock
    PROVE  IInv'
<1> USE DEF IInv, TypeOK
<1>1. /\ bpc = "chairLock" /\ bpc' = "chairRead"
      /\ UNCHANGED <<cpc, res, cuts>>
  BY DEF ChairLock, BarberGoto, clientVars
<1>2. /\ sem["FIFO"] > 0 /\ sem'["FIFO"] = sem["FIFO"] - 1
      /\ sem'["BARBER"] = sem["BARBER"]
      /\ sem'["CHECKER"] = sem["CHECKER"]
      /\ sem'["SLOWER"] = sem["SLOWER"]
      /\ sem' \in SemType
  BY SemP DEF ChairLock, SemNames
<1>3. UNCHANGED <<fifo, pending, toCut>>
  BY DEF ChairLock
<1>4. /\ Contents(fifo)' = Contents(fifo) /\ Length(fifo)' = Length(fifo)
      /\ isEmptyFifo(fifo)' = isEmptyFifo(fifo)
  BY <1>3
<1>5. TypeOK' /\ (Contents(fifo) \in Seq(Client))'
  BY <1>1, <1>2, <1>3, <1>4 DEF BarberLabels
<1>6. SemaphoresHeld'
  BY <1>1, <1>2, <1>3, <1>4 DEF SemaphoresHeld
<1>7. OneInTheWaitingRoom'
  BY <1>1, <1>2, <1>3, <1>4 DEF SemaphoresHeld, OneInTheWaitingRoom
<1>8. UnitsOfBarber'
  BY <1>1, <1>2, <1>3, <1>4 DEF UnitsOfBarber, OneInTheWaitingRoom, SemaphoresHeld,
     SleepsOnlyWhenNobodyWaits
<1>9. /\ SleepsOnlyWhenNobodyWaits'
      /\ (bpc = "goSleep" => isEmptyFifo(fifo))'
  BY <1>1, <1>2, <1>3, <1>4 DEF SleepsOnlyWhenNobodyWaits
<1>10. SomebodyToCut'
  BY <1>1, <1>2, <1>3, <1>4 DEF SomebodyToCut
<1>11. CutsBounded'
  BY <1>1, <1>2, <1>3, <1>4 DEF CutsBounded
<1>12. NobodyForgotten'
  BY <1>1, <1>2, <1>3, <1>4 DEF NobodyForgotten, InShop, Queued, OnChair, BeingCut,
     Signalled
<1> QED  BY <1>5, <1>6, <1>7, <1>8, <1>9, <1>10, <1>11, <1>12

LEMMA StepChairRead ==
    ASSUME IInv, ChairRead
    PROVE  IInv'
<1> USE DEF IInv, TypeOK
<1>1. /\ bpc = "chairRead" /\ bpc' = "chairRelease"
      /\ UNCHANGED <<cpc, res, cuts>>
  BY DEF ChairRead, BarberGoto, clientVars
<1>2. sem' = sem
  BY DEF ChairRead
<1>3. /\ UNCHANGED <<fifo, pending>>
      /\ toCut' = fifo.chair
  BY DEF ChairRead
<1>4. /\ Contents(fifo)' = Contents(fifo) /\ Length(fifo)' = Length(fifo)
      /\ isEmptyFifo(fifo)' = isEmptyFifo(fifo)
  BY <1>3
<1>5. TypeOK' /\ (Contents(fifo) \in Seq(Client))'
  <2>1. fifo.chair \in Client \cup {NoPid}
    BY DEF FifoType
  <2> QED  BY <1>1, <1>2, <1>3, <2>1 DEF BarberLabels
<1>6. SemaphoresHeld'
  BY <1>1, <1>2, <1>3, <1>4 DEF SemaphoresHeld
<1>7. OneInTheWaitingRoom'
  BY <1>1, <1>2, <1>3, <1>4 DEF OneInTheWaitingRoom
<1>8. UnitsOfBarber'
  BY <1>1, <1>2, <1>3, <1>4 DEF UnitsOfBarber
<1>9. /\ SleepsOnlyWhenNobodyWaits'
      /\ (bpc = "goSleep" => isEmptyFifo(fifo))'
  BY <1>1, <1>2, <1>3, <1>4 DEF SleepsOnlyWhenNobodyWaits
<1>10. SomebodyToCut'
  BY <1>1, <1>2, <1>3, <1>4 DEF SomebodyToCut, UnitsOfBarber
<1>11. CutsBounded'
  BY <1>1, <1>2, <1>3, <1>4 DEF CutsBounded
<1>12. NobodyForgotten'
  BY <1>1, <1>2, <1>3, <1>4 DEF NobodyForgotten, InShop, Queued, OnChair, BeingCut,
     Signalled, UnitsOfBarber
<1> QED  BY <1>5, <1>6, <1>7, <1>8, <1>9, <1>10, <1>11, <1>12

LEMMA StepChairRelease ==
    ASSUME IInv, ChairRelease
    PROVE  IInv'
<1> USE DEF IInv, TypeOK
<1>1. /\ bpc = "chairRelease" /\ bpc' = "cut"
      /\ UNCHANGED <<cpc, res, cuts>>
  BY DEF ChairRelease, BarberGoto, clientVars
<1>2. /\ sem'["FIFO"] = sem["FIFO"] + 1
      /\ sem'["BARBER"] = sem["BARBER"]
      /\ sem'["CHECKER"] = sem["CHECKER"]
      /\ sem'["SLOWER"] = sem["SLOWER"]
      /\ sem' \in SemType
  <2>1. sem["FIFO"] + 1 <= 1
    BY <1>1, SMT DEF SemaphoresHeld, UnitsOfBarber, SleepsOnlyWhenNobodyWaits,
       OneInTheWaitingRoom
  <2> QED  BY <2>1, SemV DEF ChairRelease, SemNames
<1>3. UNCHANGED <<fifo, pending, toCut>>
  BY DEF ChairRelease
<1>4. /\ Contents(fifo)' = Contents(fifo) /\ Length(fifo)' = Length(fifo)
      /\ isEmptyFifo(fifo)' = isEmptyFifo(fifo)
  BY <1>3
<1>5. TypeOK' /\ (Contents(fifo) \in Seq(Client))'
  BY <1>1, <1>2, <1>3, <1>4 DEF BarberLabels
<1>6. SemaphoresHeld'
  BY <1>1, <1>2, <1>3, <1>4 DEF SemaphoresHeld, OneInTheWaitingRoom
<1>7. OneInTheWaitingRoom'
  BY <1>1, <1>2, <1>3, <1>4 DEF OneInTheWaitingRoom
<1>8. UnitsOfBarber'
  BY <1>1, <1>2, <1>3, <1>4 DEF UnitsOfBarber
<1>9. /\ SleepsOnlyWhenNobodyWaits'
      /\ (bpc = "goSleep" => isEmptyFifo(fifo))'
  BY <1>1, <1>2, <1>3, <1>4 DEF SleepsOnlyWhenNobodyWaits
<1>10. SomebodyToCut'
  BY <1>1, <1>2, <1>3, <1>4 DEF SomebodyToCut
<1>11. CutsBounded'
  BY <1>1, <1>2, <1>3, <1>4 DEF CutsBounded
<1>12. NobodyForgotten'
  BY <1>1, <1>2, <1>3, <1>4 DEF NobodyForgotten, InShop, Queued, OnChair, BeingCut,
     Signalled
<1> QED  BY <1>5, <1>6, <1>7, <1>8, <1>9, <1>10, <1>11, <1>12

LEMMA StepCut ==
    ASSUME IInv, Cut
    PROVE  IInv'
<1> USE DEF IInv, TypeOK
<1>1. /\ bpc = "cut" /\ bpc' = "loopLock"
      /\ UNCHANGED <<cpc, res, cuts>>
  BY DEF Cut, BarberGoto, clientVars
<1>2. sem' = sem
  BY DEF Cut
<1>3. /\ UNCHANGED <<fifo, toCut>>
      /\ toCut \in Client
      /\ pending'[toCut] = pending[toCut] + 1
      /\ \A d \in Client : d # toCut => pending'[d] = pending[d]
      /\ pending' \in [Client -> {0, 1}]
  <2>1. toCut \in Client /\ pending[toCut] = 0
    BY <1>1 DEF SomebodyToCut, NobodyForgotten, BeingCut, Signalled
  <2> QED  BY <2>1 DEF Cut
<1>4. /\ Contents(fifo)' = Contents(fifo) /\ Length(fifo)' = Length(fifo)
      /\ isEmptyFifo(fifo)' = isEmptyFifo(fifo)
  BY <1>3
<1>5. TypeOK' /\ (Contents(fifo) \in Seq(Client))'
  BY <1>1, <1>2, <1>3, <1>4 DEF BarberLabels
<1>6. SemaphoresHeld'
  BY <1>1, <1>2, <1>3, <1>4 DEF SemaphoresHeld
<1>7. OneInTheWaitingRoom'
  BY <1>1, <1>2, <1>3, <1>4 DEF OneInTheWaitingRoom
<1>8. UnitsOfBarber'
  BY <1>1, <1>2, <1>3, <1>4 DEF UnitsOfBarber
<1>9. /\ SleepsOnlyWhenNobodyWaits'
      /\ (bpc = "goSleep" => isEmptyFifo(fifo))'
  BY <1>1, <1>2, <1>3, <1>4 DEF SleepsOnlyWhenNobodyWaits
<1>10. SomebodyToCut'
  BY <1>1, <1>2, <1>3, <1>4 DEF SomebodyToCut
<1>11. CutsBounded'
  BY <1>1, <1>2, <1>3, <1>4 DEF CutsBounded
<1>12. NobodyForgotten'
  BY <1>1, <1>2, <1>3, <1>4 DEF NobodyForgotten, InShop, Queued, OnChair, BeingCut,
     Signalled
<1> QED  BY <1>5, <1>6, <1>7, <1>8, <1>9, <1>10, <1>11, <1>12

LEMMA StepLoopLock ==
    ASSUME IInv, LoopLock
    PROVE  IInv'
<1> USE DEF IInv, TypeOK
<1>1. /\ bpc = "loopLock" /\ bpc' = "pop"
      /\ UNCHANGED <<cpc, res, cuts>>
  BY DEF LoopLock, BarberGoto, clientVars
<1>2. /\ sem["FIFO"] > 0 /\ sem'["FIFO"] = sem["FIFO"] - 1
      /\ sem'["BARBER"] = sem["BARBER"]
      /\ sem'["CHECKER"] = sem["CHECKER"]
      /\ sem'["SLOWER"] = sem["SLOWER"]
      /\ sem' \in SemType
  BY SemP DEF LoopLock, SemNames
<1>3. UNCHANGED <<fifo, pending, toCut>>
  BY DEF LoopLock
<1>4. /\ Contents(fifo)' = Contents(fifo) /\ Length(fifo)' = Length(fifo)
      /\ isEmptyFifo(fifo)' = isEmptyFifo(fifo)
  BY <1>3
<1>5. TypeOK' /\ (Contents(fifo) \in Seq(Client))'
  BY <1>1, <1>2, <1>3, <1>4 DEF BarberLabels
<1>6. SemaphoresHeld'
  BY <1>1, <1>2, <1>3, <1>4 DEF SemaphoresHeld
<1>7. OneInTheWaitingRoom'
  BY <1>1, <1>2, <1>3, <1>4 DEF SemaphoresHeld, OneInTheWaitingRoom
<1>8. UnitsOfBarber'
  BY <1>1, <1>2, <1>3, <1>4 DEF UnitsOfBarber
<1>9. /\ SleepsOnlyWhenNobodyWaits'
      /\ (bpc = "goSleep" => isEmptyFifo(fifo))'
  BY <1>1, <1>2, <1>3, <1>4 DEF SleepsOnlyWhenNobodyWaits
<1>10. SomebodyToCut'
  BY <1>1, <1>2, <1>3, <1>4 DEF SomebodyToCut
<1>11. CutsBounded'
  BY <1>1, <1>2, <1>3, <1>4 DEF CutsBounded
<1>12. NobodyForgotten'
  BY <1>1, <1>2, <1>3, <1>4 DEF NobodyForgotten, InShop, Queued, OnChair, BeingCut,
     Signalled
<1> QED  BY <1>5, <1>6, <1>7, <1>8, <1>9, <1>10, <1>11, <1>12

LEMMA StepPopNext ==
    ASSUME IInv, PopNext
    PROVE  IInv'
<1> USE DEF IInv, TypeOK
<1>1. /\ bpc = "pop" /\ bpc' = "popRelease"
      /\ UNCHANGED <<cpc, res, cuts>>
  BY DEF PopNext, BarberGoto, clientVars
<1>2. sem' = sem
  BY DEF PopNext
<1>3. UNCHANGED <<pending>>
  BY DEF PopNext
<1>4. /\ fifo' \in FifoType
      /\ Contents(fifo') \in Seq(Client)
      /\ Members(fifo) = Members(fifo') \cup {toCut'}
      /\ Distinct(fifo) => Distinct(fifo') /\ toCut' \notin Members(fifo')
      /\ toCut' \in Client
      /\ fifo'.chair = toCut'
  <2>1. fifo \in FifoType /\ Contents(fifo) \in Seq(Client) /\ ~isEmptyFifo(fifo)
    BY DEF PopNext
  <2>2. fifo' = popFifo(fifo) /\ toCut' = popFifo(fifo).chair
    BY DEF PopNext
  <2> QED  BY <2>1, <2>2, PopType, PopMembers
<1>13. /\ \A d \in Client : Queued(d) <=> d \in Members(fifo)
       /\ \A d \in Client : Queued(d)' <=> d \in Members(fifo')
       /\ Distinct(fifo)
       /\ Distinct(fifo') => (\A i, j \in 1 .. Length(fifo) :
             Contents(fifo)[i] = Contents(fifo)[j] => i = j)'
  BY DEF Queued, Members, Distinct, NobodyForgotten

<1>5. TypeOK' /\ (Contents(fifo) \in Seq(Client))'
  BY <1>1, <1>2, <1>3, <1>4 DEF BarberLabels
<1>6. SemaphoresHeld'
  BY <1>1, <1>2, <1>3, <1>4 DEF SemaphoresHeld
<1>7. OneInTheWaitingRoom'
  BY <1>1, <1>2, <1>3, <1>4 DEF OneInTheWaitingRoom
<1>8. UnitsOfBarber'
  BY <1>1, <1>2, <1>3, <1>4 DEF UnitsOfBarber
<1>9. /\ SleepsOnlyWhenNobodyWaits'
      /\ (bpc = "goSleep" => isEmptyFifo(fifo))'
  BY <1>1, <1>2, <1>3, <1>4 DEF SleepsOnlyWhenNobodyWaits
<1>10. SomebodyToCut'
  BY <1>1, <1>2, <1>3, <1>4 DEF SomebodyToCut
<1>11. CutsBounded'
  BY <1>1, <1>2, <1>3, <1>4 DEF CutsBounded
<1>12. NobodyForgotten'
  BY <1>1, <1>2, <1>3, <1>4, <1>13 DEF NobodyForgotten, InShop, OnChair, BeingCut,
     Signalled
<1> QED  BY <1>5, <1>6, <1>7, <1>8, <1>9, <1>10, <1>11, <1>12

LEMMA StepPopNobody ==
    ASSUME IInv, PopNobody
    PROVE  IInv'
<1> USE DEF IInv, TypeOK
<1>1. /\ bpc = "pop" /\ bpc' = "goSleep"
      /\ UNCHANGED <<cpc, res, cuts>>
  BY DEF PopNobody, BarberGoto, clientVars
<1>2. sem' = sem
  BY DEF PopNobody
<1>3. /\ UNCHANGED <<fifo, pending>>
      /\ toCut' = NoPid
      /\ isEmptyFifo(fifo)
  BY DEF PopNobody
<1>4. /\ Contents(fifo)' = Contents(fifo) /\ Length(fifo)' = Length(fifo)
      /\ isEmptyFifo(fifo)' = isEmptyFifo(fifo)
  BY <1>3
<1>5. TypeOK' /\ (Contents(fifo) \in Seq(Client))'
  BY <1>1, <1>2, <1>3, <1>4 DEF BarberLabels
<1>6. SemaphoresHeld'
  BY <1>1, <1>2, <1>3, <1>4 DEF SemaphoresHeld
<1>7. OneInTheWaitingRoom'
  BY <1>1, <1>2, <1>3, <1>4 DEF OneInTheWaitingRoom
<1>8. UnitsOfBarber'
  BY <1>1, <1>2, <1>3, <1>4 DEF UnitsOfBarber
<1>9. /\ SleepsOnlyWhenNobodyWaits'
      /\ (bpc = "goSleep" => isEmptyFifo(fifo))'
  BY <1>1, <1>2, <1>3, <1>4 DEF SleepsOnlyWhenNobodyWaits
<1>10. SomebodyToCut'
  BY <1>1, <1>2, <1>3, <1>4 DEF SomebodyToCut
<1>11. CutsBounded'
  BY <1>1, <1>2, <1>3, <1>4 DEF CutsBounded
<1>12. NobodyForgotten'
  BY <1>1, <1>2, <1>3, <1>4 DEF NobodyForgotten, InShop, Queued, OnChair, BeingCut,
     Signalled
<1> QED  BY <1>5, <1>6, <1>7, <1>8, <1>9, <1>10, <1>11, <1>12

LEMMA StepPopRelease ==
    ASSUME IInv, PopRelease
    PROVE  IInv'
<1> USE DEF IInv, TypeOK
<1>1. /\ bpc = "popRelease" /\ bpc' = "cut"
      /\ UNCHANGED <<cpc, res, cuts>>
  BY DEF PopRelease, BarberGoto, clientVars
<1>2. /\ sem'["FIFO"] = sem["FIFO"] + 1
      /\ sem'["BARBER"] = sem["BARBER"]
      /\ sem'["CHECKER"] = sem["CHECKER"]
      /\ sem'["SLOWER"] = sem["SLOWER"]
      /\ sem' \in SemType
  <2>1. sem["FIFO"] + 1 <= 1
    BY <1>1, SMT DEF SemaphoresHeld, UnitsOfBarber, SleepsOnlyWhenNobodyWaits,
       OneInTheWaitingRoom
  <2> QED  BY <2>1, SemV DEF PopRelease, SemNames
<1>3. UNCHANGED <<fifo, pending, toCut>>
  BY DEF PopRelease
<1>4. /\ Contents(fifo)' = Contents(fifo) /\ Length(fifo)' = Length(fifo)
      /\ isEmptyFifo(fifo)' = isEmptyFifo(fifo)
  BY <1>3
<1>5. TypeOK' /\ (Contents(fifo) \in Seq(Client))'
  BY <1>1, <1>2, <1>3, <1>4 DEF BarberLabels
<1>6. SemaphoresHeld'
  BY <1>1, <1>2, <1>3, <1>4 DEF SemaphoresHeld, OneInTheWaitingRoom
<1>7. OneInTheWaitingRoom'
  BY <1>1, <1>2, <1>3, <1>4 DEF OneInTheWaitingRoom
<1>8. UnitsOfBarber'
  BY <1>1, <1>2, <1>3, <1>4 DEF UnitsOfBarber
<1>9. /\ SleepsOnlyWhenNobodyWaits'
      /\ (bpc = "goSleep" => isEmptyFifo(fifo))'
  BY <1>1, <1>2, <1>3, <1>4 DEF SleepsOnlyWhenNobodyWaits
<1>10. SomebodyToCut'
  BY <1>1, <1>2, <1>3, <1>4 DEF SomebodyToCut
<1>11. CutsBounded'
  BY <1>1, <1>2, <1>3, <1>4 DEF CutsBounded
<1>12. NobodyForgotten'
  BY <1>1, <1>2, <1>3, <1>4 DEF NobodyForgotten, InShop, Queued, OnChair, BeingCut,
     Signalled
<1> QED  BY <1>5, <1>6, <1>7, <1>8, <1>9, <1>10, <1>11, <1>12

LEMMA StepGoSleep ==
    ASSUME IInv, GoSleep
    PROVE  IInv'
<1> USE DEF IInv, TypeOK
<1>1. /\ bpc = "goSleep" /\ bpc' = "sleepRelease"
      /\ UNCHANGED <<cpc, res, cuts>>
  BY DEF GoSleep, BarberGoto, clientVars
<1>2. /\ sem["BARBER"] > 0 /\ sem'["BARBER"] = sem["BARBER"] - 1
      /\ sem'["FIFO"] = sem["FIFO"]
      /\ sem'["CHECKER"] = sem["CHECKER"]
      /\ sem'["SLOWER"] = sem["SLOWER"]
      /\ sem' \in SemType
  BY SemP DEF GoSleep, SemNames
<1>3. UNCHANGED <<fifo, pending, toCut>>
  BY DEF GoSleep
<1>4. /\ Contents(fifo)' = Contents(fifo) /\ Length(fifo)' = Length(fifo)
      /\ isEmptyFifo(fifo)' = isEmptyFifo(fifo)
  BY <1>3
<1>5. TypeOK' /\ (Contents(fifo) \in Seq(Client))'
  BY <1>1, <1>2, <1>3, <1>4 DEF BarberLabels
<1>6. SemaphoresHeld'
  BY <1>1, <1>2, <1>3, <1>4 DEF SemaphoresHeld
<1>7. OneInTheWaitingRoom'
  BY <1>1, <1>2, <1>3, <1>4 DEF OneInTheWaitingRoom
<1>8. UnitsOfBarber'
  BY <1>1, <1>2, <1>3, <1>4 DEF UnitsOfBarber
<1>9. /\ SleepsOnlyWhenNobodyWaits'
      /\ (bpc = "goSleep" => isEmptyFifo(fifo))'
  BY <1>1, <1>2, <1>3, <1>4 DEF SleepsOnlyWhenNobodyWaits, OneInTheWaitingRoom
<1>10. SomebodyToCut'
  BY <1>1, <1>2, <1>3, <1>4 DEF SomebodyToCut
<1>11. CutsBounded'
  BY <1>1, <1>2, <1>3, <1>4 DEF CutsBounded
<1>12. NobodyForgotten'
  BY <1>1, <1>2, <1>3, <1>4 DEF NobodyForgotten, InShop, Queued, OnChair, BeingCut,
     Signalled
<1> QED  BY <1>5, <1>6, <1>7, <1>8, <1>9, <1>10, <1>11, <1>12

LEMMA StepSleepRelease ==
    ASSUME IInv, SleepRelease
    PROVE  IInv'
<1> USE DEF IInv, TypeOK
<1>1. /\ bpc = "sleepRelease" /\ bpc' = "sleep"
      /\ UNCHANGED <<cpc, res, cuts>>
  BY DEF SleepRelease, BarberGoto, clientVars
<1>2. /\ sem'["FIFO"] = sem["FIFO"] + 1
      /\ sem'["BARBER"] = sem["BARBER"]
      /\ sem'["CHECKER"] = sem["CHECKER"]
      /\ sem'["SLOWER"] = sem["SLOWER"]
      /\ sem' \in SemType
  <2>1. sem["FIFO"] + 1 <= 1
    BY <1>1, SMT DEF SemaphoresHeld, UnitsOfBarber, SleepsOnlyWhenNobodyWaits,
       OneInTheWaitingRoom
  <2> QED  BY <2>1, SemV DEF SleepRelease, SemNames
<1>3. UNCHANGED <<fifo, pending, toCut>>
  BY DEF SleepRelease
<1>4. /\ Contents(fifo)' = Contents(fifo) /\ Length(fifo)' = Length(fifo)
      /\ isEmptyFifo(fifo)' = isEmptyFifo(fifo)
  BY <1>3
<1>5. TypeOK' /\ (Contents(fifo) \in Seq(Client))'
  BY <1>1, <1>2, <1>3, <1>4 DEF BarberLabels
<1>6. SemaphoresHeld'
  BY <1>1, <1>2, <1>3, <1>4 DEF SemaphoresHeld, OneInTheWaitingRoom
<1>7. OneInTheWaitingRoom'
  BY <1>1, <1>2, <1>3, <1>4 DEF OneInTheWaitingRoom
<1>8. UnitsOfBarber'
  BY <1>1, <1>2, <1>3, <1>4 DEF UnitsOfBarber
<1>9. /\ SleepsOnlyWhenNobodyWaits'
      /\ (bpc = "goSleep" => isEmptyFifo(fifo))'
  BY <1>1, <1>2, <1>3, <1>4 DEF SleepsOnlyWhenNobodyWaits
<1>10. SomebodyToCut'
  BY <1>1, <1>2, <1>3, <1>4 DEF SomebodyToCut, UnitsOfBarber
<1>11. CutsBounded'
  BY <1>1, <1>2, <1>3, <1>4 DEF CutsBounded
<1>12. NobodyForgotten'
  BY <1>1, <1>2, <1>3, <1>4 DEF NobodyForgotten, InShop, Queued, OnChair, BeingCut,
     Signalled, UnitsOfBarber
<1> QED  BY <1>5, <1>6, <1>7, <1>8, <1>9, <1>10, <1>11, <1>12

-----------------------------------------------------------------------------
(* The steps of a client. *)

LEMMA StepTestCuts ==
    ASSUME IInv, NEW c \in Client, TestCuts(c)
    PROVE  IInv'
<1> USE DEF IInv, TypeOK
<1>1. /\ cpc[c] = "test"
      /\ cpc'[c] = IF cuts[c] < CutsNumber THEN "check" ELSE "done"
      /\ \A d \in Client : d # c => cpc'[d] = cpc[d]
      /\ cpc' \in [Client -> ClientLabels]
      /\ UNCHANGED <<bpc, toCut>>
  BY DEF TestCuts, ClientGoto, ClientLabels, barberVars
<1>2. sem' = sem
  BY DEF TestCuts
<1>3. UNCHANGED <<res, cuts, fifo, pending>>
  BY DEF TestCuts
<1>4. /\ Contents(fifo)' = Contents(fifo) /\ Length(fifo)' = Length(fifo)
      /\ isEmptyFifo(fifo)' = isEmptyFifo(fifo)
  BY <1>3
<1>5. TypeOK' /\ (Contents(fifo) \in Seq(Client))'
  BY <1>1, <1>2, <1>3, <1>4
<1>6. SemaphoresHeld'
  BY <1>1, <1>2, <1>3, <1>4 DEF SemaphoresHeld
<1>7. OneInTheWaitingRoom'
  BY <1>1, <1>2, <1>3, <1>4 DEF OneInTheWaitingRoom
<1>8. UnitsOfBarber'
  BY <1>1, <1>2, <1>3, <1>4 DEF UnitsOfBarber
<1>9. /\ SleepsOnlyWhenNobodyWaits'
      /\ (bpc = "goSleep" => isEmptyFifo(fifo))'
  BY <1>1, <1>2, <1>3, <1>4 DEF SleepsOnlyWhenNobodyWaits
<1>10. SomebodyToCut'
  BY <1>1, <1>2, <1>3, <1>4 DEF SomebodyToCut
<1>11. CutsBounded'
  BY <1>1, <1>2, <1>3, <1>4 DEF CutsBounded
<1>12. NobodyForgotten'
  <2>1. \A d \in Client : TakingChair(d)' <=> TakingChair(d)
    BY <1>1, SMT
  <2>2. Called' <=> Called
    BY <1>1, <1>2
  <2>3. \A d \in Client : InShop(d)' <=> InShop(d)
    BY <1>1, <1>3, <2>1, SMT DEF InShop
  <2>4. \A d \in Client : OnChair(d)' <=> OnChair(d)
    BY <1>3, <2>1, <2>2 DEF OnChair
  <2>5. \A d \in Client : /\ BeingCut(d)' <=> BeingCut(d)
                          /\ Signalled(d)' <=> Signalled(d)
                          /\ Queued(d)' <=> Queued(d)
    BY <1>1, <1>3, <1>4 DEF BeingCut, Signalled, Queued
  <2> QED  BY <2>3, <2>4, <2>5, <1>3, <1>4 DEF NobodyForgotten
<1> QED  BY <1>5, <1>6, <1>7, <1>8, <1>9, <1>10, <1>11, <1>12

LEMMA StepCheck ==
    ASSUME IInv, NEW c \in Client, Check(c)
    PROVE  IInv'
<1> USE DEF IInv, TypeOK
<1>1. /\ cpc[c] = "check"
      /\ cpc'[c] = "lock"
      /\ \A d \in Client : d # c => cpc'[d] = cpc[d]
      /\ cpc' \in [Client -> ClientLabels]
      /\ UNCHANGED <<bpc, toCut>>
  BY DEF Check, ClientGoto, ClientLabels, barberVars
<1>2. /\ sem["CHECKER"] > 0 /\ sem'["CHECKER"] = sem["CHECKER"] - 1
      /\ sem'["BARBER"] = sem["BARBER"]
      /\ sem'["FIFO"] = sem["FIFO"]
      /\ sem'["SLOWER"] = sem["SLOWER"]
      /\ sem' \in SemType
  BY SemP DEF Check, SemNames
<1>3. UNCHANGED <<res, cuts, fifo, pending>>
  BY DEF Check
<1>4. /\ Contents(fifo)' = Contents(fifo) /\ Length(fifo)' = Length(fifo)
      /\ isEmptyFifo(fifo)' = isEmptyFifo(fifo)
  BY <1>3
<1>5. TypeOK' /\ (Contents(fifo) \in Seq(Client))'
  BY <1>1, <1>2, <1>3, <1>4
<1>6. SemaphoresHeld'
  BY <1>1, <1>2, <1>3, <1>4 DEF SemaphoresHeld
<1>7. OneInTheWaitingRoom'
  BY <1>1, <1>2, <1>3, <1>4 DEF OneInTheWaitingRoom
<1>8. UnitsOfBarber'
  BY <1>1, <1>2, <1>3, <1>4 DEF UnitsOfBarber
<1>9. /\ SleepsOnlyWhenNobodyWaits'
      /\ (bpc = "goSleep" => isEmptyFifo(fifo))'
  BY <1>1, <1>2, <1>3, <1>4 DEF SleepsOnlyWhenNobodyWaits
<1>10. SomebodyToCut'
  BY <1>1, <1>2, <1>3, <1>4 DEF SomebodyToCut
<1>11. CutsBounded'
  BY <1>1, <1>2, <1>3, <1>4 DEF CutsBounded
<1>12. NobodyForgotten'
  BY <1>1, <1>2, <1>3, <1>4 DEF NobodyForgotten, InShop, Queued, OnChair, BeingCut,
     Signalled, UnitsOfBarber, OneInTheWaitingRoom, SemaphoresHeld,
     SleepsOnlyWhenNobodyWaits, SomebodyToCut
<1> QED  BY <1>5, <1>6, <1>7, <1>8, <1>9, <1>10, <1>11, <1>12

LEMMA StepLock ==
    ASSUME IInv, NEW c \in Client, Lock(c)
    PROVE  IInv'
<1> USE DEF IInv, TypeOK
<1>1. /\ cpc[c] = "lock"
      /\ cpc'[c] = "stat"
      /\ \A d \in Client : d # c => cpc'[d] = cpc[d]
      /\ cpc' \in [Client -> ClientLabels]
      /\ UNCHANGED <<bpc, toCut>>
  BY DEF Lock, ClientGoto, ClientLabels, barberVars
<1>2. /\ sem["FIFO"] > 0 /\ sem'["FIFO"] = sem["FIFO"] - 1
      /\ sem'["BARBER"] = sem["BARBER"]
      /\ sem'["CHECKER"] = sem["CHECKER"]
      /\ sem'["SLOWER"] = sem["SLOWER"]
      /\ sem' \in SemType
  BY SemP DEF Lock, SemNames
<1>3. UNCHANGED <<res, cuts, fifo, pending>>
  BY DEF Lock
<1>4. /\ Contents(fifo)' = Contents(fifo) /\ Length(fifo)' = Length(fifo)
      /\ isEmptyFifo(fifo)' = isEmptyFifo(fifo)
  BY <1>3
<1>5. TypeOK' /\ (Contents(fifo) \in Seq(Client))'
  BY <1>1, <1>2, <1>3, <1>4
<1>6. SemaphoresHeld'
  BY <1>1, <1>2, <1>3, <1>4 DEF SemaphoresHeld
<1>7. OneInTheWaitingRoom'
  BY <1>1, <1>2, <1>3, <1>4 DEF SemaphoresHeld, OneInTheWaitingRoom
<1>8. UnitsOfBarber'
  BY <1>1, <1>2, <1>3, <1>4 DEF UnitsOfBarber
<1>9. /\ SleepsOnlyWhenNobodyWaits'
      /\ (bpc = "goSleep" => isEmptyFifo(fifo))'
  BY <1>1, <1>2, <1>3, <1>4 DEF SleepsOnlyWhenNobodyWaits
<1>10. SomebodyToCut'
  BY <1>1, <1>2, <1>3, <1>4 DEF SomebodyToCut
<1>11. CutsBounded'
  BY <1>1, <1>2, <1>3, <1>4 DEF CutsBounded
<1>12. NobodyForgotten'
  BY <1>1, <1>2, <1>3, <1>4 DEF NobodyForgotten, InShop, Queued, OnChair, BeingCut,
     Signalled, UnitsOfBarber
<1> QED  BY <1>5, <1>6, <1>7, <1>8, <1>9, <1>10, <1>11, <1>12

LEMMA StepStat ==
    ASSUME IInv, NEW c \in Client, Stat(c)
    PROVE  IInv'
<1> USE DEF IInv, TypeOK
<1>1. /\ cpc[c] = "stat"
      /\ cpc'[c] = IF sem["BARBER"] = 0 THEN "wake" ELSE "push"
      /\ \A d \in Client : d # c => cpc'[d] = cpc[d]
      /\ cpc' \in [Client -> ClientLabels]
      /\ UNCHANGED <<bpc, toCut>>
  BY DEF Stat, ClientGoto, ClientLabels, barberVars
<1>2. sem' = sem
  BY DEF Stat
<1>3. UNCHANGED <<res, cuts, fifo, pending>>
  BY DEF Stat
<1>4. /\ Contents(fifo)' = Contents(fifo) /\ Length(fifo)' = Length(fifo)
      /\ isEmptyFifo(fifo)' = isEmptyFifo(fifo)
  BY <1>3
<1>5. TypeOK' /\ (Contents(fifo) \in Seq(Client))'
  BY <1>1, <1>2, <1>3, <1>4
<1>6. SemaphoresHeld'
  BY <1>1, <1>2, <1>3, <1>4 DEF SemaphoresHeld
<1>7. OneInTheWaitingRoom'
  BY <1>1, <1>2, <1>3, <1>4 DEF OneInTheWaitingRoom
<1>8. UnitsOfBarber'
  BY <1>1, <1>2, <1>3, <1>4 DEF UnitsOfBarber
<1>9. /\ SleepsOnlyWhenNobodyWaits'
      /\ (bpc = "goSleep" => isEmptyFifo(fifo))'
  BY <1>1, <1>2, <1>3, <1>4 DEF SleepsOnlyWhenNobodyWaits, OneInTheWaitingRoom,
     UnitsOfBarber
<1>10. SomebodyToCut'
  BY <1>1, <1>2, <1>3, <1>4 DEF SomebodyToCut
<1>11. CutsBounded'
  BY <1>1, <1>2, <1>3, <1>4 DEF CutsBounded
<1>12. NobodyForgotten'
  <2>1. \A d \in Client : TakingChair(d)' <=> TakingChair(d)
    BY <1>1, SMT
  <2>2. Called' <=> Called
    BY <1>1, <1>2
  <2>3. \A d \in Client : InShop(d)' <=> InShop(d)
    BY <1>1, <1>3, <2>1, SMT DEF InShop
  <2>4. \A d \in Client : OnChair(d)' <=> OnChair(d)
    BY <1>3, <2>1, <2>2 DEF OnChair
  <2>5. \A d \in Client : /\ BeingCut(d)' <=> BeingCut(d)
                          /\ Signalled(d)' <=> Signalled(d)
                          /\ Queued(d)' <=> Queued(d)
    BY <1>1, <1>3, <1>4 DEF BeingCut, Signalled, Queued
  <2> QED  BY <2>3, <2>4, <2>5, <1>3, <1>4 DEF NobodyForgotten
<1> QED  BY <1>5, <1>6, <1>7, <1>8, <1>9, <1>10, <1>11, <1>12

LEMMA StepWake ==
    ASSUME IInv, NEW c \in Client, Wake(c)
    PROVE  IInv'
<1> USE DEF IInv, TypeOK
<1>1. /\ cpc[c] = "wake"
      /\ cpc'[c] = "handshake"
      /\ \A d \in Client : d # c => cpc'[d] = cpc[d]
      /\ cpc' \in [Client -> ClientLabels]
      /\ UNCHANGED <<bpc, toCut>>
  BY DEF Wake, ClientGoto, ClientLabels, barberVars
<1>2. /\ sem'["BARBER"] = sem["BARBER"] + 1
      /\ sem'["FIFO"] = sem["FIFO"]
      /\ sem'["CHECKER"] = sem["CHECKER"]
      /\ sem'["SLOWER"] = sem["SLOWER"]
      /\ sem' \in SemType
  <2>1. sem["BARBER"] + 1 <= 1
    BY <1>1, SMT DEF SemaphoresHeld, UnitsOfBarber, SleepsOnlyWhenNobodyWaits,
       OneInTheWaitingRoom
  <2> QED  BY <2>1, SemV DEF Wake, SemNames
<1>3. UNCHANGED <<res, cuts, fifo, pending>>
  BY DEF Wake
<1>4. /\ Contents(fifo)' = Contents(fifo) /\ Length(fifo)' = Length(fifo)
      /\ isEmptyFifo(fifo)' = isEmptyFifo(fifo)
  BY <1>3
<1>5. TypeOK' /\ (Contents(fifo) \in Seq(Client))'
  BY <1>1, <1>2, <1>3, <1>4
<1>6. SemaphoresHeld'
  BY <1>1, <1>2, <1>3, <1>4 DEF SemaphoresHeld
<1>7. OneInTheWaitingRoom'
  BY <1>1, <1>2, <1>3, <1>4 DEF OneInTheWaitingRoom
<1>8. UnitsOfBarber'
  BY <1>1, <1>2, <1>3, <1>4 DEF UnitsOfBarber, SleepsOnlyWhenNobodyWaits
<1>9. /\ SleepsOnlyWhenNobodyWaits'
      /\ (bpc = "goSleep" => isEmptyFifo(fifo))'
  <2>1. \A d \in Client : cpc'[d] # "wake" /\ cpc'[d] # "push"
    <3>1. HoldsFifo(c)
      BY <1>1
    <3>2. \A d \in Client : d # c => ~HoldsFifo(d)
      BY <3>1 DEF OneInTheWaitingRoom
    <3> QED  BY <1>1, <3>2
  <2>2. bpc = "sleep" /\ isEmptyFifo(fifo)
    BY <1>1, SMT DEF SleepsOnlyWhenNobodyWaits
  <2> QED  BY <1>1, <1>4, <2>1, <2>2 DEF SleepsOnlyWhenNobodyWaits
<1>10. SomebodyToCut'
  BY <1>1, <1>2, <1>3, <1>4 DEF SomebodyToCut
<1>11. CutsBounded'
  BY <1>1, <1>2, <1>3, <1>4 DEF CutsBounded
<1>12. NobodyForgotten'
  BY <1>1, <1>2, <1>3, <1>4 DEF NobodyForgotten, InShop, Queued, OnChair, BeingCut,
     Signalled, UnitsOfBarber, OneInTheWaitingRoom, SemaphoresHeld,
     SleepsOnlyWhenNobodyWaits, SomebodyToCut
<1> QED  BY <1>5, <1>6, <1>7, <1>8, <1>9, <1>10, <1>11, <1>12

LEMMA StepHandshake ==
    ASSUME IInv, NEW c \in Client, Handshake(c)
    PROVE  IInv'
<1> USE DEF IInv, TypeOK
<1>1. /\ cpc[c] = "handshake"
      /\ cpc'[c] = "sit"
      /\ \A d \in Client : d # c => cpc'[d] = cpc[d]
      /\ cpc' \in [Client -> ClientLabels]
      /\ UNCHANGED <<bpc, toCut>>
  BY DEF Handshake, ClientGoto, ClientLabels, barberVars
<1>2. /\ sem["SLOWER"] > 0 /\ sem'["SLOWER"] = sem["SLOWER"] - 1
      /\ sem'["BARBER"] = sem["BARBER"]
      /\ sem'["FIFO"] = sem["FIFO"]
      /\ sem'["CHECKER"] = sem["CHECKER"]
      /\ sem' \in SemType
  BY SemP DEF Handshake, SemNames
<1>3. UNCHANGED <<res, cuts, fifo, pending>>
  BY DEF Handshake
<1>4. /\ Contents(fifo)' = Contents(fifo) /\ Length(fifo)' = Length(fifo)
      /\ isEmptyFifo(fifo)' = isEmptyFifo(fifo)
  BY <1>3
<1>5. TypeOK' /\ (Contents(fifo) \in Seq(Client))'
  BY <1>1, <1>2, <1>3, <1>4
<1>6. SemaphoresHeld'
  BY <1>1, <1>2, <1>3, <1>4 DEF SemaphoresHeld
<1>7. OneInTheWaitingRoom'
  BY <1>1, <1>2, <1>3, <1>4 DEF OneInTheWaitingRoom
<1>8. UnitsOfBarber'
  BY <1>1, <1>2, <1>3, <1>4 DEF UnitsOfBarber, OneInTheWaitingRoom
<1>9. /\ SleepsOnlyWhenNobodyWaits'
      /\ (bpc = "goSleep" => isEmptyFifo(fifo))'
  BY <1>1, <1>2, <1>3, <1>4 DEF SleepsOnlyWhenNobodyWaits, OneInTheWaitingRoom
<1>10. SomebodyToCut'
  BY <1>1, <1>2, <1>3, <1>4 DEF SomebodyToCut
<1>11. CutsBounded'
  BY <1>1, <1>2, <1>3, <1>4 DEF CutsBounded
<1>12. NobodyForgotten'
  <2>1. \A d \in Client : TakingChair(d)' <=> TakingChair(d)
    BY <1>1, SMT DEF OneInTheWaitingRoom
  <2>2. Called' <=> Called
    BY <1>1, <1>2, SMT DEF UnitsOfBarber
  <2>3. \A d \in Client : InShop(d)' <=> InShop(d)
    BY <1>1, <1>3, <2>1, SMT DEF InShop, Woke, Seated, TurnedAway
  <2>4. \A d \in Client : OnChair(d)' <=> OnChair(d)
    BY <1>3, <1>4, <2>1, <2>2 DEF OnChair
  <2>5. \A d \in Client : BeingCut(d)' <=> BeingCut(d)
    BY <1>1 DEF BeingCut
  <2>6. \A d \in Client : Signalled(d)' <=> Signalled(d)
    BY <1>3 DEF Signalled
  <2>7. \A d \in Client : Queued(d)' <=> Queued(d)
    BY <1>3, <1>4 DEF Queued
  <2>8. (\A i, j \in 1 .. Length(fifo) : Contents(fifo)[i] = Contents(fifo)[j] => i
     = j)'
    BY <1>3, <1>4, <2>3, <2>4 DEF NobodyForgotten
  <2> QED  BY <2>1, <2>2, <2>3, <2>4, <2>5, <2>6, <2>7, <2>8, <1>1, <1>3 DEF
     NobodyForgotten
<1> QED  BY <1>5, <1>6, <1>7, <1>8, <1>9, <1>10, <1>11, <1>12

LEMMA StepSit ==
    ASSUME IInv, NEW c \in Client, Sit(c)
    PROVE  IInv'
<1> USE DEF IInv, TypeOK
<1>1. /\ cpc[c] = "sit"
      /\ cpc'[c] = "unlock"
      /\ \A d \in Client : d # c => cpc'[d] = cpc[d]
      /\ cpc' \in [Client -> ClientLabels]
      /\ UNCHANGED <<bpc, toCut>>
  BY DEF Sit, ClientGoto, ClientLabels, barberVars
<1>2. sem' = sem
  BY DEF Sit
<1>3. /\ UNCHANGED <<cuts, pending>>
      /\ res'[c] = Woke
      /\ \A d \in Client : d # c => res'[d] = res[d]
      /\ res' \in [Client -> {Woke, Seated, TurnedAway}]
  BY DEF Sit
<1>4. /\ fifo' \in FifoType /\ fifo'.chair = c
      /\ isEmptyFifo(fifo') <=> isEmptyFifo(fifo)
      /\ Contents(fifo') = Contents(fifo) /\ Length(fifo') = Length(fifo)
      /\ Contents(fifo') \in Seq(Client)
      /\ Members(fifo') = Members(fifo)
      /\ Distinct(fifo') <=> Distinct(fifo)
  BY SitMembers DEF Sit
<1>13. /\ \A d \in Client : Queued(d) <=> d \in Members(fifo)
       /\ \A d \in Client : Queued(d)' <=> d \in Members(fifo')
       /\ Distinct(fifo)
       /\ Distinct(fifo') => (\A i, j \in 1 .. Length(fifo) :
             Contents(fifo)[i] = Contents(fifo)[j] => i = j)'
  BY DEF Queued, Members, Distinct, NobodyForgotten

<1>5. TypeOK' /\ (Contents(fifo) \in Seq(Client))'
  BY <1>1, <1>2, <1>3, <1>4
<1>6. SemaphoresHeld'
  BY <1>1, <1>2, <1>3, <1>4 DEF SemaphoresHeld
<1>7. OneInTheWaitingRoom'
  BY <1>1, <1>2, <1>3, <1>4 DEF OneInTheWaitingRoom
<1>8. UnitsOfBarber'
  BY <1>1, <1>2, <1>3, <1>4 DEF UnitsOfBarber
<1>9. /\ SleepsOnlyWhenNobodyWaits'
      /\ (bpc = "goSleep" => isEmptyFifo(fifo))'
  BY <1>1, <1>2, <1>3, <1>4 DEF SleepsOnlyWhenNobodyWaits
<1>10. SomebodyToCut'
  BY <1>1, <1>2, <1>3, <1>4 DEF SomebodyToCut
<1>11. CutsBounded'
  BY <1>1, <1>2, <1>3, <1>4 DEF CutsBounded
<1>12. NobodyForgotten'
  <2>1. /\ TakingChair(c)
        /\ \A d \in Client : ~TakingChair(d)' /\ (d # c => ~TakingChair(d))
    BY <1>1, SMT DEF OneInTheWaitingRoom
  <2>2. Called'
    BY <1>1, <1>2, SMT DEF UnitsOfBarber
  <2>3. \A d \in Client : InShop(d)' <=> InShop(d)
    BY <1>1, <1>3, <2>1, SMT DEF InShop, Woke, Seated, TurnedAway
  <2>4. \A d \in Client : (OnChair(d)' <=> d = c) /\ (OnChair(d) <=> d = c)
    BY <1>3, <1>4, <2>1, <2>2 DEF OnChair
  <2>5. \A d \in Client : BeingCut(d)' <=> BeingCut(d)
    BY <1>1 DEF BeingCut
  <2>6. \A d \in Client : Signalled(d)' <=> Signalled(d)
    BY <1>3 DEF Signalled
  <2>7. \A d \in Client : Queued(d)' <=> Queued(d)
    BY <1>4, <1>13
  <2>8. (\A i, j \in 1 .. Length(fifo) : Contents(fifo)[i] = Contents(fifo)[j] => i
     = j)'
    BY <1>4, <1>13, <2>3, <2>4 DEF NobodyForgotten
  <2> QED  BY <2>1, <2>2, <2>3, <2>4, <2>5, <2>6, <2>7, <2>8, <1>1, <1>3 DEF
     NobodyForgotten
<1> QED  BY <1>5, <1>6, <1>7, <1>8, <1>9, <1>10, <1>11, <1>12

LEMMA StepPush ==
    ASSUME IInv, NEW c \in Client, Push(c)
    PROVE  IInv'
<1> USE DEF IInv, TypeOK
<1>1. /\ cpc[c] = "push"
      /\ cpc'[c] = "unlock"
      /\ \A d \in Client : d # c => cpc'[d] = cpc[d]
      /\ cpc' \in [Client -> ClientLabels]
      /\ UNCHANGED <<bpc, toCut>>
  BY DEF Push, ClientGoto, ClientLabels, barberVars
<1>2. sem' = sem
  BY DEF Push
<1>3. /\ UNCHANGED <<cuts, pending>>
      /\ res'[c] = Seated
      /\ \A d \in Client : d # c => res'[d] = res[d]
      /\ res' \in [Client -> {Woke, Seated, TurnedAway}]
  BY DEF Push
<1>4. /\ fifo' \in FifoType /\ ~isEmptyFifo(fifo')
      /\ Contents(fifo') \in Seq(Client)
      /\ Members(fifo') = Members(fifo) \cup {c}
      /\ Distinct(fifo) /\ c \notin Members(fifo) => Distinct(fifo')
      /\ fifo'.chair = fifo.chair
  <2>1. fifo \in FifoType /\ Contents(fifo) \in Seq(Client) /\ ~isFullFifo(fifo)
    BY DEF Push
  <2>2. fifo' = pushFifo(fifo, c)
    BY DEF Push
  <2>3. fifo'.chair = fifo.chair
    BY <2>1, <2>2 DEF pushFifo, FifoType
  <2> QED  BY <2>1, <2>2, <2>3, PushType, PushMembers
<1>13. /\ \A d \in Client : Queued(d) <=> d \in Members(fifo)
       /\ \A d \in Client : Queued(d)' <=> d \in Members(fifo')
       /\ Distinct(fifo)
       /\ Distinct(fifo') => (\A i, j \in 1 .. Length(fifo) :
             Contents(fifo)[i] = Contents(fifo)[j] => i = j)'
  BY DEF Queued, Members, Distinct, NobodyForgotten

<1>5. TypeOK' /\ (Contents(fifo) \in Seq(Client))'
  BY <1>1, <1>2, <1>3, <1>4
<1>6. SemaphoresHeld'
  BY <1>1, <1>2, <1>3, <1>4 DEF SemaphoresHeld
<1>7. OneInTheWaitingRoom'
  BY <1>1, <1>2, <1>3, <1>4 DEF OneInTheWaitingRoom
<1>8. UnitsOfBarber'
  BY <1>1, <1>2, <1>3, <1>4 DEF UnitsOfBarber
<1>9. /\ SleepsOnlyWhenNobodyWaits'
      /\ (bpc = "goSleep" => isEmptyFifo(fifo))'
  BY <1>1, <1>2, <1>3, <1>4 DEF SleepsOnlyWhenNobodyWaits, OneInTheWaitingRoom
<1>10. SomebodyToCut'
  BY <1>1, <1>2, <1>3, <1>4 DEF SomebodyToCut
<1>11. CutsBounded'
  BY <1>1, <1>2, <1>3, <1>4 DEF CutsBounded
<1>12. NobodyForgotten'
  <2>1. \A d \in Client : TakingChair(d)' <=> TakingChair(d)
    BY <1>1, SMT DEF OneInTheWaitingRoom
  <2>2. Called' <=> Called
    BY <1>1, <1>2, SMT DEF UnitsOfBarber
  <2>3. /\ InShop(c)' /\ ~InShop(c)
        /\ \A d \in Client : d # c => (InShop(d)' <=> InShop(d))
    BY <1>1, <1>3, <2>1, SMT DEF InShop, Woke, Seated, TurnedAway
  <2>4. \A d \in Client : OnChair(d)' <=> OnChair(d)
    BY <1>3, <1>4, <2>1, <2>2 DEF OnChair
  <2>5. \A d \in Client : BeingCut(d)' <=> BeingCut(d)
    BY <1>1 DEF BeingCut
  <2>6. \A d \in Client : Signalled(d)' <=> Signalled(d)
    BY <1>3 DEF Signalled
  <2>7. /\ Queued(c)' /\ ~Queued(c)
        /\ \A d \in Client : d # c => (Queued(d)' <=> Queued(d))
    BY <1>4, <1>13, <2>3 DEF NobodyForgotten
  <2>8. (\A i, j \in 1 .. Length(fifo) : Contents(fifo)[i] = Contents(fifo)[j] => i
     = j)'
    BY <1>4, <1>13, <2>7
  <2> QED  BY <2>1, <2>2, <2>3, <2>4, <2>5, <2>6, <2>7, <2>8, <1>1, <1>3 DEF
     NobodyForgotten
<1> QED  BY <1>5, <1>6, <1>7, <1>8, <1>9, <1>10, <1>11, <1>12

LEMMA StepPushFull ==
    ASSUME IInv, NEW c \in Client, PushFull(c)
    PROVE  IInv'
<1> USE DEF IInv, TypeOK
<1>1. /\ cpc[c] = "push"
      /\ cpc'[c] = "unlock"
      /\ \A d \in Client : d # c => cpc'[d] = cpc[d]
      /\ cpc' \in [Client -> ClientLabels]
      /\ UNCHANGED <<bpc, toCut>>
  BY DEF PushFull, ClientGoto, ClientLabels, barberVars
<1>2. sem' = sem
  BY DEF PushFull
<1>3. /\ UNCHANGED <<cuts, fifo, pending>>
      /\ res'[c] = TurnedAway
      /\ \A d \in Client : d # c => res'[d] = res[d]
      /\ res' \in [Client -> {Woke, Seated, TurnedAway}]
  BY DEF PushFull
<1>4. /\ Contents(fifo)' = Contents(fifo) /\ Length(fifo)' = Length(fifo)
      /\ isEmptyFifo(fifo)' = isEmptyFifo(fifo)
  BY <1>3
<1>5. TypeOK' /\ (Contents(fifo) \in Seq(Client))'
  BY <1>1, <1>2, <1>3, <1>4
<1>6. SemaphoresHeld'
  BY <1>1, <1>2, <1>3, <1>4 DEF SemaphoresHeld
<1>7. OneInTheWaitingRoom'
  BY <1>1, <1>2, <1>3, <1>4 DEF OneInTheWaitingRoom
<1>8. UnitsOfBarber'
  BY <1>1, <1>2, <1>3, <1>4 DEF UnitsOfBarber
<1>9. /\ SleepsOnlyWhenNobodyWaits'
      /\ (bpc = "goSleep" => isEmptyFifo(fifo))'
  BY <1>1, <1>2, <1>3, <1>4 DEF SleepsOnlyWhenNobodyWaits
<1>10. SomebodyToCut'
  BY <1>1, <1>2, <1>3, <1>4 DEF SomebodyToCut
<1>11. CutsBounded'
  BY <1>1, <1>2, <1>3, <1>4 DEF CutsBounded
<1>12. NobodyForgotten'
  <2>1. \A d \in Client : TakingChair(d)' <=> TakingChair(d)
    BY <1>1, SMT DEF OneInTheWaitingRoom
  <2>2. Called' <=> Called
    BY <1>1, <1>2, SMT DEF UnitsOfBarber
  <2>3. \A d \in Client : InShop(d)' <=> InShop(d)
    BY <1>1, <1>3, <2>1, SMT DEF InShop, Woke, Seated, TurnedAway
  <2>4. \A d \in Client : OnChair(d)' <=> OnChair(d)
    BY <1>3, <1>4, <2>1, <2>2 DEF OnChair
  <2>5. \A d \in Client : BeingCut(d)' <=> BeingCut(d)
    BY <1>1 DEF BeingCut
  <2>6. \A d \in Client : Signalled(d)' <=> Signalled(d)
    BY <1>3 DEF Signalled
  <2>7. \A d \in Client : Queued(d)' <=> Queued(d)
    BY <1>3, <1>4 DEF Queued
  <2>8. (\A i, j \in 1 .. Length(fifo) : Contents(fifo)[i] = Contents(fifo)[j] => i
     = j)'
    BY <1>3, <1>4, <2>3, <2>4 DEF NobodyForgotten
  <2> QED  BY <2>1, <2>2, <2>3, <2>4, <2>5, <2>6, <2>7, <2>8, <1>1, <1>3 DEF
     NobodyForgotten
<1> QED  BY <1>5, <1>6, <1>7, <1>8, <1>9, <1>10, <1>11, <1>12

LEMMA StepUnlock ==
    ASSUME IInv, NEW c \in Client, Unlock(c)
    PROVE  IInv'
<1> USE DEF IInv, TypeOK
<1>1. /\ cpc[c] = "unlock"
      /\ cpc'[c] = "uncheck"
      /\ \A d \in Client : d # c => cpc'[d] = cpc[d]
      /\ cpc' \in [Client -> ClientLabels]
      /\ UNCHANGED <<bpc, toCut>>
  BY DEF Unlock, ClientGoto, ClientLabels, barberVars
<1>2. /\ sem'["FIFO"] = sem["FIFO"] + 1
      /\ sem'["BARBER"] = sem["BARBER"]
      /\ sem'["CHECKER"] = sem["CHECKER"]
      /\ sem'["SLOWER"] = sem["SLOWER"]
      /\ sem' \in SemType
  <2>1. sem["FIFO"] + 1 <= 1
    BY <1>1, SMT DEF SemaphoresHeld, UnitsOfBarber, SleepsOnlyWhenNobodyWaits,
       OneInTheWaitingRoom
  <2> QED  BY <2>1, SemV DEF Unlock, SemNames
<1>3. UNCHANGED <<res, cuts, fifo, pending>>
  BY DEF Unlock
<1>4. /\ Contents(fifo)' = Contents(fifo) /\ Length(fifo)' = Length(fifo)
      /\ isEmptyFifo(fifo)' = isEmptyFifo(fifo)
  BY <1>3
<1>5. TypeOK' /\ (Contents(fifo) \in Seq(Client))'
  BY <1>1, <1>2, <1>3, <1>4
<1>6. SemaphoresHeld'
  <2>1. ~BarberHoldsFifo' /\ \A d \in Client : ~HoldsFifo(d)'
    <3>1. HoldsFifo(c)
      BY <1>1
    <3>2. ~BarberHoldsFifo /\ \A d \in Client : d # c => ~HoldsFifo(d)
      BY <3>1 DEF OneInTheWaitingRoom
    <3> QED  BY <1>1, <3>2
  <2>2. sem["FIFO"] \in 0 .. 1
    BY SMT
  <2>3. sem'["FIFO"] # 0
    BY <1>2, <2>2, SMT
  <2>4. \A d \in Client : HoldsCheck(d)' <=> HoldsCheck(d)
    BY <1>1, SMT
  <2> QED  BY <1>2, <2>1, <2>3, <2>4 DEF SemaphoresHeld
<1>7. OneInTheWaitingRoom'
  BY <1>1, <1>2, <1>3, <1>4 DEF OneInTheWaitingRoom
<1>8. UnitsOfBarber'
  BY <1>1, <1>2, <1>3, <1>4 DEF UnitsOfBarber
<1>9. /\ SleepsOnlyWhenNobodyWaits'
      /\ (bpc = "goSleep" => isEmptyFifo(fifo))'
  BY <1>1, <1>2, <1>3, <1>4 DEF SleepsOnlyWhenNobodyWaits
<1>10. SomebodyToCut'
  BY <1>1, <1>2, <1>3, <1>4 DEF SomebodyToCut
<1>11. CutsBounded'
  BY <1>1, <1>2, <1>3, <1>4 DEF CutsBounded
<1>12. NobodyForgotten'
  <2>1. \A d \in Client : TakingChair(d)' <=> TakingChair(d)
    BY <1>1, SMT
  <2>2. Called' <=> Called
    BY <1>1, <1>2
  <2>3. \A d \in Client : InShop(d)' <=> InShop(d)
    BY <1>1, <1>3, <2>1, SMT DEF InShop
  <2>4. \A d \in Client : OnChair(d)' <=> OnChair(d)
    BY <1>3, <2>1, <2>2 DEF OnChair
  <2>5. \A d \in Client : /\ BeingCut(d)' <=> BeingCut(d)
                          /\ Signalled(d)' <=> Signalled(d)
                          /\ Queued(d)' <=> Queued(d)
    BY <1>1, <1>3, <1>4 DEF BeingCut, Signalled, Queued
  <2> QED  BY <2>3, <2>4, <2>5, <1>3, <1>4 DEF NobodyForgotten
<1> QED  BY <1>5, <1>6, <1>7, <1>8, <1>9, <1>10, <1>11, <1>12

LEMMA StepUncheck ==
    ASSUME IInv, NEW c \in Client, Uncheck(c)
    PROVE  IInv'
<1> USE DEF IInv, TypeOK
<1>1. /\ cpc[c] = "uncheck"
      /\ cpc'[c] = IF res[c] = TurnedAway THEN "test" ELSE "suspend"
      /\ \A d \in Client : d # c => cpc'[d] = cpc[d]
      /\ cpc' \in [Client -> ClientLabels]
      /\ UNCHANGED <<bpc, toCut>>
  BY DEF Uncheck, ClientGoto, ClientLabels, barberVars
<1>2. /\ sem'["CHECKER"] = sem["CHECKER"] + 1
      /\ sem'["BARBER"] = sem["BARBER"]
      /\ sem'["FIFO"] = sem["FIFO"]
      /\ sem'["SLOWER"] = sem["SLOWER"]
      /\ sem' \in SemType
  <2>1. sem["CHECKER"] + 1 <= 1
    BY <1>1, SMT DEF SemaphoresHeld, UnitsOfBarber, SleepsOnlyWhenNobodyWaits,
       OneInTheWaitingRoom
  <2> QED  BY <2>1, SemV DEF Uncheck, SemNames
<1>3. UNCHANGED <<res, cuts, fifo, pending>>
  BY DEF Uncheck
<1>4. /\ Contents(fifo)' = Contents(fifo) /\ Length(fifo)' = Length(fifo)
      /\ isEmptyFifo(fifo)' = isEmptyFifo(fifo)
  BY <1>3
<1>5. TypeOK' /\ (Contents(fifo) \in Seq(Client))'
  BY <1>1, <1>2, <1>3, <1>4
<1>6. SemaphoresHeld'
  BY <1>1, <1>2, <1>3, <1>4 DEF SemaphoresHeld, OneInTheWaitingRoom
<1>7. OneInTheWaitingRoom'
  BY <1>1, <1>2, <1>3, <1>4 DEF OneInTheWaitingRoom
<1>8. UnitsOfBarber'
  BY <1>1, <1>2, <1>3, <1>4 DEF UnitsOfBarber
<1>9. /\ SleepsOnlyWhenNobodyWaits'
      /\ (bpc = "goSleep" => isEmptyFifo(fifo))'
  BY <1>1, <1>2, <1>3, <1>4 DEF SleepsOnlyWhenNobodyWaits
<1>10. SomebodyToCut'
  BY <1>1, <1>2, <1>3, <1>4 DEF SomebodyToCut
<1>11. CutsBounded'
  BY <1>1, <1>2, <1>3, <1>4 DEF CutsBounded
<1>12. NobodyForgotten'
  <2>1. \A d \in Client : TakingChair(d)' <=> TakingChair(d)
    BY <1>1, SMT DEF OneInTheWaitingRoom
  <2>2. Called' <=> Called
    BY <1>1, <1>2, SMT DEF UnitsOfBarber
  <2>3. \A d \in Client : InShop(d)' <=> InShop(d)
    BY <1>1, <1>3, <2>1, SMT DEF InShop, Woke, Seated, TurnedAway
  <2>4. \A d \in Client : OnChair(d)' <=> OnChair(d)
    BY <1>3, <1>4, <2>1, <2>2 DEF OnChair
  <2>5. \A d \in Client : BeingCut(d)' <=> BeingCut(d)
    BY <1>1 DEF BeingCut
  <2>6. \A d \in Client : Signalled(d)' <=> Signalled(d)
    BY <1>3 DEF Signalled
  <2>7. \A d \in Client : Queued(d)' <=> Queued(d)
    BY <1>3, <1>4 DEF Queued
  <2>8. (\A i, j \in 1 .. Length(fifo) : Contents(fifo)[i] = Contents(fifo)[j] => i
     = j)'
    BY <1>3, <1>4, <2>3, <2>4 DEF NobodyForgotten
  <2> QED  BY <2>1, <2>2, <2>3, <2>4, <2>5, <2>6, <2>7, <2>8, <1>1, <1>3 DEF
     NobodyForgotten
<1> QED  BY <1>5, <1>6, <1>7, <1>8, <1>9, <1>10, <1>11, <1>12

LEMMA StepSuspend ==
    ASSUME IInv, NEW c \in Client, Suspend(c)
    PROVE  IInv'
<1> USE DEF IInv, TypeOK
<1>1. /\ cpc[c] = "suspend"
      /\ cpc'[c] = "test"
      /\ \A d \in Client : d # c => cpc'[d] = cpc[d]
      /\ cpc' \in [Client -> ClientLabels]
      /\ UNCHANGED <<bpc, toCut>>
  BY DEF Suspend, ClientGoto, ClientLabels, barberVars
<1>2. sem' = sem
  BY DEF Suspend
<1>3. /\ UNCHANGED <<res, fifo>>
      /\ pending[c] = 1 /\ pending'[c] = 0
      /\ \A d \in Client : d # c => pending'[d] = pending[d] /\ cuts'[d] = cuts[d]
      /\ pending' \in [Client -> {0, 1}]
      /\ cuts'[c] = cuts[c] + 1
      /\ cuts' \in [Client -> 0 .. CutsNumber]
  <2>1. pending[c] = 1
    BY DEF Suspend
  <2>2. cuts[c] + 1 \in 0 .. CutsNumber
    BY <1>1, BarberPosixAssumption, SMT DEF CutsBounded
  <2> QED  BY <2>1, <2>2 DEF Suspend
<1>4. /\ Contents(fifo)' = Contents(fifo) /\ Length(fifo)' = Length(fifo)
      /\ isEmptyFifo(fifo)' = isEmptyFifo(fifo)
  BY <1>3
<1>5. TypeOK' /\ (Contents(fifo) \in Seq(Client))'
  BY <1>1, <1>2, <1>3, <1>4
<1>6. SemaphoresHeld'
  BY <1>1, <1>2, <1>3, <1>4 DEF SemaphoresHeld
<1>7. OneInTheWaitingRoom'
  BY <1>1, <1>2, <1>3, <1>4 DEF OneInTheWaitingRoom
<1>8. UnitsOfBarber'
  BY <1>1, <1>2, <1>3, <1>4 DEF UnitsOfBarber
<1>9. /\ SleepsOnlyWhenNobodyWaits'
      /\ (bpc = "goSleep" => isEmptyFifo(fifo))'
  BY <1>1, <1>2, <1>3, <1>4 DEF SleepsOnlyWhenNobodyWaits
<1>10. SomebodyToCut'
  BY <1>1, <1>2, <1>3, <1>4 DEF SomebodyToCut
<1>11. CutsBounded'
  BY <1>1, <1>2, <1>3, <1>4 DEF CutsBounded
<1>12. NobodyForgotten'
  <2>1. \A d \in Client : TakingChair(d)' <=> TakingChair(d)
    BY <1>1, SMT DEF OneInTheWaitingRoom
  <2>2. Called' <=> Called
    BY <1>1, <1>2, SMT DEF UnitsOfBarber
  <2>3. /\ InShop(c) /\ ~InShop(c)'
        /\ \A d \in Client : d # c => (InShop(d)' <=> InShop(d))
    BY <1>1, <1>3, <2>1, SMT DEF InShop, Woke, Seated, TurnedAway
  <2>4. \A d \in Client : OnChair(d)' <=> OnChair(d)
    BY <1>3, <1>4, <2>1, <2>2 DEF OnChair
  <2>5. \A d \in Client : BeingCut(d)' <=> BeingCut(d)
    BY <1>1 DEF BeingCut
  <2>6. /\ Signalled(c) /\ ~Signalled(c)'
        /\ \A d \in Client : d # c => (Signalled(d)' <=> Signalled(d))
    BY <1>3 DEF Signalled
  <2>7. \A d \in Client : Queued(d)' <=> Queued(d)
    BY <1>3, <1>4 DEF Queued
  <2>8. (\A i, j \in 1 .. Length(fifo) : Contents(fifo)[i] = Contents(fifo)[j] => i
     = j)'
    BY <1>3, <1>4, <2>3, <2>4 DEF NobodyForgotten
  <2> QED  BY <2>1, <2>2, <2>3, <2>4, <2>5, <2>6, <2>7, <2>8, <1>1, <1>3 DEF
     NobodyForgotten
<1> QED  BY <1>5, <1>6, <1>7, <1>8, <1>9, <1>10, <1>11, <1>12

-----------------------------------------------------------------------------
(* The induction. *)

LEMMA InitIInv == Init => IInv
<1> SUFFICES ASSUME Init PROVE IInv
  OBVIOUS
<1>1. /\ fifo = fifoInit /\ fifo \in FifoType /\ Contents(fifo) = <<>>
      /\ fifo.chair = NoPid
  BY InitContents DEF Init, fifoInit
<1>2. /\ Length(fifo) = 0
      /\ isEmptyFifo(fifo)
      /\ 1 .. Length(fifo) = {}
  <2>1. isEmptyFifo(fifo)
    BY <1>1 DEF isEmptyFifo, fifoInit
  <2> QED  BY <2>1, SMT DEF Length
<1>3. /\ sem = [BARBER |-> 0, SLOWER |-> 0, FIFO |-> 1, CHECKER |-> 1]
      /\ bpc = "sleep" /\ toCut = NoPid
      /\ \A c \in Client : /\ cpc[c] = "test" /\ res[c] = TurnedAway
                           /\ cuts[c] = 0 /\ pending[c] = 0
  BY DEF Init
<1>4. sem["BARBER"] = 0 /\ sem["FIFO"] = 1 /\ sem["CHECKER"] = 1
  BY <1>3
<1>5. TypeOK
  <2>1. cuts \in [Client -> 0 .. CutsNumber]
    BY BarberPosixAssumption, SMT DEF Init
  <2>2. sem \in SemType
    BY <1>3, SMT
  <2>3. pending \in [Client -> {0, 1}] /\ cpc \in [Client -> ClientLabels]
    BY DEF Init, ClientLabels
  <2>4. res \in [Client -> {Woke, Seated, TurnedAway}]
    BY DEF Init
  <2> QED  BY <1>1, <1>3, <2>1, <2>2, <2>3, <2>4 DEF TypeOK, BarberLabels
<1>6. SemaphoresHeld
  BY <1>3, <1>4, SMT DEF SemaphoresHeld, HoldsCheck
<1>7. OneInTheWaitingRoom
  BY <1>3 DEF OneInTheWaitingRoom, HoldsFifo
<1>8. UnitsOfBarber
  BY <1>3, <1>4, SMT DEF UnitsOfBarber, TakingChair
<1>9. SleepsOnlyWhenNobodyWaits
  BY <1>2, <1>3 DEF SleepsOnlyWhenNobodyWaits
<1>10. SomebodyToCut /\ ~Called
  BY <1>3, <1>4, SMT DEF SomebodyToCut, Called
<1>11. CutsBounded
  BY <1>3 DEF CutsBounded
<1>12. NobodyForgotten
  <2>1. \A c \in Client : ~Queued(c)
    BY <1>2 DEF Queued
  <2>2. \A c \in Client : ~TakingChair(c) /\ ~InShop(c)
    BY <1>3 DEF InShop
  <2>3. \A c \in Client : ~OnChair(c) /\ ~BeingCut(c)
    BY <1>3, <1>10, <2>2 DEF OnChair, BeingCut
  <2>4. \A c \in Client : ~Signalled(c)
    <3> TAKE c \in Client
    <3>1. pending[c] = 0
      BY <1>3
    <3>2. pending[c] # 1
      BY <3>1, SMT
    <3> QED  BY <3>2 DEF Signalled
  <2> QED  BY <1>2, <2>1, <2>2, <2>3, <2>4 DEF NobodyForgotten
<1>13. Contents(fifo) \in Seq(Client)
  BY <1>1
<1> QED  BY <1>3, <1>5, <1>6, <1>7, <1>8, <1>9, <1>10, <1>11, <1>12, <1>13 DEF IInv

LEMMA NextIInv == IInv /\ [Next]_vars => IInv'
<1> SUFFICES ASSUME IInv, [Next]_vars PROVE IInv'
  OBVIOUS
<1>1. CASE BarberNext
  BY <1>1, StepWakeUp, StepPutBack, StepAnswer, StepChairLock, StepChairRead,
     StepChairRelease, StepCut, StepLoopLock, StepPopNext,
     StepPopNobody, StepPopRelease, StepGoSleep, StepSleepRelease DEF BarberNext
<1>2. CASE \E c \in Client : ClientNext(c)
  <2>1. PICK c \in Client : ClientNext(c)
    BY <1>2
  <2> QED  BY <2>1, StepTestCuts, StepCheck, StepLock, StepStat, StepWake,
              StepHandshake, StepSit, StepPush, StepPushFull, StepUnlock, StepUncheck,
              StepSuspend DEF ClientNext
<1>3. CASE UNCHANGED vars
  <2>1. UNCHANGED <<fifo, sem, bpc, toCut, cpc, res, cuts, pending>>
    BY <1>3 DEF vars
  <2> QED  BY <2>1
           DEF IInv, TypeOK, SemaphoresHeld, OneInTheWaitingRoom,
               UnitsOfBarber, TakingChair,
               SleepsOnlyWhenNobodyWaits, SomebodyToCut, Called,
               CutsBounded, NobodyForgotten, InShop, Queued, OnChair, BeingCut,
               Signalled
<1>4. CASE Closed
  BY <1>3, <1>4 DEF Closed
<1> QED  BY <1>1, <1>2, <1>3, <1>4 DEF Next

\* The strengthened invariant holds in every reachable state of the shop.
THEOREM PosixInvariance == Spec => []IInv
  BY InitIInv, NextIInv, PTL DEF Spec

-----------------------------------------------------------------------------
\* The variables keep their types; in particular every one of the four
\* semaphores is binary, no client has two signals queued, and kill is never
\* called with a pid nobody has (barber.c:58-104, breeder.c:83-146).
\* And at most one process holds the FIFO semaphore, the barber included.
THEOREM PosixExcludes == Spec => []WaitingRoomOK
<1>1. IInv => WaitingRoomOK
  BY DEF IInv, WaitingRoomOK
<1> QED  BY <1>1, PosixInvariance, PTL

\* The barber sleeps only over an empty queue, and a client that looks at BARBER
\* with FIFO held decides right: it wakes a barber who sleeps and queues for one
\* who does not.
THEOREM PosixSleepsRight == Spec => []SleepsOnlyWhenNobodyWaits
<1>1. IInv => SleepsOnlyWhenNobodyWaits
  BY DEF IInv
<1> QED  BY <1>1, PosixInvariance, PTL

\* Nobody who waits for a cut is forgotten and nobody is signalled twice.
THEOREM PosixForgetsNobody == Spec => []NobodyForgotten
<1>1. IInv => NobodyForgotten
  BY DEF IInv
<1> QED  BY <1>1, PosixInvariance, PTL

-----------------------------------------------------------------------------
(* The refinement: every step of the program is a step of BarberShop, or     *)
(* leaves the shop as it is.  Seat and Gone are the images of the chair and   *)
(* of the clients who were turned away.                                      *)

HIDE DEF HoldsFifo, BarberHoldsFifo, HoldsCheck, TakingChair, Asleep, Called, Waking,
         SemType

SeatTaken(c) == OnChair(c) \/ BeingCut(c)

Seat == IF \E c \in Client : OnChair(c) THEN CHOOSE c \in Client : OnChair(c)
        ELSE IF \E c \in Client : BeingCut(c) THEN toCut
        ELSE NoPid

Finished == {c \in Client : Signalled(c)}

Gone == {c \in Client : /\ cpc[c] \in {"unlock", "uncheck"}
                        /\ res[c] = TurnedAway}

\* There is one client at most on the chair or under the scissors, and the
\* chair of the shop is his.
SeatRight == /\ \A c \in Client : Seat = c <=> SeatTaken(c)
             /\ Seat = NoPid <=> \A c \in Client : ~SeatTaken(c)
             /\ Seat \in Client \cup {NoPid}

LEMMA SeatIsTaken == IInv => SeatRight
<1> SUFFICES ASSUME IInv
             PROVE  SeatRight
  OBVIOUS
<1> USE DEF SeatRight
<1>1. \A c, d \in Client : OnChair(c) /\ OnChair(d) => c = d
  BY DEF IInv, OneInTheWaitingRoom, OnChair, TakingChair, HoldsFifo
<1>2. \A c, d \in Client : OnChair(c) => ~BeingCut(d)
  BY DEF IInv, UnitsOfBarber, OnChair, BeingCut, Called, TakingChair, Waking
<1>3. \A c, d \in Client : BeingCut(c) /\ BeingCut(d) => c = d /\ c = toCut
  BY DEF BeingCut
<1>4. CASE \E c \in Client : OnChair(c)
  <2>1. Seat \in Client /\ OnChair(Seat)
    BY <1>4 DEF Seat
  <2> QED  BY <1>1, <1>2, <2>1, FifoAssumption DEF SeatTaken
<1>5. CASE (\A c \in Client : ~OnChair(c)) /\ \E c \in Client : BeingCut(c)
  <2>1. Seat \in Client /\ BeingCut(Seat)
    BY <1>3, <1>5 DEF Seat
  <2> QED  BY <1>3, <1>5, <2>1, FifoAssumption DEF SeatTaken
<1>6. CASE \A c \in Client : ~OnChair(c) /\ ~BeingCut(c)
  <2>1. Seat = NoPid
    BY <1>6 DEF Seat
  <2> QED  BY <1>6, <2>1, FifoAssumption DEF SeatTaken
<1> QED  BY <1>4, <1>5, <1>6

\* The chair changes hands only when the client on it does.
LEMMA SeatAfter ==
    ASSUME IInv, IInv'
    PROVE  /\ (\A c \in Client : SeatTaken(c)' <=> SeatTaken(c)) => Seat' = Seat
           /\ \A c \in Client : Seat' = c <=> SeatTaken(c)'
           /\ Seat' = NoPid <=> \A c \in Client : ~SeatTaken(c)'
<1>1. SeatRight'
  BY SeatIsTaken, PTL
<1> QED  BY <1>1, SeatIsTaken DEF SeatRight

\* A step that moves nobody between the places of the shop leaves the shop as
\* it is.
LEMMA SameShop ==
    ASSUME IInv, IInv',
           Asleep' = Asleep,
           \A c \in Client : SeatTaken(c)' <=> SeatTaken(c),
           UNCHANGED <<Contents(fifo), Finished, Gone, cuts>>
    PROVE  UNCHANGED Shop!vars
<1>1. Seat' = Seat
  BY SeatAfter
<1> QED  BY <1>1 DEF Shop!vars, Seat, Finished, Gone

\* A client who is about to wake the barber or to queue is nowhere in the shop.
LEMMA Arriving ==
    ASSUME IInv, NEW c \in Client, cpc[c] \in {"wake", "push"}
    PROVE  /\ ~Shop!InShop(c)
           /\ cuts[c] < CutsNumber
<1>1. ~InShop(c)
  BY DEF InShop, TakingChair
<1>2. ~Queued(c) /\ ~SeatTaken(c) /\ ~Signalled(c)
  BY <1>1 DEF IInv, NobodyForgotten, SeatTaken
<1>3. Seat # c
  BY <1>2, SeatIsTaken DEF SeatRight
<1>4. ~ \E i \in 1 .. Len(Contents(fifo)) : Contents(fifo)[i] = c
  BY <1>2, LenContents DEF IInv, TypeOK, Queued
<1>5. c \notin Finished /\ c \notin Gone
  BY <1>2 DEF Finished, Gone
<1>6. cuts[c] < CutsNumber
  BY DEF IInv, CutsBounded
<1> QED  BY <1>3, <1>4, <1>5, <1>6 DEF Shop!InShop, Seat, Finished, Gone

-----------------------------------------------------------------------------
(* The steps that the shop sees. *)

LEMMA CutFinishes ==
    ASSUME IInv, IInv', Cut
    PROVE  Shop!FinishCut
<1>1. /\ bpc = "cut" /\ bpc' = "loopLock" /\ toCut \in Client
      /\ UNCHANGED <<fifo, sem, toCut, cpc, res, cuts>>
  BY DEF Cut, BarberGoto, clientVars, IInv, SomebodyToCut
<1>2. Seat = toCut /\ Seat # NoPid
  BY <1>1, SeatIsTaken, FifoAssumption DEF SeatRight, SeatTaken, BeingCut
<1>3. Seat' = NoPid
  <2>1. \A c \in Client : ~TakingChair(c)'
    BY <1>1 DEF IInv, UnitsOfBarber, TakingChair, Waking
  <2>2. \A c \in Client : ~SeatTaken(c)'
    BY <1>1, <2>1 DEF SeatTaken, OnChair, BeingCut, Called
  <2> QED  BY <2>2, SeatAfter
<1>4. Finished' = Finished \cup {Seat}
  <2>1. ~Signalled(toCut)
    BY <1>1 DEF IInv, NobodyForgotten, BeingCut
  <2>2. pending' = [pending EXCEPT ![toCut] = @ + 1] /\ pending \in [Client -> {0, 1}]
    BY DEF Cut, IInv, TypeOK
  <2>3. pending[toCut] = 0
    BY <1>1, <2>1, <2>2 DEF Signalled
  <2>4. pending'[toCut] = 1 /\ \A c \in Client : c # toCut => pending'[c] = pending[c]
    BY <1>1, <2>2, <2>3
  <2> QED  BY <1>1, <1>2, <2>4 DEF Finished, Signalled
<1>5. Asleep' = Asleep /\ Gone' = Gone
  BY <1>1 DEF Asleep, Gone
<1> QED  BY <1>1, <1>2, <1>3, <1>4, <1>5 DEF Shop!FinishCut, Seat, Finished, Gone

LEMMA PopInvites ==
    ASSUME IInv, IInv', PopNext
    PROVE  Shop!Invite
<1>1. /\ bpc = "pop" /\ bpc' = "popRelease"
      /\ ~isEmptyFifo(fifo) /\ fifo' = popFifo(fifo) /\ toCut' = fifo'.chair
      /\ UNCHANGED <<sem, cpc, res, cuts, pending>>
  BY DEF PopNext, BarberGoto, clientVars
<1>2. /\ Contents(fifo) # <<>>
      /\ toCut' = Head(Contents(fifo))
      /\ Contents(fifo)' = Tail(Contents(fifo))
  BY <1>1, PopTakesHead DEF IInv, TypeOK
<1>3. \A c \in Client : ~TakingChair(c)
  BY <1>1 DEF IInv, UnitsOfBarber, TakingChair, Waking
<1>4. Seat = NoPid
  <2>1. \A c \in Client : ~SeatTaken(c)
    BY <1>1, <1>3 DEF SeatTaken, OnChair, BeingCut, Called
  <2> QED  BY <2>1, SeatIsTaken DEF SeatRight
<1>5. Seat' = toCut'
  <2>1. toCut' \in Client
    BY <1>1 DEF IInv, SomebodyToCut
  <2>2. SeatTaken(toCut)'
    BY <1>1 DEF SeatTaken, BeingCut
  <2> QED  BY <2>1, <2>2, SeatAfter
<1>6. Asleep' = Asleep /\ Gone' = Gone /\ Finished' = Finished
  BY <1>1 DEF Asleep, Gone, Finished, Signalled
<1> QED  BY <1>1, <1>2, <1>4, <1>5, <1>6 DEF Shop!Invite, Seat, Finished, Gone

LEMMA GoSleepFallsAsleep ==
    ASSUME IInv, IInv', GoSleep
    PROVE  Shop!FallAsleep
<1>1. /\ bpc = "goSleep" /\ bpc' = "sleepRelease"
      /\ UNCHANGED <<fifo, toCut, cpc, res, cuts, pending>>
  BY DEF GoSleep, BarberGoto, clientVars
<1>2. \A c \in Client : ~TakingChair(c) /\ ~TakingChair(c)'
  BY <1>1 DEF IInv, UnitsOfBarber, TakingChair, Waking
<1>3. \A c \in Client : ~SeatTaken(c) /\ ~SeatTaken(c)'
  BY <1>1, <1>2 DEF SeatTaken, OnChair, BeingCut, Called
<1>4. Seat = NoPid /\ Seat' = NoPid
  BY <1>3, SeatIsTaken, SeatAfter DEF SeatRight
<1>5. Contents(fifo) = <<>>
  <2>1. isEmptyFifo(fifo) /\ fifo \in FifoType /\ Contents(fifo) \in Seq(Client)
    BY <1>1 DEF IInv, TypeOK
  <2>2. Len(Contents(fifo)) = 0
    BY <2>1, LengthType, LenContents
  <2> QED  BY <2>1, <2>2, EmptySeq
<1>6. ~Asleep /\ Asleep' = TRUE
  BY <1>1 DEF Asleep
<1>7. UNCHANGED <<Contents(fifo), Gone, Finished>>
  BY <1>1 DEF Gone, Finished, Signalled
<1> QED  BY <1>1, <1>4, <1>5, <1>6, <1>7 DEF Shop!FallAsleep, Seat, Finished, Gone

LEMMA WakeWakes ==
    ASSUME IInv, IInv', NEW c \in Client, Wake(c)
    PROVE  Shop!Wake(c)
<1>1. /\ cpc[c] = "wake" /\ cpc'[c] = "handshake"
      /\ \A d \in Client : d # c => cpc'[d] = cpc[d]
      /\ UNCHANGED <<fifo, bpc, toCut, res, cuts, pending>>
  BY DEF Wake, ClientGoto, barberVars, IInv, TypeOK
<1>2. ~Shop!InShop(c) /\ cuts[c] < CutsNumber
  BY <1>1, Arriving
<1>3. bpc = "sleep" /\ Asleep
  BY <1>1 DEF IInv, SleepsOnlyWhenNobodyWaits
<1>4. ~Asleep'
  <2>1. sem["BARBER"] \in 0 .. 1 /\ sem'["BARBER"] = sem["BARBER"] + 1
    BY SMT DEF Wake, V, IInv, TypeOK
  <2>2. sem'["BARBER"] # 0
    BY <2>1, SMT
  <2> QED  BY <1>1, <1>3, <2>2 DEF Asleep
<1>5. Seat' = c
  <2>1. SeatTaken(c)'
    BY <1>1 DEF SeatTaken, OnChair, TakingChair
  <2> QED  BY <2>1, SeatAfter
<1>6. Contents(fifo)' = Contents(fifo) /\ Gone' = Gone /\ Finished' = Finished
  BY <1>1 DEF Gone, Finished, Signalled
<1> QED  BY <1>1, <1>2, <1>3, <1>4, <1>5, <1>6 DEF Shop!Wake, Seat, Finished, Gone

LEMMA PushTakesSeat ==
    ASSUME IInv, IInv', NEW c \in Client, Push(c)
    PROVE  Shop!TakeSeat(c)
<1>1. /\ cpc[c] = "push" /\ cpc'[c] = "unlock"
      /\ \A d \in Client : d # c => cpc'[d] = cpc[d] /\ res'[d] = res[d]
      /\ ~isFullFifo(fifo) /\ fifo' = pushFifo(fifo, c) /\ res'[c] = Seated
      /\ UNCHANGED <<sem, bpc, toCut, cuts, pending>>
  BY DEF Push, ClientGoto, barberVars, IInv, TypeOK
<1>2. ~Shop!InShop(c) /\ cuts[c] < CutsNumber
  BY <1>1, Arriving
<1>3. /\ Contents(fifo)' = Append(Contents(fifo), c)
      /\ fifo'.chair = fifo.chair
      /\ Len(Contents(fifo)) < Chairs
  <2>1. fifo \in FifoType /\ Contents(fifo) \in Seq(Client)
    BY DEF IInv, TypeOK
  <2>2. Length(fifo) \in 0 .. Chairs /\ Length(fifo) # Chairs
    BY <1>1, <2>1, LengthType
  <2>3. Length(fifo) < Chairs
    BY <2>2, FifoAssumption, SMT
  <2>4. fifo'.chair = fifo.chair
    BY <1>1, <2>1 DEF pushFifo, FifoType
  <2> QED  BY <1>1, <2>1, <2>3, <2>4, LenContents, PushAppends
<1>4. ~Asleep /\ Asleep' = Asleep
  BY <1>1 DEF IInv, SleepsOnlyWhenNobodyWaits, Asleep
<1>5. \A d \in Client : TakingChair(d)' <=> TakingChair(d)
  BY <1>1 DEF TakingChair
<1>6. \A d \in Client : SeatTaken(d)' <=> SeatTaken(d)
  BY <1>1, <1>3, <1>5 DEF SeatTaken, OnChair, BeingCut, Called
<1>7. Seat' = Seat
  BY <1>6, SeatAfter
<1>8. Gone' = Gone /\ Finished' = Finished
  BY <1>1 DEF Gone, Finished, Signalled, Seated, TurnedAway
<1> QED  BY <1>1, <1>2, <1>3, <1>4, <1>7, <1>8
         DEF Shop!TakeSeat, Seat, Finished, Gone

LEMMA PushFullTurnsAway ==
    ASSUME IInv, IInv', NEW c \in Client, PushFull(c)
    PROVE  Shop!TurnAway(c)
<1>1. /\ cpc[c] = "push" /\ cpc'[c] = "unlock"
      /\ \A d \in Client : d # c => cpc'[d] = cpc[d] /\ res'[d] = res[d]
      /\ isFullFifo(fifo) /\ res'[c] = TurnedAway
      /\ UNCHANGED <<fifo, sem, bpc, toCut, cuts, pending>>
  BY DEF PushFull, ClientGoto, barberVars, IInv, TypeOK
<1>2. ~Shop!InShop(c) /\ cuts[c] < CutsNumber
  BY <1>1, Arriving
<1>3. Len(Contents(fifo)) = Chairs
  BY <1>1, LengthType, LenContents DEF IInv, TypeOK
<1>4. ~Asleep /\ Asleep' = Asleep
  BY <1>1 DEF IInv, SleepsOnlyWhenNobodyWaits, Asleep
<1>5. \A d \in Client : TakingChair(d)' <=> TakingChair(d)
  BY <1>1 DEF TakingChair
<1>6. \A d \in Client : SeatTaken(d)' <=> SeatTaken(d)
  BY <1>1, <1>5 DEF SeatTaken, OnChair, BeingCut, Called
<1>7. Seat' = Seat
  BY <1>6, SeatAfter
<1>8. Gone' = Gone \cup {c}
  BY <1>1 DEF Gone
<1>9. Finished' = Finished /\ Contents(fifo)' = Contents(fifo)
  BY <1>1 DEF Finished, Signalled
<1> QED  BY <1>1, <1>2, <1>3, <1>4, <1>7, <1>8, <1>9
         DEF Shop!TurnAway, Seat, Finished, Gone

LEMMA SuspendGetsUp ==
    ASSUME IInv, IInv', NEW c \in Client, Suspend(c)
    PROVE  Shop!GetUp(c)
<1>1. /\ cpc[c] = "suspend" /\ cpc'[c] = "test"
      /\ \A d \in Client : d # c => cpc'[d] = cpc[d]
      /\ pending[c] > 0
      /\ pending' = [pending EXCEPT ![c] = @ - 1]
      /\ cuts' = [cuts EXCEPT ![c] = @ + 1]
      /\ UNCHANGED <<fifo, sem, bpc, toCut, res>>
  BY DEF Suspend, ClientGoto, barberVars, IInv, TypeOK
<1>2. /\ pending[c] = 1 /\ pending'[c] = 0
      /\ \A d \in Client : d # c => pending'[d] = pending[d]
  BY <1>1, SMT DEF IInv, TypeOK
<1>3. c \in Finished /\ Finished' = Finished \ {c}
  BY <1>2 DEF Finished, Signalled
<1>4. \A d \in Client : TakingChair(d)' <=> TakingChair(d)
  BY <1>1 DEF TakingChair
<1>5. \A d \in Client : SeatTaken(d)' <=> SeatTaken(d)
  BY <1>1, <1>4 DEF SeatTaken, OnChair, BeingCut, Called
<1>6. Seat' = Seat
  BY <1>5, SeatAfter
<1>7. Asleep' = Asleep /\ Gone' = Gone /\ Contents(fifo)' = Contents(fifo)
  BY <1>1 DEF Asleep, Gone
<1> QED  BY <1>1, <1>3, <1>6, <1>7 DEF Shop!GetUp, Seat, Finished, Gone

\* A client who was turned away leaves; one who was not sits down to wait, and
\* the shop does not see it.
LEMMA UncheckReturns ==
    ASSUME IInv, IInv', NEW c \in Client, Uncheck(c)
    PROVE  Shop!Return(c) \/ UNCHANGED Shop!vars
<1>1. /\ cpc[c] = "uncheck"
      /\ cpc'[c] = IF res[c] = TurnedAway THEN "test" ELSE "suspend"
      /\ \A d \in Client : d # c => cpc'[d] = cpc[d]
      /\ sem'["BARBER"] = sem["BARBER"]
      /\ UNCHANGED <<fifo, bpc, toCut, res, cuts, pending>>
  BY DEF Uncheck, ClientGoto, V, barberVars, IInv, TypeOK
<1>2. \A d \in Client : TakingChair(d)' <=> TakingChair(d)
  BY <1>1 DEF TakingChair
<1>3. \A d \in Client : SeatTaken(d)' <=> SeatTaken(d)
  BY <1>1, <1>2 DEF SeatTaken, OnChair, BeingCut, Called
<1>4. Seat' = Seat
  BY <1>3, SeatAfter
<1>5. /\ Asleep' = Asleep
      /\ UNCHANGED <<Contents(fifo), Finished>>
  BY <1>1 DEF Asleep, Finished, Signalled
<1>6. CASE res[c] = TurnedAway
  <2>1. c \in Gone /\ Gone' = Gone \ {c}
    BY <1>1, <1>6 DEF Gone
  <2> QED  BY <1>1, <1>4, <1>5, <2>1 DEF Shop!Return, Seat, Finished, Gone
<1>7. CASE res[c] # TurnedAway
  <2>1. Gone' = Gone
    BY <1>1, <1>7 DEF Gone
  <2> QED  BY <1>1, <1>3, <1>5, <2>1, SameShop
<1> QED  BY <1>6, <1>7

-----------------------------------------------------------------------------
(* The other steps change nothing that the shop sees. *)

LEMMA BarberUnseen ==
    ASSUME IInv, IInv',
           \/ WakeUp \/ PutBack \/ Answer \/ ChairLock \/ ChairRead \/ ChairRelease
           \/ LoopLock \/ PopNobody \/ PopRelease \/ SleepRelease
    PROVE  UNCHANGED Shop!vars
<1>1. UNCHANGED <<fifo, cpc, res, cuts, pending>>
  BY DEF WakeUp, PutBack, Answer, ChairLock, ChairRead, ChairRelease, LoopLock,
         PopNobody, PopRelease, SleepRelease, clientVars
<1>2. \A c \in Client : TakingChair(c)' <=> TakingChair(c)
  BY <1>1 DEF TakingChair
<1>3. UNCHANGED <<Contents(fifo), Finished, Gone, cuts>>
  BY <1>1 DEF Finished, Signalled, Gone
<1>4. /\ Asleep' = Asleep
      /\ \A c \in Client : SeatTaken(c)' <=> SeatTaken(c)
  <2>1. CASE WakeUp
    <3>1. /\ bpc = "sleep" /\ bpc' = "putBack" /\ sem["BARBER"] > 0
          /\ sem["BARBER"] # 0
      BY <2>1, SMT DEF WakeUp, BarberGoto, P, IInv, TypeOK
    <3> QED  BY <1>1, <1>2, <3>1 DEF Asleep, SeatTaken, OnChair, BeingCut, Called
  <2>2. CASE ChairLock
    BY <1>1, <1>2, <2>2
       DEF ChairLock, BarberGoto, Asleep, SeatTaken, OnChair, BeingCut, Called
  <2>3. CASE ChairRead
    <3>1. /\ bpc = "chairRead" /\ bpc' = "chairRelease" /\ toCut' = fifo.chair
      BY <2>3 DEF ChairRead, BarberGoto
    <3>2. \A c \in Client : ~TakingChair(c)
      BY <3>1 DEF IInv, UnitsOfBarber, TakingChair, Waking
    <3>3. \A c \in Client : SeatTaken(c) <=> fifo.chair = c
      BY <3>1, <3>2 DEF SeatTaken, OnChair, BeingCut, Called
    <3>4. \A c \in Client : SeatTaken(c)' <=> fifo.chair = c
      BY <1>2, <3>1, <3>2 DEF SeatTaken, OnChair, BeingCut, Called
    <3> QED  BY <3>1, <3>3, <3>4 DEF Asleep
  <2>4. CASE ChairRelease
    BY <1>1, <1>2, <2>4
       DEF ChairRelease, BarberGoto, Asleep, SeatTaken, OnChair, BeingCut, Called
  <2>5. CASE LoopLock
    BY <1>1, <1>2, <2>5
       DEF LoopLock, BarberGoto, Asleep, SeatTaken, OnChair, BeingCut, Called
  <2>6. CASE PopNobody
    BY <1>1, <1>2, <2>6
       DEF PopNobody, BarberGoto, Asleep, SeatTaken, OnChair, BeingCut, Called
  <2>7. CASE PopRelease
    BY <1>1, <1>2, <2>7
       DEF PopRelease, BarberGoto, Asleep, SeatTaken, OnChair, BeingCut, Called
  <2>8. CASE SleepRelease
    <3>1. /\ bpc = "sleepRelease" /\ bpc' = "sleep" /\ sem["BARBER"] = 0
          /\ sem'["BARBER"] = 0
      BY <2>8 DEF SleepRelease, BarberGoto, V, IInv, TypeOK, UnitsOfBarber
    <3>2. ~(sem'["BARBER"] > 0)
      BY <3>1, SMT
    <3> QED  BY <1>1, <1>2, <3>1, <3>2
             DEF Asleep, SeatTaken, OnChair, BeingCut, Called
  <2>9. CASE PutBack \/ Answer
    BY <1>1, <1>2, <2>9
       DEF PutBack, Answer, BarberGoto, Asleep, SeatTaken, OnChair, BeingCut, Called
  <2> QED  BY <2>1, <2>2, <2>3, <2>4, <2>5, <2>6, <2>7, <2>8, <2>9
<1> QED  BY <1>1, <1>3, <1>4, SameShop

LEMMA ClientUnseen ==
    ASSUME IInv, IInv', NEW c \in Client,
           \/ TestCuts(c) \/ Check(c) \/ Lock(c) \/ Stat(c) \/ Handshake(c) \/ Sit(c)
           \/ Unlock(c)
    PROVE  UNCHANGED Shop!vars
<1>1. /\ cpc \in [Client -> ClientLabels]
      /\ UNCHANGED <<bpc, toCut, cuts, pending>>
  BY DEF TestCuts, Check, Lock, Stat, Handshake, Sit, Unlock, barberVars, IInv, TypeOK
<1>2. Asleep' = Asleep
  <2>1. sem'["BARBER"] = sem["BARBER"]
    BY DEF TestCuts, Check, Lock, Stat, Handshake, Sit, Unlock, P, V, IInv, TypeOK
  <2> QED  BY <1>1, <2>1 DEF Asleep
<1>3. /\ \A d \in Client : SeatTaken(d)' <=> SeatTaken(d)
      /\ UNCHANGED <<Contents(fifo), Gone>>
  <2>1. CASE Sit(c)
    <3>1. /\ cpc[c] = "sit" /\ cpc'[c] = "unlock" /\ res'[c] = Woke
          /\ \A d \in Client : d # c => cpc'[d] = cpc[d] /\ res'[d] = res[d]
          /\ fifo' = [fifo EXCEPT !.chair = c]
          /\ UNCHANGED sem
      BY <1>1, <2>1 DEF Sit, ClientGoto, IInv, TypeOK
    <3>2. Contents(fifo)' = Contents(fifo) /\ fifo'.chair = c
      BY <3>1, SitMembers DEF IInv, TypeOK
    <3>3. /\ TakingChair(c)
          /\ \A d \in Client : ~TakingChair(d)' /\ (d # c => ~TakingChair(d))
      BY <3>1 DEF TakingChair, HoldsFifo, IInv, OneInTheWaitingRoom
    <3>4. Called'
      <4>1. bpc = "chairLock"
        BY <3>1 DEF IInv, UnitsOfBarber
      <4> QED  BY <1>1, <4>1 DEF Called
    <3>5. \A d \in Client : (OnChair(d)' <=> d = c) /\ (OnChair(d) <=> d = c)
      BY <3>2, <3>3, <3>4 DEF OnChair
    <3>6. Gone' = Gone
      BY <3>1 DEF Gone, Woke, TurnedAway
    <3> QED  BY <1>1, <3>2, <3>5, <3>6 DEF SeatTaken, BeingCut
  <2>2. CASE Handshake(c)
    <3>1. /\ cpc[c] = "handshake" /\ cpc'[c] = "sit"
          /\ \A d \in Client : d # c => cpc'[d] = cpc[d]
          /\ UNCHANGED <<fifo, res>>
      BY <1>1, <2>2 DEF Handshake, ClientGoto
    <3>2. /\ TakingChair(c) /\ TakingChair(c)'
          /\ \A d \in Client : TakingChair(d)' <=> TakingChair(d)
      BY <3>1 DEF TakingChair
    <3>3. \A d \in Client : OnChair(d)' <=> OnChair(d)
      BY <3>2 DEF OnChair
    <3>4. Gone' = Gone
      BY <3>1 DEF Gone
    <3> QED  BY <1>1, <3>1, <3>3, <3>4 DEF SeatTaken, BeingCut
  <2>3. CASE TestCuts(c) \/ Check(c) \/ Lock(c) \/ Stat(c) \/ Unlock(c)
    <3>1. UNCHANGED <<fifo, res>>
      BY <2>3 DEF TestCuts, Check, Lock, Stat, Unlock
    <3>2. \A d \in Client : TakingChair(d)' <=> TakingChair(d)
      BY <1>1, <2>3
         DEF TestCuts, Check, Lock, Stat, Unlock, ClientGoto, TakingChair
    <3>3. Called' <=> Called
      <4>1. sem'["BARBER"] = sem["BARBER"]
        BY <2>3 DEF TestCuts, Check, Lock, Stat, Unlock, P, V, IInv, TypeOK
      <4> QED  BY <1>1, <4>1 DEF Called
    <3>4. \A d \in Client : OnChair(d)' <=> OnChair(d)
      BY <3>1, <3>2, <3>3 DEF OnChair
    <3>5. Gone' = Gone
      BY <1>1, <2>3, <3>1
         DEF TestCuts, Check, Lock, Stat, Unlock, ClientGoto, Gone
    <3> QED  BY <1>1, <3>1, <3>4, <3>5 DEF SeatTaken, BeingCut
  <2> QED  BY <2>1, <2>2, <2>3
<1>4. Finished' = Finished
  BY <1>1 DEF Finished, Signalled
<1> QED  BY <1>1, <1>2, <1>3, <1>4, SameShop

LEMMA ShopInit == Init => Shop!Init
<1> SUFFICES ASSUME Init PROVE Shop!Init
  OBVIOUS
<1>1. IInv
  BY InitIInv
<1>2. Contents(fifo) = <<>>
  BY InitContents DEF Init
<1>3. Asleep = TRUE
  BY DEF Init, Asleep
<1>4. Finished = {} /\ Gone = {}
  BY SMT DEF Init, Finished, Gone, Signalled
<1>5. Seat = NoPid
  <2>1. \A c \in Client : ~SeatTaken(c)
    <3>1. bpc = "sleep" /\ sem["BARBER"] = 0 /\ \A c \in Client : cpc[c] = "test"
      BY DEF Init
    <3>2. ~Called
      BY <3>1, SMT DEF Called
    <3> QED  BY <3>1, <3>2 DEF SeatTaken, OnChair, BeingCut, TakingChair
  <2> QED  BY <1>1, <2>1, SeatIsTaken DEF SeatRight
<1>6. cuts = [c \in Client |-> 0]
  BY DEF Init
<1> QED  BY <1>2, <1>3, <1>4, <1>5, <1>6 DEF Shop!Init, Seat, Finished, Gone

LEMMA ShopStep == IInv /\ IInv' /\ [Next]_vars => [Shop!Next]_(Shop!vars)
<1> SUFFICES ASSUME IInv, IInv', [Next]_vars
             PROVE  Shop!Next \/ UNCHANGED Shop!vars
  OBVIOUS
<1>1. CASE BarberNext
  <2>1. CASE Cut
    BY <2>1, CutFinishes DEF Shop!Next
  <2>2. CASE PopNext
    BY <2>2, PopInvites DEF Shop!Next
  <2>3. CASE GoSleep
    BY <2>3, GoSleepFallsAsleep DEF Shop!Next
  <2> QED  BY <1>1, <2>1, <2>2, <2>3, BarberUnseen DEF BarberNext
<1>2. ASSUME NEW c \in Client, ClientNext(c)
      PROVE  Shop!Next \/ UNCHANGED Shop!vars
  <2>1. CASE Wake(c)
    BY <2>1, WakeWakes DEF Shop!Next
  <2>2. CASE Push(c)
    BY <2>2, PushTakesSeat DEF Shop!Next
  <2>3. CASE PushFull(c)
    BY <2>3, PushFullTurnsAway DEF Shop!Next
  <2>4. CASE Uncheck(c)
    BY <2>4, UncheckReturns DEF Shop!Next
  <2>5. CASE Suspend(c)
    BY <2>5, SuspendGetsUp DEF Shop!Next
  <2> QED  BY <1>2, <2>1, <2>2, <2>3, <2>4, <2>5, ClientUnseen DEF ClientNext
<1>3. CASE UNCHANGED vars
  <2>1. UNCHANGED <<fifo, sem, bpc, toCut, cpc, res, cuts, pending>>
    BY <1>3 DEF vars
  <2>2. Asleep' = Asleep /\ Finished' = Finished /\ Gone' = Gone
    BY <2>1 DEF Asleep, Finished, Gone, Signalled
  <2>3. \A c \in Client : SeatTaken(c)' <=> SeatTaken(c)
    BY <2>1 DEF SeatTaken, OnChair, BeingCut, Called, TakingChair
  <2> QED  BY <2>1, <2>2, <2>3, SameShop
<1>4. CASE Closed
  BY <1>3, <1>4 DEF Closed
<1> QED  BY <1>1, <1>2, <1>3, <1>4 DEF Next

\* The program of cw07/zad2 is the same barber shop: the waiting room is first-in
\* first-out, a client is turned away only from a full one, only a sleeping
\* barber is woken, and a signal stands for one cut, for every number of clients,
\* chairs and cuts (barber.c:58-104, breeder.c:83-146).
THEOREM PosixImplementsShop == Spec => ShopSpec
  BY PosixInvariance, ShopInit, ShopStep, PTL DEF Spec, ShopSpec, Shop!Spec
=============================================================================
