------------------------------ MODULE MCTables ------------------------------
(***************************************************************************)
(* Four small systems that share one run: the ring of cw07, the two         *)
(* readers-writers programs of cw09 and the System V queues of cw06.  A      *)
(* behaviour is one of one of them; the variables of the others keep their  *)
(* initial values.                                                          *)
(***************************************************************************)
EXTENDS FifoQueue, RWMutexCond, RWSemaphores, MessageQueues

VARIABLES program

mcVars == <<program, ringVars, vars, semVars, queuesVars>>

MCInit == /\ program \in {"ring", "monitor", "semaphores", "queues"}
          /\ RingInit /\ Init /\ SemInit /\ QueuesInit

\* Only the named program runs.
Only(p) == /\ program = p
           /\ UNCHANGED program
           /\ p # "ring" => UNCHANGED ringVars
           /\ p # "monitor" => UNCHANGED vars
           /\ p # "semaphores" => UNCHANGED semVars
           /\ p # "queues" => UNCHANGED queuesVars

RunRing == Only("ring") /\ RingNext
RunMonitor == Only("monitor") /\ Next
RunSemaphores == Only("semaphores") /\ SemNext
RunQueues == Only("queues") /\ QueuesNext

MCNext == RunRing \/ RunMonitor \/ RunSemaphores \/ RunQueues

\* The fairness of the program that runs.
MCFairness == \/ [](program = "ring")
              \/ program = "monitor" /\ Fairness
              \/ program = "semaphores" /\ SemFairness
              \/ program = "queues" /\ QueuesFairness

MCSpec == MCInit /\ [][MCNext]_mcVars /\ MCFairness

-----------------------------------------------------------------------------
\* With the semaphores the readers are favoured: whoever wants to read gets to,
\* however many writers compete (cw09/zad1b/main.c:1, cw09/Zadanie9).
ReadersAreServed == program = "semaphores" => ReadersServed
=============================================================================
