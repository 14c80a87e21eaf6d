-------------------------- MODULE MCBarberCluster --------------------------
(***************************************************************************)
(* Two systems that share one run: the barber shop of cw07/zad1 with the    *)
(* signals that end its processes, and the cluster of cw10/zad1.  A         *)
(* behaviour is one of one of them; the variables of the other keep their   *)
(* initial values.                                                          *)
(***************************************************************************)
EXTENDS BarberInterrupt, Cluster

VARIABLES program

mcVars == <<program, vars, clusterVars>>

MCInit == /\ program \in {"barber", "cluster"}
          /\ Init /\ ClusterInit

\* Only the named program runs.
Only(p) == /\ program = p
           /\ UNCHANGED program
           /\ p # "barber" => UNCHANGED vars
           /\ p # "cluster" => UNCHANGED clusterVars

RunBarber == Only("barber") /\ InterruptNext
RunCluster == Only("cluster") /\ ClusterNext

MCNext == RunBarber \/ RunCluster

MCSpec == /\ MCInit /\ [][MCNext]_mcVars
          /\ program = "barber" => InterruptFairness

-----------------------------------------------------------------------------
\* When SIGINT ends clients that hold neither CHECK nor FIFO, or the barber
\* anywhere, everybody who is left still gets its cuts, ends with an error or is
\* left waiting for a signal the barber has not sent (barber.c:147-154,
\* breeder.c:97-122).
SurvivorsAreServed == program = "barber" => SurvivorsServed
=============================================================================
