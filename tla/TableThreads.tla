---------------------------- MODULE TableThreads ----------------------------
(* The threads that read and write the table of cw09, of both its programs. *)
EXTENDS Integers, FiniteSets

CONSTANTS Readers, Writers   \* the threads main creates

ASSUME ThreadsAssumption == /\ IsFiniteSet(Readers)
                            /\ IsFiniteSet(Writers)
                            /\ Readers \cap Writers = {}

Threads == Readers \cup Writers
=============================================================================
