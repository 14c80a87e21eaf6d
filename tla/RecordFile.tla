----------------------------- MODULE RecordFile -----------------------------
(***************************************************************************)
(* cw02/zad1: a file of records of equal size that is bubble-sorted by the  *)
(* first byte of a record, or shuffled, in place and with two records in    *)
(* memory.  Both are the versions with read and write; the other two write  *)
(* through a buffer and are not modelled.                                   *)
(*                                                                          *)
(* A record is the number of the place it had in the file at first.  Every  *)
(* write is a step of its own: it may fail, and the program may be killed.  *)
(* The place behind the end may be asked for: a read there leaves what is   *)
(* in memory, which stands for a record of that number.                     *)
(***************************************************************************)
EXTENDS Integers, FiniteSets

CONSTANTS FileRecords,      \* how many records the file holds
          Bytes             \* the bytes that begin the records, 0 .. 255

Record == 0 .. FileRecords - 1
Place == 0 .. FileRecords   \* the last one is behind the end
Torn == -1                  \* what a write that fails half way leaves

VARIABLES op, recordAmount, \* arguments of the program
          generated,        \* the file is one that "generate" has made
          first,            \* the first byte of each record
          file,             \* the record at each place
          fileAt,           \* where the program is
          n, i, j,          \* loop variables; elemNumber is always i
          change,
          record1           \* the record in memory that is written last

vars == <<op, recordAmount, generated, first, file, fileAt, n, i, j, change, record1>>
constant == <<op, recordAmount, generated, first>>

\* A char on the machines the program was written for.
Char(byte) == IF byte > 127 THEN byte - 256 ELSE byte

\* record[j]%20+65: the remainder has the sign of the char.
Normal(byte) == IF Char(byte) >= 0 THEN 65 + (Char(byte) % 20)
                ELSE 65 - ((-Char(byte)) % 20)

Init == /\ op \in {"sort", "shuffle"}
        /\ recordAmount \in 0 .. FileRecords + 1
        /\ generated \in BOOLEAN
        /\ first \in [Record -> IF generated THEN {Normal(b) : b \in Bytes} ELSE Bytes]
        \* The shuffle does not look at the bytes.
        /\ op = "shuffle" => generated /\ \A r \in Record : first[r] = first[0]
        /\ file = [p \in Place |-> p]
        /\ fileAt = "loop"
        /\ n = recordAmount
        /\ i = IF op = "sort" THEN 0 ELSE recordAmount - 1
        /\ j = 0
        /\ change = 0
        /\ record1 = Torn

Goto(from, to) == fileAt = from /\ fileAt' = to

-----------------------------------------------------------------------------
(* The sort. *)

InPass == op = "sort" /\ fileAt = "loop" /\ i < n - 1

\* Mutant: equal records are exchanged too.
GreaterOrEqual(p, q) == Char(first[file[p]]) >= Char(first[file[q]])

Greater(p, q) == Char(first[file[p]]) > Char(first[file[q]])

Exchange == InPass /\ i + 1 \in Record /\ Greater(i, i + 1)

Pass == /\ InPass
        /\ i + 1 \in Record
        /\ ~Greater(i, i + 1)
        /\ i' = i + 1
        /\ UNCHANGED <<constant, file, fileAt, n, j, change, record1>>

WriteRecord2 == /\ Exchange
                /\ Goto("loop", "second")
                /\ record1' = file[i]
                /\ file' = [file EXCEPT ![i] = file[i + 1]]
                /\ UNCHANGED <<constant, n, i, j, change>>

WriteRecord1 == /\ op = "sort"
                /\ Goto("second", "loop")
                /\ file' = [file EXCEPT ![i + 1] = record1]
                /\ change' = 1
                /\ i' = i + 1
                /\ UNCHANGED <<constant, n, j, record1>>

\* The end of a pass and of the do-while.
EndPass == /\ op = "sort" /\ fileAt = "loop" /\ ~InPass
           /\ n' = n - 1
           /\ IF change = 0 \/ n - 1 <= 1
              THEN fileAt' = "done" /\ UNCHANGED <<i, change>>
              ELSE i' = 0 /\ change' = 0 /\ UNCHANGED fileAt
           /\ UNCHANGED <<constant, file, j, record1>>

-----------------------------------------------------------------------------
(* The shuffle. *)

\* Mutant: rand()%(i+1), the shuffle of the textbook.
DrawsOfTextbook == 0 .. i

\* What rand()%i may give.
Draws == 0 .. i - 1

\* The reads are not checked.
Draw == /\ op = "shuffle"
        /\ i >= 1
        /\ Goto("loop", "first")
        /\ j' \in Draws
        /\ record1' = file[i]
        /\ UNCHANGED <<constant, file, n, i, change>>

PutRecord2 == /\ Goto("first", "second")
              /\ file' = [file EXCEPT ![i] = file[j]]
              /\ UNCHANGED <<constant, n, i, j, change, record1>>

PutRecord1 == /\ op = "shuffle"
              /\ Goto("second", "loop")
              /\ file' = [file EXCEPT ![j] = record1]
              /\ i' = i - 1
              /\ UNCHANGED <<constant, n, j, change, record1>>

EndShuffle == /\ op = "shuffle" /\ i < 1
              /\ Goto("loop", "done")
              /\ UNCHANGED <<constant, file, n, i, j, change, record1>>

-----------------------------------------------------------------------------
\* A record past the end of the file: the read is short and the sort exits.
ReadFails == /\ InPass /\ i + 1 \notin Record
             /\ Goto("loop", "failed")
             /\ UNCHANGED <<constant, file, n, i, j, change, record1>>

\* The place that is written next.
Target == IF fileAt # "second" THEN i ELSE IF op = "sort" THEN i + 1 ELSE j

\* A write that fails writes nothing or a part of the record, and the program
\* exits; it may as well be killed there.
WriteFails == /\ Exchange \/ fileAt \in {"first", "second"}
              /\ fileAt' = "failed"
              /\ \/ UNCHANGED file
                 \/ file' = [file EXCEPT ![Target] = Torn]
              /\ UNCHANGED <<constant, n, i, j, change, record1>>

bSort == Pass \/ WriteRecord2 \/ WriteRecord1 \/ EndPass
Shuffle == Draw \/ PutRecord2 \/ PutRecord1 \/ EndShuffle

Stopped == fileAt \in {"done", "failed"} /\ UNCHANGED vars

Next == bSort \/ Shuffle \/ ReadFails \/ WriteFails \/ Stopped

Spec == Init /\ [][Next]_vars

-----------------------------------------------------------------------------
Missing == {r \in Record : \A p \in Place : file[p] # r}

\* At most the record in hand is lost, and none behind the records asked for.
OneAtRisk == /\ Cardinality(Missing) <= IF fileAt \in {"second", "failed"} THEN 1 ELSE 0
             /\ \A p \in Place : p >= recordAmount => file[p] = p

\* The sort ends with the first recordAmount records in order and records with
\* equal keys in the order they had; the early stop when nothing changed loses
\* nothing.  The keys are compared as signed chars, so the order is the one the
\* exercise asks for (unsigned char, cw02/Zadanie2) only in files of "generate".
\* Whatever fails and wherever the program is killed, at most the record it has
\* in its hands is lost (bsort.c:20-54).
SortIsStable ==
    op = "sort" =>
        /\ fileAt = "done" =>
              \A p, q \in 0 .. recordAmount - 1 : p < q =>
                 \/ Char(first[file[p]]) < Char(first[file[q]])
                 \/ /\ first[file[p]] = first[file[q]]
                    /\ file[p] < file[q]
        /\ fileAt = "done" /\ generated =>
              \A p, q \in 0 .. recordAmount - 1 : p < q => first[file[p]] <= first[file[q]]
        /\ OneAtRisk

\* The index drawn is always below i, so a shuffle that ends has moved every
\* record: its permutation is a single cycle, no part of the file is mapped to
\* itself.  It is never the order it began with, and never one of the others
\* that keep a record in its place.  A record too many is made up of what is in
\* memory and mixed with the others, but none of them is lost (shuffler.c:30-53).
ShuffleIsOneCycle ==
    op = "shuffle" =>
        /\ fileAt = "done" =>
              \A S \in SUBSET (0 .. recordAmount - 1) :
                 {file[p] : p \in S} = S => S \in {{}, 0 .. recordAmount - 1}
        /\ OneAtRisk
=============================================================================
