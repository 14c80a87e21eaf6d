--------------------------- MODULE MandelbrotPipe ---------------------------
(***************************************************************************)
(* cw05/zad2: the master makes a FIFO, starts slaves that write records of  *)
(* fifty bytes into it, and draws what it reads until the end of file.  A   *)
(* record is the slave that wrote it: fifty bytes are less than PIPE_BUF,   *)
(* so a write is never torn and every read gets one whole record.           *)
(*                                                                          *)
(* open waits for the other side, the reader's for a writer that has opened *)
(* or is about to.  A read gives the end of file when the FIFO is empty and *)
(* nobody has it open for writing: also when somebody will open it later.   *)
(***************************************************************************)
EXTENDS Naturals, Sequences, FiniteSets

CONSTANTS childrenNo,       \* slaves
          Points,           \* records each slave writes, the argument N
          PipeRecords       \* how many records the FIFO holds

Slave == 1 .. childrenNo

VARIABLES masterAt, started,    \* where the master is, how many it has forked
          slaveAt,              \* where each slave is
          written,              \* how many records each slave has written
          fifo,                 \* the records in the FIFO
          drawn                 \* how many records of each slave are in T

vars == <<masterAt, started, slaveAt, written, fifo, drawn>>

Init == /\ masterAt = "fork" /\ started = 0
        /\ slaveAt = [s \in Slave |-> "off"]
        /\ written = [s \in Slave |-> 0]
        /\ fifo = <<>>
        /\ drawn = [s \in Slave |-> 0]

MasterGoto(from, to) == masterAt = from /\ masterAt' = to
SlaveGoto(s, from, to) == slaveAt[s] = from /\ slaveAt' = [slaveAt EXCEPT ![s] = to]

Writing == {s \in Slave : slaveAt[s] = "write"}
Reading == masterAt \in {"open", "read", "close"}

-----------------------------------------------------------------------------
\* fork fails, or execv does and the child exits: nobody notices.
Start == /\ started < childrenNo
         /\ MasterGoto("fork", "fork")
         /\ started' = started + 1
         /\ \E at \in {"open", "gone"} : SlaveGoto(started + 1, "off", at)
         /\ UNCHANGED <<written, fifo, drawn>>

CallOpen == /\ started = childrenNo
            /\ MasterGoto("fork", "open")
            /\ UNCHANGED <<started, slaveAt, written, fifo, drawn>>

\* A writer has come, and may have gone again; then sleep(3).
Open == /\ MasterGoto("open", "read")
        /\ \E s \in Slave : slaveAt[s] \in {"write", "closed"}
        /\ UNCHANGED <<started, slaveAt, written, fifo, drawn>>

ReadValue == /\ MasterGoto("read", "read")
             /\ fifo # <<>>
             /\ drawn' = [drawn EXCEPT ![Head(fifo)] = @ + 1]
             /\ fifo' = Tail(fifo)
             /\ UNCHANGED <<started, slaveAt, written>>

\* Mutant: an empty FIFO is the end.
EndOfFileWhenEmpty == /\ MasterGoto("read", "close")
                      /\ fifo = <<>>
                      /\ UNCHANGED <<started, slaveAt, written, fifo, drawn>>

EndOfFile == /\ MasterGoto("read", "close")
             /\ fifo = <<>> /\ Writing = {}
             /\ UNCHANGED <<started, slaveAt, written, fifo, drawn>>

\* close, and then the picture; what is left in the FIFO is lost.
CloseMaster == /\ MasterGoto("close", "end")
               /\ fifo' = <<>>
               /\ UNCHANGED <<started, slaveAt, written, drawn>>

Master == Start \/ CallOpen \/ Open \/ ReadValue \/ EndOfFile \/ CloseMaster

-----------------------------------------------------------------------------
OpenSlave(s) == /\ SlaveGoto(s, "open", "write")
                /\ Reading
                /\ UNCHANGED <<masterAt, started, written, fifo, drawn>>

WriteValue(s) == /\ SlaveGoto(s, "write", "write")
                 /\ written[s] < Points /\ Reading /\ Len(fifo) < PipeRecords
                 /\ written' = [written EXCEPT ![s] = @ + 1]
                 /\ fifo' = Append(fifo, s)
                 /\ UNCHANGED <<masterAt, started, drawn>>

\* SIGPIPE: the reader has gone.
WriteBreaks(s) == /\ SlaveGoto(s, "write", "gone")
                  /\ written[s] < Points /\ ~Reading
                  /\ UNCHANGED <<masterAt, started, written, fifo, drawn>>

CloseSlave(s) == /\ SlaveGoto(s, "write", "closed")
                 /\ written[s] = Points
                 /\ UNCHANGED <<masterAt, started, written, fifo, drawn>>

SlaveNext(s) == OpenSlave(s) \/ WriteValue(s) \/ WriteBreaks(s) \/ CloseSlave(s)

\* The master has ended, or waits for slaves that never came; a slave that calls
\* open after the end waits for ever.
AllGone == \A s \in Slave : slaveAt[s] = "gone"

Stopped == /\ \/ /\ masterAt = "end"
                 /\ \A s \in Slave : slaveAt[s] \in {"gone", "closed", "open"}
              \/ masterAt = "open" /\ AllGone
           /\ UNCHANGED vars

Next == Master \/ (\E s \in Slave : SlaveNext(s)) \/ Stopped

Spec == /\ Init /\ [][Next]_vars
        /\ WF_vars(Master)
        /\ \A s \in Slave : WF_vars(SlaveNext(s))

-----------------------------------------------------------------------------
\* Where the records of a slave are in the FIFO.
InFifo(s) == {e \in 1 .. Len(fifo) : fifo[e] = s}

\* The master may take the end of file for the end although slaves have still to
\* come, but then it has everything the others wrote: of each slave the picture
\* shows all the points or none, and of one at least it shows all.  What has been
\* written is drawn or still in the FIFO until the master closes it
\* (master.c:51-64, slave.c:48-66).
AllOrNothing ==
    /\ masterAt \in {"close", "end"} => \A s \in Slave : drawn[s] \in {0, Points}
    /\ masterAt = "end" => \E s \in Slave : drawn[s] = Points
    /\ masterAt # "end" =>
          \A s \in Slave : written[s] = drawn[s] + Cardinality(InFifo(s))
=============================================================================
