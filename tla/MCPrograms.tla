----------------------------- MODULE MCPrograms -----------------------------
(***************************************************************************)
(* The programs that are too small for a run of their own: the ones of      *)
(* cw02, cw03, cw04, cw05 and cw08/zad1, and cw10/zad2.  A behaviour is one  *)
(* of one of them; the variables of the others keep their initial values.   *)
(***************************************************************************)
EXTENDS Integers, FiniteSets

CONSTANTS MaxSignals, N, K, L, ThreadsNo, RecordsNo, FileSize, Hits,
          FileRecords, Bytes, MaxLines, MAX_CMDS, Emits, PipeSize,
          childrenNo, Points, PipeRecords, LocalClient, InetClient, QueueSize, MaxTasks,
          Process, Waiter, Lister, MaxLength, Names, Depth

ASSUME ProgramsAssumption ==
    /\ {MaxSignals, N, K, L, FileSize} \subseteq Nat
    /\ {ThreadsNo, RecordsNo} \subseteq Nat \ {0}
    /\ Hits \subseteq 1 .. FileSize
    /\ Bytes \subseteq 0 .. 255
    /\ Emits \subseteq Nat
    /\ {FileRecords, MaxLines, MAX_CMDS, PipeSize, childrenNo, Points, PipeRecords,
        QueueSize} \subseteq Nat \ {0}
    /\ LocalClient \cap InetClient = {}
    /\ MaxTasks \in Nat
    /\ Waiter \subseteq Process /\ Lister \subseteq Process
    /\ {MaxLength, Depth} \subseteq Nat \ {0}
    /\ IsFiniteSet(Names)

VARIABLES program

VARIABLES symbol, up, loopAt, signalled
Alphabet == INSTANCE SignalAlphabet

VARIABLES parentAt, i, req, CReq, permAfter, pendingUsr1, pendingRt, childAt,
          pendingUsr2, handled, permits
Permits == INSTANCE SignalPermits

VARIABLES Type, pingAt, PScounter, PRcounter, CRcounter, pongAt, toChild, toParent,
          sig2
PingPong == INSTANCE SignalPingPong

VARIABLES VERSION, offset, mutex, at, k, buffer, CharsReaded, cancelled, returned
Search == INSTANCE FileSearch

VARIABLES op, recordAmount, generated, first, file, fileAt, n, index, j, change, record1
Records == INSTANCE RecordFile WITH i <- index

VARIABLES tree, version, searchAt, roots, dents, found
Directory == INSTANCE DirectorySearch

VARIABLES locks, length, commandAt, asked, b, len, listed, held
Locking == INSTANCE RecordLocks

VARIABLES script, stack, ran
Script == INSTANCE Interpreter

VARIABLES commands, shellFds, shellAt, cmdNo, fd, last, pipes, childFds, execAt, got,
          left, terminal
Line == INSTANCE Pipeline WITH childAt <- execAt

VARIABLES masterAt, started, slaveAt, written, fifo, drawn
Mandelbrot == INSTANCE MandelbrotPipe

VARIABLES server, queue, servAt, served, clientFds, pinging, cmdAt, msgType, typed,
          clientAt
Datagram == INSTANCE ClusterDatagram

alphabetVars == <<symbol, up, loopAt, signalled>>
permitsVars == <<parentAt, i, req, CReq, permAfter, pendingUsr1, pendingRt, childAt,
                 pendingUsr2, handled, permits>>
pingPongVars == <<Type, pingAt, PScounter, PRcounter, CRcounter, pongAt, toChild,
                  toParent, sig2>>
searchVars == <<VERSION, offset, mutex, at, k, buffer, CharsReaded, cancelled, returned>>
recordsVars == <<op, recordAmount, generated, first, file, fileAt, n, index, j, change,
                 record1>>
directoryVars == <<tree, version, searchAt, roots, dents, found>>
lockingVars == <<locks, length, commandAt, asked, b, len, listed, held>>
scriptVars == <<script, stack, ran>>
lineVars == <<commands, shellFds, shellAt, cmdNo, fd, last, pipes, childFds, execAt, got,
              left, terminal>>
mandelbrotVars == <<masterAt, started, slaveAt, written, fifo, drawn>>
datagramVars == <<server, queue, servAt, served, clientFds, pinging, cmdAt, msgType,
                  typed, clientAt>>

vars == <<program, alphabetVars, permitsVars, pingPongVars, searchVars, recordsVars,
          directoryVars, lockingVars, scriptVars, lineVars, mandelbrotVars, datagramVars>>

\* What a program that does not run is given, so that it has one initial state.
Given(p, choice) == IF program = p THEN TRUE ELSE choice

OneFile == /\ op = "sort" /\ recordAmount = 0 /\ generated = TRUE
           /\ first = [r \in Records!Record |-> Records!Normal(CHOOSE byte \in Bytes : TRUE)]

EmptyTree == [p \in Directory!Path |-> "none"]
OneCommand == <<[reads |-> FALSE, emits |-> CHOOSE e \in Emits : TRUE]>>

Init == /\ program \in {"alphabet", "permits", "pingpong", "search", "records",
                        "directory", "locking", "script", "line", "mandelbrot", "datagram"}
        /\ Alphabet!Init /\ Permits!Init /\ Mandelbrot!Init /\ Locking!Init
        /\ Given("pingpong", Type = 1) /\ PingPong!Init
        /\ Given("search", VERSION = 1) /\ Search!Init
        /\ Given("records", OneFile) /\ Records!Init
        /\ Given("directory", tree = EmptyTree /\ version = "unftw") /\ Directory!Init
        /\ Given("script", script = <<"blank">>) /\ Script!Init
        /\ Given("line", commands = OneCommand) /\ Line!Init
        /\ Given("datagram", msgType = "other") /\ Datagram!Init

\* Only the named program runs.
Only(p) == /\ program = p
           /\ UNCHANGED program
           /\ p # "alphabet" => UNCHANGED alphabetVars
           /\ p # "permits" => UNCHANGED permitsVars
           /\ p # "pingpong" => UNCHANGED pingPongVars
           /\ p # "search" => UNCHANGED searchVars
           /\ p # "records" => UNCHANGED recordsVars
           /\ p # "directory" => UNCHANGED directoryVars
           /\ p # "locking" => UNCHANGED lockingVars
           /\ p # "script" => UNCHANGED scriptVars
           /\ p # "line" => UNCHANGED lineVars
           /\ p # "mandelbrot" => UNCHANGED mandelbrotVars
           /\ p # "datagram" => UNCHANGED datagramVars

RunAlphabet == Only("alphabet") /\ Alphabet!Next
RunPermits == Only("permits") /\ Permits!Next
RunPingPong == Only("pingpong") /\ PingPong!Next
RunSearch == Only("search") /\ Search!Next
RunRecords == Only("records") /\ Records!Next
RunDirectory == Only("directory") /\ Directory!Next
RunLocking == Only("locking") /\ Locking!Next
RunScript == Only("script") /\ Script!Next
RunLine == Only("line") /\ Line!Next
RunMandelbrot == Only("mandelbrot") /\ Mandelbrot!Next
RunDatagram == Only("datagram") /\ Datagram!Next

Next == RunAlphabet \/ RunPermits \/ RunPingPong \/ RunSearch \/ RunRecords
        \/ RunDirectory \/ RunLocking \/ RunScript \/ RunLine \/ RunMandelbrot \/ RunDatagram

\* While it is the one that runs: the loop of the alphabet goes on and no thread
\* of the search is held up for ever.  The others of which something is to happen
\* have the fairness of their modules.
Fairness == /\ WF_vars(Only("alphabet") /\ Alphabet!Loop)
            /\ \A t \in 0 .. ThreadsNo - 1 : WF_vars(Only("search") /\ Search!Run(t))
            /\ WF_vars(Only("script") /\ Script!evaluate)
            /\ WF_vars(Only("line") /\ Line!Shell)
            /\ WF_vars(Only("line") /\ Line!Child)
            /\ WF_vars(Only("mandelbrot") /\ Mandelbrot!Master)
            /\ \A s \in 1 .. childrenNo :
                  WF_vars(Only("mandelbrot") /\ Mandelbrot!SlaveNext(s))

Spec == Init /\ [][Next]_vars /\ Fairness

-----------------------------------------------------------------------------
\* Once the signals stop, the alphabet is printed again.
LettersReturn == Alphabet!LettersReturn

\* Permits follow requests, one each.
PermitsFollowRequests == Permits!PermitsFollowRequests

\* No real-time signal is lost and no standard one is doubled.
SignalsAccountedFor == PingPong!SignalsAccountedFor

\* The batches of the threads are runs of the file, and apart.
BatchesAreRuns == Search!BatchesAreRuns

\* The sort is stable, and nothing but the record in hand is ever at risk.
SortIsStable == Records!SortIsStable

\* A shuffle is one cycle through all its records.
ShuffleIsOneCycle == Records!ShuffleIsOneCycle

\* The two searches of a tree find the same files, each once.
EachFileFoundOnce == Directory!EachFileFoundOnce

\* The list of locks misses none that was there all the time.
ListIsTrue == Locking!ListIsTrue

\* A command finds the environment the lines before it describe.
CommandsFindTheirEnvironment == Script!CommandsFindTheirEnvironment

\* A command of a line reads what the one before it has written.
ReadsItsPredecessor == Line!ReadsItsPredecessor

\* The points of a slave are all in the picture or none of them.
AllOrNothing == Mandelbrot!AllOrNothing

\* What has to come to an end, and does if everything goes well.
MustEnd == \/ program = "search" /\ VERSION = 3
           \/ program = "script"
           \/ program = "mandelbrot" /\ \E s \in Mandelbrot!Slave : slaveAt[s] = "open"
           \/ program = "line" /\ Line!Fits

Ended == /\ program = "search" => returned = Search!Thread
         /\ program = "script" => stack = <<>>
         /\ program = "mandelbrot" => masterAt = "end"
         /\ program = "line" => shellAt = "end"

\* The programs that come to an end: the search of the file in the version that is
\* checked in, whose threads all return (cw08/zad1/main.c:91-125); a script
\* (cw03/zad2/main.c:126-158); the picture, if one slave has been started
\* (cw05/zad2/master.c:51-64); and a line whose commands, but for the last, write
\* no more than a pipe holds (cw05/zad1/main.c:38-96).  No hang counts as an end.
\* Nothing is claimed where the code can hang: of any other line, which
\* cw05/Zadanie5:8 wants run as well (see EveryLineEnds), and of the two versions
\* of the search that cancel threads, which cw08/Zadanie8:5 wants ended by the
\* cancellation.
ProgramsEnd == MustEnd ~> Ended
=============================================================================
