# Systemy operacyjne (C): a verification project

The repository is a course in operating systems: nine independent directories
(`cw02` to `cw10`), each with one to three small C programs. What they have in
common is that they are concurrent: processes, threads and signal handlers that
meet over semaphores, shared memory, condition variables, message queues, pipes
and sockets. This directory models the programs whose correctness depends on
that meeting, checks the models with TLC and proves the safety properties of
most of them with TLAPS.

## 1. The system: components, state, operations, what must hold

| Component | State it keeps | Operations | What is hard | What makes it correct |
|---|---|---|---|---|
| `cw07/*/fifo.c` ring | `max, head, tail, chair, tab` in shared memory | `fifoInit, isEmptyFifo, isFullFifo, pushFifo, popFifo` | one slot marks both full and empty, wrap-around | a bounded FIFO queue |
| `cw07/zad1` barber shop, System V | the ring, three semaphores, one queued real-time signal per client | barber loop (`startWork, takeChair, cut`), client (`getCut, takePlace`), SIGINT | two processes act on a semaphore *value* read earlier; BARBER carries two units; a signal may precede the wait for it; a client may die anywhere | no client lost, doubled or left waiting; order of arrival; refusal only when full; no deadlock |
| `cw07/zad2` barber shop, POSIX | the ring, four semaphores, one queued signal per client | the same, with a handshake on SLOWER | the handshake, the unit that is put back | the same |
| `cw09/zad1a` readers and writers | one mutex, one condition variable, three counters | `rFunc, wFunc` | one condition for two kinds of waiters, spurious wake-ups | exclusive writers, no lost wake-up, writers first |
| `cw09/zad1b` readers and writers | `semCheck, semWriter, semWait`, two counters | `rFunc, wFunc` | a semaphore taken by one thread and given up by another | exclusive writers, one holder, the waiting writer is woken |
| `cw06/zad1`, `cw06/zad2` message server | the server's queue, one queue per client, the table of clients | register, echo, upper, time, term, (POSIX) logout | requests left behind at the end, a table that is never freed, the wrong descriptor closed | every request is answered, answers reach the client that asked |
| `cw10/zad1` computing cluster, streams | the list of connections and pongs under a lock, sockets, three threads | connect, task, answer, ping, close | a list shrunk while it is walked, shared loop index, reads without the lock | the list is the set of open connections |
| `cw10/zad2` computing cluster, datagrams | two sockets, a list of descriptors, three threads | hello, task, ping | a loop over one socket that never ends, a server that writes to itself with a lock held | both sockets are served; pings end nobody (both fail) |
| `cw08/zad1` file search | file offset, mutex, the threads | three cancellation versions | cancellation with the mutex held | no batch torn, all threads end (fails in versions 1 and 2) |
| `cw08/zad2` signals to threads | none | a table of experiments | none beyond the kernel's | none |
| `cw04/zad1..3` signals | flags and counters written by handlers | SIGTSTP, SIGUSR1/2, real-time signals | handlers between any two statements, signals that merge | letters stay letters, every request is granted, every signal answered |
| `cw05/zad1` pipeline | the table of descriptors, one pipe per command | run the commands of a line | descriptors closed and handed out again; full pipes nobody reads | each command reads what the one before wrote; the line ends (fails for long output) |
| `cw05/zad2` Mandelbrot | a named pipe, the master, the slaves | write and read records | an end of file before the last writer has come | a slave's points are all in the picture or none |
| `cw02/zad1` sort and shuffle | a file of records, two in memory | bubble sort, shuffle, in place | a failure between two writes; boundaries; signed keys | a stable sort; a shuffle that is one cycle; one record at risk |
| `cw02/zad2` directory search | buffers that the levels of a recursion share | two searches of a tree | a buffer one level down writes into | both find each file once |
| `cw02/zad3` record locks | the kernel's lock table | lock, wait, unlock, overwrite, list | a list made byte by byte while others lock | no lock that was there all the time is missing |
| `cw03/zad1`, `zad2` interpreters | a script, the environment | run each line in a child | a child whose `exec` fails goes on with the script | each command runs once, in the environment of its line; a failure ends the script (fails) |

The programs of different directories never run together: the only
compositions are inside a directory (ring + barber + clients; barber + SIGINT).

`PROJECT.json` lists the same components with their status and, under
`hazards`, the places in the code where each difficulty bites.


## 2. The modules

| Module | Models | Composes |
|---|---|---|
| `Fifo` | `cw07/*/fifo.c`: the ring as a record, its functions as operators, `Contents` as what it stands for | |
| `FifoQueue`, `BoundedQueue` | processes that push and pop; the queue the ring should be | `Fifo`; `FifoQueue` implements `BoundedQueue` |
| `Barber` | `cw07/zad1/barber.c`, `breeder.c` | `Fifo`; implements `BarberShop` |
| `BarberInterrupt` | `Barber` with clients, and a barber, that SIGINT ends | `Barber` |
| `BarberPosix` | `cw07/zad2/barber.c`, `breeder.c` | `Fifo`; implements `BarberShop` |
| `BarberShop` | the shop of `cw07/Zadanie7`: who is asleep, on the chair, in the queue, turned away | |
| `RWMutexCond`, `RWSemaphores`, `TableThreads` | `cw09/zad1a/main.c`, `cw09/zad1b/main.c`, and the threads both have | both implement `ReadersWriters` |
| `ReadersWriters` | a table that any number of readers, or one writer, may use | |
| `MessageQueues` | `cw06/zad1` server and clients | |
| `PosixQueues` | `cw06/zad2` server and clients | |
| `Cluster` | `cw10/zad1` server (three threads) and clients | |
| `SignalAlphabet`, `SignalPermits`, `SignalPingPong` | `cw04/zad1`, `zad2`, `zad3` | |
| `FileSearch` | `cw08/zad1/main.c`, its three versions | |
| `RecordFile` | `cw02/zad1`: `bSortSys`, `ShuffleSys`, the bytes `generate` makes | |
| `DirectorySearch` | `cw02/zad2/main.c` | |
| `RecordLocks` | `cw02/zad3/main.c`, and the lock table of the kernel | |
| `Interpreter` | `cw03/zad1/main.c`, `cw03/zad2/main.c` | |
| `Pipeline` | `cw05/zad1/main.c`, and pipes | |
| `MandelbrotPipe` | `cw05/zad2` master and slaves, and a FIFO | |
| `ClusterDatagram` | `cw10/zad2` server (three threads) and clients | |
| `MCPrograms` | one of these eleven programs, from `SignalAlphabet` on, at a time: the sum of their state spaces, not the product | the eleven |
| `MCTables` | the ring, the two readers-writers programs or the System V queues, one at a time | `FifoQueue`, `RWMutexCond`, `RWSemaphores`, `MessageQueues` |
| `MCBarberCluster` | the barber shop with SIGINT or the stream cluster, one at a time | `BarberInterrupt`, `Cluster` |
| `MCBarber` | the symmetry of the clients, for `BarberSafety.cfg` | `Barber` |
| `FifoProofs`, `BarberProofs`, `BarberPosixProofs`, `RWMutexCondProofs`, `RWSemaphoresProofs`, `MessageQueuesProofs`, `ClusterProofs`, `ProgramsProofs` | lemmas and theorems | the module they are named after; `FifoProofs` is about `Fifo` and `FifoQueue`, `ProgramsProofs` about the programs of `MCPrograms` |

### How state and actions correspond to the code

*One action per access to shared state.* A process has a label for each place
where another can run: a semaphore operation, a lock, a read or a write of
shared memory, a system call. What it does between two of them, to variables of
its own, belongs to the action before or after. Labels have the order of the
statements, so a dropped or swapped statement is a different module.

*Barber* (`bpc`, `cpc`). `sleep` is `semop(BARBER, -1)` of `startWork`;
`chairLock`, `chairRead`, `chairRelease` are `takeChair`; `cut` is the `kill`
of `cut`; `loopLock` to `sleepRelease` are the loop that pops or goes to sleep.
A client runs `test` (the loop of `getCut`), `check`, `lock`, then `stat`
(`semctl GETVAL`), `wake1`, `wake2`, `sit` or `push` (`takePlace`), `unlock`,
`uncheck`, `suspend`. `pending` counts the SIGRTMIN queued for a client, which
blocks it outside `sigsuspend`. `cuts` is `cutsCounter`. In `BarberPosix` the
value of the semaphore is read by `sem_getvalue`, and the handshake on SLOWER
stands between the wake-up and the chair.
In `BarberInterrupt` a barber who has ended has removed the semaphores: the next
`semop` or `semctl` of a client, or the one it waits in, fails and ends it (`Error`).

*Readers and writers.* `pc` has a label before each lock, wait, signal and
unlock of `rFunc` and `wFunc`. A thread at `waiting` is asleep in
`pthread_cond_wait`; it becomes `awake` by a broadcast or spuriously and must
take the mutex again before it tests. The contents of the array, the sums and
the printing are left out. In `RWSemaphores` each `sem_wait` and `sem_post` is
an action, and so is the test of `readers` between the two that it races with.

*Message queues.* Queues are sequences of messages; a message keeps its kind,
its sender and the identifier it carries; texts are left out. A client is one
loop of asking and waiting; the server receives, then handles. SIGINT is
an action of each process. In `PosixQueues` the descriptors of the server are a
table of their own, since the code closes the wrong one.

*Cluster.* `toServer` and `toClient` are the two directions of a connection,
`files` the descriptor table of the server, `ready` the ready list of epoll:
connections leave it when they are reported (edge triggered), listening
sockets come back to its end (level triggered). `netpc`, `events`, `i`, `event`
are the two loops of `serverTask`, with the index that the PING case shares.
Every critical section of `lock` is one action; `commandline` reads the list
without it in up to three steps (`Scan`, `Draw`, `Fetch`) before it writes.
The death of the server has its causes as actions (`WriteFails`, `PingBreaks`,
`DrawOfNone`, `sigexit`, a failing `close`).

*Signals* (`SignalAlphabet`, `SignalPermits`, `SignalPingPong`). A handler is an
action that may happen between any two steps of the process it interrupts. It is
one step where nobody can see it half done, two where another signal can end it
in between (`ChildCounts`, `ChildAnswers`). A standard signal that is already
pending swallows the next (`Ask`, `Pending`), a real-time one queues. A handler
that runs in `waitpid` or `wait` makes the call return, because the handlers are
installed without SA_RESTART (`Interrupted`, `ParentHandler`).

*File search* (`at`, `k`). A thread is at `lock`, at `read` of slot `k`, at
`unlock`, `testcancel`, `search`, or in the loop that cancels thread `k`. `Die`
is what a cancellation does; a mutex in the dead thread's hands stays locked.
`VERSION` is chosen in the initial state.

*Records* (`RecordFile`). A record is the number of the place it had. `Pass`
compares, `WriteRecord2` and `WriteRecord1` are the two writes of an exchange,
`EndPass` the test of the `do`-`while`; `Draw`, `PutRecord2`, `PutRecord1` are
one round of the shuffle. `WriteFails` leaves the place as it was or torn, which
is also what a kill leaves. Only the first bytes are compared, as `char`: `Char`
makes them signed, `Normal` is the `%20+65` of `generate`.

*Directory search* (`roots`, `dents`). A buffer is an element of `roots`: level
`l` has `roots[l]` as its `root_path` and `roots[l+1]` as its `tmpRoot`, which
becomes the `root_path` of the call it makes. `search` is that call with its
`strcat`, `Return` its end; nothing sets the buffer back but the `strcpy` before
the next name.

*Record locks* (`commandAt`). Each command of the user is one action but
`printLocks`, which has one per byte. `held` is a history variable: the locks of
others that were there all the time since the list was begun.

*Interpreter* (`stack`). An interpreter is a line number and the value of the
variable; a failing `exec` pushes a copy of its parent, which waits until the
copy has ended. A line is its kind; the comment of the module lists them.

*Pipeline* (`shellAt`, `childAt`). `shellFds` and `childFds` are the descriptor
tables, number by number. `FirstPipe`, `Fork`, `Parent`, `Wait` follow
`exec_line` and `exec_cmd`; `Exec` is the child up to `execvp`. The command and
the pipes are external: what it reads is what was written into the pipe its
descriptor 0 is open on, and it sees the end when no writing end is open.

*Mandelbrot* (`masterAt`, `slaveAt`). `open` waits for the other side; `Start`
may give a slave that is gone at once; `EndOfFile` is a `read` that gives 0.

*Datagram cluster* (`servAt`, `served`, `pinging`, `cmdAt`). The network thread
never leaves the inner loop, so `served` is set once. The lock is held by the
ping thread between `StartRound` and `EndRound` and for one step elsewhere. The
message of `commandline` is uninitialised until there is a client: `msgType`
is chosen in the initial state and sent as it is.

*SIGINT* ends the programs of `cw04` by `doSIGINT` and `quit`; `QuitChild` is the
same signal at a child, whose handler is inherited.

## 3. What is checked

| Run | What it shows | Bounds, and why they are enough |
|---|---|---|
| `barber_safety` | `WaitingRoomOK`: types and an exclusive waiting room; asleep only with an empty queue; each waiting client in exactly one place; `ShopSpec`; no deadlock | 4 clients, 2 chairs, 2 cuts: barber, chair and queue taken and one turned away, and everybody comes back. Clients are interchangeable: symmetry |
| `posix_barber` | the same as `barber_safety`, and everybody is served | 4 clients, 2 chairs, 1 cut |
| `barber_cluster`, shop | `SurvivorsAreServed`: clients ended by SIGINT outside the critical sections leave the others served; a barber ended anywhere leaves only clients that wait for his signal | 3 clients, 2 chairs |
| `barber_cluster`, cluster | `ListOK`: types, as many entries as connections, the list right until the first client leaves; each task in one place | 2 clients, 3 starts (a descriptor is used again), 1 task, at most one ping under way per client |
| `tables_queues`, ring | `RingOK`; `QueueSpec`: the ring is a bounded FIFO queue | 3 slots, 3 processes: every head and tail, full, empty, wrapped; the theorem removes the bound |
| `tables_queues`, monitor | `CountersOK`: types and exact counters; no lost wake-up, writers first, `TableSpec` (a writer alone at the table), some writer always writes again | 3 readers, 3 writers: one writes, two wait on the same condition as the readers |
| `tables_queues`, semaphores | `BatonOK`: types and one holder of `semCheck`; the waiting writer known, `SemTableSpec`, every reader reads again (`ReadersAreServed`) | 3 readers, 3 writers: one waits for the readers, two for the writer |
| `tables_queues`, queues | `OrdersOK`: types, one order or answer under way per waiting client, answers reach the asker, everybody is answered | 3 clients, 2 identifiers: one denied; 2 kinds of order |
| `small_programs`, signals and threads | the alphabet comes back once the signals stop; permits follow requests, one each; no real-time signal lost, no standard one doubled; batches of records are not torn | 4 SIGTSTP: both bounds of the alphabet crossed and crossed again; 3 children, 2 requests; 3 pings; 3 threads, batches of 2, a file of 5 with 2 hits |
| `small_programs`, files | `SortIsStable`, `ShuffleIsOneCycle`, `EachFileFoundOnce`, `ListIsTrue` | every file of 4 records with 3 bytes (two of them negative as `char`), 0 to 5 records asked for; every tree of 2 names and 2 levels, so a directory has another name after it; 3 processes (2 may wait, 1 lists), 2 bytes, a file of 1 that grows |
| `small_programs`, processes | `CommandsFindTheirEnvironment`: a command finds what the lines before it set, in whichever interpreter it runs, and runs once if nothing before it failed; `ReadsItsPredecessor`, `AllOrNothing` | every script of up to 4 lines of 8 kinds; every line of up to 4 commands that read or not and write 0, 2 or 3 units, a pipe of 2; 3 slaves with 2 points and a FIFO of 3 |
| `small_programs`, endings | `ProgramsEnd`: the search of the compiled version, a script, a picture of which one slave was started, and a line whose commands, but for the last, fit their output into a pipe come to an end | as above. Where the code can hang nothing is claimed, and no hang counts as an end: see `line_hangs`, and versions 1 and 2 of `cw08/zad1` below |
| `barber_interrupted` | *violation*, see findings | 2 clients |
| `posix_logout` | *violation*, see findings | 3 clients, a table of 4 that never fills |
| `cluster_forgets` | *violation*, see findings | those of the cluster above |
| `script_goes_on` | *violation*, see findings | scripts of up to 3 lines |
| `line_hangs` | *violation*, see findings | 2 commands, 3 units for a pipe of 2 |
| `one_socket`, `ping_ends_server` | *violations*, see findings | one client of each kind, queues of 2, 1 task |

Programs that share no state share a run: the initial state chooses one, only that one
takes steps, and the others keep their initial values. The number of states is the
sum, and each property speaks of its own program.

Each property has a mutant: a small bug written next to the definition it
changes (`...Skipped`, `...Twice`, `...OffByOne`), with which the property fails
under the same bounds. Deadlock is checked in every passing run; the modules
whose programs may come to rest say so in an action (`Closed`, `Stuck`,
`Stopped`). `BarberInterrupted.cfg` and `PosixQueues.cfg` switch it off, because
those systems really stop.

### Fairness

* Processes and threads go on: fairness of each process's next step. Where a
  process waits on a semaphore or mutex that others keep taking, it is *strong*
  fairness. For System V semaphores the kernel queues the waiting processes,
  which justifies it. For POSIX semaphores and mutexes (futexes) nothing does:
  there the liveness results hold on schedulers that do not starve a thread.
* Spurious wake-ups (`Spurious`) have no fairness: no result needs them.
* In `MessageQueues` only the server and the receiving clients are fair; users
  type when they like.
* In a run of several programs the fairness is that of the program which runs
  (`MCFairness`, `MCSpec`, and `Only(...)` in `MCPrograms`).
* `barber_safety` and the cluster check safety only and assume nothing.
* In `MCPrograms` the loop of `cw04/zad1` and each thread of `cw08/zad1` go on:
  weak fairness, because in version 3, of which alone an end is claimed, each
  thread takes the mutex once. Nothing is assumed about the signal senders.
* Also there: the interpreter that runs, the shell and its command, the master
  and each slave go on (weak fairness: no result needs a thread to win a lock
  that others take again and again). Nothing is assumed about users, clients,
  locks or writes that fail.
* In `ClusterDatagram` the ping thread goes on (weak) and the network thread gets
  the lock in the end (strong: the ping thread sleeps between its rounds with the
  lock free). So in `one_socket` the socket is not left alone because its thread
  starved: it waits at the other one.

### Findings

1. **SIGINT and semaphores** (`barber_interrupted`). A client that SIGINT ends
   between taking and giving back CHECK or FIFO takes the unit with it: the
   operations carry no `SEM_UNDO`. Everybody else waits for ever, against
   `cw07/Zadanie7:32`. `SurvivorsAreServed` shows that outside the critical
   sections the same signal does no harm.
2. **Logout closes the wrong queue** (`posix_logout`). `mq_close` gets the entry
   after the last one in use instead of the entry of the client. The first
   logout closes descriptor 0, the next client is given descriptor 0, and the
   second logout cuts that client off.
3. **A client is forgotten** (`cluster_forgets`). `close_client` lowers the bound
   of the loop it is in, so the last entry is not moved: after one client has
   left, another that is still connected is no longer in the list, and a
   descriptor that is closed, or another client twice, is. The *number* of
   entries stays right, which `ListOK` checks.
4. **A failed command does not end the script** (`script_goes_on`).
   `cw03/Zadanie3:31`: if a command ends with another status than 0 the interpreter
   prints an error and ends. The code looks at `WIFEXITED` only, and only for a
   message; and when `exec` fails the child returns into the loop of `main`, so that
   the rest of the script runs twice. How often exactly is the theorem
   `FailedLinesDouble`, which says what the code does and not what it should do.
5. **A line may hang** (`line_hangs`). `cw05/Zadanie5:8`: all commands of a line are
   started, then the shell waits for them. The code waits for each before it starts
   the next, so a command that writes more than a pipe holds waits for a reader that
   is never started. `ProgramsEnd` shows that every other line ends.
6. **One socket is served** (`one_socket`). `cw10/Zadanie10:6`: the network thread
   serves both sockets at the same time. The code never leaves the loop over the
   first socket that epoll reports. The theorem `ServesOneSocket` says so for every
   number of clients.
7. **A ping ends the server** (`ping_ends_server`). `cw10/Zadanie10:6`: clients that
   do not answer the pings are removed from the list. The first internet client
   that is registered ends the server instead, because the ping is sent from the
   internet socket to the path of the local one.

Seen while modelling, with no run of their own: a SIGTSTP between the tests and
the addition makes `cw04/zad1` print a character that is no letter; in
`cw04/zad2` requests can merge and the parent spins for ever, a request that the
scan has just passed is never permitted, and `waitpid` that a signal interrupts is
not repeated, so the parent may end before its children; in `cw08/zad1` versions
1 and 2 can stop with the mutex locked by a dead thread, although
`cw08/Zadanie8:5` has the finder cancel all the others, in version 2 only once a
batch is processed (the code also cancels in `read`, with the mutex held), and
version 3, the one compiled, reads one batch per thread whatever is left of the
file, although its threads should end when all records are read; `ServiceTerm` ends the server
at once although `cw06/Zadanie6:25` wants the queue emptied first
(`server.c:80-82`); an answer carries the number of its task plus one
(`cw10/zad1/client.c:136`), although `cw10/Zadanie10` wants to tell from it
which task was answered; an event that the PING case skips is lost until the
client sends again; the server of `cw10/zad1` ends when it writes to a client
that has just left (SIGPIPE), and writes the client too many past the end of its
list (`server.c:311`).

And in the small programs:

* `cw02/zad1` compares keys as `char`, so files not made by `generate` are not in
  the order of `unsigned char` that `cw02/Zadanie2` asks for; its shuffle
  never leaves a record in its place.
* `cw02/zad2`: one directory without permission crashes the first search.
* `cw02/zad3`: `printlocks` shows no lock of its own process and none behind the
  end of the file.
* `cw04/zad2` calls `kill` with its arguments swapped, and `cw04/zad3` never sets
  `CPid`, so SIGINT sent to the parent alone leaves the children running.
* `cw05/zad2` may miss slaves that come late, and waits for ever if none comes.
* `cw10/zad2`: the server answers nobody, writes its tasks and pings to itself,
  and can stop for good with the lock held when its own queue is full (`Stuck`).

## 4. What is proved

The proofs hold for every value of the constants that satisfies the assumptions
of the modules.

* **The ring** (`FifoProofs`; assumes `FifoAssumption`: at
  least one chair, and `NoPid` is no client). `ContentsPush` and `ContentsPop`
  say what a push and a pop do to the contents; the case split is on the
  wrap-around. `RingAlwaysOK` follows, and `FifoImplementsQueue` maps each push
  and pop to the one of `BoundedQueue`.
* **The monitor** (`RWMutexCondProofs`; assumes finite, disjoint sets of readers
  and writers, `ThreadsAssumption` of `TableThreads`). `IInv` adds to the checked properties that the mutex is held
  exactly by the thread between a lock and the next unlock (`MutexHeld`);
  without it the counters could be changed by two threads at once. One lemma per
  action. From it: exact counters (`MonitorCounts`, with the types), exclusion, no lost wake-up, writers first
  (an action property), and the refinement of `ReadersWriters`.
* **The semaphores** (`RWSemaphoresProofs`; same assumptions). `IInv` says that
  `semCheck` is free or passed from hand to hand (`OneBaton`), that `semWriter`
  lets one writer at a time go on, that the counters count, and when a writer has
  to yield to readers (`YieldsToReaders`). From it: one baton, exclusion, the
  waiting writer is remembered, and the refinement of `ReadersWriters`.

* **The barber of System V** (`BarberProofs`; assumes `FifoAssumption` and at
  least one cut). `IInv` adds to the checked properties what makes them
  inductive: FIFO and CHECK are 0 exactly while somebody holds them
  (`SemaphoresHeld`), how many units BARBER has at each place of the barber and
  of the client who wakes him (`UnitsOfBarber`), that the queue is empty when the
  barber decides to sleep, and that somebody is on the chair when he goes for him
  (`SomebodyToCut`). One lemma per action; those that move the queue rest on
  `PushMembers`, `PopMembers` and `SitMembers` of `FifoProofs`. From it: types
  (BARBER stays below 3, no client has two signals), one process in the waiting
  room (`BarberExcludes`), `SleepsOnlyWhenNobodyWaits`, and `NobodyForgotten`: any number of
  clients, any number of chairs, nobody loses a wake-up or gets two.
  From the same invariant, `BarberImplementsShop`: every step is a step of
  `BarberShop` or leaves the shop as it is. A client is on
  the chair from the first of the two posts that wake the barber (`wake1`); that the
  second post and `sit`, which writes its number into the ring, change nothing the
  shop sees is where `UnitsOfBarber` is needed: the barber cannot get there first.
* **The barber of POSIX** (`BarberPosixProofs`; same assumptions). The invariant
  has the same shape, with SLOWER and the unit that the woken barber puts back;
  from it `PosixExcludes`, `PosixSleepsRight`, `PosixForgetsNobody` and
  `PosixImplementsShop`: both versions implement the one shop.
* **The message queues of System V** (`MessageQueuesProofs`; assumes a finite set
  of clients). `Inv` says, for each client, where its order or its answer is
  (`OneOrderUnderWay`): nowhere, in the server's queue, in the server's hands, in
  its own queue; and that the table maps an identifier to the client that was given
  it. `AnswersFindTheirClients` follows: nobody gets the answer to what another one
  asked.
* **The cluster over streams** (`ClusterProofs`; assumes `ClusterAssumption`: a
  finite set of clients). `TheListCounts`: there are as many entries as open
  connections as long as the server runs, however wrong `close_client` has made the
  entries, and until the first client leaves they are exactly those connections. Its invariant
  `ListInv` adds what the parts rest on. Two open descriptors never stand for one
  client (`ConnectionsOK`): so there are at most as many as clients were started, and
  a number is free whenever a connection is accepted, or the table would have no
  place for it. Tasks and answers carry numbers that were given (`MailOK`). As long as
  nobody has left, nothing that epoll has reported has been closed since and nothing
  has hung up (`NothingHungUp`): without it a descriptor could be closed while its
  entry stays. `TasksAreInOnePlace`: a task is under way to one client, answered by
  one, or printed, in one place of one queue only (`TaskInv`, stated for the
  *positions* in the queues, because a set of messages cannot tell one copy from two),
  and it is nowhere only if a client has left or the server has ended. Each action
  only takes from the head of a queue, adds to its end, or empties one; the lemmas on
  queues say what that does to the positions.
* **The small programs** (`ProgramsProofs`; assumes `ProgramsAssumption`, of
  `MCPrograms`). A step of the composition is a step of one program
  (`OneProgramRuns`), so each has an inductive invariant of its own, checked by TLC
  before it was proved:

  | Theorem | Invariant, and what it adds to the property |
  |---|---|
  | `PingPongCounts` | `PingPongInv`: the property itself, with the types: each signal sent is counted, under way or (one of a standard number) merged with one that was pending |
  | `PermitsAnswerRequests` | `PermitsInv`: a child's request is pending or handled and not both, and it has stopped working (`AsksOnce`); who is noted and who is permitted at each place of the parent (`WhoIsPermitted`) |
  | `LocksAreListed` | `LockingInv`: of the bytes already passed, each lock that was there all the time has its entry in the list (`ListSoFar`), and the table never has two locks that exclude each other (`TableOK`) |
  | `BatchesAreRead` | `SearchInv`: who reads has the mutex (`ReadersHoldMutex`), nothing is in two buffers (`BuffersApart`), and the part of a batch that has been read is a run that ends at the offset (`BatchOf`) |
  | `TheSortIsStable` | `RecordsInv`. `SortOK`: the records behind the bound are in order, the one at the index comes behind those it has passed, and equal keys never overtake. `NothingLost`: the file, with the record in memory, holds every record; after a failed write it misses one at most |
  | `TheShuffleIsOneCycle` | `RecordsInv`. `ShuffleOK`: the permutation so far has exactly one cycle for each place up to the last one not drawn for |
  | `EachFileIsFound` | `DirectoryInv`: a file has been found or is ahead of a call of the recursion (`Ahead`), never both, and each buffer starts with those of the levels above (`RootsOK`). That there are finitely many paths (`FiniteTuples`) is an induction, by the least counterexample (`LeastNumber`) |
  | `ServesOneSocket` (what the code does, against the exercise) | `DatagramInv`: the network thread has a socket once it has left `epoll_wait`, and every descriptor registered since is that one |
  | `PicturesAreWhole` | `PictureInv`: what a slave has written is drawn or in the FIFO (counted as a cardinality), and until the master sees the end there is a slave that writes or has closed |
  | `ScriptKeepsEnvironment`, and `FailedLinesDouble` (what the code does, against the exercise) | `ScriptInv`: each interpreter stands where no empty line is before it, with the environment the lines before it leave (`Faithful`), and so did each command that was run (`RanFaithfully`). `Doubled`: the runs of a line, with those to come, are as many as there are sets of failing commands before it |
  | `LinesArePipelines` (lines of any length: `MAX_CMDS` is any positive number) | `LineInv`: what each number of the descriptor table of the shell and of its child stands for, and what is in each pipe |

`LinesRunDoubled` speaks of a power of two, which would be an induction over the
script. `ToCome` avoids it: a run still to come is a pair of an interpreter and a set
of failing commands ahead of it, those where the *child* goes on. A command that fails
splits these sets between parent and child (`DoublingALine` gives the bijection),
any other line leaves them alone, and at the start they are all the subsets of the
failing commands before the line: as many as the library counts, 2 to the power of
their number.

Trying to prove `SignalsAccountedFor` showed that one conjunct of it, misplaced
under a quantifier, had said less than was meant; the property is now the intended
one, and it is the one TLC checks.

Only model-checked: the shop with SIGINT (`BarberInterrupt`) and its survivors, the
POSIX queues and the loop of SIGTSTP, of which the runs check liveness only, or a
claim that fails; all liveness (the prover has no rule for fairness); the
absence of deadlock. Every safety invariant of a passing run is a theorem.

## 5. What is not modelled

Left out for good: time stamps, printing and error texts; the failures of calls
that create things at start-up; the experiments of `cw08/zad2`, which end in one
signal the kernel delivers; what undefined behaviour does to the memory of a
program (words read into one character in `cw02/zad3` and `cw10`, the buffer of
`cw02/zad2` that is one byte short, entries past the end of the lists of `cw10`).

`RecordFile` leaves out the versions with `fread` and `fwrite`, whose buffer
reaches the file with the next `fseek`. `Interpreter` assumes a script that fits
one buffer of stdio: a longer one is read on by several processes through one
file offset. `DirectorySearch` assumes a tree that nobody changes, `RecordLocks`
advisory locks.
