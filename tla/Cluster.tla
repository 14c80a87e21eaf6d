------------------------------ MODULE Cluster ------------------------------
(***************************************************************************)
(* The computing cluster of cw10/zad1: a server with three threads (the     *)
(* network, the command line, the pings) and its clients, over stream       *)
(* sockets of two kinds.                                                    *)
(*                                                                          *)
(* A message is [type, counter]: of a task, its answer, a ping or a         *)
(* greeting only the task number matters.  clientsPong is left out, since   *)
(* nothing reads it to any effect, and so is EXIT, which nobody             *)
(* sends.  A PING is not sent to a client that has one under way in either  *)
(* direction: pings are a second apart.  Messages arrive whole.             *)
(*                                                                          *)
(* Every use of the lock is one step; the command line reads the list       *)
(* without it, one access at a time.  The program ends ("dead") by          *)
(* exitError, by SIGPIPE when it writes to a client that has gone, by a     *)
(* division by zero and by SIGINT.                                          *)
(***************************************************************************)
EXTENDS Integers, Sequences, FiniteSets, SequencesExt

CONSTANTS Clients,      \* the client processes
          Local,        \* those that use the UNIX socket
          ClosedFd,     \* a descriptor that is not open
          MAXCLIENTS,
          MaxStarts,    \* bound: how many clients are started altogether
          MaxTasks      \* bound: the tasks typed at the command line

ASSUME ClusterAssumption ==
    /\ IsFiniteSet(Clients)
    /\ Local \subseteq Clients
    /\ ClosedFd \notin Clients
    /\ MAXCLIENTS \in Nat
    /\ MaxStarts \in Nat
    /\ MaxTasks \in Nat

VARIABLES server,         \* "alive" or "dead"
          clientPc,       \* "off", "hello", "loop" or "gone", for each client
          starts,         \* how many were started so far
          toServer,       \* the bytes under way from and to each client,
          toClient,       \*    as sequences of messages
          backlog,        \* the connections to be accepted on each socket
          files,          \* the connection each descriptor stands for
          clientFds,      \* the list of clients: its entries 0 .. clientFdsSize
          clientFdsSize,
          ready,          \* the ready list of epoll
          netpc,          \* "event", "accept" or "receive"
          events, i,      \* what epoll_wait has returned, and the loop's index
          event,          \* the copy of the event that is handled
          cmdpc,          \* "scan", "draw", "fetch" or "write"
          pick,           \* the index, then the descriptor, drawn for a task
          taskCounter,
          printed         \* the numbers under which answers were printed

clientsVars == <<clientPc, starts, toServer, toClient>>
listVars == <<clientFds, clientFdsSize>>
netVars == <<backlog, ready, netpc, events, i, event>>
cmdVars == <<cmdpc, pick, taskCounter>>
clusterVars == <<server, clientsVars, files, listVars, netVars, cmdVars, printed>>

un_sock == 1
net_sock == 2
Sockets == {un_sock, net_sock}
Fds == 3 .. 2 + Cardinality(Clients)
Index == 0 .. MAXCLIENTS   \* the last one lies past the end of the array
MSG(n) == [type |-> "MSG", counter |-> n]
ANSWER(n) == [type |-> "ANSWER", counter |-> n]
PING == [type |-> "PING", counter |-> 0]
HELLO == [type |-> "HELLO", counter |-> 0]

NoEvent == [fd |-> -1, hup |-> FALSE]

Socket(c) == IF c \in Local THEN un_sock ELSE net_sock
Active == 0 .. clientFdsSize
Gone(c) == clientPc[c] = "gone"

ClusterInit == /\ server = "alive"
               /\ clientPc = [c \in Clients |-> "off"]
               /\ starts = 0
               /\ toServer = [c \in Clients |-> <<>>]
               /\ toClient = [c \in Clients |-> <<>>]
               /\ backlog = [s \in Sockets |-> <<>>]
               /\ files = [fd \in Fds |-> ClosedFd]
               /\ clientFds = [k \in Index |-> -1]
               /\ clientFdsSize = -1
               /\ ready = <<>>
               /\ netpc = "event"
               /\ events = <<>>
               /\ i = 0
               /\ event = NoEvent
               /\ cmdpc = "scan"
               /\ pick = -1
               /\ taskCounter = 0
               /\ printed = {}

-----------------------------------------------------------------------------
(* The kernel: bytes, descriptors and the ready list. *)

\* The elements of S in a sequence, in their order.
OnlyOf(queue, S) ==
    LET kept[k \in 0 .. Len(queue)] ==
            IF k = 0 THEN <<>>
            ELSE IF queue[k] \in S THEN Append(kept[k - 1], queue[k]) ELSE kept[k - 1]
    IN  kept[Len(queue)]

Put(queue, m) == IF m = PING /\ m \in ToSet(queue) THEN queue ELSE Append(queue, m)

\* Something happened on a descriptor: it joins the ready list unless it is there.
Wake(fds) == ready' = ready \o SetToSeq(fds \ ToSet(ready))

Open == {fd \in Fds : files[fd] # ClosedFd}

FdsOf(c) == {fd \in Fds : files[fd] = c}

LowestFree == CHOOSE fd \in Fds :
                 /\ files[fd] = ClosedFd
                 /\ \A lower \in Fds : files[lower] = ClosedFd => fd <= lower

\* Whether epoll_wait has something to report of an item of the ready list.
Reports(x) == IF x \in Sockets THEN backlog[x] # <<>>
              ELSE toServer[files[x]] # <<>> \/ Gone(files[x])

\* The peer of a UNIX socket that closes hangs up; that of a network socket
\* may, or may only be found at the end of its data.
Left(x) == x \in Fds /\ Gone(files[x])
HangUps(fds) == {hups \in SUBSET {x \in fds : Left(x)} :
                    \A x \in fds : Left(x) /\ files[x] \in Local => x \in hups}

\* write to fd fails, or ends the program by SIGPIPE: at once with a UNIX
\* socket, only after a first write with a network socket.
BadFile(fd) == fd \notin Open
Broken(fd) == fd \in Open /\ Gone(files[fd])
MayPass(fd) == Broken(fd) => files[fd] \notin Local

\* The server's memory, its connections and what was under way on them are gone.
Die == /\ server' = "dead"
       /\ toServer' = [c \in Clients |-> <<>>]
       /\ toClient' = [c \in Clients |-> <<>>]
       /\ backlog' = [s \in Sockets |-> <<>>]
       /\ files' = [fd \in Fds |-> ClosedFd]
       /\ clientFds' = [k \in Index |-> -1]
       /\ clientFdsSize' = -1
       /\ ready' = <<>>
       /\ netpc' = "event" /\ events' = <<>> /\ i' = 0 /\ event' = NoEvent
       /\ cmdpc' = "scan" /\ pick' = -1
       /\ UNCHANGED <<clientPc, starts, taskCounter, printed>>

-----------------------------------------------------------------------------
(* The clients. *)

\* connect; a client that has gone is started again once the server has closed
\* its old connection.
Connect(c) ==
    /\ server = "alive"
    /\ clientPc[c] \in {"off", "gone"}
    /\ FdsOf(c) = {} /\ c \notin ToSet(backlog[Socket(c)])
    /\ starts < MaxStarts
    /\ starts' = starts + 1
    /\ clientPc' = [clientPc EXCEPT ![c] = "hello"]
    /\ toServer' = [toServer EXCEPT ![c] = <<>>]
    /\ backlog' = [backlog EXCEPT ![Socket(c)] = Append(@, c)]
    /\ Wake({Socket(c)})
    /\ UNCHANGED <<server, toClient, files, listVars, netpc, events, i, event,
                   cmdVars, printed>>

Send(c, m) == /\ UNCHANGED starts
              /\ toServer' = [toServer EXCEPT ![c] = Put(@, m)]
              /\ Wake(FdsOf(c))
              /\ UNCHANGED <<server, backlog, files, listVars, netpc, events,
                             i, event, cmdVars, printed>>

hello(c) == /\ server = "alive"
            /\ clientPc[c] = "hello"
            /\ clientPc' = [clientPc EXCEPT ![c] = "loop"]
            /\ Send(c, HELLO)
            /\ UNCHANGED toClient

Received(c, type) == /\ server = "alive"
                     /\ clientPc[c] = "loop"
                     /\ toClient[c] # <<>>
                     /\ Head(toClient[c]).type = type
                     /\ toClient' = [toClient EXCEPT ![c] = Tail(@)]
                     /\ UNCHANGED clientPc

\* The answer carries the number of the task, plus one.
respond(c) == /\ Received(c, "MSG")
              /\ Send(c, ANSWER(Head(toClient[c]).counter + 1))

Pong(c) == /\ Received(c, "PING")
           /\ Send(c, PING)

\* SIGINT, which no handler catches, or the end of the server's stream.
Leave(c) ==
    /\ clientPc[c] \in {"hello", "loop"}
    /\ clientPc' = [clientPc EXCEPT ![c] = "gone"]
    /\ toClient' = [toClient EXCEPT ![c] = <<>>]
    /\ Wake(FdsOf(c))
    /\ UNCHANGED <<server, starts, toServer, backlog, files, listVars, netpc,
                   events, i, event, cmdVars, printed>>

-----------------------------------------------------------------------------
(* The network thread. *)

netOthers == <<clientsVars, cmdVars>>

\* The items that have something to report, in the order of the ready list; the
\* listening sockets, being level triggered, join it again.
epoll_wait ==
    /\ server = "alive" /\ netpc = "event" /\ events = <<>>
    /\ LET found == OnlyOf(ready, {x \in ToSet(ready) : Reports(x)})
       IN /\ found # <<>>
          /\ \E hups \in HangUps(ToSet(found)) :
                events' = [k \in DOMAIN found |-> [fd  |-> found[k],
                                                  hup |-> found[k] \in hups]]
          /\ ready' = OnlyOf(found, Sockets)
    /\ UNCHANGED <<server, netOthers, backlog, netpc, event, i, files, listVars, printed>>

\* The loop of close_client: the first entry of fd is closed and the bound of the loop
\* lowered, so that the last entry is not moved; a second entry within the bound
\* is closed a second time, which fails.  A descriptor that is not in the list
\* stays open.
Entries(fd) == {k \in Active : clientFds[k] = fd}
FirstEntry(fd) == CHOOSE k \in Entries(fd) : \A k2 \in Entries(fd) : k <= k2

CloseFails(fd) ==
    /\ Entries(fd) # {}
    /\ \/ BadFile(fd)
       \/ \E k \in Entries(fd) : k # FirstEntry(fd) /\ k < clientFdsSize

\* Mutant: the bound is lowered for every call.
UnlistAlways(fd) ==
    /\ clientFdsSize' = clientFdsSize - 1
    /\ IF Entries(fd) = {} THEN UNCHANGED <<files, clientFds, ready>>
       ELSE /\ clientFds' = [k \in Index |->
                   IF FirstEntry(fd) <= k /\ k < clientFdsSize - 1
                   THEN clientFds[k + 1] ELSE clientFds[k]]
            /\ files' = [files EXCEPT ![fd] = ClosedFd]
            /\ ready' = OnlyOf(ready, ToSet(ready) \ {fd})

Unlist(fd) ==
    IF Entries(fd) = {} THEN UNCHANGED <<files, listVars, ready>>
    ELSE /\ clientFdsSize' = clientFdsSize - 1
         /\ clientFds' = [k \in Index |->
                IF FirstEntry(fd) <= k /\ k < clientFdsSize - 1
                THEN clientFds[k + 1] ELSE clientFds[k]]
         /\ files' = [files EXCEPT ![fd] = ClosedFd]
         /\ ready' = OnlyOf(ready, ToSet(ready) \ {fd})

\* The end of the body of the loop; what has been dealt with is forgotten.
NextEvent == /\ netpc' = "event"
             /\ event' = NoEvent
             /\ IF i + 1 < Len(events)
                THEN i' = i + 1 /\ UNCHANGED events
                ELSE i' = 0 /\ events' = <<>>

Handling == server = "alive" /\ netpc = "event" /\ events # <<>>

close_client(fd) == IF CloseFails(fd) THEN Die
                    ELSE /\ Unlist(fd)
                         /\ NextEvent
                         /\ UNCHANGED <<server, netOthers, backlog, printed>>

HangUp == /\ Handling
          /\ events[i + 1].hup
          /\ close_client(events[i + 1].fd)

Handle == /\ Handling
          /\ ~events[i + 1].hup
          /\ event' = events[i + 1]
          /\ netpc' = IF event'.fd \in Sockets THEN "accept" ELSE "receive"
          /\ UNCHANGED <<server, netOthers, backlog, ready, events, i, files,
                         listVars, printed>>

Accepting == server = "alive" /\ netpc = "accept"

add_client(fd) ==
    /\ clientFdsSize' = clientFdsSize + 1
    /\ clientFds' = [k \in Index |-> IF k = clientFdsSize + 1 THEN fd ELSE clientFds[k]]

\* accept4, epoll_ctl and add_client, which ends the program when the list is
\* longer than the array.
Accept ==
    /\ Accepting
    /\ backlog[event.fd] # <<>>
    /\ IF clientFdsSize >= MAXCLIENTS THEN Die
       ELSE LET c == Head(backlog[event.fd])
            IN /\ backlog' = [backlog EXCEPT ![event.fd] = Tail(@)]
               /\ files' = [files EXCEPT ![LowestFree] = c]
               /\ Wake({fd \in {LowestFree} : toServer[c] # <<>> \/ Gone(c)})
               /\ add_client(LowestFree)
               /\ UNCHANGED <<server, netOthers, netpc, events, i, event, printed>>

AcceptNoMore == /\ Accepting
                /\ backlog[event.fd] = <<>>
                /\ NextEvent
                /\ UNCHANGED <<server, netOthers, backlog, ready, files,
                               listVars, printed>>

Receiving == server = "alive" /\ netpc = "receive"

Arrived(type) ==
    /\ Receiving
    /\ ~BadFile(event.fd)
    /\ LET c == files[event.fd]
       IN /\ toServer[c] # <<>>
          /\ Head(toServer[c]).type = type
          /\ toServer' = [toServer EXCEPT ![c] = Tail(@)]
    /\ UNCHANGED <<server, clientPc, starts, toClient, cmdVars, backlog, ready, netpc, events,
                   event, files, listVars>>

ReceiveHello == Arrived("HELLO") /\ UNCHANGED <<i, printed>>

ReceiveAnswer ==
    /\ Arrived("ANSWER")
    /\ printed' = printed \cup {Head(toServer[files[event.fd]]).counter}
    /\ UNCHANGED i

\* The search for the client uses the index of the loop over the events.
ReceivePing == /\ Arrived("PING")
               /\ i' = IF Entries(event.fd) = {} THEN clientFdsSize + 1
                       ELSE FirstEntry(event.fd)
               /\ UNCHANGED printed

\* recv has nothing to give: EAGAIN, or the end of the stream, or EBADF.
ReceiveNothing ==
    /\ Receiving
    /\ ~BadFile(event.fd)
    /\ toServer[files[event.fd]] = <<>>
    /\ ~Gone(files[event.fd])
    /\ NextEvent
    /\ UNCHANGED <<server, netOthers, backlog, ready, files, listVars, printed>>

ReceiveEnd == /\ Receiving
              /\ \/ BadFile(event.fd)
                 \/ /\ ~BadFile(event.fd)
                    /\ toServer[files[event.fd]] = <<>>
                    /\ Gone(files[event.fd])
              /\ close_client(event.fd)

serverTask == \/ epoll_wait \/ HangUp \/ Handle \/ Accept \/ AcceptNoMore
              \/ ReceiveHello \/ ReceiveAnswer \/ ReceivePing
              \/ ReceiveNothing \/ ReceiveEnd

-----------------------------------------------------------------------------
(* The command line. *)

cmdOthers == <<clientPc, starts, toServer, files, listVars, netVars, printed>>

\* A task is typed and rand_client reads the size of the list: with one client
\* there is nothing to draw.  With none, write is called with descriptor -1.
Scan == /\ server = "alive"
        /\ cmdpc = "scan"
        /\ taskCounter < MaxTasks
        /\ \/ /\ clientFdsSize = -1
              /\ cmdpc' = "write" /\ pick' = -1
           \/ /\ clientFdsSize = 0
              /\ cmdpc' = "fetch" /\ pick' = 0
           \/ /\ clientFdsSize > 0
              /\ cmdpc' = "draw" /\ pick' = -1
        /\ UNCHANGED <<server, toClient, taskCounter, cmdOthers>>

\* rand() % (clientFdsSize + 1), of the size as it is now.
Draw == /\ server = "alive"
        /\ cmdpc = "draw"
        /\ clientFdsSize # -1
        /\ pick' \in Active
        /\ cmdpc' = "fetch"
        /\ UNCHANGED <<server, toClient, taskCounter, cmdOthers>>

DrawOfNone == server = "alive" /\ cmdpc = "draw" /\ clientFdsSize = -1 /\ Die

Fetch == /\ server = "alive"
         /\ cmdpc = "fetch"
         /\ pick' = clientFds[pick]
         /\ cmdpc' = "write"
         /\ UNCHANGED <<server, toClient, taskCounter, cmdOthers>>

Writing == server = "alive" /\ cmdpc = "write"

\* Mutant: the task is written to two clients.
WriteTaskTwice ==
    /\ Writing
    /\ ~BadFile(pick)
    /\ MayPass(pick)
    /\ toClient' = [c \in Clients |-> IF c \in {files[fd] : fd \in Fds} /\ ~Gone(c)
                                     THEN Put(toClient[c], MSG(taskCounter))
                                     ELSE toClient[c]]
    /\ taskCounter' = taskCounter + 1
    /\ cmdpc' = "scan" /\ pick' = -1
    /\ UNCHANGED <<server, cmdOthers>>

WriteTask ==
    /\ Writing
    /\ ~BadFile(pick)
    /\ MayPass(pick)
    /\ toClient' = IF Broken(pick) THEN toClient
                   ELSE [toClient EXCEPT ![files[pick]] = Put(@, MSG(taskCounter))]
    /\ taskCounter' = taskCounter + 1
    /\ cmdpc' = "scan" /\ pick' = -1
    /\ UNCHANGED <<server, cmdOthers>>

WriteFails == Writing /\ (BadFile(pick) \/ Broken(pick)) /\ Die

commandline == Scan \/ Draw \/ DrawOfNone \/ Fetch \/ WriteTask \/ WriteFails

-----------------------------------------------------------------------------
(* The pings: one round over the list; a bad descriptor is ignored. *)

Pinged == {clientFds[k] : k \in Active}
PingedClients == {files[fd] : fd \in {fd \in Pinged : ~BadFile(fd) /\ ~Broken(fd)}}

PingAll == /\ server = "alive"
           /\ \A fd \in Pinged : MayPass(fd)
           /\ toClient' = [c \in Clients |-> IF c \in PingedClients
                                            /\ PING \notin ToSet(toServer[c])
                                            THEN Put(toClient[c], PING)
                                            ELSE toClient[c]]
           /\ UNCHANGED <<server, clientPc, starts, toServer, files, listVars, netVars,
                          cmdVars, printed>>

PingBreaks == /\ server = "alive"
              /\ \E fd \in Pinged : Broken(fd)
              /\ Die

ping_task == PingAll \/ PingBreaks

-----------------------------------------------------------------------------
sigexit == server = "alive" /\ Die

\* Nothing is left to do without the server when everybody has gone.
Stopped == /\ server = "dead"
           /\ \A c \in Clients : clientPc[c] \in {"off", "gone"}
           /\ UNCHANGED clusterVars

ClientTurn(c) == hello(c) \/ respond(c) \/ Pong(c)

ClusterNext == \/ serverTask \/ commandline \/ ping_task \/ sigexit
               \/ \E c \in Clients : Connect(c) \/ ClientTurn(c) \/ Leave(c)
               \/ Stopped

ClusterSpec == ClusterInit /\ [][ClusterNext]_clusterVars

-----------------------------------------------------------------------------
Messages == {PING, HELLO} \cup {MSG(n) : n \in 0 .. MaxTasks}
                \cup {ANSWER(n) : n \in 0 .. MaxTasks}

ClusterTypeOK == /\ server \in {"alive", "dead"}
                 /\ clientPc \in [Clients -> {"off", "hello", "loop", "gone"}]
                 /\ toServer \in [Clients -> Seq(Messages)]
                 /\ toClient \in [Clients -> Seq(Messages)]
                 /\ backlog \in [Sockets -> Seq(Clients)]
                 /\ files \in [Fds -> Clients \cup {ClosedFd}]
                 /\ clientFds \in [Index -> Fds \cup {-1}]
                 /\ clientFdsSize \in -1 .. MAXCLIENTS
                 /\ ready \in Seq(Sockets \cup Fds)
                 /\ netpc \in {"event", "accept", "receive"}
                 /\ events \in Seq([fd : Sockets \cup Fds, hup : BOOLEAN])
                 /\ i \in Nat
                 /\ cmdpc \in {"scan", "draw", "fetch", "write"}
                 /\ pick \in Index \cup Fds \cup {-1}
                 /\ taskCounter \in 0 .. MaxTasks
                 /\ printed \subseteq 1 .. MaxTasks

\* The number of entries is the number of open connections, even when the
\* entries themselves have become wrong (server.c:309-331).
SomeoneLeft == \/ \E c \in Clients : Gone(c)
               \/ starts > Cardinality({c \in Clients : clientPc[c] # "off"})

EntriesMatchConnections ==
    server = "alive" => clientFdsSize + 1 = Cardinality(Open)

\* As long as no client has left, the list holds every open connection once
\* (server.c:309-316).
ListIsRightBeforeTheFirstLeaves ==
    ~SomeoneLeft =>
        /\ Pinged = Open
        /\ \A k, k2 \in Active : clientFds[k] = clientFds[k2] => k = k2
        /\ \A fd, fd2 \in Open : files[fd] = files[fd2] => fd = fd2

\* Types, the size of the list, and its entries until the first client leaves.
ListOK == ClusterTypeOK /\ EntriesMatchConnections /\ ListIsRightBeforeTheFirstLeaves

\* Each task is in one place: on its way to a client, on its way back with its
\* number raised by one, or printed under that number; it is lost only with a
\* client that has left (server.c:195-238, client.c:134-153).
Places(n) ==
    {<<"to", c>> : c \in {c \in Clients : MSG(n) \in ToSet(toClient[c])}}
        \cup {<<"from", c>> : c \in {c \in Clients : ANSWER(n + 1) \in ToSet(toServer[c])}}
        \cup {<<"printed">> : k \in printed \cap {n + 1}}

EachTaskInOnePlace ==
    \A n \in 0 .. MaxTasks - 1 :
        IF n < taskCounter
        THEN /\ Cardinality(Places(n)) <= 1
             /\ Places(n) = {} => server = "dead" \/ SomeoneLeft
        ELSE Places(n) = {}

\* A client that has been accepted and is still there is in the list: the server
\* remembers it (cw10/Zadanie10:4).
AcceptedIsListed ==
    server = "alive" =>
        \A fd \in Open : ~Gone(files[fd]) => fd \in Pinged
=============================================================================
