--------------------------- MODULE ClusterDatagram ---------------------------
(***************************************************************************)
(* cw10/zad2: the cluster over datagram sockets, a local and an internet    *)
(* one.  Of what the server does nothing reaches a client: it registers its *)
(* own descriptor instead of the address a HELLO came from, and sends tasks *)
(* and pings to the path of its own local socket.  So the clients only send *)
(* HELLO and then wait, and the server talks to itself.                     *)
(*                                                                          *)
(* clientsPong is written and never used, taskCounter never incremented;    *)
(* both are left out, and so is the end of the array of clients.            *)
(***************************************************************************)
EXTENDS Naturals, Sequences

CONSTANTS LocalClient, InetClient,  \* two disjoint sets
          QueueSize,                \* datagrams a queue takes
          MaxTasks                  \* tasks typed at the server

Client == LocalClient \cup InetClient
Socket == {"un_sock", "net_sock"}
Nothing == "nothing"

\* What may be in the message of commandline that nobody has filled in.
Types == {"ANSWER", "MSG", "PING", "EXIT", "HELLO", "other"}

VARIABLES server,       \* "alive" or "dead": every error ends the process
          queue,        \* the datagrams that wait at each socket, their types
          servAt,       \* where serverTask is
          served,       \* event.data.fd of the loop it never leaves
          clientFds,    \* the entries in use
          pinging,      \* the entry ping_task is at, 0 outside its rounds
          cmdAt, msgType, typed, \* where commandline is, its message, its tasks
          clientAt      \* where each client is

vars == <<server, queue, servAt, served, clientFds, pinging, cmdAt, msgType, typed,
          clientAt>>
cmdVars == <<cmdAt, msgType, typed>>

Init == /\ server = "alive"
        /\ queue = [s \in Socket |-> <<>>]
        /\ servAt = "init" /\ served = Nothing
        /\ clientFds = <<>>
        /\ pinging = 0
        /\ cmdAt = "scan" /\ msgType \in Types /\ typed = 0
        /\ clientAt = [c \in Client |-> "off"]

Alive == server = "alive"
Bound == Alive /\ servAt # "init"
Room(s) == Len(queue[s]) < QueueSize
Put(s, type) == queue' = [queue EXCEPT ![s] = Append(@, type)]

\* exitError, in whatever thread, or SIGINT.
Die == /\ server' = "dead"
       /\ UNCHANGED <<queue, servAt, served, clientFds, pinging, cmdVars, clientAt>>

\* The mutex is free: serverTask keeps it only for one step.
lock == pinging = 0

-----------------------------------------------------------------------------
(* The network thread. *)

ServGoto(from, to) == Alive /\ servAt = from /\ servAt' = to

init_sockets == /\ ServGoto("init", "epoll")
                /\ UNCHANGED <<server, queue, served, clientFds, pinging, cmdVars, clientAt>>

\* epoll_wait, and the loop over its events, which gets to the first one only.
EpollWait == /\ ServGoto("epoll", "recv")
             /\ \E s \in Socket : queue[s] # <<>> /\ served' = s
             /\ UNCHANGED <<server, queue, clientFds, pinging, cmdVars, clientAt>>

\* while(1)
NextMessage == "recv"

Case(type) == CASE type = "PING" -> "pong"
                [] type = "HELLO" -> "add"
                [] type = "EXIT" -> "close"
                [] OTHER -> NextMessage

Receive == /\ Alive /\ servAt = "recv" /\ queue[served] # <<>>
           /\ servAt' = Case(Head(queue[served]))
           /\ queue' = [queue EXCEPT ![served] = Tail(@)]
           /\ UNCHANGED <<server, served, clientFds, pinging, cmdVars, clientAt>>

Pong == /\ ServGoto("pong", NextMessage)
        /\ lock
        /\ UNCHANGED <<server, queue, served, clientFds, pinging, cmdVars, clientAt>>

add_client == /\ ServGoto("add", NextMessage)
              /\ lock
              /\ clientFds' = Append(clientFds, served)
              /\ UNCHANGED <<server, queue, served, pinging, cmdVars, clientAt>>

\* An entry is the served socket itself: close_client closes it, and either the
\* second close or the next recvfrom fails.
close_client == /\ Alive /\ servAt = "close" /\ lock
                /\ IF clientFds = <<>>
                   THEN /\ servAt' = NextMessage
                        /\ UNCHANGED <<server, queue, served, clientFds, pinging, cmdVars,
                                       clientAt>>
                   ELSE Die /\ UNCHANGED servAt

serverTask == init_sockets \/ EpollWait \/ Receive \/ Pong \/ add_client \/ close_client

-----------------------------------------------------------------------------
(* The pings. *)

StartRound == /\ Alive /\ lock
              /\ pinging' = 1
              /\ UNCHANGED <<server, queue, servAt, served, clientFds, cmdVars, clientAt>>

InRound == Alive /\ pinging \in 1 .. Len(clientFds)

\* To the path of the server's own local socket, from the socket in the entry.
SendPing == /\ InRound /\ clientFds[pinging] = "un_sock" /\ Room("un_sock")
            /\ Put("un_sock", "PING")
            /\ pinging' = pinging + 1
            /\ UNCHANGED <<server, servAt, served, clientFds, cmdVars, clientAt>>

\* An internet socket does not send to a path.
SendPingFails == InRound /\ clientFds[pinging] = "net_sock" /\ Die

\* unlock, sleep, and a look at the list that changes nothing.
EndRound == /\ Alive /\ pinging > Len(clientFds)
            /\ pinging' = 0
            /\ UNCHANGED <<server, queue, servAt, served, clientFds, cmdVars, clientAt>>

ping_task == StartRound \/ SendPing \/ SendPingFails \/ EndRound

-----------------------------------------------------------------------------
(* The terminal. *)

\* Without clients the message is sent as it is; rand_client takes no lock.
Scan == /\ Alive /\ cmdAt = "scan" /\ typed < MaxTasks
        /\ cmdAt' = "send"
        /\ typed' = typed + 1
        /\ msgType' = IF clientFds = <<>> THEN msgType ELSE "MSG"
        /\ UNCHANGED <<server, queue, servAt, served, clientFds, pinging, clientAt>>

SendTask == /\ Bound /\ cmdAt = "send" /\ Room("un_sock")
            /\ Put("un_sock", msgType)
            /\ cmdAt' = "scan"
            /\ UNCHANGED <<server, servAt, served, clientFds, pinging, msgType, typed,
                           clientAt>>

\* The socket is not there yet.
SendTaskFails == Alive /\ ~Bound /\ cmdAt = "send" /\ Die

commandline == Scan \/ SendTask \/ SendTaskFails

-----------------------------------------------------------------------------
(* The clients. *)

Goto(c, from, to) == clientAt[c] = from /\ clientAt' = [clientAt EXCEPT ![c] = to]
others == <<server, servAt, served, clientFds, pinging, cmdVars>>

\* A local client needs the server to connect; connect of the other does nothing.
Connect(c) == /\ Goto(c, "off", IF c \in InetClient \/ Bound THEN "hello" ELSE "gone")
              /\ UNCHANGED <<others, queue>>

SocketOf(c) == IF c \in LocalClient THEN "un_sock" ELSE "net_sock"

Hello(c) == /\ Goto(c, "hello", "read")
            /\ Bound /\ Room(SocketOf(c))
            /\ Put(SocketOf(c), "HELLO")
            /\ UNCHANGED others

\* Over the internet a datagram may be lost, and is if nobody is there.
HelloLost(c) == /\ Goto(c, "hello", "read")
                /\ c \in InetClient
                /\ UNCHANGED <<others, queue>>

\* Errors of a client whose server is not there, and SIGINT: no message is sent.
Leave(c) == /\ clientAt[c] \in {"hello", "read"}
            /\ Goto(c, clientAt[c], "gone")
            /\ UNCHANGED <<others, queue>>

sigexit == Alive /\ Die

-----------------------------------------------------------------------------
\* The ping thread waits with the lock for room in the queue, the network thread
\* for the lock: the server does nothing any more.
Stuck == InRound /\ ~Room("un_sock") /\ servAt \in {"pong", "add", "close"}

Stopped == (~Alive \/ Stuck) /\ UNCHANGED vars

Next == \/ serverTask \/ ping_task \/ commandline \/ sigexit
        \/ \E c \in Client : Connect(c) \/ Hello(c) \/ HelloLost(c) \/ Leave(c)
        \/ Stopped

\* The ping thread sleeps with the mutex free after each round, so the network
\* thread gets it: strong fairness.
Spec == Init /\ [][Next]_vars /\ SF_vars(serverTask) /\ WF_vars(ping_task)

-----------------------------------------------------------------------------
\* What the code does: it serves the first socket that gets a datagram and never
\* looks at the other one again; what arrives there stays there, and every client
\* it knows came through the first (server.c:87-127).  cw10/Zadanie10:6 asks for
\* BothSocketsServed instead.
OneSocketServed ==
    /\ [](\A e \in 1 .. Len(clientFds) : clientFds[e] = served)
    /\ [][\A s \in Socket : Len(queue[s]) > Len(queue'[s]) =>
             served = s /\ served' = s]_vars
    /\ [][served # Nothing => served' = served]_vars

\* "Watek obslugujacy siec powinien obslugiwac gniazdo sieciowe i gniazdo lokalne
\* jednoczesnie" (cw10/Zadanie10:6, the network thread shall serve the network
\* socket and the local socket at the same time): a socket at which a datagram
\* waits is served in the end, as long as the server lives.
BothSocketsServed == \A s \in Socket : queue[s] # <<>> ~> served = s \/ ~Alive

\* "osobny watek powinien cyklicznie 'pingowac' zarejestrowanych klientow, aby
\* zweryfikowac ze wciaz odpowiadaja na zadania i jesli nie - usuwac ich z listy
\* klientow" (cw10/Zadanie10:6, a thread of its own shall ping the registered
\* clients and remove from the list those that do not answer): whoever is in the
\* list, a round of pings does not end the server.
PingsEndNobody == [][ping_task => UNCHANGED server]_vars
=============================================================================
