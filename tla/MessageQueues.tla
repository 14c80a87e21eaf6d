---------------------------- MODULE MessageQueues ----------------------------
(***************************************************************************)
(* The server and the clients of cw06/zad1 (System V message queues): one   *)
(* queue of orders to the server, one private queue of answers per client.  *)
(* A message is [mtype, client, clientID]: the kind of the order, who sent  *)
(* it (the code sends the pid and the queue, which stand for each other),   *)
(* and the identifier the sender believes to have.  What an order asks for  *)
(* travels in mtext; an answer keeps it as the field service.               *)
(*                                                                          *)
(* SIGINT ends the server or a client at any point: exit removes the queue  *)
(* of the process.  A msgsnd to a queue that was removed fails: the client  *)
(* then ends too, the server does not look at the result.  A queue holds    *)
(* 16384 bytes, more than a hundred messages of this program; no queue gets *)
(* near that, because a client waits for each answer.                       *)
(***************************************************************************)
EXTENDS Integers, Sequences, FiniteSets

CONSTANTS Clients,       \* the client processes
          NoClient,      \* an unused slot of the table of clients
          MAX_CLIENTS,
          Service        \* the orders that are answered

ASSUME QueuesAssumption ==
    /\ IsFiniteSet(Clients)
    /\ NoClient \notin Clients
    /\ MAX_CLIENTS \in Nat \ {0}
    /\ Service \subseteq {"ServiceEcho", "ServiceUpper", "ServiceTime"}

VARIABLES serverQueue,      \* the orders the server has not received
          clientQueue,      \* for each client the answers it has not received
          server,           \* "ready", "serving" or "ended"
          msg,              \* the order the server serves
          clientsCounter,   \* the number of clients accepted so far
          clientsQueueIDS,  \* whose queue each identifier stands for
          cpc,              \* where each client is
          clientID,         \* the identifier of each client, 0 at first
          asked             \* mtype of the last message of each client

queuesVars == <<serverQueue, clientQueue, server, msg, clientsCounter,
                clientsQueueIDS, cpc, clientID, asked>>
serverVars == <<server, msg, clientsCounter, clientsQueueIDS>>

Ids == 0 .. MAX_CLIENTS - 1
Orders == {"ClientRequest", "ServiceTerm"} \cup Service
Order == [mtype : Orders, client : Clients, clientID : Ids]
Answer == [mtype    : {"ServerAccept", "ServerDenies", "ServerResponse"},
           client   : Clients,
           clientID : Ids,
           service  : Orders]

\* The places of a client: not started, about to register, waiting for the
\* answer to that, reading a command, waiting for an answer, ended.
ClientLabels == {"off", "register", "registering", "menu", "waiting", "ended"}

QueuesInit == /\ serverQueue = <<>>
              /\ clientQueue = [c \in Clients |-> <<>>]
              /\ server = "ready"
              /\ msg = <<>>
              /\ clientsCounter = 0
              /\ clientsQueueIDS = [i \in Ids |-> NoClient]
              /\ cpc = [c \in Clients |-> "off"]
              /\ clientID = [c \in Clients |-> 0]
              /\ asked = [c \in Clients |-> "ClientRequest"]

-----------------------------------------------------------------------------
(* The client. *)

\* A client that ends removes its queue and what is in it.
Leave(c) == /\ cpc' = [cpc EXCEPT ![c] = "ended"]
            /\ clientQueue' = [clientQueue EXCEPT ![c] = <<>>]

\* msgget: without the server's queue the client ends at once.
Start(c) ==
    /\ cpc[c] = "off"
    /\ cpc' = [cpc EXCEPT ![c] = IF server = "ended" THEN "ended" ELSE "register"]
    /\ UNCHANGED <<serverQueue, clientQueue, serverVars, clientID, asked>>

\* msg_snd: the client waits at next for the answer, or ends without a server.
Send(c, mtype, next) ==
    /\ asked' = [asked EXCEPT ![c] = mtype]
    /\ \/ /\ server # "ended"
          /\ serverQueue' = Append(serverQueue, [mtype    |-> mtype,
                                                 client   |-> c,
                                                 clientID |-> clientID[c]])
          /\ cpc' = [cpc EXCEPT ![c] = next]
          /\ UNCHANGED clientQueue
       \/ /\ server = "ended"
          /\ Leave(c)
          /\ UNCHANGED serverQueue
    /\ UNCHANGED <<serverVars, clientID>>

Register(c) == /\ cpc[c] = "register"
               /\ Send(c, "ClientRequest", "registering")

Ask(c) == /\ cpc[c] = "menu"
          /\ \E s \in Service : Send(c, s, "waiting")

\* The client that orders the end does not wait for an answer; nothing can be
\* left in its queue.
Term(c) == /\ cpc[c] = "menu"
           /\ Send(c, "ServiceTerm", "ended")

\* msg_rcv takes the oldest answer, whatever the client is waiting for.
Received(c, mtype) == /\ cpc[c] \in {"registering", "waiting"}
                      /\ clientQueue[c] # <<>>
                      /\ Head(clientQueue[c]).mtype = mtype

Taken(c) == clientQueue' = [clientQueue EXCEPT ![c] = Tail(@)]

ReceiveAccept(c) == /\ Received(c, "ServerAccept")
                    /\ Taken(c)
                    /\ clientID' = [clientID EXCEPT ![c] = Head(clientQueue[c]).clientID]
                    /\ cpc' = [cpc EXCEPT ![c] = "menu"]
                    /\ UNCHANGED <<serverQueue, serverVars, asked>>

ReceiveDenies(c) == /\ Received(c, "ServerDenies")
                    /\ Leave(c)
                    /\ UNCHANGED <<serverQueue, serverVars, clientID, asked>>

ReceiveResponse(c) == /\ Received(c, "ServerResponse")
                      /\ Taken(c)
                      /\ cpc' = [cpc EXCEPT ![c] = "menu"]
                      /\ UNCHANGED <<serverQueue, serverVars, clientID, asked>>

\* SIGINT, once the handler is installed.
Interrupt(c) == /\ cpc[c] \notin {"off", "ended"}
                /\ Leave(c)
                /\ UNCHANGED <<serverQueue, serverVars, clientID, asked>>

ClientNext(c) == \/ Register(c) \/ Ask(c) \/ Term(c)
                 \/ ReceiveAccept(c) \/ ReceiveDenies(c) \/ ReceiveResponse(c)

-----------------------------------------------------------------------------
(* The server. *)

Receive == /\ server = "ready"
           /\ serverQueue # <<>>
           /\ msg' = Head(serverQueue)
           /\ serverQueue' = Tail(serverQueue)
           /\ server' = "serving"
           /\ UNCHANGED <<clientQueue, clientsCounter, clientsQueueIDS,
                          cpc, clientID, asked>>

Serving(mtypes) == /\ server = "serving"
                   /\ msg.mtype \in mtypes
                   /\ server' = "ready"
                   /\ msg' = <<>>
                   /\ UNCHANGED <<serverQueue, cpc, clientID, asked>>

\* msgsnd to the queue of c, which may have gone.
AnswerTo(c, mtype, id) ==
    clientQueue' =
        IF cpc[c] = "ended" THEN clientQueue
        ELSE [clientQueue EXCEPT ![c] =
                 Append(@, [mtype |-> mtype, client |-> msg.client,
                            clientID |-> id, service |-> msg.mtype])]

\* Mutant: the counter stays, and the next client gets the same identifier.
AcceptUncounted ==
    /\ Serving({"ClientRequest"})
    /\ clientsCounter < MAX_CLIENTS
    /\ clientsQueueIDS' = [clientsQueueIDS EXCEPT ![clientsCounter] = msg.client]
    /\ AnswerTo(msg.client, "ServerAccept", clientsCounter)
    /\ UNCHANGED clientsCounter

Accept ==
    /\ Serving({"ClientRequest"})
    /\ clientsCounter < MAX_CLIENTS
    /\ clientsQueueIDS' = [clientsQueueIDS EXCEPT ![clientsCounter] = msg.client]
    /\ AnswerTo(msg.client, "ServerAccept", clientsCounter)
    /\ clientsCounter' = clientsCounter + 1

\* Mutant: a client too many is not told.
DenySilently == /\ Serving({"ClientRequest"})
                /\ clientsCounter >= MAX_CLIENTS
                /\ UNCHANGED <<clientQueue, clientsCounter, clientsQueueIDS>>

Deny == /\ Serving({"ClientRequest"})
        /\ clientsCounter >= MAX_CLIENTS
        /\ AnswerTo(msg.client, "ServerDenies", msg.clientID)
        /\ UNCHANGED <<clientsCounter, clientsQueueIDS>>

\* Mutant: a case without its break, and the next case answers too.
RespondTwice ==
    /\ Serving(Service)
    /\ LET c == clientsQueueIDS[msg.clientID]
           answer == [mtype |-> "ServerResponse", client |-> msg.client,
                      clientID |-> msg.clientID, service |-> msg.mtype]
       IN clientQueue' = IF cpc[c] = "ended" THEN clientQueue
                         ELSE [clientQueue EXCEPT ![c] = @ \o <<answer, answer>>]
    /\ UNCHANGED <<clientsCounter, clientsQueueIDS>>

\* ServiceEcho, ServiceUpper and ServiceTime: the answer goes to the queue the
\* identifier stands for.
Respond == /\ Serving(Service)
           /\ AnswerTo(clientsQueueIDS[msg.clientID], "ServerResponse", msg.clientID)
           /\ UNCHANGED <<clientsCounter, clientsQueueIDS>>

\* exit removes the queue with every order in it.
Stop == /\ server' = "ended"
        /\ msg' = <<>>
        /\ serverQueue' = <<>>
        /\ UNCHANGED <<clientQueue, clientsCounter, clientsQueueIDS,
                       cpc, clientID, asked>>

Terminate == /\ server = "serving"
             /\ msg.mtype = "ServiceTerm"
             /\ Stop

ServerInterrupt == /\ server # "ended"
                   /\ Stop

ServerNext == Receive \/ Accept \/ Deny \/ Respond \/ Terminate

-----------------------------------------------------------------------------
\* A client that waits for an answer of a server that has ended waits for ever.
Stuck == /\ server = "ended"
         /\ \A c \in Clients : \/ cpc[c] = "ended"
                              \/ /\ cpc[c] \in {"registering", "waiting"}
                                 /\ clientQueue[c] = <<>>
         /\ UNCHANGED queuesVars

QueuesNext == \/ ServerNext
              \/ ServerInterrupt
              \/ \E c \in Clients : Start(c) \/ ClientNext(c) \/ Interrupt(c)
              \/ Stuck

QueuesSpec == QueuesInit /\ [][QueuesNext]_queuesVars

\* The server goes on serving; clients come, ask and are interrupted as their
\* users please, but one whose answer has arrived takes it.
QueuesFairness == /\ WF_queuesVars(ServerNext)
                  /\ \A c \in Clients :
                        WF_queuesVars(ReceiveAccept(c) \/ ReceiveDenies(c)
                                      \/ ReceiveResponse(c))

-----------------------------------------------------------------------------
QueuesTypeOK == /\ serverQueue \in Seq(Order)
                /\ clientQueue \in [Clients -> Seq(Answer)]
                /\ server \in {"ready", "serving", "ended"}
                /\ IF server = "serving" THEN msg \in Order ELSE msg = <<>>
                /\ clientsCounter \in 0 .. MAX_CLIENTS
                /\ clientsQueueIDS \in [Ids -> Clients \cup {NoClient}]
                /\ cpc \in [Clients -> ClientLabels]
                /\ clientID \in [Clients -> Ids]
                /\ asked \in [Clients -> Orders]

Waiting(c) == cpc[c] \in {"registering", "waiting"}

\* The orders of c that wait or are served, and the answers to it.
InQueue(c) == {i \in 1 .. Len(serverQueue) : serverQueue[i].client = c}
InService(c) == server = "serving" /\ msg.client = c
Answered(c) == clientQueue[c] # <<>>

\* A client that waits has exactly one thing under way as long as the server
\* lives: its order in the queue, its order in service, or its answer.  A client
\* that does not wait has none (client.c:66-72, 82-108; server.c:40-84).
OneOrderEach ==
    \A c \in Clients :
        /\ Len(clientQueue[c]) <= 1
        /\ Waiting(c) /\ server # "ended" =>
              \/ Cardinality(InQueue(c)) = 1 /\ ~InService(c) /\ ~Answered(c)
              \/ InQueue(c) = {} /\ InService(c) /\ ~Answered(c)
              \/ InQueue(c) = {} /\ ~InService(c) /\ Answered(c)
        /\ cpc[c] \in {"off", "register", "menu"} =>
              InQueue(c) = {} /\ ~InService(c) /\ ~Answered(c)

\* Types, and one order or answer under way for each client that waits.
OrdersOK == QueuesTypeOK /\ OneOrderEach

\* An answer is in the queue of the client that asked, and answers what it
\* asked: the identifier a client puts into its orders leads the server back to
\* its queue (server.c:47-52, 63, 70, 77).
AnswersReachTheAsker ==
    /\ \A c \in Clients : Answered(c) =>
          LET answer == Head(clientQueue[c])
          IN /\ answer.client = c
             /\ answer.service = asked[c]
             /\ answer.mtype = "ServerResponse" <=> cpc[c] = "waiting"
    /\ \A c \in Clients : cpc[c] \in {"menu", "waiting"} =>
          /\ clientID[c] < clientsCounter
          /\ clientsQueueIDS[clientID[c]] = c

\* Every client that waits is answered, unless the server is stopped or the
\* client itself interrupted (server.c:93-94).
EveryOrderAnswered ==
    \A c \in Clients : Waiting(c) ~> ~Waiting(c) \/ server = "ended"
=============================================================================
