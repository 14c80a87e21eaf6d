----------------------------- MODULE PosixQueues -----------------------------
(***************************************************************************)
(* The server and the clients of cw06/zad2 (POSIX message queues).  The     *)
(* program of MessageQueues with three differences that matter: the server  *)
(* keeps a descriptor for the queue of each client; a client that exits, by *)
(* order or by SIGINT, sends ClientLogout first; and a queue lives as long  *)
(* as somebody has it open, so that a client can send to a server that has  *)
(* ended, until the queue is full.                                          *)
(*                                                                          *)
(* mq_open hands out the lowest free descriptor and mq_close is close, of   *)
(* whatever the descriptor stands for.                                      *)
(***************************************************************************)
EXTENDS Integers, Sequences, FiniteSets

CONSTANTS Client, MAX_CLIENTS, MAX_QUEUESIZE,
          Terminal,      \* what the descriptors 0, 1 and 2 stand for,
          ServerQueue,   \* the server's own queue,
          Closed         \* and a descriptor that is not open

VARIABLES serverQueue,      \* the orders the server has not received
          clientQueue,      \* for each client the answers it has not received
          server,           \* "ready", "serving", "deaf" or "ended"
          msg,              \* the order the server serves
          files,            \* what each descriptor of the server stands for
          clientsCounter,
          clientsQueueIDS,  \* the descriptor of each identifier, 0 at first
          cpc,              \* where each client is
          clientID          \* the identifier of each client, 0 at first

vars == <<serverQueue, clientQueue, server, msg, files, clientsCounter,
          clientsQueueIDS, cpc, clientID>>
serverVars == <<server, msg, files, clientsCounter, clientsQueueIDS>>

Ids == 0 .. MAX_CLIENTS - 1
Fds == 0 .. MAX_CLIENTS + 4

Init == /\ serverQueue = <<>>
        /\ clientQueue = [c \in Client |-> <<>>]
        /\ server = "ready"
        /\ msg = <<>>
        /\ files = [fd \in Fds |-> IF fd <= 2 THEN Terminal
                                   ELSE IF fd = 3 THEN ServerQueue ELSE Closed]
        /\ clientsCounter = 0
        /\ clientsQueueIDS = [i \in Ids |-> 0]
        /\ cpc = [c \in Client |-> "off"]
        /\ clientID = [c \in Client |-> 0]

-----------------------------------------------------------------------------
(* The client. *)

Goto(c, from, to) == /\ cpc[c] = from
                     /\ cpc' = [cpc EXCEPT ![c] = to]

\* mq_open: the name of the server's queue is gone when the server has ended.
Start(c) == /\ Goto(c, "off", IF server = "ended" THEN "ended" ELSE "register")
            /\ UNCHANGED <<serverQueue, clientQueue, serverVars, clientID>>

\* mq_send, which waits while the queue is full.
Send(c, mtype) ==
    /\ Len(serverQueue) < MAX_QUEUESIZE
    /\ serverQueue' = Append(serverQueue, [mtype |-> mtype, client |-> c,
                                           clientID |-> clientID[c]])
    /\ UNCHANGED <<clientQueue, serverVars, clientID>>

Register(c) == /\ Goto(c, "register", "registering")
               /\ Send(c, "ClientRequest")

Ask(c) == /\ Goto(c, "menu", "waiting")
          /\ Send(c, "Service")

Term(c) == /\ Goto(c, "menu", "logout")
           /\ Send(c, "ServiceTerm")

\* exitHandler
Logout(c) == /\ Goto(c, "logout", "unlink")
             /\ Send(c, "ClientLogout")

Unlink(c) == /\ Goto(c, "unlink", "ended")
             /\ clientQueue' = [clientQueue EXCEPT ![c] = <<>>]
             /\ UNCHANGED <<serverQueue, serverVars, clientID>>

\* msg_rcv
Receive(c, mtype) == /\ cpc[c] \in {"registering", "waiting"}
                     /\ clientQueue[c] # <<>>
                     /\ Head(clientQueue[c]).mtype = mtype
                     /\ clientQueue' = [clientQueue EXCEPT ![c] = Tail(@)]
                     /\ UNCHANGED <<serverQueue, serverVars>>

ReceiveAccept(c) ==
    /\ Receive(c, "ServerAccept")
    /\ clientID' = [clientID EXCEPT ![c] = Head(clientQueue[c]).clientID]
    /\ cpc' = [cpc EXCEPT ![c] = "menu"]

ReceiveDenies(c) == /\ Receive(c, "ServerDenies")
                    /\ cpc' = [cpc EXCEPT ![c] = "logout"]
                    /\ UNCHANGED clientID

ReceiveResponse(c) == /\ Receive(c, "ServerResponse")
                      /\ cpc' = [cpc EXCEPT ![c] = "menu"]
                      /\ UNCHANGED clientID

\* SIGINT: exit, and with it exitHandler.
Interrupt(c) == /\ cpc[c] \in {"register", "registering", "menu", "waiting"}
                /\ cpc' = [cpc EXCEPT ![c] = "logout"]
                /\ UNCHANGED <<serverQueue, clientQueue, serverVars, clientID>>

ClientNext(c) == \/ Start(c) \/ Register(c) \/ Ask(c) \/ Term(c)
                 \/ ReceiveAccept(c) \/ ReceiveDenies(c) \/ ReceiveResponse(c)
                 \/ Interrupt(c) \/ Logout(c) \/ Unlink(c)

-----------------------------------------------------------------------------
(* The server. *)

ReceiveOrder == /\ server = "ready"
                /\ serverQueue # <<>>
                /\ msg' = Head(serverQueue)
                /\ serverQueue' = Tail(serverQueue)
                /\ server' = "serving"
                /\ UNCHANGED <<clientQueue, files, clientsCounter,
                               clientsQueueIDS, cpc, clientID>>

Serving(mtype) == /\ server = "serving"
                  /\ msg.mtype = mtype
                  /\ msg' = <<>>
                  /\ UNCHANGED <<serverQueue, cpc, clientID>>

\* The queues the clients have not unlinked.
Named == {c \in Client : cpc[c] \notin {"off", "ended"}}

LowestFree == CHOOSE fd \in Fds : /\ files[fd] = Closed
                                  /\ \A other \in 0 .. fd - 1 : files[other] # Closed

\* mq_send to what a descriptor stands for; its result is not looked at.
SendTo(file, mtype, id) ==
    clientQueue' = IF file \in Named
                   THEN [clientQueue EXCEPT ![file] =
                            Append(@, [mtype |-> mtype, client |-> msg.client,
                                       clientID |-> id])]
                   ELSE clientQueue

\* The queue of a client that has exited cannot be opened: its entry is -1.
Accept ==
    /\ Serving("ClientRequest")
    /\ clientsCounter < MAX_CLIENTS
    /\ IF msg.client \in Named
       THEN /\ clientsQueueIDS' = [clientsQueueIDS EXCEPT ![clientsCounter] = LowestFree]
            /\ files' = [files EXCEPT ![LowestFree] = msg.client]
       ELSE /\ clientsQueueIDS' = [clientsQueueIDS EXCEPT ![clientsCounter] = -1]
            /\ UNCHANGED files
    /\ SendTo(msg.client, "ServerAccept", clientsCounter)
    /\ clientsCounter' = clientsCounter + 1
    /\ server' = "ready"

Deny == /\ Serving("ClientRequest")
        /\ clientsCounter >= MAX_CLIENTS
        /\ SendTo(msg.client, "ServerDenies", msg.clientID)
        /\ server' = "ready"
        /\ UNCHANGED <<files, clientsCounter, clientsQueueIDS>>

\* ServiceEcho, ServiceUpper, ServiceTime.
Respond == /\ Serving("Service")
           /\ LET fd == clientsQueueIDS[msg.clientID]
              IN SendTo(IF fd = -1 THEN Closed ELSE files[fd],
                        "ServerResponse", msg.clientID)
           /\ server' = "ready"
           /\ UNCHANGED <<files, clientsCounter, clientsQueueIDS>>

\* mq_close of the entry after the last one in use.  With the table full that is
\* a read past its end, which may find any number; a server that has closed its
\* own queue receives nothing any more.
CloseAfterLast ==
    /\ Serving("ClientLogout")
    /\ \E fd \in IF clientsCounter < MAX_CLIENTS
                 THEN {clientsQueueIDS[clientsCounter]} ELSE Fds \cup {-1} :
          /\ files' = IF fd = -1 THEN files ELSE [files EXCEPT ![fd] = Closed]
          /\ server' = IF fd = 3 THEN "deaf" ELSE "ready"
    /\ UNCHANGED <<clientQueue, clientsCounter, clientsQueueIDS>>

\* exit: every descriptor is closed and the name of the queue unlinked.
Stop == /\ server' = "ended"
        /\ msg' = <<>>
        /\ files' = [fd \in Fds |-> Closed]
        /\ UNCHANGED <<serverQueue, clientQueue, clientsCounter,
                       clientsQueueIDS, cpc, clientID>>

Terminate == /\ server = "serving"
             /\ msg.mtype = "ServiceTerm"
             /\ Stop

ServerInterrupt == /\ server # "ended"
                   /\ Stop

ServerNext == \/ ReceiveOrder \/ Accept \/ Deny \/ Respond \/ CloseAfterLast
              \/ Terminate \/ ServerInterrupt

Next == ServerNext \/ \E c \in Client : ClientNext(c)

Spec == Init /\ [][Next]_vars

-----------------------------------------------------------------------------
\* A client that has been accepted and has not logged out can be answered: the
\* descriptor that stands for its identifier is open on its queue.  The exercise
\* (cw06/Zadanie6:32) has the server close the queue of the client that logs
\* out; the code closes the entry after the last one (server.c:107).
LoggedInStaysConnected ==
    \A c \in Client :
        /\ cpc[c] \in {"menu", "waiting"}
        /\ server \in {"ready", "serving"}
        => /\ clientsQueueIDS[clientID[c]] # -1
           /\ files[clientsQueueIDS[clientID[c]]] = c
=============================================================================
