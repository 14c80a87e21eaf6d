------------------------ MODULE MessageQueuesProofs ------------------------
(***************************************************************************)
(* Theorems about the server and the clients of cw06/zad1, and their        *)
(* proofs, for all sets of clients and sizes of the table.  The invariant   *)
(* says of every order, in the queue or in service, what the client that    *)
(* sent it is waiting for, and that the client has no other one under way.  *)
(* It holds for orders of clients that have ended, too: their identifier    *)
(* still stands for them and for nobody else, so that their answers reach   *)
(* no other client.                                                         *)
(***************************************************************************)
EXTENDS MessageQueues, FiniteSetTheorems, TLAPS

\* An order carries the identifier of its sender, and a sender that has not ended
\* waits for the answer to it and has none yet.
OrderFits(order) ==
    /\ order.mtype \in Service => /\ order.clientID < clientsCounter
                                  /\ clientsQueueIDS[order.clientID] = order.client
    /\ cpc[order.client] # "ended" =>
          /\ asked[order.client] = order.mtype
          /\ \/ cpc[order.client] = "registering" /\ order.mtype = "ClientRequest"
             \/ cpc[order.client] = "waiting" /\ order.mtype \in Service
          /\ clientQueue[order.client] = <<>>

\* The orders fit, no client has two of them, and a client that waits has one as
\* long as it is not answered.
OrdersInv ==
    /\ \A i \in 1 .. Len(serverQueue) : OrderFits(serverQueue[i])
    /\ server = "serving" => OrderFits(msg)
    /\ \A i, j \in 1 .. Len(serverQueue) :
          serverQueue[i].client = serverQueue[j].client => i = j
    /\ server = "serving" =>
          \A i \in 1 .. Len(serverQueue) : serverQueue[i].client # msg.client
    /\ server = "ended" => serverQueue = <<>>
    /\ \A c \in Clients : Waiting(c) /\ server # "ended" /\ ~Answered(c) =>
          InService(c) \/ \E i \in 1 .. Len(serverQueue) : serverQueue[i].client = c

\* An answer fits the client in whose queue it is.
AnswerFits(c, answer) ==
    /\ answer.client = c
    /\ answer.service = asked[c]
    /\ answer.mtype = "ServerResponse" <=> cpc[c] = "waiting"
    /\ answer.mtype = "ServerAccept" => /\ answer.clientID < clientsCounter
                                        /\ clientsQueueIDS[answer.clientID] = c

\* One answer at most, for a client that waits; who is registered has an identifier
\* of its own.
AnswersInv ==
    \A c \in Clients :
        /\ Answered(c) => /\ Len(clientQueue[c]) = 1
                          /\ Waiting(c)
                          /\ AnswerFits(c, Head(clientQueue[c]))
        /\ cpc[c] \in {"menu", "waiting"} => /\ clientID[c] < clientsCounter
                                             /\ clientsQueueIDS[clientID[c]] = c

Inv == QueuesTypeOK /\ OrdersInv /\ AnswersInv

-----------------------------------------------------------------------------
(* Types. *)

\* What is ordered and answered is neither a request nor an end.
LEMMA ServicesAreNoOthers ==
    /\ \A s \in Service : s # "ClientRequest" /\ s # "ServiceTerm"
    /\ \A s \in Orders : s = "ClientRequest" \/ s = "ServiceTerm" \/ s \in Service
    /\ Service \subseteq Orders /\ "ClientRequest" \in Orders /\ "ServiceTerm" \in Orders
    /\ NoClient \notin Clients
    /\ MAX_CLIENTS \in Nat \ {0}
    /\ 0 \in Ids
  BY QueuesAssumption DEF Orders, Ids

\* The orders that wait and the one in service are orders.
LEMMA OrdersTyped ==
    ASSUME QueuesTypeOK
    PROVE  /\ \A i \in 1 .. Len(serverQueue) :
                 /\ serverQueue[i] \in Order
                 /\ serverQueue[i].mtype \in Orders
                 /\ serverQueue[i].client \in Clients
                 /\ serverQueue[i].clientID \in Ids
           /\ server = "serving" => /\ msg \in Order
                                    /\ msg.mtype \in Orders
                                    /\ msg.client \in Clients
                                    /\ msg.clientID \in Ids
           /\ Len(serverQueue) \in Nat
  <1>1. serverQueue \in Seq(Order)
    BY DEF QueuesTypeOK
  <1>2. /\ Len(serverQueue) \in Nat
        /\ \A i \in 1 .. Len(serverQueue) : serverQueue[i] \in Order
    BY <1>1
  <1>3. \A order \in Order : /\ order.mtype \in Orders
                             /\ order.client \in Clients
                             /\ order.clientID \in Ids
    BY DEF Order
  <1>4. server = "serving" => msg \in Order
    BY DEF QueuesTypeOK
  <1> QED
    BY <1>2, <1>3, <1>4

\* The queue of answers of a client.
LEMMA AnswersTyped ==
    ASSUME QueuesTypeOK, NEW c \in Clients
    PROVE  /\ clientQueue[c] \in Seq(Answer)
           /\ Len(clientQueue[c]) \in Nat
           /\ clientQueue[c] # <<>> => /\ Head(clientQueue[c]) \in Answer
                                       /\ Head(clientQueue[c]).clientID \in Ids
                                       /\ Tail(clientQueue[c]) \in Seq(Answer)
                                       /\ Len(Tail(clientQueue[c])) = Len(clientQueue[c]) - 1
  <1>1. clientQueue[c] \in Seq(Answer)
    BY DEF QueuesTypeOK
  <1>2. clientQueue[c] # <<>> => /\ Head(clientQueue[c]) \in Answer
                                /\ Tail(clientQueue[c]) \in Seq(Answer)
                                /\ Len(Tail(clientQueue[c])) = Len(clientQueue[c]) - 1
    BY <1>1
  <1>3. \A answer \in Answer : answer.clientID \in Ids
    BY DEF Answer
  <1> QED
    BY <1>1, <1>2, <1>3

\* The invariant holds initially.
LEMMA InvInit == QueuesInit => Inv
  <1> SUFFICES ASSUME QueuesInit PROVE Inv
    OBVIOUS
  <1>1. QueuesTypeOK
    BY ServicesAreNoOthers DEF QueuesInit, QueuesTypeOK, ClientLabels
  <1>2. OrdersInv
    BY DEF QueuesInit, OrdersInv, OrderFits, Waiting, Answered, InService
  <1>3. AnswersInv
    BY DEF QueuesInit, AnswersInv, Answered
  <1> QED
    BY <1>1, <1>2, <1>3 DEF Inv

-----------------------------------------------------------------------------
(* The client. *)

LEMMA StartKeeps ==
    ASSUME Inv, NEW c \in Clients, Start(c)
    PROVE  Inv'
  <1> USE DEF Inv
  <1>1. QueuesTypeOK'
    BY DEF QueuesTypeOK, Start, serverVars, ClientLabels
  <1>2. \A d \in Clients : d # c => cpc'[d] = cpc[d]
    BY DEF QueuesTypeOK, Start
  <1>3. cpc[c] = "off" /\ cpc'[c] \in {"ended", "register"}
    BY DEF QueuesTypeOK, Start
  <1>4. /\ \A i \in 1 .. Len(serverQueue) : serverQueue[i].client # c
                                          /\ OrderFits(serverQueue[i])'
        /\ server = "serving" => msg.client # c /\ OrderFits(msg)'
    BY <1>2, <1>3, OrdersTyped DEF OrdersInv, OrderFits, Start, serverVars
  <1>5. OrdersInv'
    BY <1>2, <1>3, <1>4 DEF OrdersInv, Waiting, Answered, InService, Start, serverVars
  <1>6. AnswersInv'
    BY <1>2, <1>3 DEF AnswersInv, Answered, Waiting, AnswerFits, Start, serverVars
  <1> QED
    BY <1>1, <1>5, <1>6

\* A client that ends disturbs no other, whatever it asked last.
LEMMA LeaveKeeps ==
    ASSUME Inv, NEW c \in Clients, Leave(c),
           UNCHANGED <<serverQueue, serverVars, clientID>>,
           asked' \in [Clients -> Orders],
           \A d \in Clients : d # c => asked'[d] = asked[d]
    PROVE  Inv'
  <1> USE DEF Inv
  <1>0. <<>> \in Seq(Answer)
    OBVIOUS
  <1>1. QueuesTypeOK'
    BY <1>0 DEF QueuesTypeOK, Leave, serverVars, ClientLabels
  <1>2. /\ \A d \in Clients : d # c => /\ cpc'[d] = cpc[d]
                                     /\ clientQueue'[d] = clientQueue[d]
        /\ cpc'[c] = "ended"
        /\ clientQueue'[c] = <<>>
    BY DEF QueuesTypeOK, Leave
  <1>3. /\ \A i \in 1 .. Len(serverQueue) : OrderFits(serverQueue[i])'
        /\ server = "serving" => OrderFits(msg)'
    BY <1>2, OrdersTyped DEF OrdersInv, OrderFits, serverVars
  <1>4. OrdersInv'
    BY <1>2, <1>3 DEF OrdersInv, Waiting, Answered, InService, serverVars
  <1>5. AnswersInv'
    BY <1>2 DEF AnswersInv, Answered, Waiting, AnswerFits, serverVars
  <1> QED
    BY <1>1, <1>4, <1>5

\* A client that sends has nothing under way.
LEMMA SendKeeps ==
    ASSUME Inv, NEW c \in Clients, NEW mtype \in Orders, NEW next \in ClientLabels,
           cpc[c] \in {"register", "menu"},
           \/ mtype = "ClientRequest" /\ next = "registering"
           \/ mtype \in Service /\ cpc[c] = "menu" /\ next = "waiting"
           \/ mtype = "ServiceTerm" /\ cpc[c] = "menu" /\ next = "ended",
           Send(c, mtype, next)
    PROVE  Inv'
  <1> USE DEF Inv
  <1>1. /\ asked' \in [Clients -> Orders]
        /\ \A d \in Clients : d # c => asked'[d] = asked[d]
        /\ asked'[c] = mtype
        /\ UNCHANGED <<serverVars, clientID>>
    BY DEF Send, QueuesTypeOK
  <1>2. CASE server = "ended"
    BY <1>1, <1>2, LeaveKeeps DEF Send
  <1>3. CASE server # "ended"
    <2>0. PICK order \in Order :
             order = [mtype |-> mtype, client |-> c, clientID |-> clientID[c]]
      BY DEF QueuesTypeOK, Order
    <2>1. order.mtype = mtype /\ order.client = c /\ order.clientID = clientID[c]
      BY <2>0
    <2>2. /\ serverQueue' = Append(serverQueue, order)
          /\ cpc' = [cpc EXCEPT ![c] = next]
          /\ clientQueue' = clientQueue
      BY <1>3, <2>0 DEF Send
    <2>3. /\ serverQueue' \in Seq(Order)
          /\ Len(serverQueue') = Len(serverQueue) + 1
          /\ \A i \in 1 .. Len(serverQueue) : serverQueue'[i] = serverQueue[i]
          /\ serverQueue'[Len(serverQueue) + 1] = order
      <3>1. serverQueue \in Seq(Order)
        BY DEF QueuesTypeOK
      <3> QED
        BY <2>1, <2>2, <3>1
    <2>4. QueuesTypeOK'
      BY <1>1, <2>2, <2>3 DEF QueuesTypeOK, serverVars
    <2>5. /\ \A d \in Clients : d # c => cpc'[d] = cpc[d]
          /\ cpc'[c] = next
      BY <2>2 DEF QueuesTypeOK
    <2>6. /\ \A i \in 1 .. Len(serverQueue) : serverQueue[i].client # c
          /\ server = "serving" => msg.client # c
          /\ clientQueue[c] = <<>>
      BY ServicesAreNoOthers, OrdersTyped
         DEF OrdersInv, OrderFits, AnswersInv, Waiting, Answered
    <2>7. /\ \A i \in 1 .. Len(serverQueue) : OrderFits(serverQueue[i])'
          /\ server = "serving" => OrderFits(msg)'
      BY <1>1, <2>2, <2>5, <2>6, OrdersTyped DEF OrdersInv, OrderFits, serverVars
    <2>8. OrderFits(order)'
      BY <1>1, <2>1, <2>2, <2>5, <2>6, ServicesAreNoOthers
         DEF AnswersInv, OrderFits, serverVars
    <2>9. OrdersInv'
      <3>1. Len(serverQueue) \in Nat
        BY OrdersTyped
      <3>2. \A i \in 1 .. Len(serverQueue)' :
              \/ i \in 1 .. Len(serverQueue) /\ serverQueue'[i] = serverQueue[i]
              \/ i = Len(serverQueue) + 1 /\ serverQueue'[i] = order
        BY <2>3, <3>1
      <3>3. (\A i \in 1 .. Len(serverQueue) : OrderFits(serverQueue[i]))'
        BY <2>3, <2>7, <2>8, <3>1 DEF OrderFits
      <3>4. \A i, j \in 1 .. Len(serverQueue') :
               serverQueue'[i].client = serverQueue'[j].client => i = j
        BY <2>1, <2>3, <2>6, <3>1 DEF OrdersInv
      <3>5. /\ server' = server /\ msg' = msg
            /\ server = "serving" =>
                  \A i \in 1 .. Len(serverQueue') : serverQueue'[i].client # msg.client
        BY <1>1, <2>1, <2>3, <2>6, <3>1 DEF OrdersInv, serverVars
      <3>6. \A d \in Clients :
               Waiting(d)' /\ ~Answered(d)' =>
                  \/ InService(d)'
                  \/ \E i \in 1 .. Len(serverQueue') : serverQueue'[i].client = d
        <4> SUFFICES ASSUME NEW d \in Clients, Waiting(d)', ~Answered(d)'
                     PROVE  \/ InService(d)'
                            \/ \E i \in 1 .. Len(serverQueue') :
                                  serverQueue'[i].client = d
          OBVIOUS
        <4>1. CASE d = c
          <5>1. Len(serverQueue) + 1 \in 1 .. Len(serverQueue')
            BY <2>3, <3>1
          <5> QED
            BY <2>1, <2>3, <4>1, <5>1
        <4>2. CASE d # c
          <5>1. Waiting(d) /\ ~Answered(d)
            BY <2>2, <2>5, <4>2 DEF Waiting, Answered
          <5>2. InService(d) \/ \E i \in 1 .. Len(serverQueue) : serverQueue[i].client = d
            BY <1>3, <5>1 DEF OrdersInv
          <5> QED
            BY <2>3, <3>1, <3>5, <5>2 DEF InService
        <4> QED
          BY <4>1, <4>2
      <3> QED
        BY <1>3, <2>7, <3>3, <3>4, <3>5, <3>6 DEF OrdersInv
    <2>10. AnswersInv'
      BY <1>1, <2>2, <2>5, <2>6, ServicesAreNoOthers
         DEF AnswersInv, Answered, Waiting, AnswerFits, serverVars
    <2> QED
      BY <2>4, <2>9, <2>10
  <1> QED
    BY <1>2, <1>3

\* A client that takes its answer goes back to the menu, with an identifier of its
\* own; its queue is empty then.
LEMMA TakenKeeps ==
    ASSUME Inv, NEW c \in Clients, ReceiveAccept(c) \/ ReceiveResponse(c)
    PROVE  Inv'
  <1> USE DEF Inv
  <1>1. /\ cpc[c] \in {"registering", "waiting"}
        /\ clientQueue[c] # <<>>
        /\ Taken(c)
        /\ cpc' = [cpc EXCEPT ![c] = "menu"]
        /\ UNCHANGED <<serverQueue, serverVars, asked>>
        /\ \/ /\ Head(clientQueue[c]).mtype = "ServerAccept"
              /\ clientID' = [clientID EXCEPT ![c] = Head(clientQueue[c]).clientID]
           \/ /\ Head(clientQueue[c]).mtype = "ServerResponse"
              /\ clientID' = clientID
    BY DEF ReceiveAccept, ReceiveResponse, Received
  <1>2. /\ Head(clientQueue[c]).clientID \in Ids
        /\ Tail(clientQueue[c]) \in Seq(Answer)
        /\ Tail(clientQueue[c]) = <<>>
    <2>1. Len(clientQueue[c]) = 1
      BY <1>1 DEF AnswersInv, Answered
    <2>2. Tail(clientQueue[c]) \in Seq(Answer) /\ Len(Tail(clientQueue[c])) = 0
      BY <1>1, <2>1, AnswersTyped
    <2>3. \A s \in Seq(Answer) : Len(s) = 0 => s = <<>>
      OBVIOUS
    <2>4. Head(clientQueue[c]).clientID \in Ids
      BY <1>1, AnswersTyped
    <2> QED
      BY <2>2, <2>3, <2>4
  <1>3. /\ \A d \in Clients : d # c => /\ cpc'[d] = cpc[d]
                                     /\ clientQueue'[d] = clientQueue[d]
                                     /\ clientID'[d] = clientID[d]
        /\ cpc'[c] = "menu"
        /\ clientQueue'[c] = <<>>
    BY <1>1, <1>2 DEF QueuesTypeOK, Taken
  <1>4. QueuesTypeOK'
    <2>1. clientQueue' \in [Clients -> Seq(Answer)]
      BY <1>1, <1>2 DEF QueuesTypeOK, Taken
    <2>2. clientID' \in [Clients -> Ids]
      BY <1>1, <1>2 DEF QueuesTypeOK
    <2> QED
      BY <1>1, <2>1, <2>2 DEF QueuesTypeOK, serverVars, ClientLabels
  <1>5. /\ \A i \in 1 .. Len(serverQueue) : serverQueue[i].client # c
        /\ server = "serving" => msg.client # c
    BY <1>1, OrdersTyped DEF OrdersInv, OrderFits
  <1>6. /\ \A i \in 1 .. Len(serverQueue) : OrderFits(serverQueue[i])'
        /\ server = "serving" => OrderFits(msg)'
    BY <1>1, <1>3, <1>5, OrdersTyped DEF OrdersInv, OrderFits, serverVars
  <1>7. OrdersInv'
    BY <1>1, <1>3, <1>6 DEF OrdersInv, Waiting, Answered, InService, serverVars
  <1>8. clientID'[c] < clientsCounter /\ clientsQueueIDS[clientID'[c]] = c
    BY <1>1 DEF AnswersInv, Answered, Waiting, AnswerFits, QueuesTypeOK
  <1>9. AnswersInv'
    BY <1>1, <1>3, <1>8 DEF AnswersInv, Answered, Waiting, AnswerFits, serverVars
  <1> QED
    BY <1>4, <1>7, <1>9

\* Every step of a client.
LEMMA ClientKeeps ==
    ASSUME Inv, NEW c \in Clients, Start(c) \/ ClientNext(c) \/ Interrupt(c)
    PROVE  Inv'
  <1>1. CASE Start(c)
    BY <1>1, StartKeeps
  <1>2. CASE Register(c)
    BY <1>2, SendKeeps, ServicesAreNoOthers DEF Register, ClientLabels
  <1>3. CASE Ask(c)
    BY <1>3, SendKeeps, ServicesAreNoOthers DEF Ask, ClientLabels
  <1>4. CASE Term(c)
    BY <1>4, SendKeeps, ServicesAreNoOthers DEF Term, ClientLabels
  <1>5. CASE ReceiveAccept(c) \/ ReceiveResponse(c)
    BY <1>5, TakenKeeps
  <1>6. CASE ReceiveDenies(c) \/ Interrupt(c)
    <2>1. Leave(c) /\ UNCHANGED <<serverQueue, serverVars, clientID, asked>>
      BY <1>6 DEF ReceiveDenies, Interrupt
    <2>2. /\ asked' \in [Clients -> Orders]
          /\ \A d \in Clients : d # c => asked'[d] = asked[d]
      BY <2>1 DEF Inv, QueuesTypeOK
    <2> QED
      BY <2>1, <2>2, LeaveKeeps
  <1> QED
    BY <1>1, <1>2, <1>3, <1>4, <1>5, <1>6 DEF ClientNext

-----------------------------------------------------------------------------
(* The server. *)

\* The order at the head goes into service; the others move up.
LEMMA ReceiveKeeps ==
    ASSUME Inv, Receive
    PROVE  Inv'
  <1> USE DEF Inv
  <1>1. /\ server = "ready" /\ server' = "serving"
        /\ serverQueue # <<>>
        /\ UNCHANGED <<clientQueue, clientsCounter, clientsQueueIDS,
                       cpc, clientID, asked>>
    BY DEF Receive
  <1>2. /\ Len(serverQueue) \in Nat \ {0}
        /\ msg' = serverQueue[1]
        /\ msg' \in Order
        /\ serverQueue' \in Seq(Order)
        /\ Len(serverQueue') = Len(serverQueue) - 1
        /\ \A i \in 1 .. Len(serverQueue') : serverQueue'[i] = serverQueue[i + 1]
    <2>1. serverQueue \in Seq(Order) /\ serverQueue # <<>>
      BY <1>1 DEF QueuesTypeOK
    <2>2. msg' = Head(serverQueue) /\ serverQueue' = Tail(serverQueue)
      BY DEF Receive
    <2> QED
      BY <2>1, <2>2
  <1>3. QueuesTypeOK'
    BY <1>1, <1>2 DEF QueuesTypeOK
  <1>4. /\ 1 \in 1 .. Len(serverQueue)
        /\ \A i \in 1 .. Len(serverQueue') : i + 1 \in 1 .. Len(serverQueue)
        /\ \A i \in 1 .. Len(serverQueue) :
              i # 1 => /\ i - 1 \in 1 .. Len(serverQueue')
                       /\ serverQueue[i] = serverQueue'[i - 1]
    BY <1>2
  <1>5. (\A i \in 1 .. Len(serverQueue) : OrderFits(serverQueue[i]))'
    BY <1>1, <1>2, <1>4 DEF OrdersInv, OrderFits
  <1>6. OrderFits(msg)'
    BY <1>1, <1>2, <1>4 DEF OrdersInv, OrderFits
  <1>7. (\A i, j \in 1 .. Len(serverQueue) :
            serverQueue[i].client = serverQueue[j].client => i = j)'
    <2> SUFFICES ASSUME NEW i \in 1 .. Len(serverQueue'), NEW j \in 1 .. Len(serverQueue'),
                        serverQueue'[i].client = serverQueue'[j].client
                 PROVE  i = j
      OBVIOUS
    <2>1. i + 1 = j + 1
      BY <1>2, <1>4 DEF OrdersInv
    <2> QED
      BY <1>2, <2>1
  <1>8. (\A i \in 1 .. Len(serverQueue) : serverQueue[i].client # msg.client)'
    <2> SUFFICES ASSUME NEW i \in 1 .. Len(serverQueue'),
                        serverQueue'[i].client = msg'.client
                 PROVE  FALSE
      OBVIOUS
    <2>1. i + 1 = 1
      BY <1>2, <1>4 DEF OrdersInv
    <2> QED
      BY <1>2, <2>1
  <1>9. (\A c \in Clients : Waiting(c) /\ ~Answered(c) =>
            InService(c) \/ \E i \in 1 .. Len(serverQueue) : serverQueue[i].client = c)'
    <2> SUFFICES ASSUME NEW c \in Clients, Waiting(c)', ~Answered(c)'
                 PROVE  \/ msg'.client = c
                        \/ \E i \in 1 .. Len(serverQueue') : serverQueue'[i].client = c
      BY <1>1 DEF InService
    <2>1. Waiting(c) /\ ~Answered(c) /\ ~InService(c)
      BY <1>1 DEF Waiting, Answered, InService
    <2>2. PICK i \in 1 .. Len(serverQueue) : serverQueue[i].client = c
      BY <1>1, <2>1 DEF OrdersInv
    <2> QED
      BY <1>2, <1>4, <2>2
  <1>10. OrdersInv'
    BY <1>1, <1>5, <1>6, <1>7, <1>8, <1>9 DEF OrdersInv
  <1>11. AnswersInv'
    BY <1>1 DEF AnswersInv, Answered, Waiting, AnswerFits
  <1> QED
    BY <1>3, <1>10, <1>11

\* With the server goes every order.
LEMMA StopKeeps ==
    ASSUME Inv, Stop
    PROVE  Inv'
  <1> USE DEF Inv
  <1>1. /\ server' = "ended" /\ msg' = <<>> /\ serverQueue' = <<>>
        /\ UNCHANGED <<clientQueue, clientsCounter, clientsQueueIDS,
                       cpc, clientID, asked>>
    BY DEF Stop
  <1>2. QueuesTypeOK'
    BY <1>1 DEF QueuesTypeOK
  <1>3. OrdersInv'
    BY <1>1 DEF OrdersInv
  <1>4. AnswersInv'
    BY <1>1 DEF AnswersInv, Answered, Waiting, AnswerFits
  <1> QED
    BY <1>2, <1>3, <1>4

\* The step that answers the order in service: an answer to its sender, if that has
\* not ended, and no identifier given before is given again.
LEMMA AnswerKeeps ==
    ASSUME Inv, server = "serving",
           server' = "ready", msg' = <<>>,
           UNCHANGED <<serverQueue, cpc, clientID, asked>>,
           msg.mtype # "ServiceTerm",
           NEW mtype \in {"ServerAccept", "ServerDenies", "ServerResponse"},
           NEW id \in Ids,
           AnswerTo(msg.client, mtype, id),
           mtype = "ServerResponse" <=> msg.mtype \in Service,
           clientsCounter' \in 0 .. MAX_CLIENTS,
           clientsCounter' >= clientsCounter,
           clientsQueueIDS' \in [Ids -> Clients \cup {NoClient}],
           \A i \in Ids : i < clientsCounter => clientsQueueIDS'[i] = clientsQueueIDS[i],
           mtype = "ServerAccept" =>
               id < clientsCounter' /\ clientsQueueIDS'[id] = msg.client
    PROVE  Inv'
  <1> USE DEF Inv
  <1>0. PICK a \in Clients : a = msg.client
    BY OrdersTyped
  <1>1. msg.mtype \in Orders /\ msg.client = a /\ clientQueue[a] \in Seq(Answer)
    BY <1>0, OrdersTyped DEF QueuesTypeOK
  <1>2. PICK answer \in Answer :
           /\ answer = [mtype |-> mtype, client |-> a, clientID |-> id,
                        service |-> msg.mtype]
           /\ answer.mtype = mtype /\ answer.client = a
           /\ answer.clientID = id /\ answer.service = msg.mtype
    <2>1. [mtype |-> mtype, client |-> a, clientID |-> id, service |-> msg.mtype] \in Answer
      BY <1>1 DEF Answer
    <2> QED
      BY <2>1
  <1>3. clientQueue' = IF cpc[a] = "ended" THEN clientQueue
                       ELSE [clientQueue EXCEPT ![a] = Append(@, answer)]
    BY <1>1, <1>2 DEF AnswerTo
  <1>4. OrderFits(msg)
    BY DEF OrdersInv
  <1>5. \A c \in Clients : c # a => clientQueue'[c] = clientQueue[c]
    BY <1>3 DEF QueuesTypeOK
  <1>6. cpc[a] # "ended" =>
           /\ clientQueue[a] = <<>>
           /\ clientQueue'[a] = <<answer>>
           /\ asked[a] = msg.mtype
           /\ \/ cpc[a] = "registering" /\ msg.mtype = "ClientRequest"
              \/ cpc[a] = "waiting" /\ msg.mtype \in Service
    <2> SUFFICES ASSUME cpc[a] # "ended"
                 PROVE  /\ clientQueue[a] = <<>>
                        /\ clientQueue'[a] = <<answer>>
                        /\ asked[a] = msg.mtype
                        /\ \/ cpc[a] = "registering" /\ msg.mtype = "ClientRequest"
                           \/ cpc[a] = "waiting" /\ msg.mtype \in Service
      OBVIOUS
    <2>1. /\ clientQueue[a] = <<>>
          /\ asked[a] = msg.mtype
          /\ \/ cpc[a] = "registering" /\ msg.mtype = "ClientRequest"
             \/ cpc[a] = "waiting" /\ msg.mtype \in Service
      BY <1>1, <1>4 DEF OrderFits
    <2>2. clientQueue'[a] = Append(<<>>, answer)
      BY <1>3, <2>1 DEF QueuesTypeOK
    <2> QED
      BY <2>1, <2>2
  <1>7. cpc[a] = "ended" => clientQueue' = clientQueue
    BY <1>3
  <1>8. clientQueue' \in [Clients -> Seq(Answer)]
    <2>1. Append(clientQueue[a], answer) \in Seq(Answer)
      BY <1>1, <1>2
    <2> QED
      BY <1>3, <2>1 DEF QueuesTypeOK
  <1>9. QueuesTypeOK'
    BY <1>8 DEF QueuesTypeOK
  <1>10. \A i \in 1 .. Len(serverQueue) : serverQueue[i].client # a
    BY <1>1 DEF OrdersInv
  <1>11. (\A i \in 1 .. Len(serverQueue) : OrderFits(serverQueue[i]))'
    <2> SUFFICES ASSUME NEW i \in 1 .. Len(serverQueue)
                 PROVE  OrderFits(serverQueue[i])'
      OBVIOUS
    <2>1. PICK order \in Order : order = serverQueue[i]
      BY OrdersTyped
    <2>2. order.client \in Clients /\ order.client # a /\ order.clientID \in Ids
      BY <1>10, <2>1, OrdersTyped
    <2>3. OrderFits(order)
      BY <2>1 DEF OrdersInv
    <2>4. clientQueue'[order.client] = clientQueue[order.client]
      BY <1>5, <2>2
    <2>5. order.mtype \in Service => /\ order.clientID < clientsCounter'
                                   /\ clientsQueueIDS'[order.clientID] = order.client
      <3>1. order.clientID \in Int /\ clientsCounter \in Int /\ clientsCounter' \in Int
        BY <2>2, ServicesAreNoOthers DEF Ids, QueuesTypeOK
      <3> QED
        BY <2>2, <2>3, <3>1 DEF OrderFits
    <2>6. OrderFits(order)'
      BY <2>3, <2>4, <2>5 DEF OrderFits
    <2> QED
      BY <2>1, <2>6 DEF OrderFits
  <1>12. \A c \in Clients : Waiting(c) /\ clientQueue'[c] = <<>> =>
            \E i \in 1 .. Len(serverQueue) : serverQueue[i].client = c
    <2> SUFFICES ASSUME NEW c \in Clients, Waiting(c), clientQueue'[c] = <<>>
                 PROVE  \E i \in 1 .. Len(serverQueue) : serverQueue[i].client = c
      OBVIOUS
    <2>1. c # a
      <3>1. cpc[c] # "ended"
        BY DEF Waiting
      <3>2. <<answer>> # <<>>
        OBVIOUS
      <3> QED
        BY <1>6, <3>1, <3>2
    <2>2. ~Answered(c) /\ ~InService(c)
      BY <1>1, <1>5, <2>1 DEF Answered, InService
    <2> QED
      BY <2>2 DEF OrdersInv
  <1>13. OrdersInv'
    BY <1>11, <1>12 DEF OrdersInv, Waiting, Answered, InService
  <1>14. ASSUME NEW c \in Clients, NEW i \in Ids,
                i < clientsCounter /\ clientsQueueIDS[i] = c
         PROVE  i < clientsCounter' /\ clientsQueueIDS'[i] = c
    BY <1>14, ServicesAreNoOthers DEF Ids, QueuesTypeOK
  <1>15. ASSUME NEW c \in Clients, cpc[c] \in {"menu", "waiting"}
         PROVE  clientID[c] < clientsCounter' /\ clientsQueueIDS'[clientID[c]] = c
    BY <1>14, <1>15 DEF AnswersInv, QueuesTypeOK
  <1>16. ASSUME NEW c \in Clients, clientQueue'[c] # <<>>
         PROVE  /\ Len(clientQueue'[c]) = 1
                /\ Waiting(c)
                /\ AnswerFits(c, Head(clientQueue[c]))'
    <2>1. CASE c = a
      <3>1. cpc[a] # "ended"
        <4> SUFFICES ASSUME cpc[a] = "ended" PROVE FALSE
          OBVIOUS
        <4>1. Answered(a)
          BY <1>7, <1>16, <2>1 DEF Answered
        <4> QED
          BY <4>1 DEF AnswersInv, Waiting
      <3>2. clientQueue'[c] = <<answer>> /\ Head(clientQueue'[c]) = answer
        BY <1>6, <2>1, <3>1
      <3>3. msg.mtype \in Service <=> cpc[a] = "waiting"
        BY <1>6, <3>1, ServicesAreNoOthers
      <3>4. (AnswerFits(c, answer))'
        BY <1>2, <1>6, <2>1, <3>1, <3>3, <1>1 DEF AnswerFits
      <3> QED
        BY <1>6, <2>1, <3>1, <3>2, <3>4 DEF Waiting, AnswerFits
    <2>2. CASE c # a
      <3>1. clientQueue'[c] = clientQueue[c] /\ Answered(c)
        BY <1>5, <1>16, <2>2 DEF Answered
      <3>2. PICK old \in Answer : old = Head(clientQueue[c]) /\ old.clientID \in Ids
        BY <3>1, AnswersTyped DEF Answered
      <3>3. AnswerFits(c, old) /\ Len(clientQueue[c]) = 1 /\ Waiting(c)
        BY <3>1, <3>2 DEF AnswersInv
      <3>4. (AnswerFits(c, old))'
        BY <1>14, <3>2, <3>3 DEF AnswerFits
      <3> QED
        BY <3>1, <3>2, <3>3, <3>4 DEF AnswerFits
    <2> QED
      BY <2>1, <2>2
  <1>17. AnswersInv'
    BY <1>15, <1>16 DEF AnswersInv, Answered, Waiting
  <1> QED
    BY <1>9, <1>13, <1>17

\* Every step of the server.
LEMMA ServerKeeps ==
    ASSUME Inv, ServerNext \/ ServerInterrupt
    PROVE  Inv'
  <1> USE DEF Inv
  <1>1. server = "serving" => /\ msg.client \in Clients
                             /\ msg.clientID \in Ids
                             /\ msg.mtype \in Orders
                             /\ OrderFits(msg)
    BY OrdersTyped DEF OrdersInv
  <1>2. /\ clientsCounter \in 0 .. MAX_CLIENTS
        /\ clientsQueueIDS \in [Ids -> Clients \cup {NoClient}]
    BY DEF QueuesTypeOK
  <1>3. CASE Receive
    BY <1>3, ReceiveKeeps
  <1>4. CASE Accept
    <2>1. /\ server = "serving" /\ server' = "ready" /\ msg' = <<>>
          /\ UNCHANGED <<serverQueue, cpc, clientID, asked>>
          /\ msg.mtype = "ClientRequest"
          /\ clientsCounter < MAX_CLIENTS
          /\ clientsQueueIDS' = [clientsQueueIDS EXCEPT ![clientsCounter] = msg.client]
          /\ AnswerTo(msg.client, "ServerAccept", clientsCounter)
          /\ clientsCounter' = clientsCounter + 1
      BY <1>4 DEF Accept, Serving
    <2>2. clientsCounter \in Ids
      BY <1>2, <2>1, ServicesAreNoOthers DEF Ids
    <2>3. clientsCounter' \in 0 .. MAX_CLIENTS /\ clientsCounter' > clientsCounter
      BY <1>2, <2>1, ServicesAreNoOthers
    <2>4. /\ clientsQueueIDS' \in [Ids -> Clients \cup {NoClient}]
          /\ clientsQueueIDS'[clientsCounter] = msg.client
          /\ \A i \in Ids : i < clientsCounter => clientsQueueIDS'[i] = clientsQueueIDS[i]
      BY <1>1, <1>2, <2>1, <2>2 DEF Ids
    <2>5. clientsCounter' >= clientsCounter
      BY <1>2, <2>3
    <2> HIDE DEF Inv
    <2> QED
      BY <2>1, <2>2, <2>3, <2>4, <2>5, AnswerKeeps, ServicesAreNoOthers
  <1>5. CASE Deny
    <2>1. /\ server = "serving" /\ server' = "ready" /\ msg' = <<>>
          /\ UNCHANGED <<serverQueue, cpc, clientID, asked>>
          /\ msg.mtype = "ClientRequest"
          /\ UNCHANGED <<clientsCounter, clientsQueueIDS>>
          /\ AnswerTo(msg.client, "ServerDenies", msg.clientID)
      BY <1>5 DEF Deny, Serving
    <2>2. clientsCounter' \in 0 .. MAX_CLIENTS /\ clientsCounter' >= clientsCounter
      BY <1>2, <2>1
    <2> HIDE DEF Inv
    <2> QED
      BY <1>1, <1>2, <2>1, <2>2, AnswerKeeps, ServicesAreNoOthers
  <1>6. CASE Respond
    <2>1. /\ server = "serving" /\ server' = "ready" /\ msg' = <<>>
          /\ UNCHANGED <<serverQueue, cpc, clientID, asked>>
          /\ msg.mtype \in Service
          /\ UNCHANGED <<clientsCounter, clientsQueueIDS>>
          /\ AnswerTo(clientsQueueIDS[msg.clientID], "ServerResponse", msg.clientID)
      BY <1>6 DEF Respond, Serving
    <2>2. clientsQueueIDS[msg.clientID] = msg.client
      BY <1>1, <2>1 DEF OrderFits
    <2>3. clientsCounter' \in 0 .. MAX_CLIENTS /\ clientsCounter' >= clientsCounter
      BY <1>2, <2>1
    <2> HIDE DEF Inv
    <2> QED
      BY <1>1, <1>2, <2>1, <2>2, <2>3, AnswerKeeps, ServicesAreNoOthers
  <1>7. CASE Terminate \/ ServerInterrupt
    BY <1>7, StopKeeps DEF Terminate, ServerInterrupt
  <1> QED
    BY <1>3, <1>4, <1>5, <1>6, <1>7 DEF ServerNext

\* The invariant is inductive.
LEMMA InvStep == Inv /\ [QueuesNext]_queuesVars => Inv'
  <1> SUFFICES ASSUME Inv, [QueuesNext]_queuesVars PROVE Inv'
    OBVIOUS
  <1>1. CASE UNCHANGED queuesVars
    BY <1>1 DEF queuesVars, Inv, QueuesTypeOK, OrdersInv, OrderFits, AnswersInv, AnswerFits,
                Waiting, Answered, InService
  <1>2. CASE Stuck
    BY <1>1, <1>2 DEF Stuck
  <1>3. CASE ServerNext \/ ServerInterrupt
    BY <1>3, ServerKeeps
  <1>4. CASE \E c \in Clients : Start(c) \/ ClientNext(c) \/ Interrupt(c)
    BY <1>4, ClientKeeps
  <1> QED
    BY <1>1, <1>2, <1>3, <1>4 DEF QueuesNext

-----------------------------------------------------------------------------
(* The theorems. *)

\* The orders and the answers: the invariant holds in every reachable state.
THEOREM QueuesInvariance == QueuesSpec => []Inv
  <1> QED
    BY InvInit, InvStep, PTL DEF QueuesSpec

\* A client that waits has exactly one thing under way, its order in the queue,
\* its order in service or its answer; one that does not wait has none.
THEOREM OneOrderUnderWay == QueuesSpec => []OrdersOK
  <1>1. Inv => OrdersOK
    <2> SUFFICES ASSUME Inv PROVE OneOrderEach
      BY DEF Inv, OrdersOK
    <2> USE DEF Inv
    <2> SUFFICES ASSUME NEW c \in Clients
                 PROVE  /\ Len(clientQueue[c]) <= 1
                        /\ Waiting(c) /\ server # "ended" =>
                              \/ /\ Cardinality(InQueue(c)) = 1
                                 /\ ~InService(c) /\ ~Answered(c)
                              \/ InQueue(c) = {} /\ InService(c) /\ ~Answered(c)
                              \/ InQueue(c) = {} /\ ~InService(c) /\ Answered(c)
                        /\ cpc[c] \in {"off", "register", "menu"} =>
                              InQueue(c) = {} /\ ~InService(c) /\ ~Answered(c)
      BY DEF OneOrderEach
    <2>1. Len(clientQueue[c]) <= 1
      <3>1. CASE clientQueue[c] = <<>>
        BY <3>1
      <3>2. CASE clientQueue[c] # <<>>
        <4>1. Len(clientQueue[c]) = 1
          BY <3>2 DEF AnswersInv, Answered
        <4> QED
          BY <4>1
      <3> QED
        BY <3>1, <3>2
    <2>2. (InQueue(c) # {} \/ InService(c)) /\ cpc[c] # "ended" =>
             Waiting(c) /\ ~Answered(c)
      BY OrdersTyped DEF InQueue, InService, OrdersInv, OrderFits, Waiting, Answered
    <2>3. InService(c) => InQueue(c) = {}
      BY DEF InQueue, InService, OrdersInv
    <2>4. InQueue(c) # {} => Cardinality(InQueue(c)) = 1
      <3> SUFFICES ASSUME InQueue(c) # {}
                   PROVE  Cardinality(InQueue(c)) = 1
        OBVIOUS
      <3>1. PICK i \in 1 .. Len(serverQueue) : serverQueue[i].client = c
        BY DEF InQueue
      <3>2. InQueue(c) = {i}
        BY <3>1 DEF InQueue, OrdersInv
      <3> QED
        BY <3>2, FS_Singleton
    <2>5. Waiting(c) /\ server # "ended" /\ ~Answered(c) => InService(c) \/ InQueue(c) # {}
      BY DEF OrdersInv, InQueue
    <2>6. Answered(c) => Waiting(c)
      BY DEF AnswersInv
    <2> QED
      BY <2>1, <2>2, <2>3, <2>4, <2>5, <2>6 DEF Waiting
  <1> QED
    BY <1>1, QueuesInvariance, PTL

\* An answer is in the queue of the client that asked and answers what it asked.
THEOREM AnswersFindTheirClients == QueuesSpec => []AnswersReachTheAsker
  <1>1. Inv => AnswersReachTheAsker
    BY DEF Inv, AnswersInv, AnswerFits, AnswersReachTheAsker
  <1> QED
    BY <1>1, QueuesInvariance, PTL

=============================================================================
