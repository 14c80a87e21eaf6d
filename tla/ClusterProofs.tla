--------------------------- MODULE ClusterProofs ---------------------------
(***************************************************************************)
(* Theorems about Cluster: the list of clients counts the open connections  *)
(* and, until the first client leaves, holds each of them once; a task is   *)
(* in one place, and lost only with a client that has left.                 *)
(***************************************************************************)
EXTENDS Cluster, FiniteSetTheorems, WellFoundedInduction, TLAPS

Started == {c \in Clients : clientPc[c] # "off"}

\* Where the threads are between two steps.
ThreadsOK ==
    /\ netpc = "event" => i = 0 \/ i < Len(events)
    /\ netpc = "event" /\ events # <<>> => i < Len(events)
    /\ netpc = "accept" => event.fd \in Sockets
    /\ netpc = "receive" => event.fd \in Fds
    /\ cmdpc = "fetch" => pick \in Index
    /\ cmdpc = "write" => pick \in Fds \cup {-1}
    /\ cmdpc # "scan" => taskCounter < MaxTasks

\* Client d has been started, and its connection to socket s not been accepted.
Waits(d, s) == Socket(d) = s /\ clientPc[d] # "off" /\ \A fd \in Open : files[fd] # d

\* A client has one connection at most, accepted or to be accepted, and it has been
\* started; epoll watches the open descriptors only.
ConnectionsOK ==
    /\ starts \in Nat
    /\ Cardinality(Started) <= starts
    /\ \A fd \in Open : clientPc[files[fd]] # "off"
    /\ \A fd, fd2 \in Open : files[fd] = files[fd2] => fd = fd2
    /\ \A s \in Sockets : \A e \in 1 .. Len(backlog[s]) :
          /\ Waits(backlog[s][e], s)
          /\ \A e2 \in 1 .. Len(backlog[s]) : backlog[s][e] = backlog[s][e2] => e = e2
    /\ ready \in Seq(Sockets \cup Open)

\* As long as no client has left, nothing that was reported has been closed since.
NothingHungUp ==
    ~SomeoneLeft =>
        /\ \A e \in 1 .. Len(events) : /\ ~events[e].hup
                                       /\ events[e].fd \in Sockets \cup Open
        /\ netpc = "receive" => event.fd \in Open

\* Tasks and answers have numbers that were given; nobody has sent anything who was not
\* started.
MailOK ==
    /\ \A c \in Clients : \A e \in 1 .. Len(toClient[c]) :
          toClient[c][e].type # "PING" =>
              \E n \in Nat : n < taskCounter /\ toClient[c][e] = MSG(n)
    /\ \A c \in Clients : \A e \in 1 .. Len(toServer[c]) :
          toServer[c][e].type = "ANSWER" =>
              \E n \in Nat : n < taskCounter /\ toServer[c][e] = ANSWER(n + 1)
    /\ printed \subseteq 1 .. taskCounter
    /\ \A c \in Clients : clientPc[c] = "off" => toServer[c] = <<>>

ListInv == /\ ClusterTypeOK /\ MailOK /\ ThreadsOK /\ ConnectionsOK /\ NothingHungUp
           /\ EntriesMatchConnections /\ ListIsRightBeforeTheFirstLeaves

\* Message m lies at place e of a queue.
At(q, e, m) == e \in 1 .. Len(q) /\ q[e] = m

\* Task n is on its way to client c, and its answer on its way from it.
TaskAt(c, e, n) == At(toClient[c], e, MSG(n))
AnswerAt(c, e, n) == At(toServer[c], e, ANSWER(n + 1))

\* No two of the places of task n are taken.
Once(n) ==
    /\ \A c, c2 \in Clients : \A e, e2 \in Nat :
          /\ TaskAt(c, e, n) /\ TaskAt(c2, e2, n) => c = c2 /\ e = e2
          /\ AnswerAt(c, e, n) /\ AnswerAt(c2, e2, n) => c = c2 /\ e = e2
          /\ ~(TaskAt(c, e, n) /\ AnswerAt(c2, e2, n))
    /\ \A c \in Clients : \A e \in Nat :
          TaskAt(c, e, n) \/ AnswerAt(c, e, n) => n + 1 \notin printed

OncePlaced == \A n \in Nat : Once(n)

\* A task that has been sent is somewhere.
Placed(n) == \/ n + 1 \in printed
             \/ \E c \in Clients : \E e \in Nat : TaskAt(c, e, n) \/ AnswerAt(c, e, n)

LostWithAClient ==
    \A n \in Nat : n < taskCounter => Placed(n) \/ server = "dead" \/ SomeoneLeft

TaskInv == ListInv /\ OncePlaced /\ LostWithAClient

-----------------------------------------------------------------------------
(* Sequences and sets. *)

\* The least element of a set of numbers: induction, for those proofs that need it.
LEMMA LeastNumber ==
    ASSUME NEW T, T \subseteq Nat, T # {}
    PROVE  \E x \in T : \A y \in T : x <= y
<1>1. IsWellFoundedOn({ss \in Nat \X Nat : ss[1] < ss[2]}, Nat)
  BY NatLessThanWellFounded DEF OpToRel
<1>2. PICK x \in T : \A y \in T : ~ (<<y, x>> \in {ss \in Nat \X Nat : ss[1] < ss[2]})
  BY <1>1, WFMin
<1>3. \A y \in T : <<y, x>> \in Nat \X Nat => ~ (y < x)
  BY <1>2
<1>4. \A y \in T : ~ (y < x)
  BY <1>3
<1>. QED
  BY <1>4

\* f[m] is what is in S of the first m elements of a sequence, for each m up to most.
KeepsUpto(f, queue, S, most) ==
    f = [k \in 0 .. most |->
            IF k = 0 THEN <<>>
            ELSE IF queue[k] \in S THEN Append(f[k - 1], queue[k]) ELSE f[k - 1]]

LEMMA KeptExists ==
    ASSUME NEW queue, NEW S
    PROVE  \A most \in Nat : \E f : KeepsUpto(f, queue, S, most)
<1>1. SUFFICES ASSUME \E most \in Nat : ~ \E f : KeepsUpto(f, queue, S, most)
               PROVE  FALSE
  OBVIOUS
<1>2. PICK T : T = {most \in Nat : ~ \E f : KeepsUpto(f, queue, S, most)}
  OBVIOUS
<1>3. T \subseteq Nat /\ T # {}
  BY <1>1, <1>2
<1>4. PICK most \in T : \A y \in T : most <= y
  BY <1>3, LeastNumber
<1>5. most \in Nat /\ ~ \E f : KeepsUpto(f, queue, S, most)
  BY <1>2, <1>4
<1>6. CASE most = 0
  <2>1. KeepsUpto([k \in 0 .. 0 |-> <<>>], queue, S, 0)
    BY DEF KeepsUpto
  <2>. QED
    BY <1>5, <1>6, <2>1
<1>7. CASE most # 0
  <2>1. PICK less \in Nat : most = less + 1
    <3>1. most - 1 \in Nat /\ most = (most - 1) + 1
      BY <1>5, <1>7
    <3>. QED
      BY <3>1
  <2>2. less \notin T
    BY <1>4, <2>1
  <2>3. PICK f : KeepsUpto(f, queue, S, less)
    BY <1>2, <2>2
  <2>4. PICK g : g = [k \in 0 .. most |->
                        IF k <= less THEN f[k]
                        ELSE IF queue[k] \in S THEN Append(f[less], queue[k]) ELSE f[less]]
    OBVIOUS
  <2>5. \A k \in 0 .. most : g[k] = IF k = 0 THEN <<>>
                                    ELSE IF queue[k] \in S THEN Append(g[k - 1], queue[k])
                                    ELSE g[k - 1]
    <3>1. TAKE k \in 0 .. most
    <3>2. CASE k <= less
      <4>1. k \in 0 .. less /\ g[k] = f[k] /\ (k # 0 => k - 1 \in 0 .. less /\ g[k - 1] = f[k - 1])
        BY <2>1, <2>4, <3>2
      <4>2. f[k] = IF k = 0 THEN <<>>
                   ELSE IF queue[k] \in S THEN Append(f[k - 1], queue[k]) ELSE f[k - 1]
        BY <2>3, <4>1 DEF KeepsUpto
      <4>. QED
        BY <4>1, <4>2
    <3>3. CASE ~(k <= less)
      <4>1. k # 0 /\ k - 1 = less /\ k - 1 \in 0 .. most
        BY <2>1, <3>3
      <4>2. g[k - 1] = f[less]
        BY <2>1, <2>4, <4>1
      <4>3. g[k] = IF queue[k] \in S THEN Append(f[less], queue[k]) ELSE f[less]
        BY <2>4, <3>3
      <4>. QED
        BY <4>1, <4>2, <4>3
    <3>. QED
      BY <3>2, <3>3
  <2>6. KeepsUpto(g, queue, S, most)
    BY <2>4, <2>5 DEF KeepsUpto
  <2>. QED
    BY <1>5, <2>6
<1>. QED
  BY <1>6, <1>7

\* What OnlyOf keeps was in the sequence and is in the set.
LEMMA OnlyOfKeeps ==
    ASSUME NEW T, NEW S, NEW queue \in Seq(T)
    PROVE  OnlyOf(queue, S) \in Seq(S \cap T)
<1>1. Len(queue) \in Nat
  OBVIOUS
<1>2. \E f : KeepsUpto(f, queue, S, Len(queue))
  BY <1>1, KeptExists
<1>3. PICK kept : kept = CHOOSE f : KeepsUpto(f, queue, S, Len(queue))
  OBVIOUS
<1>4. KeepsUpto(kept, queue, S, Len(queue))
  BY <1>2, <1>3
<1>5. OnlyOf(queue, S) = kept[Len(queue)]
  BY <1>3 DEF OnlyOf, KeepsUpto
<1>6. \A m \in 0 .. Len(queue) :
         kept[m] = IF m = 0 THEN <<>>
                   ELSE IF queue[m] \in S THEN Append(kept[m - 1], queue[m])
                   ELSE kept[m - 1]
  BY <1>4 DEF KeepsUpto
<1>7. PICK T2 : T2 = {m \in 0 .. Len(queue) : kept[m] \notin Seq(S \cap T)}
  OBVIOUS
<1>8. CASE T2 = {}
  BY <1>1, <1>5, <1>7, <1>8
<1>9. CASE T2 # {}
  <2>1. T2 \subseteq Nat
    BY <1>1, <1>7
  <2>2. PICK m \in T2 : \A y \in T2 : m <= y
    BY <2>1, <1>9, LeastNumber
  <2>3. m \in 0 .. Len(queue) /\ kept[m] \notin Seq(S \cap T)
    BY <1>7, <2>2
  <2>4. ASSUME m = 0 PROVE FALSE
    <3>1. kept[m] = <<>>
      BY <1>6, <2>3, <2>4
    <3>2. <<>> \in Seq(S \cap T)
      OBVIOUS
    <3>. QED
      BY <2>3, <3>1, <3>2
  <2>5. m - 1 \in 0 .. Len(queue) /\ m - 1 \notin T2
    BY <1>1, <2>2, <2>3, <2>4
  <2>6. kept[m - 1] \in Seq(S \cap T)
    BY <1>7, <2>5
  <2>7. queue[m] \in T
    BY <1>1, <2>3, <2>4
  <2>8. CASE queue[m] \in S
    <3>1. kept[m] = Append(kept[m - 1], queue[m])
      BY <1>6, <2>3, <2>4, <2>8
    <3>2. queue[m] \in S \cap T
      BY <2>7, <2>8
    <3>. QED
      BY <2>3, <2>6, <3>1, <3>2
  <2>9. CASE queue[m] \notin S
    <3>1. kept[m] = kept[m - 1]
      BY <1>6, <2>3, <2>4, <2>9
    <3>. QED
      BY <2>3, <2>6, <3>1
  <2>. QED
    BY <2>8, <2>9
<1>. QED
  BY <1>8, <1>9

\* SetToSeq lists a finite set.
LEMMA SetToSeqLists ==
    ASSUME NEW S, IsFiniteSet(S)
    PROVE  SetToSeq(S) \in Seq(S)
<1>1. PICK size \in Nat : size = Cardinality(S)
  BY FS_CardinalityType
<1>2. PICK g : g \in Bijection(1 .. size, S)
  BY <1>1, FS_CardinalityType DEF ExistsBijection
<1>3. g \in [1 .. size -> S] /\ IsInjective(g)
  BY <1>2 DEF Bijection, Injection, IsInjective
<1>4. SetToSeq(S) = CHOOSE f \in [1 .. size -> S] : IsInjective(f)
  BY <1>1 DEF SetToSeq
<1>5. SetToSeq(S) \in [1 .. size -> S]
  BY <1>3, <1>4
<1>. QED
  BY <1>1, <1>5
-----------------------------------------------------------------------------
(* The list of clients. *)

LEMMA Descriptors ==
    /\ Fds \subseteq Nat /\ IsFiniteSet(Fds)
    /\ Cardinality(Fds) = Cardinality(Clients) /\ Cardinality(Clients) \in Nat
    /\ \A fd \in Fds : fd # -1 /\ fd \notin Sockets
<1>1. Cardinality(Clients) \in Nat
  BY ClusterAssumption, FS_CardinalityType
<1>2. IsFiniteSet(Fds) /\ Cardinality(Fds) = Cardinality(Clients)
  <2>1. PICK top \in Int : top = 2 + Cardinality(Clients)
    BY <1>1
  <2>2. IsFiniteSet(3 .. top) /\ Cardinality(3 .. top) = IF 3 > top THEN 0 ELSE top - 3 + 1
    BY FS_Interval
  <2>. QED
    BY <1>1, <2>1, <2>2 DEF Fds
<1>. QED
  BY <1>1, <1>2 DEF Fds, Sockets, un_sock, net_sock

LEMMA OpenIsFinite ==
    /\ IsFiniteSet(Open) /\ Cardinality(Open) \in Nat
    /\ IsFiniteSet(Started) /\ Cardinality(Started) \in Nat
<1>1. Open \in SUBSET Fds /\ Started \in SUBSET Clients
  BY DEF Open, Started
<1>. QED
  BY <1>1, Descriptors, ClusterAssumption, FS_Subset, FS_CardinalityType

LEMMA Types ==
    ASSUME ClusterTypeOK
    PROVE  /\ \A fd \in Open : files[fd] \in Clients /\ fd \in Fds
           /\ \A fd \in Fds : fd \in Open <=> files[fd] # ClosedFd
           /\ \A s \in Sockets : \A e \in 1 .. Len(backlog[s]) : backlog[s][e] \in Clients
           /\ \A c \in Clients : /\ toServer[c] \in Seq(Messages) /\ Len(toServer[c]) \in Nat
                                /\ toClient[c] \in Seq(Messages) /\ Len(toClient[c]) \in Nat
           /\ clientFdsSize \in Int
<1>1. \A s \in Sockets : \A e \in 1 .. Len(backlog[s]) : backlog[s][e] \in Clients
  <2>1. TAKE s \in Sockets
  <2>2. backlog[s] \in Seq(Clients)
    BY DEF ClusterTypeOK
  <2>. QED
    BY <2>2
<1>2. \A c \in Clients : /\ toServer[c] \in Seq(Messages) /\ Len(toServer[c]) \in Nat
                         /\ toClient[c] \in Seq(Messages) /\ Len(toClient[c]) \in Nat
  BY DEF ClusterTypeOK
<1>3. clientFdsSize \in Int
  BY ClusterAssumption DEF ClusterTypeOK
<1>. QED
  BY <1>1, <1>2, <1>3 DEF ClusterTypeOK, Open

LEMMA NoConnections ==
    ASSUME files = [fd \in Fds |-> ClosedFd]
    PROVE  Open = {}
BY DEF Open

LEMMA ListInit == ClusterInit => ListInv
<1>. SUFFICES ASSUME ClusterInit PROVE ListInv
  OBVIOUS
<1>1. Open = {}
  BY NoConnections DEF ClusterInit
<1>2. Started = {}
  BY DEF ClusterInit, Started
<1>3. Active = {}
  BY DEF Active, ClusterInit
<1>4. Cardinality({}) = 0
  BY FS_EmptySet
<1>5. ClusterTypeOK
  BY ClusterAssumption DEF ClusterInit, ClusterTypeOK, Sockets, NoEvent, Fds, Index
<1>6. ThreadsOK
  BY DEF ClusterInit, ThreadsOK
<1>7. ConnectionsOK
  BY <1>1, <1>2, <1>4 DEF ClusterInit, ConnectionsOK
<1>8. NothingHungUp
  BY DEF ClusterInit, NothingHungUp
<1>9. EntriesMatchConnections
  BY <1>1, <1>4 DEF ClusterInit, EntriesMatchConnections
<1>10. ListIsRightBeforeTheFirstLeaves
  BY <1>1, <1>3 DEF ListIsRightBeforeTheFirstLeaves, Pinged
<1>11. MailOK
  BY DEF ClusterInit, MailOK
<1>. QED
  BY <1>5, <1>6, <1>7, <1>8, <1>9, <1>10, <1>11 DEF ListInv

\* A program that ends forgets everything but the clients.
LEMMA DieKeeps ==
    ASSUME ListInv, Die
    PROVE  ListInv'
<1>1. Open' = {}
  BY DEF Open, Die
<1>2. Started' = Started /\ starts' = starts /\ clientPc' = clientPc
  BY DEF Die, Started
<1>3. Active' = {}
  BY DEF Active, Die
<1>4. Cardinality({}) = 0
  BY FS_EmptySet
<1>5. ClusterTypeOK'
  BY ClusterAssumption DEF ListInv, Die, ClusterTypeOK, Sockets, NoEvent, Fds, Index
<1>6. ThreadsOK'
  BY DEF Die, ThreadsOK
<1>7. ConnectionsOK'
  <2>1. ready' = <<>> /\ \A s \in Sockets : backlog'[s] = <<>>
    BY DEF Die
  <2>. QED
    BY <1>1, <1>2, <2>1 DEF ConnectionsOK, ListInv
<1>8. NothingHungUp'
  BY DEF Die, NothingHungUp
<1>9. EntriesMatchConnections'
  BY DEF Die, EntriesMatchConnections
<1>10. ListIsRightBeforeTheFirstLeaves'
  BY <1>1, <1>3 DEF ListIsRightBeforeTheFirstLeaves, Pinged
<1>11. MailOK'
  BY DEF Die, ListInv, MailOK
<1>. QED
  BY <1>5, <1>6, <1>7, <1>8, <1>9, <1>10, <1>11 DEF ListInv
LEMMA ArrayIsSequence ==
    ASSUME NEW m \in Nat, NEW A, NEW f \in [1 .. m -> A]
    PROVE  f \in Seq(A) /\ Len(f) = m
OBVIOUS

LEMMA ElementOf ==
    ASSUME NEW A, NEW q \in Seq(A)
    PROVE  Len(q) \in Nat /\ \A e \in 1 .. Len(q) : q[e] \in A
OBVIOUS

LEMMA LongerIsSeq ==
    ASSUME NEW A, NEW B, A \subseteq B, NEW q \in Seq(A)
    PROVE  q \in Seq(B)
OBVIOUS

\* What joins the ready list.
LEMMA WakeAdds ==
    ASSUME NEW A, ready \in Seq(A), NEW fds, fds \subseteq A, IsFiniteSet(fds), Wake(fds)
    PROVE  ready' \in Seq(A)
<1>1. IsFiniteSet(fds \ ToSet(ready))
  BY FS_Subset
<1>2. SetToSeq(fds \ ToSet(ready)) \in Seq(fds \ ToSet(ready))
  BY <1>1, SetToSeqLists
<1>3. SetToSeq(fds \ ToSet(ready)) \in Seq(A)
  BY <1>2, LongerIsSeq
<1>. QED
  BY <1>3 DEF Wake

\* The clients of a step are counted as those of the step before.
LEMMA LeftIsSame ==
    ASSUME UNCHANGED <<clientPc, starts>>
    PROVE  /\ SomeoneLeft' = SomeoneLeft
           /\ Started' = Started
BY DEF SomeoneLeft, Started, Gone

LEMMA ListStays ==
    ASSUME ListInv, UNCHANGED <<server, files, listVars>>, SomeoneLeft => SomeoneLeft'
    PROVE  EntriesMatchConnections' /\ ListIsRightBeforeTheFirstLeaves'
BY DEF ListInv, EntriesMatchConnections, ListIsRightBeforeTheFirstLeaves, listVars, Open,
       Pinged, Active

LEMMA ConnectionsStay ==
    ASSUME ListInv, UNCHANGED <<clientPc, starts, files, backlog>>,
              ready' \in Seq(Sockets \cup Open)
    PROVE  ConnectionsOK'
<1>1. Open' = Open /\ Started' = Started
  BY DEF Open, Started
<1>. QED
  BY <1>1 DEF ListInv, ConnectionsOK, Waits

\* The steps that concern neither the list nor the network thread.
LEMMA QuietStep ==
    ASSUME ListInv, UNCHANGED <<server, clientPc, starts, files, listVars, netVars>>,
           ClusterTypeOK', MailOK', ThreadsOK'
    PROVE  ListInv'
<1>1. SomeoneLeft' = SomeoneLeft
  BY LeftIsSame
<1>2. EntriesMatchConnections' /\ ListIsRightBeforeTheFirstLeaves'
  BY <1>1, ListStays
<1>3. Open' = Open
  BY DEF Open
<1>4. ready' \in Seq(Sockets \cup Open)
  BY DEF netVars, ListInv, ConnectionsOK
<1>5. ConnectionsOK'
  BY <1>4, ConnectionsStay DEF netVars
<1>6. NothingHungUp'
  BY <1>1, <1>3 DEF ListInv, NothingHungUp, netVars
<1>. QED
  BY <1>2, <1>5, <1>6 DEF ListInv
LEMMA Contents ==
    /\ PING \in Messages /\ HELLO \in Messages
    /\ \A n \in 0 .. MaxTasks : MSG(n) \in Messages /\ ANSWER(n) \in Messages
    /\ PING.type = "PING" /\ HELLO.type = "HELLO"
    /\ \A n \in Nat : /\ MSG(n).type = "MSG" /\ MSG(n).counter = n
                      /\ ANSWER(n).type = "ANSWER" /\ ANSWER(n).counter = n
    /\ \A m \in Messages : /\ m.type = "PING" => m = PING
                           /\ m.type = "HELLO" => m = HELLO
                           /\ m.type \in {"PING", "HELLO", "MSG", "ANSWER"}
                           /\ m.counter \in 0 .. MaxTasks
<1>. USE DEF Messages, PING, HELLO, MSG, ANSWER
<1>1. PING \in Messages /\ HELLO \in Messages
  OBVIOUS
<1>2. \A n \in 0 .. MaxTasks : MSG(n) \in Messages /\ ANSWER(n) \in Messages
  OBVIOUS
<1>3. PING.type = "PING" /\ HELLO.type = "HELLO"
  OBVIOUS
<1>4. \A n \in Nat : /\ MSG(n).type = "MSG" /\ MSG(n).counter = n
                     /\ ANSWER(n).type = "ANSWER" /\ ANSWER(n).counter = n
  OBVIOUS
<1>5. ASSUME NEW m \in Messages
      PROVE  /\ m.type = "PING" => m = PING
             /\ m.type = "HELLO" => m = HELLO
             /\ m.type \in {"PING", "HELLO", "MSG", "ANSWER"}
             /\ m.counter \in 0 .. MaxTasks
  <2>1. CASE m = PING
    BY <2>1, ClusterAssumption
  <2>2. CASE m = HELLO
    BY <2>2, ClusterAssumption
  <2>3. CASE \E n \in 0 .. MaxTasks : m = MSG(n) \/ m = ANSWER(n)
    BY <2>3
  <2>. QED
    BY <2>1, <2>2, <2>3
<1>. QED
  BY <1>1, <1>2, <1>3, <1>4, <1>5

\* What a step makes of a queue: it holds nothing new but m.
Within(r, q, m) ==
    /\ r \in Seq(Messages)
    /\ \A e \in 1 .. Len(r) : r[e] = m \/ \E e2 \in 1 .. Len(q) : r[e] = q[e2]

LEMMA QueueSteps ==
    ASSUME NEW q \in Seq(Messages), NEW m \in Messages
    PROVE  /\ Within(q, q, m)
           /\ Within(<<>>, q, m)
           /\ Within(Put(q, m), q, m)
           /\ q # <<>> => Within(Tail(q), q, m) /\ Head(q) \in Messages /\ 1 \in 1 .. Len(q)
                          /\ Head(q) = q[1]
<1>1. Within(q, q, m)
  BY DEF Within
<1>2. Within(<<>>, q, m)
  BY DEF Within
<1>3. Within(Append(q, m), q, m)
  <2>1. Append(q, m) \in Seq(Messages) /\ Len(Append(q, m)) = Len(q) + 1
    OBVIOUS
  <2>2. \A e \in 1 .. Len(q) + 1 : \/ Append(q, m)[e] = m
                                   \/ e \in 1 .. Len(q) /\ Append(q, m)[e] = q[e]
    OBVIOUS
  <2>. QED
    BY <2>1, <2>2 DEF Within
<1>4. Within(Put(q, m), q, m)
  BY <1>1, <1>3 DEF Put
<1>5. ASSUME q # <<>>
      PROVE  Within(Tail(q), q, m) /\ Head(q) \in Messages /\ 1 \in 1 .. Len(q) /\ Head(q) = q[1]
  <2>1. Tail(q) \in Seq(Messages) /\ Len(Tail(q)) = Len(q) - 1
    BY <1>5
  <2>2. \A e \in 1 .. Len(q) - 1 : Tail(q)[e] = q[e + 1] /\ e + 1 \in 1 .. Len(q)
    BY <1>5
  <2>. QED
    BY <1>5, <2>1, <2>2 DEF Within
<1>. QED
  BY <1>1, <1>2, <1>4, <1>5

\* m is what a step may send to a client, and what it may send from one.
Sendable(m) == m.type # "PING" => \E n \in Nat : n < taskCounter /\ m = MSG(n)
Answerable(m) == m.type = "ANSWER" => \E n \in Nat : n < taskCounter /\ m = ANSWER(n + 1)

\* The types of what is under way, and MailOK.
LEMMA MailStays ==
    ASSUME ClusterTypeOK, MailOK, NEW m \in Messages, NEW a \in Messages,
           Sendable(m)', Answerable(a)',
           \A c \in Clients : Within(toClient'[c], toClient[c], m),
           \A c \in Clients : Within(toServer'[c], toServer[c], a),
           toClient' = [c \in Clients |-> toClient'[c]],
           toServer' = [c \in Clients |-> toServer'[c]],
           taskCounter' \in {taskCounter, taskCounter + 1}, printed' \subseteq 1 .. taskCounter',
           \A c \in Clients : clientPc'[c] = "off" =>
              clientPc[c] = "off" /\ toServer'[c] = toServer[c]
    PROVE  /\ MailOK'
           /\ toClient' \in [Clients -> Seq(Messages)]
           /\ toServer' \in [Clients -> Seq(Messages)]
<1>1. taskCounter \in Nat /\ taskCounter' \in Nat /\ taskCounter <= taskCounter'
  BY ClusterAssumption DEF ClusterTypeOK
<1>2. \A n \in Nat : n < taskCounter => n < taskCounter'
  BY <1>1
<1>3. ASSUME NEW c \in Clients, NEW e \in 1 .. Len(toClient'[c]), toClient'[c][e].type # "PING"
      PROVE  \E n \in Nat : n < taskCounter' /\ toClient'[c][e] = MSG(n)
  <2>1. toClient'[c][e] = m \/ \E e2 \in 1 .. Len(toClient[c]) : toClient'[c][e] = toClient[c][e2]
    BY DEF Within
  <2>2. CASE toClient'[c][e] = m
    BY <1>3, <2>2 DEF Sendable
  <2>3. CASE \E e2 \in 1 .. Len(toClient[c]) : toClient'[c][e] = toClient[c][e2]
    BY <1>2, <1>3, <2>3 DEF MailOK
  <2>. QED
    BY <2>1, <2>2, <2>3
<1>4. ASSUME NEW c \in Clients, NEW e \in 1 .. Len(toServer'[c]),
                toServer'[c][e].type = "ANSWER"
      PROVE  \E n \in Nat : n < taskCounter' /\ toServer'[c][e] = ANSWER(n + 1)
  <2>1. toServer'[c][e] = a \/ \E e2 \in 1 .. Len(toServer[c]) : toServer'[c][e] = toServer[c][e2]
    BY DEF Within
  <2>2. CASE toServer'[c][e] = a
    BY <1>4, <2>2 DEF Answerable
  <2>3. CASE \E e2 \in 1 .. Len(toServer[c]) : toServer'[c][e] = toServer[c][e2]
    BY <1>2, <1>4, <2>3 DEF MailOK
  <2>. QED
    BY <2>1, <2>2, <2>3
<1>5. \A c \in Clients : clientPc'[c] = "off" => toServer'[c] = <<>>
  BY DEF MailOK
<1>6. MailOK'
  BY <1>3, <1>4, <1>5 DEF MailOK
<1>7. \A c \in Clients : toClient'[c] \in Seq(Messages) /\ toServer'[c] \in Seq(Messages)
  BY DEF Within
<1>. QED
  BY <1>6, <1>7

LEMMA ScanKeeps == ASSUME ListInv, Scan PROVE ListInv'
<1>1. ClusterTypeOK'
  BY ClusterAssumption DEF Scan, cmdOthers, netVars, listVars, ListInv, ClusterTypeOK, Index
<1>2. MailOK'
  BY DEF Scan, cmdOthers, ListInv, MailOK
<1>3. ThreadsOK'
  BY ClusterAssumption DEF Scan, cmdOthers, netVars, ListInv, ThreadsOK, Index
<1>. QED
  BY <1>1, <1>2, <1>3, QuietStep DEF Scan, cmdOthers

LEMMA DrawKeeps == ASSUME ListInv, Draw PROVE ListInv'
<1>0. Active \subseteq Index
  BY ClusterAssumption DEF ListInv, ClusterTypeOK, Active, Index
<1>1. ClusterTypeOK'
  BY <1>0 DEF Draw, cmdOthers, netVars, listVars, ListInv, ClusterTypeOK
<1>2. MailOK'
  BY DEF Draw, cmdOthers, ListInv, MailOK
<1>3. ThreadsOK'
  BY <1>0 DEF Draw, cmdOthers, netVars, ListInv, ThreadsOK
<1>. QED
  BY <1>1, <1>2, <1>3, QuietStep DEF Draw, cmdOthers

LEMMA FetchKeeps == ASSUME ListInv, Fetch PROVE ListInv'
<1>0. pick' \in Fds \cup {-1}
  BY DEF Fetch, ListInv, ClusterTypeOK, ThreadsOK
<1>1. ClusterTypeOK'
  BY <1>0 DEF Fetch, cmdOthers, netVars, listVars, ListInv, ClusterTypeOK
<1>2. MailOK'
  BY DEF Fetch, cmdOthers, ListInv, MailOK
<1>3. ThreadsOK'
  BY <1>0 DEF Fetch, cmdOthers, netVars, ListInv, ThreadsOK
<1>. QED
  BY <1>1, <1>2, <1>3, QuietStep DEF Fetch, cmdOthers

\* The descriptor that a task is written to is a client's.
LEMMA PickIsOpen ==
    ASSUME ListInv, Writing, ~BadFile(pick)
    PROVE  pick \in Open /\ files[pick] \in Clients /\ clientPc[files[pick]] # "off"
BY Types DEF ListInv, Writing, BadFile, ConnectionsOK
LEMMA WriteTaskKeeps == ASSUME ListInv, WriteTask PROVE ListInv'
<1>1. pick \in Open /\ files[pick] \in Clients /\ clientPc[files[pick]] # "off"
  BY PickIsOpen DEF WriteTask
<1>2. taskCounter \in 0 .. MaxTasks - 1 /\ taskCounter' = taskCounter + 1
  BY ClusterAssumption DEF WriteTask, Writing, ListInv, ClusterTypeOK, ThreadsOK
<1>3. PICK m \in Messages : m = MSG(taskCounter)
  <2>1. taskCounter \in 0 .. MaxTasks
    BY <1>2, ClusterAssumption
  <2>. QED
    BY <2>1, Contents
<1>4. UNCHANGED <<toServer, clientPc, printed>> /\ toServer \in [Clients -> Seq(Messages)]
      /\ toClient \in [Clients -> Seq(Messages)] /\ taskCounter \in Nat
  BY <1>2 DEF WriteTask, cmdOthers, ListInv, ClusterTypeOK
<1>5. \A c \in Clients : toClient'[c] = toClient[c] \/ toClient'[c] = Put(toClient[c], m)
  BY <1>1, <1>3, <1>4 DEF WriteTask
<1>6. /\ toClient' = [c \in Clients |-> toClient'[c]]
      /\ toServer' = [c \in Clients |-> toServer'[c]]
  BY <1>4 DEF WriteTask
<1>7. \A c \in Clients : /\ Within(toClient'[c], toClient[c], m)
                         /\ Within(toServer'[c], toServer[c], HELLO)
  <2>1. TAKE c \in Clients
  <2>2. PICK q, r : q = toClient[c] /\ r = toServer[c] /\ q \in Seq(Messages) /\ r \in Seq(Messages)
    BY <1>4
  <2>3. Within(q, q, m) /\ Within(Put(q, m), q, m) /\ Within(r, r, HELLO)
    BY <2>2, QueueSteps, Contents
  <2>. QED
    BY <1>4, <1>5, <2>2, <2>3
<1>8. Sendable(m)' /\ Answerable(HELLO)'
  BY <1>2, <1>3, Contents DEF Sendable, Answerable
<1>9. printed' \subseteq 1 .. taskCounter'
  BY <1>2, <1>4 DEF ListInv, MailOK
<1>10. /\ MailOK'
       /\ toClient' \in [Clients -> Seq(Messages)]
       /\ toServer' \in [Clients -> Seq(Messages)]
  BY <1>2, <1>4, <1>6, <1>7, <1>8, <1>9, MailStays, Contents DEF ListInv
<1>11. ClusterTypeOK'
  <2>1. taskCounter' \in 0 .. MaxTasks
    BY <1>2, ClusterAssumption
  <2>. QED
    BY <1>10, <2>1 DEF WriteTask, cmdOthers, netVars, listVars, ListInv, ClusterTypeOK
<1>12. ThreadsOK'
  BY DEF WriteTask, cmdOthers, netVars, ListInv, ThreadsOK
<1>. QED
  BY <1>10, <1>11, <1>12, QuietStep DEF WriteTask, cmdOthers

LEMMA PingAllKeeps == ASSUME ListInv, PingAll PROVE ListInv'
<1>1. /\ UNCHANGED <<toServer, clientPc, printed, taskCounter>>
      /\ toServer \in [Clients -> Seq(Messages)]
      /\ toClient \in [Clients -> Seq(Messages)]
  BY DEF PingAll, cmdVars, ListInv, ClusterTypeOK
<1>2. \A c \in Clients : toClient'[c] = toClient[c] \/ toClient'[c] = Put(toClient[c], PING)
  BY DEF PingAll
<1>3. /\ toClient' = [c \in Clients |-> toClient'[c]]
      /\ toServer' = [c \in Clients |-> toServer'[c]]
  BY <1>1 DEF PingAll
<1>4. \A c \in Clients : /\ Within(toClient'[c], toClient[c], PING)
                         /\ Within(toServer'[c], toServer[c], HELLO)
  <2>1. TAKE c \in Clients
  <2>2. PICK q, r : q = toClient[c] /\ r = toServer[c] /\ q \in Seq(Messages) /\ r \in Seq(Messages)
    BY <1>1
  <2>3. Within(q, q, PING) /\ Within(Put(q, PING), q, PING) /\ Within(r, r, HELLO)
    BY <2>2, QueueSteps, Contents
  <2>. QED
    BY <1>1, <1>2, <2>2, <2>3
<1>5. Sendable(PING)' /\ Answerable(HELLO)'
  BY Contents DEF Sendable, Answerable
<1>6. printed' \subseteq 1 .. taskCounter'
  BY <1>1 DEF ListInv, MailOK
<1>7. /\ MailOK'
      /\ toClient' \in [Clients -> Seq(Messages)]
      /\ toServer' \in [Clients -> Seq(Messages)]
  BY <1>1, <1>3, <1>4, <1>5, <1>6, MailStays, Contents DEF ListInv
<1>8. ClusterTypeOK'
  BY <1>7 DEF PingAll, cmdVars, netVars, listVars, ListInv, ClusterTypeOK
<1>9. ThreadsOK'
  BY DEF PingAll, cmdVars, netVars, ListInv, ThreadsOK
<1>. QED
  BY <1>7, <1>8, <1>9, QuietStep DEF PingAll
LEMMA MailTypes ==
    ASSUME ClusterTypeOK
    PROVE  /\ toServer \in [Clients -> Seq(Messages)] /\ toClient \in [Clients -> Seq(Messages)]
           /\ taskCounter \in Nat
           /\ \A c \in Clients : toServer[c] \in Seq(Messages) /\ toClient[c] \in Seq(Messages)
BY ClusterAssumption DEF ClusterTypeOK

\* A step of a client that is connected and stays so, or leaves.
LEMMA ClientStep ==
    ASSUME ListInv, NEW c \in Clients, Wake(FdsOf(c)),
           UNCHANGED <<server, starts, backlog, files, listVars, netpc, events, i, event,
                       cmdVars, printed>>,
           clientPc' \in [Clients -> {"off", "hello", "loop", "gone"}],
           \A d \in Clients : clientPc'[d] = "off" <=> clientPc[d] = "off",
           \A d \in Clients : Gone(d) => clientPc'[d] = "gone",
           MailOK', toClient' \in [Clients -> Seq(Messages)],
              toServer' \in [Clients -> Seq(Messages)]
    PROVE  ListInv'
<1>1. Started' = Started /\ Open' = Open
  BY DEF Started, Open
<1>2. SomeoneLeft => SomeoneLeft'
  BY <1>1 DEF SomeoneLeft, Started, Gone
<1>3. EntriesMatchConnections' /\ ListIsRightBeforeTheFirstLeaves'
  BY <1>2, ListStays
<1>4. FdsOf(c) \subseteq Open /\ IsFiniteSet(FdsOf(c))
  <2>1. FdsOf(c) \in SUBSET Fds
    BY DEF FdsOf
  <2>2. IsFiniteSet(FdsOf(c))
    BY <2>1, Descriptors, FS_Subset
  <2>. QED
    BY <2>1, <2>2, ClusterAssumption DEF FdsOf, Open
<1>5. ready' \in Seq(Sockets \cup Open)
  BY <1>4, WakeAdds DEF ListInv, ConnectionsOK
<1>6. ConnectionsOK'
  <2>1. \A fd \in Open : files[fd] \in Clients /\ files'[fd] = files[fd]
    BY Types DEF ListInv
  <2>2. \A s \in Sockets : /\ backlog'[s] = backlog[s]
                           /\ \A e \in 1 .. Len(backlog[s]) : backlog[s][e] \in Clients
    BY Types DEF ListInv
  <2>3. starts' \in Nat /\ Cardinality(Started') <= starts'
    BY <1>1 DEF ListInv, ConnectionsOK
  <2>4. /\ \A fd \in Open' : clientPc'[files'[fd]] # "off"
        /\ \A fd, fd2 \in Open' : files'[fd] = files'[fd2] => fd = fd2
    BY <1>1, <2>1 DEF ListInv, ConnectionsOK
  <2>5. \A d \in Clients : \A s \in Sockets : Waits(d, s) => Waits(d, s)'
    BY <1>1, <2>1 DEF Waits
  <2>6. \A s \in Sockets : \A e \in 1 .. Len(backlog'[s]) :
          /\ Waits(backlog[s][e], s)' /\ backlog'[s] = backlog[s]
          /\ \A e2 \in 1 .. Len(backlog'[s]) : backlog'[s][e] = backlog'[s][e2] => e = e2
    BY <2>2, <2>5 DEF ListInv, ConnectionsOK
  <2>. QED
    BY <1>1, <1>5, <2>3, <2>4, <2>6 DEF ConnectionsOK
<1>7. NothingHungUp'
  BY <1>1, <1>2 DEF ListInv, NothingHungUp
<1>8. ready' \in Seq(Sockets \cup Fds)
  <2>1. Sockets \cup Open \subseteq Sockets \cup Fds
    BY DEF Open
  <2>. QED
    BY <1>5, <2>1, LongerIsSeq
<1>9. ClusterTypeOK'
  BY <1>8 DEF ListInv, ClusterTypeOK, listVars, cmdVars
<1>10. ThreadsOK'
  BY DEF ListInv, ThreadsOK, cmdVars
<1>. QED
  BY <1>3, <1>6, <1>7, <1>9, <1>10 DEF ListInv

LEMMA HelloKeeps == ASSUME ListInv, NEW c \in Clients, hello(c) PROVE ListInv'
<1>1. clientPc' \in [Clients -> {"off", "hello", "loop", "gone"}]
      /\ (\A d \in Clients : clientPc'[d] = "off" <=> clientPc[d] = "off")
      /\ (\A d \in Clients : Gone(d) => clientPc'[d] = "gone")
  BY DEF hello, ListInv, ClusterTypeOK, Gone
<1>2. \A d \in Clients : /\ Within(toClient'[d], toClient[d], PING)
                         /\ Within(toServer'[d], toServer[d], HELLO)
  <2>1. TAKE d \in Clients
  <2>2. PICK q, r : q = toClient[d] /\ r = toServer[d] /\ q \in Seq(Messages) /\ r \in Seq(Messages)
    BY MailTypes DEF ListInv
  <2>3. Within(q, q, PING) /\ Within(r, r, HELLO) /\ Within(Put(r, HELLO), r, HELLO)
    BY <2>2, QueueSteps, Contents
  <2>4. toClient'[d] = q /\ (toServer'[d] = r \/ toServer'[d] = Put(r, HELLO))
    BY <2>2, MailTypes DEF ListInv, hello, Send
  <2>. QED
    BY <2>2, <2>3, <2>4
<1>3. /\ toClient' = [d \in Clients |-> toClient'[d]]
      /\ toServer' = [d \in Clients |-> toServer'[d]]
  BY MailTypes DEF ListInv, hello, Send
<1>4. Sendable(PING)' /\ Answerable(HELLO)'
  BY Contents DEF Sendable, Answerable
<1>5. taskCounter' = taskCounter /\ printed' = printed
  BY DEF hello, Send, cmdVars
<1>6. \A d \in Clients : clientPc'[d] = "off" =>
         clientPc[d] = "off" /\ toServer'[d] = toServer[d]
  BY MailTypes DEF ListInv, ClusterTypeOK, hello, Send
<1>7. /\ MailOK'
      /\ toClient' \in [Clients -> Seq(Messages)]
      /\ toServer' \in [Clients -> Seq(Messages)]
  <2>1. printed' \subseteq 1 .. taskCounter'
    BY <1>5 DEF ListInv, MailOK
  <2>. QED
    BY <1>2, <1>3, <1>4, <1>5, <1>6, <2>1, MailStays, Contents DEF ListInv
<1>. QED
  BY <1>1, <1>7, ClientStep DEF hello, Send
LEMMA TalkKeeps ==
    ASSUME ListInv, NEW c \in Clients, NEW type, Received(c, type),
           NEW a \in Messages, Answerable(a), Send(c, a)
    PROVE  ListInv'
<1>1. /\ clientPc' = clientPc
      /\ clientPc \in [Clients -> {"off", "hello", "loop", "gone"}]
      /\ clientPc[c] = "loop"
  BY DEF Received, ListInv, ClusterTypeOK
<1>2. \A d \in Clients : /\ Within(toClient'[d], toClient[d], PING)
                         /\ Within(toServer'[d], toServer[d], a)
  <2>1. TAKE d \in Clients
  <2>2. PICK q, r : q = toClient[d] /\ r = toServer[d] /\ q \in Seq(Messages) /\ r \in Seq(Messages)
    BY MailTypes DEF ListInv
  <2>3. /\ Within(q, q, PING)
        /\ q # <<>> => Within(Tail(q), q, PING)
        /\ Within(r, r, a) /\ Within(Put(r, a), r, a)
    BY <2>2, QueueSteps, Contents
  <2>4. toClient'[d] = q \/ (q # <<>> /\ toClient'[d] = Tail(q))
    BY <2>2, MailTypes DEF ListInv, Received
  <2>5. toServer'[d] = r \/ toServer'[d] = Put(r, a)
    BY <2>2, MailTypes DEF ListInv, Send
  <2>. QED
    BY <2>2, <2>3, <2>4, <2>5
<1>3. /\ toClient' = [d \in Clients |-> toClient'[d]]
      /\ toServer' = [d \in Clients |-> toServer'[d]]
  BY MailTypes DEF ListInv, Received, Send
<1>4. taskCounter' = taskCounter /\ printed' = printed
  BY DEF Send, cmdVars
<1>5. Sendable(PING)' /\ Answerable(a)'
  BY <1>4, Contents DEF Sendable, Answerable
<1>6. \A d \in Clients : clientPc'[d] = "off" =>
         clientPc[d] = "off" /\ toServer'[d] = toServer[d]
  BY <1>1, MailTypes DEF ListInv, ClusterTypeOK, Send
<1>7. /\ MailOK'
      /\ toClient' \in [Clients -> Seq(Messages)]
      /\ toServer' \in [Clients -> Seq(Messages)]
  <2>1. printed' \subseteq 1 .. taskCounter'
    BY <1>4 DEF ListInv, MailOK
  <2>. QED
    BY <1>2, <1>3, <1>4, <1>5, <1>6, <2>1, MailStays, Contents DEF ListInv
<1>. QED
  BY <1>1, <1>7, ClientStep DEF Send, Gone

\* The message that a client receives is a task that was given, or a ping.
LEMMA ReceivedIs ==
    ASSUME ListInv, NEW c \in Clients, Received(c, "MSG")
    PROVE  \E n \in Nat : n < taskCounter /\ Head(toClient[c]) = MSG(n)
<1>1. toClient[c] \in Seq(Messages) /\ toClient[c] # <<>> /\ Head(toClient[c]).type = "MSG"
  BY MailTypes DEF ListInv, Received
<1>2. 1 \in 1 .. Len(toClient[c]) /\ Head(toClient[c]) = toClient[c][1]
  BY <1>1
<1>. QED
  BY <1>1, <1>2 DEF ListInv, MailOK

LEMMA RespondKeeps == ASSUME ListInv, NEW c \in Clients, respond(c) PROVE ListInv'
<1>1. PICK n \in Nat : n < taskCounter /\ Head(toClient[c]) = MSG(n)
  BY ReceivedIs DEF respond
<1>2. Head(toClient[c]).counter = n
  BY <1>1, Contents
<1>3. ANSWER(n + 1) \in Messages
  <2>1. n + 1 \in 0 .. MaxTasks
    BY <1>1, ClusterAssumption DEF ListInv, ClusterTypeOK
  <2>. QED
    BY <2>1, Contents
<1>4. Answerable(ANSWER(n + 1))
  BY <1>1 DEF Answerable
<1>. QED
  BY <1>2, <1>3, <1>4, TalkKeeps DEF respond

LEMMA PongKeeps == ASSUME ListInv, NEW c \in Clients, Pong(c) PROVE ListInv'
<1>1. Answerable(PING)
  BY Contents DEF Answerable
<1>. QED
  BY <1>1, TalkKeeps, Contents DEF Pong

LEMMA LeaveKeeps == ASSUME ListInv, NEW c \in Clients, Leave(c) PROVE ListInv'
<1>1. clientPc' \in [Clients -> {"off", "hello", "loop", "gone"}]
      /\ (\A d \in Clients : clientPc'[d] = "off" <=> clientPc[d] = "off")
      /\ (\A d \in Clients : Gone(d) => clientPc'[d] = "gone")
  BY DEF Leave, ListInv, ClusterTypeOK, Gone
<1>2. \A d \in Clients : /\ Within(toClient'[d], toClient[d], PING)
                         /\ Within(toServer'[d], toServer[d], HELLO)
  <2>1. TAKE d \in Clients
  <2>2. PICK q, r : q = toClient[d] /\ r = toServer[d] /\ q \in Seq(Messages) /\ r \in Seq(Messages)
    BY MailTypes DEF ListInv
  <2>3. Within(q, q, PING) /\ Within(<<>>, q, PING) /\ Within(r, r, HELLO)
    BY <2>2, QueueSteps, Contents
  <2>4. toServer'[d] = r /\ (toClient'[d] = q \/ toClient'[d] = <<>>)
    BY <2>2, MailTypes DEF ListInv, Leave
  <2>. QED
    BY <2>2, <2>3, <2>4
<1>3. /\ toClient' = [d \in Clients |-> toClient'[d]]
      /\ toServer' = [d \in Clients |-> toServer'[d]]
  BY MailTypes DEF ListInv, Leave
<1>4. Sendable(PING)' /\ Answerable(HELLO)'
  BY Contents DEF Sendable, Answerable
<1>5. taskCounter' = taskCounter /\ printed' = printed
  BY DEF Leave, cmdVars
<1>6. \A d \in Clients : clientPc'[d] = "off" =>
         clientPc[d] = "off" /\ toServer'[d] = toServer[d]
  BY <1>1 DEF Leave
<1>7. /\ MailOK'
      /\ toClient' \in [Clients -> Seq(Messages)]
      /\ toServer' \in [Clients -> Seq(Messages)]
  <2>1. printed' \subseteq 1 .. taskCounter'
    BY <1>5 DEF ListInv, MailOK
  <2>. QED
    BY <1>2, <1>3, <1>4, <1>5, <1>6, <2>1, MailStays, Contents DEF ListInv
<1>. QED
  BY <1>1, <1>7, ClientStep DEF Leave
\* A client that has left is started again, or one that has not been started yet.
LEMMA ConnectCounts ==
    ASSUME ListInv, NEW c \in Clients, Connect(c)
    PROVE  /\ Cardinality(Started') <= starts' /\ starts' \in Nat
           /\ SomeoneLeft => SomeoneLeft'
<1>1. /\ starts \in Nat /\ Cardinality(Started) <= starts /\ starts' = starts + 1
      /\ IsFiniteSet(Started) /\ Cardinality(Started) \in Nat
      /\ clientPc' = [clientPc EXCEPT ![c] = "hello"]
      /\ clientPc \in [Clients -> {"off", "hello", "loop", "gone"}]
  BY OpenIsFinite DEF ListInv, ConnectionsOK, Connect, ClusterTypeOK
<1>2. Started' = Started \cup {c}
  BY <1>1 DEF Started
<1>3. Cardinality(Started') = IF c \in Started THEN Cardinality(Started)
                              ELSE Cardinality(Started) + 1
  <2>1. PICK S : S = Started /\ IsFiniteSet(S)
    BY <1>1
  <2>2. Cardinality(S \cup {c}) = IF c \in S THEN Cardinality(S) ELSE Cardinality(S) + 1
    BY <2>1, FS_AddElement
  <2>. QED
    BY <1>2, <2>1, <2>2
<1>4. SomeoneLeft => SomeoneLeft'
  <2>1. CASE clientPc[c] = "gone"
    <3>1. c \in Started
      BY <2>1 DEF Started
    <3>2. starts' > Cardinality(Started')
      BY <1>1, <1>3, <3>1
    <3>. QED
      BY <3>2 DEF SomeoneLeft, Started
  <2>2. CASE clientPc[c] # "gone"
    <3>1. \A d \in Clients : Gone(d) => Gone(d)'
      BY <1>1, <2>2 DEF Gone
    <3>2. starts > Cardinality(Started) => starts' > Cardinality(Started')
      BY <1>1, <1>3
    <3>. QED
      BY <3>1, <3>2 DEF SomeoneLeft, Started
  <2>. QED
    BY <2>1, <2>2
<1>. QED
  BY <1>1, <1>3, <1>4

LEMMA ConnectKeeps == ASSUME ListInv, NEW c \in Clients, Connect(c) PROVE ListInv'
<1>1. /\ UNCHANGED <<server, toClient, files, listVars, netpc, events, i, event, cmdVars, printed>>
      /\ clientPc' = [clientPc EXCEPT ![c] = "hello"]
      /\ clientPc \in [Clients -> {"off", "hello", "loop", "gone"}]
      /\ toServer' = [toServer EXCEPT ![c] = <<>>]
      /\ backlog' = [backlog EXCEPT ![Socket(c)] = Append(@, c)]
      /\ backlog \in [Sockets -> Seq(Clients)] /\ Socket(c) \in Sockets
      /\ FdsOf(c) = {} /\ c \notin ToSet(backlog[Socket(c)])
  BY DEF Connect, ListInv, ClusterTypeOK, Socket, Sockets
<1>2. Open' = Open /\ clientPc' \in [Clients -> {"off", "hello", "loop", "gone"}]
  BY <1>1 DEF Open
<1>3. EntriesMatchConnections' /\ ListIsRightBeforeTheFirstLeaves'
  BY <1>1, ConnectCounts, ListStays
<1>4. ready' \in Seq(Sockets \cup Open)
  <2>1. {Socket(c)} \subseteq Sockets \cup Open /\ IsFiniteSet({Socket(c)})
    BY <1>1, FS_Singleton
  <2>. QED
    BY <2>1, WakeAdds DEF ListInv, ConnectionsOK, Connect
<1>5. \A d \in Clients : \A s \in Sockets : Waits(d, s) => Waits(d, s)'
  BY <1>1, <1>2, Types DEF Waits, ListInv
<1>6. Waits(c, Socket(c))'
  BY <1>1, <1>2 DEF Waits, FdsOf, Open
<1>7. ASSUME NEW s \in Sockets
      PROVE  \A e \in 1 .. Len(backlog'[s]) :
                /\ Waits(backlog[s][e], s)' /\ backlog'[s][e] \in Clients
                /\ \A e2 \in 1 .. Len(backlog'[s]) : backlog'[s][e] = backlog'[s][e2] => e = e2
  <2>1. PICK q : q = backlog[s] /\ q \in Seq(Clients)
    BY <1>1
  <2>2. \A e \in 1 .. Len(q) :
           /\ q[e] \in Clients /\ Waits(q[e], s)'
           /\ \A e2 \in 1 .. Len(q) : q[e] = q[e2] => e = e2
    BY <1>5, <2>1 DEF ListInv, ConnectionsOK
  <2>3. CASE s # Socket(c)
    BY <1>1, <2>1, <2>2, <2>3
  <2>4. CASE s = Socket(c)
    <3>1. backlog'[s] = Append(q, c) /\ Len(Append(q, c)) = Len(q) + 1
      BY <1>1, <2>1, <2>4
    <3>2. \A e \in 1 .. Len(q) + 1 : \/ e \in 1 .. Len(q) /\ Append(q, c)[e] = q[e]
                                     \/ e = Len(q) + 1 /\ Append(q, c)[e] = c
      BY <2>1
    <3>3. \A e \in 1 .. Len(q) : q[e] # c
      BY <1>1, <2>1, <2>4 DEF ToSet
    <3>. QED
      BY <1>6, <2>2, <2>4, <3>1, <3>2, <3>3
  <2>. QED
    BY <2>3, <2>4
<1>8. ConnectionsOK'
  <2>1. /\ \A fd \in Open' : clientPc'[files'[fd]] # "off"
        /\ \A fd, fd2 \in Open' : files'[fd] = files'[fd2] => fd = fd2
    BY <1>1, <1>2, Types DEF ListInv, ConnectionsOK
  <2>. QED
    BY <1>2, <1>4, <1>7, <2>1, ConnectCounts DEF ConnectionsOK
<1>9. NothingHungUp'
  BY <1>1, <1>2, ConnectCounts DEF ListInv, NothingHungUp
<1>10. \A d \in Clients : /\ Within(toClient'[d], toClient[d], PING)
                          /\ Within(toServer'[d], toServer[d], HELLO)
  <2>1. TAKE d \in Clients
  <2>2. PICK q, r : q = toClient[d] /\ r = toServer[d] /\ q \in Seq(Messages) /\ r \in Seq(Messages)
    BY MailTypes DEF ListInv
  <2>3. Within(q, q, PING) /\ Within(<<>>, r, HELLO) /\ Within(r, r, HELLO)
    BY <2>2, QueueSteps, Contents
  <2>4. toClient'[d] = q /\ (toServer'[d] = r \/ toServer'[d] = <<>>)
    BY <1>1, <2>2, MailTypes DEF ListInv
  <2>. QED
    BY <2>2, <2>3, <2>4
<1>11. /\ toClient' = [d \in Clients |-> toClient'[d]]
       /\ toServer' = [d \in Clients |-> toServer'[d]]
  BY <1>1, MailTypes DEF ListInv
<1>12. Sendable(PING)' /\ Answerable(HELLO)'
  BY Contents DEF Sendable, Answerable
<1>13. \A d \in Clients : clientPc'[d] = "off" =>
          clientPc[d] = "off" /\ toServer'[d] = toServer[d]
  BY <1>1, MailTypes DEF ListInv
<1>14. /\ MailOK'
       /\ toClient' \in [Clients -> Seq(Messages)]
       /\ toServer' \in [Clients -> Seq(Messages)]
  <2>1. printed' \subseteq 1 .. taskCounter' /\ taskCounter' = taskCounter
    BY <1>1 DEF ListInv, MailOK, cmdVars
  <2>. QED
    BY <1>10, <1>11, <1>12, <1>13, <2>1, MailStays, Contents DEF ListInv
<1>15. ClusterTypeOK'
  <2>1. Sockets \cup Open \subseteq Sockets \cup Fds
    BY DEF Open
  <2>2. ready' \in Seq(Sockets \cup Fds)
    BY <1>4, <2>1, LongerIsSeq
  <2>3. backlog' \in [Sockets -> Seq(Clients)]
    BY <1>1
  <2>. QED
    BY <1>1, <1>2, <1>14, <2>2, <2>3 DEF ListInv, ClusterTypeOK, listVars, cmdVars
<1>16. ThreadsOK'
  BY <1>1 DEF ListInv, ThreadsOK, cmdVars
<1>. QED
  BY <1>3, <1>8, <1>9, <1>14, <1>15, <1>16 DEF ListInv
\* The steps of the network thread that change neither connections nor mail.
LEMMA NetworkStep ==
    ASSUME ListInv, UNCHANGED <<server, netOthers, backlog, files, listVars, printed>>,
           ready' \in Seq(Sockets \cup Open), netpc' \in {"event", "accept", "receive"},
           events' \in Seq([fd : Sockets \cup Fds, hup : BOOLEAN]), i' \in Nat,
           ThreadsOK', NothingHungUp'
    PROVE  ListInv'
<1>1. SomeoneLeft' = SomeoneLeft /\ clientPc' = clientPc /\ starts' = starts
  BY LeftIsSame DEF netOthers, clientsVars
<1>2. EntriesMatchConnections' /\ ListIsRightBeforeTheFirstLeaves'
  BY <1>1, ListStays
<1>3. ConnectionsOK'
  BY <1>1, ConnectionsStay
<1>4. MailOK'
  BY DEF ListInv, MailOK, netOthers, clientsVars, cmdVars
<1>5. Sockets \cup Open \subseteq Sockets \cup Fds
  BY DEF Open
<1>6. ready' \in Seq(Sockets \cup Fds)
  BY <1>5, LongerIsSeq
<1>7. ClusterTypeOK'
  BY <1>6 DEF ListInv, ClusterTypeOK, netOthers, clientsVars, cmdVars, listVars
<1>. QED
  BY <1>2, <1>3, <1>4, <1>7 DEF ListInv

LEMMA NextEventGoesOn ==
    ASSUME ListInv, NextEvent
    PROVE  /\ netpc' = "event" /\ i' \in Nat
           /\ events' \in Seq([fd : Sockets \cup Fds, hup : BOOLEAN])
           /\ events' = events \/ events' = <<>>
           /\ i' = 0 \/ i' < Len(events')
           /\ events' # <<>> => i' < Len(events')
<1>1. PICK Reported : Reported = [fd : Sockets \cup Fds, hup : BOOLEAN]
  OBVIOUS
<1>2. i \in Nat /\ events \in Seq(Reported) /\ Len(events) \in Nat
  BY <1>1 DEF ListInv, ClusterTypeOK
<1>3. CASE i + 1 < Len(events)
  BY <1>1, <1>2, <1>3 DEF NextEvent
<1>4. CASE ~(i + 1 < Len(events))
  <2>1. i' = 0 /\ events' = <<>> /\ netpc' = "event"
    BY <1>4 DEF NextEvent
  <2>2. <<>> \in Seq(Reported)
    OBVIOUS
  <2>. QED
    BY <1>1, <2>1, <2>2
<1>. QED
  BY <1>3, <1>4

LEMMA NextEventKeeps ==
    ASSUME ListInv, NextEvent, UNCHANGED <<cmdVars, files, clientPc, starts>>
    PROVE  ThreadsOK' /\ NothingHungUp'
<1>1. ThreadsOK'
  BY NextEventGoesOn DEF ThreadsOK, ListInv, cmdVars
<1>2. SomeoneLeft' = SomeoneLeft /\ Open' = Open
  BY LeftIsSame DEF Open
<1>3. NothingHungUp'
  BY <1>2, NextEventGoesOn DEF NothingHungUp, ListInv
<1>. QED
  BY <1>1, <1>3

LEMMA AcceptNoMoreKeeps == ASSUME ListInv, AcceptNoMore PROVE ListInv'
BY NextEventKeeps, NextEventGoesOn, NetworkStep
   DEF AcceptNoMore, netOthers, clientsVars, ListInv, ConnectionsOK

LEMMA ReceiveNothingKeeps == ASSUME ListInv, ReceiveNothing PROVE ListInv'
BY NextEventKeeps, NextEventGoesOn, NetworkStep
   DEF ReceiveNothing, netOthers, clientsVars, ListInv, ConnectionsOK

LEMMA HandleKeeps == ASSUME ListInv, Handle PROVE ListInv'
<1>1. i \in Nat /\ i < Len(events) /\ events \in Seq([fd : Sockets \cup Fds, hup : BOOLEAN])
  BY DEF ListInv, ClusterTypeOK, ThreadsOK, Handle, Handling
<1>2. i + 1 \in 1 .. Len(events) /\ event' = events[i + 1]
  BY <1>1 DEF Handle
<1>3. event'.fd \in Sockets \cup Fds
  <2>1. PICK Reported : Reported = [fd : Sockets \cup Fds, hup : BOOLEAN]
    OBVIOUS
  <2>2. events \in Seq(Reported)
    BY <1>1, <2>1
  <2>3. event' \in Reported
    BY <1>2, <2>2, ElementOf
  <2>. QED
    BY <2>1, <2>3
<1>4. UNCHANGED <<server, netOthers, backlog, ready, events, i, files, listVars, printed>>
      /\ netpc' = IF event'.fd \in Sockets THEN "accept" ELSE "receive"
  BY DEF Handle
<1>5. ThreadsOK'
  BY <1>3, <1>4 DEF ThreadsOK, ListInv, netOthers, cmdVars
<1>6. SomeoneLeft' = SomeoneLeft /\ Open' = Open
  BY <1>4, LeftIsSame DEF netOthers, clientsVars, Open
<1>7. NothingHungUp'
  BY <1>2, <1>4, <1>6 DEF NothingHungUp, ListInv
<1>. QED
  BY <1>1, <1>4, <1>5, <1>7, NetworkStep DEF ListInv, ConnectionsOK

LEMMA EpollKeeps == ASSUME ListInv, epoll_wait PROVE ListInv'
<1>1. PICK found : found = OnlyOf(ready, {x \in ToSet(ready) : Reports(x)})
  OBVIOUS
<1>2. ready \in Seq(Sockets \cup Open)
  BY DEF ListInv, ConnectionsOK
<1>3. found \in Seq({x \in ToSet(ready) : Reports(x)} \cap (Sockets \cup Open))
  BY <1>1, <1>2, OnlyOfKeeps
<1>4. found \in Seq(Sockets \cup Open) /\ found # <<>>
  BY <1>1, <1>3, LongerIsSeq DEF epoll_wait
<1>5. PICK hups \in HangUps(ToSet(found)) :
         events' = [k \in DOMAIN found |-> [fd |-> found[k], hup |-> found[k] \in hups]]
  BY <1>1 DEF epoll_wait
<1>6. DOMAIN found = 1 .. Len(found) /\ Len(found) \in Nat /\ Len(found) > 0
      /\ \A e \in 1 .. Len(found) : found[e] \in Sockets \cup Open /\ found[e] \in Sockets \cup Fds
  BY <1>4 DEF Open
<1>7. /\ events' \in Seq([fd : Sockets \cup Fds, hup : BOOLEAN]) /\ Len(events') = Len(found)
      /\ \A e \in 1 .. Len(found) : events'[e] = [fd |-> found[e], hup |-> found[e] \in hups]
  <2>1. PICK r : r = [k \in 1 .. Len(found) |-> [fd |-> found[k], hup |-> found[k] \in hups]]
    OBVIOUS
  <2>2. r \in [1 .. Len(found) -> [fd : Sockets \cup Fds, hup : BOOLEAN]]
    BY <1>6, <2>1
  <2>3. r \in Seq([fd : Sockets \cup Fds, hup : BOOLEAN]) /\ Len(r) = Len(found)
    BY <1>6, <2>2, ArrayIsSequence
  <2>4. events' = r
    BY <1>5, <1>6, <2>1
  <2>. QED
    BY <2>1, <2>3, <2>4
<1>8. ready' \in Seq(Sockets \cup Open)
  <2>1. ready' = OnlyOf(found, Sockets)
    BY <1>1 DEF epoll_wait
  <2>2. OnlyOf(found, Sockets) \in Seq(Sockets \cap (Sockets \cup Open))
    BY <1>4, OnlyOfKeeps
  <2>. QED
    BY <2>1, <2>2, LongerIsSeq
<1>9. UNCHANGED <<server, netOthers, backlog, netpc, event, i, files, listVars, printed>>
      /\ netpc = "event" /\ events = <<>>
  BY DEF epoll_wait
<1>10. ThreadsOK'
  <2>1. i \in Nat /\ (i = 0 \/ i < Len(events)) /\ Len(events) = 0
    BY <1>9 DEF ListInv, ClusterTypeOK, ThreadsOK
  <2>2. i' = 0 /\ netpc' = "event" /\ 0 < Len(events')
    BY <1>6, <1>7, <1>9, <2>1
  <2>3. UNCHANGED cmdVars
    BY <1>9 DEF netOthers
  <2>. QED
    BY <2>2, <2>3 DEF ThreadsOK, ListInv, cmdVars
<1>11. SomeoneLeft' = SomeoneLeft /\ Open' = Open
  BY <1>9, LeftIsSame DEF netOthers, clientsVars, Open
<1>12. ~SomeoneLeft => hups = {}
  <2>1. \A x \in hups : Left(x) /\ x \in ToSet(found)
    BY DEF HangUps
  <2>2. \A x \in ToSet(found) : x \in Sockets \cup Open
    BY <1>6 DEF ToSet
  <2>3. \A x \in Open : Left(x) => SomeoneLeft
    BY Types DEF Left, SomeoneLeft, ListInv
  <2>. QED
    BY <2>1, <2>2, <2>3, Descriptors DEF Left
<1>13. NothingHungUp'
  <2>1. \A e \in 1 .. Len(found) : /\ events'[e].fd = found[e]
                                   /\ events'[e].hup = (found[e] \in hups)
    <3>1. TAKE e \in 1 .. Len(found)
    <3>2. PICK x, b : x = found[e] /\ b = (found[e] \in hups)
      OBVIOUS
    <3>3. events'[e] = [fd |-> x, hup |-> b]
      BY <1>7, <3>2
    <3>. QED
      BY <3>2, <3>3
  <2>2. ~SomeoneLeft => \A e \in 1 .. Len(events') : /\ ~events'[e].hup
                                                     /\ events'[e].fd \in Sockets \cup Open
    BY <1>6, <1>7, <1>12, <2>1
  <2>3. netpc' = "event"
    BY <1>9
  <2>. QED
    BY <1>11, <2>2, <2>3 DEF NothingHungUp
<1>14. netpc' \in {"event", "accept", "receive"} /\ i' \in Nat
  BY <1>9 DEF ListInv, ClusterTypeOK
<1>. QED
  BY <1>7, <1>8, <1>9, <1>10, <1>13, <1>14, NetworkStep
LEMMA FirstIs ==
    ASSUME ListInv, NEW fd, Entries(fd) # {}
    PROVE  /\ FirstEntry(fd) \in Entries(fd) /\ FirstEntry(fd) \in Active
           /\ clientFdsSize \in Nat /\ FirstEntry(fd) \in Nat /\ FirstEntry(fd) <= clientFdsSize
           /\ clientFds[FirstEntry(fd)] = fd
<1>1. Entries(fd) \subseteq Nat
  BY Types DEF ListInv, Entries, Active
<1>2. PICK x \in Entries(fd) : \A y \in Entries(fd) : x <= y
  BY <1>1, LeastNumber
<1>3. FirstEntry(fd) \in Entries(fd)
  BY <1>2 DEF FirstEntry
<1>. QED
  BY <1>3, Types DEF ListInv, Entries, Active

LEMMA ArrivedKeeps ==
    ASSUME ListInv, NEW type, Arrived(type), i' \in Nat, printed' \subseteq 1 .. taskCounter
    PROVE  ListInv'
<1>1. /\ UNCHANGED <<server, clientPc, starts, toClient, cmdVars, backlog, ready, netpc, events,
                     event, files, listVars>>
      /\ taskCounter' = taskCounter
  BY DEF Arrived, cmdVars
<1>2. PICK c \in Clients : /\ toServer[c] # <<>>
                           /\ toServer' = [toServer EXCEPT ![c] = Tail(@)]
  BY Types DEF Arrived, BadFile, ListInv
<1>3. \A d \in Clients : /\ Within(toClient'[d], toClient[d], PING)
                         /\ Within(toServer'[d], toServer[d], HELLO)
  <2>1. TAKE d \in Clients
  <2>2. PICK q, r : q = toClient[d] /\ r = toServer[d] /\ q \in Seq(Messages) /\ r \in Seq(Messages)
    BY MailTypes DEF ListInv
  <2>3. /\ Within(q, q, PING) /\ Within(r, r, HELLO)
        /\ r # <<>> => Within(Tail(r), r, HELLO)
    BY <2>2, QueueSteps, Contents
  <2>4. toClient'[d] = q /\ (toServer'[d] = r \/ (r # <<>> /\ toServer'[d] = Tail(r)))
    BY <1>1, <1>2, <2>2, MailTypes DEF ListInv
  <2>. QED
    BY <2>2, <2>3, <2>4
<1>4. /\ toClient' = [d \in Clients |-> toClient'[d]]
      /\ toServer' = [d \in Clients |-> toServer'[d]]
  BY <1>1, <1>2, MailTypes DEF ListInv
<1>5. Sendable(PING)' /\ Answerable(HELLO)'
  BY Contents DEF Sendable, Answerable
<1>6. \A d \in Clients : clientPc'[d] = "off" =>
         clientPc[d] = "off" /\ toServer'[d] = toServer[d]
  BY <1>1, <1>2, MailTypes DEF ListInv, MailOK
<1>7. /\ MailOK'
      /\ toClient' \in [Clients -> Seq(Messages)]
      /\ toServer' \in [Clients -> Seq(Messages)]
  BY <1>1, <1>3, <1>4, <1>5, <1>6, MailStays, Contents DEF ListInv
<1>8. SomeoneLeft' = SomeoneLeft /\ Open' = Open
  BY <1>1, LeftIsSame DEF Open
<1>9. EntriesMatchConnections' /\ ListIsRightBeforeTheFirstLeaves'
  BY <1>1, <1>8, ListStays
<1>10. ConnectionsOK'
  <2>1. ready' \in Seq(Sockets \cup Open)
    BY <1>1 DEF ListInv, ConnectionsOK
  <2>. QED
    BY <1>1, <2>1, ConnectionsStay
<1>11. NothingHungUp'
  BY <1>1, <1>8 DEF NothingHungUp, ListInv
<1>12. ClusterTypeOK'
  <2>1. printed' \subseteq 1 .. MaxTasks
    BY ClusterAssumption DEF ListInv, ClusterTypeOK
  <2>. QED
    BY <1>1, <1>7, <2>1 DEF ListInv, ClusterTypeOK, listVars, cmdVars
<1>13. ThreadsOK'
  BY <1>1 DEF ListInv, ThreadsOK, cmdVars, Arrived, Receiving
<1>. QED
  BY <1>7, <1>9, <1>10, <1>11, <1>12, <1>13 DEF ListInv

LEMMA ReceiveHelloKeeps == ASSUME ListInv, ReceiveHello PROVE ListInv'
BY ArrivedKeeps DEF ReceiveHello, ListInv, ClusterTypeOK, MailOK

LEMMA ReceivePingKeeps == ASSUME ListInv, ReceivePing PROVE ListInv'
<1>1. i' \in Nat
  <2>1. clientFdsSize + 1 \in Nat
    BY ClusterAssumption DEF ListInv, ClusterTypeOK
  <2>. QED
    BY <2>1, FirstIs DEF ReceivePing
<1>. QED
  BY <1>1, ArrivedKeeps DEF ReceivePing, ListInv, MailOK

\* The answer that arrives is to a task that was given.
LEMMA AnswerIs ==
    ASSUME ListInv, Arrived("ANSWER")
    PROVE  \E c \in Clients, n \in Nat :
              /\ c = files[event.fd] /\ n < taskCounter /\ toServer[c] # <<>>
              /\ Head(toServer[c]) = ANSWER(n + 1) /\ toServer[c][1] = ANSWER(n + 1)
              /\ Head(toServer[files[event.fd]]).counter = n + 1
<1>1. PICK c \in Clients : c = files[event.fd] /\ toServer[c] # <<>>
                          /\ Head(toServer[c]).type = "ANSWER"
  BY Types DEF Arrived, BadFile, ListInv
<1>2. toServer[c] \in Seq(Messages)
  BY MailTypes DEF ListInv
<1>3. 1 \in 1 .. Len(toServer[c]) /\ Head(toServer[c]) = toServer[c][1]
  BY <1>1, <1>2
<1>4. PICK n \in Nat : n < taskCounter /\ Head(toServer[c]) = ANSWER(n + 1)
  BY <1>1, <1>3 DEF ListInv, MailOK
<1>5. ANSWER(n + 1).counter = n + 1
  BY Contents
<1>. QED
  BY <1>1, <1>3, <1>4, <1>5

LEMMA ReceiveAnswerKeeps == ASSUME ListInv, ReceiveAnswer PROVE ListInv'
<1>1. PICK n \in Nat : n < taskCounter /\ Head(toServer[files[event.fd]]).counter = n + 1
  BY AnswerIs DEF ReceiveAnswer
<1>2. printed' \subseteq 1 .. taskCounter
  <2>1. n + 1 \in 1 .. taskCounter
    BY <1>1, MailTypes DEF ListInv
  <2>2. printed \subseteq 1 .. taskCounter /\ printed' = printed \cup {n + 1}
    BY <1>1 DEF ReceiveAnswer, ListInv, MailOK
  <2>. QED
    BY <2>1, <2>2
<1>3. i' \in Nat
  BY DEF ReceiveAnswer, ListInv, ClusterTypeOK
<1>. QED
  BY <1>2, <1>3, ArrivedKeeps DEF ReceiveAnswer
\* A connection is closed only after a client has left.
LEMMA ClosesLeft ==
    ASSUME ListInv
    PROVE  HangUp \/ ReceiveEnd => SomeoneLeft
<1>1. ASSUME HangUp PROVE SomeoneLeft
  <2>1. i \in Nat /\ i < Len(events) /\ Len(events) \in Nat
    BY <1>1 DEF ListInv, ClusterTypeOK, ThreadsOK, HangUp, Handling
  <2>2. i + 1 \in 1 .. Len(events) /\ events[i + 1].hup
    BY <1>1, <2>1 DEF HangUp
  <2>. QED
    BY <2>2 DEF ListInv, NothingHungUp
<1>2. ASSUME ReceiveEnd PROVE SomeoneLeft
  BY <1>2, Types DEF ReceiveEnd, Receiving, BadFile, ListInv, NothingHungUp, SomeoneLeft
<1>. QED
  BY <1>1, <1>2

LEMMA CloseKeeps ==
    ASSUME ListInv, SomeoneLeft, server = "alive", NEW fd, close_client(fd)
    PROVE  ListInv'
<1>1. CASE CloseFails(fd)
  BY <1>1, DieKeeps DEF close_client
<1>2. CASE ~CloseFails(fd) /\ Entries(fd) = {}
  <2>1. UNCHANGED <<files, listVars, ready>> /\ NextEvent
        /\ UNCHANGED <<server, netOthers, backlog, printed>>
    BY <1>2 DEF close_client, Unlist
  <2>2. ready' \in Seq(Sockets \cup Open)
    BY <2>1 DEF ListInv, ConnectionsOK
  <2>3. ThreadsOK' /\ NothingHungUp'
    BY <2>1, NextEventKeeps DEF netOthers, clientsVars
  <2>. QED
    BY <2>1, <2>2, <2>3, NextEventGoesOn, NetworkStep
<1>3. CASE ~CloseFails(fd) /\ Entries(fd) # {}
  <2>1. /\ clientFdsSize' = clientFdsSize - 1
        /\ clientFds' = [k \in Index |->
               IF FirstEntry(fd) <= k /\ k < clientFdsSize - 1
               THEN clientFds[k + 1] ELSE clientFds[k]]
        /\ files' = [files EXCEPT ![fd] = ClosedFd]
        /\ ready' = OnlyOf(ready, ToSet(ready) \ {fd})
        /\ NextEvent
        /\ UNCHANGED <<server, netOthers, backlog, printed>>
    BY <1>3 DEF close_client, Unlist
  <2>2. fd \in Open /\ fd \in Fds /\ clientFdsSize \in Nat
    BY <1>3, Types, FirstIs DEF CloseFails, BadFile, ListInv
  <2>3. Open' = Open \ {fd}
    BY <2>1, <2>2 DEF Open, ListInv, ClusterTypeOK
  <2>4. Cardinality(Open') = Cardinality(Open) - 1
    <3>1. PICK S : S = Open /\ IsFiniteSet(S)
      BY OpenIsFinite
    <3>2. Cardinality(S \ {fd}) = Cardinality(S) - 1
      BY <2>2, <3>1, FS_RemoveElement
    <3>. QED
      BY <2>3, <3>1, <3>2
  <2>5. EntriesMatchConnections'
    BY <2>1, <2>2, <2>4, OpenIsFinite DEF ListInv, EntriesMatchConnections
  <2>6. SomeoneLeft' /\ clientPc' = clientPc /\ starts' = starts /\ Started' = Started
    BY <2>1, LeftIsSame DEF netOthers, clientsVars
  <2>7. ready' \in Seq(Sockets \cup Open')
    <3>1. ready \in Seq(Sockets \cup Open)
      BY DEF ListInv, ConnectionsOK
    <3>2. ready' \in Seq((ToSet(ready) \ {fd}) \cap (Sockets \cup Open))
      BY <2>1, <3>1, OnlyOfKeeps
    <3>3. (ToSet(ready) \ {fd}) \cap (Sockets \cup Open) \subseteq Sockets \cup Open'
      BY <2>3
    <3>. QED
      BY <3>2, <3>3, LongerIsSeq
  <2>8. ConnectionsOK'
    <3>1. \A fd2 \in Open' : fd2 \in Open /\ files'[fd2] = files[fd2] /\ files[fd2] \in Clients
      BY <2>1, <2>3, Types DEF ListInv, ClusterTypeOK
    <3>2. \A d \in Clients : \A s \in Sockets : Waits(d, s) => Waits(d, s)'
      BY <2>6, <3>1 DEF Waits
    <3>3. \A s \in Sockets : \A e \in 1 .. Len(backlog'[s]) :
             /\ Waits(backlog[s][e], s)' /\ backlog'[s] = backlog[s]
             /\ \A e2 \in 1 .. Len(backlog'[s]) : backlog'[s][e] = backlog'[s][e2] => e = e2
      BY <2>1, <3>2, Types DEF ListInv, ConnectionsOK
    <3>4. /\ \A fd2 \in Open' : clientPc'[files'[fd2]] # "off"
          /\ \A fd2, fd3 \in Open' : files'[fd2] = files'[fd3] => fd2 = fd3
      BY <2>6, <3>1 DEF ListInv, ConnectionsOK
    <3>. QED
      BY <2>6, <2>7, <3>3, <3>4 DEF ListInv, ConnectionsOK
  <2>9. NothingHungUp' /\ ListIsRightBeforeTheFirstLeaves'
    BY <2>6 DEF NothingHungUp, ListIsRightBeforeTheFirstLeaves
  <2>10. MailOK'
    BY <2>1 DEF ListInv, MailOK, netOthers, clientsVars, cmdVars
  <2>11. ThreadsOK'
    BY <2>1, NextEventGoesOn DEF ThreadsOK, ListInv, netOthers, cmdVars
  <2>12. ClusterTypeOK'
    <3>1. Sockets \cup Open' \subseteq Sockets \cup Fds
      BY <2>3 DEF Open
    <3>2. ready' \in Seq(Sockets \cup Fds)
      BY <2>7, <3>1, LongerIsSeq
    <3>3. files' \in [Fds -> Clients \cup {ClosedFd}]
      BY <2>1 DEF ListInv, ClusterTypeOK
    <3>4. clientFds' \in [Index -> Fds \cup {-1}]
      BY <2>1, <2>2, ClusterAssumption DEF ListInv, ClusterTypeOK, Index
    <3>5. clientFdsSize' \in -1 .. MAXCLIENTS
      BY <2>1, <2>2, ClusterAssumption DEF ListInv, ClusterTypeOK
    <3>6. netpc' = "event" /\ i' \in Nat /\ events' \in Seq([fd : Sockets \cup Fds, hup : BOOLEAN])
      BY <2>1, NextEventGoesOn
    <3>. QED
      BY <2>1, <3>2, <3>3, <3>4, <3>5, <3>6
         DEF ListInv, ClusterTypeOK, netOthers, clientsVars, cmdVars
  <2>. QED
    BY <2>5, <2>8, <2>9, <2>10, <2>11, <2>12 DEF ListInv
<1>. QED
  BY <1>1, <1>2, <1>3

LEMMA HangUpKeeps == ASSUME ListInv, HangUp PROVE ListInv'
BY ClosesLeft, CloseKeeps DEF HangUp, Handling

LEMMA ReceiveEndKeeps == ASSUME ListInv, ReceiveEnd PROVE ListInv'
BY ClosesLeft, CloseKeeps DEF ReceiveEnd, Receiving
\* A client that is to be accepted has no descriptor yet, so one is free.
LEMMA FreeIs ==
    ASSUME ListInv, NEW s \in Sockets, backlog[s] # <<>>
    PROVE  LowestFree \in Fds /\ LowestFree \notin Open
<1>1. PICK c \in Clients : c = backlog[s][1] /\ Waits(c, s)
  <2>1. backlog[s] \in Seq(Clients)
    BY DEF ListInv, ClusterTypeOK
  <2>2. 1 \in 1 .. Len(backlog[s])
    BY <2>1
  <2>. QED
    BY <2>2, Types DEF ListInv, ConnectionsOK
<1>2. PICK g : g = [fd \in Open |-> files[fd]]
  OBVIOUS
<1>3. g \in Injection(Open, Clients \ {c})
  <2>1. g \in [Open -> Clients \ {c}]
    BY <1>1, <1>2, Types DEF Waits, ListInv
  <2>2. \A fd, fd2 \in Open : g[fd] = g[fd2] => fd = fd2
    BY <1>2 DEF ListInv, ConnectionsOK
  <2>. QED
    BY <2>1, <2>2 DEF Injection, IsInjective
<1>4. PICK S : S = Open /\ g \in Injection(S, Clients \ {c})
  BY <1>3
<1>5. IsFiniteSet(Clients \ {c}) /\ Cardinality(Clients \ {c}) = Cardinality(Clients) - 1
  BY <1>1, ClusterAssumption, FS_RemoveElement
<1>6. Cardinality(S) <= Cardinality(Clients \ {c})
  BY <1>4, <1>5, FS_Injection
<1>7. Open # Fds
  BY <1>4, <1>5, <1>6, Descriptors
<1>8. PICK free : free = Fds \ Open
  OBVIOUS
<1>9. free \subseteq Nat /\ free # {}
  BY <1>7, <1>8, Descriptors DEF Open
<1>10. PICK x \in free : \A y \in free : x <= y
  BY <1>9, LeastNumber
<1>11. x \in Fds /\ files[x] = ClosedFd /\ \A lower \in Fds : files[lower] = ClosedFd =>
          x <= lower
  BY <1>8, <1>10 DEF Open
<1>12. LowestFree \in Fds /\ files[LowestFree] = ClosedFd
  BY <1>11 DEF LowestFree
<1>. QED
  BY <1>12 DEF Open

LEMMA AcceptKeeps == ASSUME ListInv, Accept PROVE ListInv'
<1>1. CASE clientFdsSize >= MAXCLIENTS
  BY <1>1, DieKeeps DEF Accept
<1>2. CASE ~(clientFdsSize >= MAXCLIENTS)
  <2>1. PICK s \in Sockets : s = event.fd /\ backlog[s] # <<>>
    BY DEF Accept, Accepting, ListInv, ThreadsOK
  <2>2. PICK fd \in Fds : fd = LowestFree /\ fd \notin Open
    BY <2>1, FreeIs
  <2>3. PICK q, c : /\ q = backlog[s]
                    /\ q \in Seq(Clients)
                    /\ q # <<>>
                    /\ c = Head(q)
                    /\ c = q[1]
                    /\ c \in Clients /\ 1 \in 1 .. Len(q) /\ Len(q) \in Nat
    <3>1. PICK q : q = backlog[s] /\ q \in Seq(Clients)
      BY DEF ListInv, ClusterTypeOK
    <3>2. q # <<>>
      BY <2>1, <3>1
    <3>. QED
      BY <3>1, <3>2
  <2>4. /\ backlog' = [backlog EXCEPT ![s] = Tail(@)]
        /\ files' = [files EXCEPT ![fd] = c]
        /\ Wake({x \in {fd} : toServer[c] # <<>> \/ Gone(c)})
        /\ clientFdsSize' = clientFdsSize + 1
        /\ clientFds' = [k \in Index |-> IF k = clientFdsSize + 1 THEN fd ELSE clientFds[k]]
        /\ UNCHANGED <<server, netOthers, netpc, events, i, event, printed>>
    BY <1>2, <2>1, <2>2, <2>3 DEF Accept, add_client
  <2>5. Open' = Open \cup {fd} /\ files' \in [Fds -> Clients \cup {ClosedFd}]
    BY <2>2, <2>3, <2>4, ClusterAssumption DEF Open, ListInv, ClusterTypeOK
  <2>6. Cardinality(Open') = Cardinality(Open) + 1
    <3>1. PICK S : S = Open /\ IsFiniteSet(S)
      BY OpenIsFinite
    <3>2. Cardinality(S \cup {fd}) = Cardinality(S) + 1
      BY <2>2, <3>1, FS_AddElement
    <3>. QED
      BY <2>5, <3>1, <3>2
  <2>7. EntriesMatchConnections'
    BY <2>4, <2>6, OpenIsFinite, Types DEF ListInv, EntriesMatchConnections
  <2>8. /\ SomeoneLeft' = SomeoneLeft
        /\ clientPc' = clientPc
        /\ starts' = starts
        /\ Started' = Started
    BY <2>4, LeftIsSame DEF netOthers, clientsVars
  <2>9. ready' \in Seq(Sockets \cup Open')
    <3>1. ready \in Seq(Sockets \cup Open) /\ Sockets \cup Open \subseteq Sockets \cup Open'
      BY <2>5 DEF ListInv, ConnectionsOK
    <3>2. ready \in Seq(Sockets \cup Open')
      BY <3>1, LongerIsSeq
    <3>3. PICK fds : fds = {x \in {fd} : toServer[c] # <<>> \/ Gone(c)}
      OBVIOUS
    <3>4. fds \subseteq Sockets \cup Open' /\ IsFiniteSet(fds) /\ Wake(fds)
      <4>1. fds \in SUBSET {fd} /\ Wake(fds)
        BY <2>4, <3>3
      <4>. QED
        BY <2>5, <4>1, FS_Singleton, FS_Subset
    <3>. QED
      BY <3>2, <3>4, WakeAdds
  <2>10. Waits(c, s)
    BY <2>1, <2>3 DEF ListInv, ConnectionsOK
  <2>11. \A d \in Clients : \A s2 \in Sockets : Waits(d, s2) /\ d # c => Waits(d, s2)'
    BY <2>4, <2>5, <2>8 DEF Waits, ListInv, ClusterTypeOK
  <2>12. ASSUME NEW s2 \in Sockets
         PROVE  \A e \in 1 .. Len(backlog'[s2]) :
                   /\ Waits(backlog[s2][e], s2)'
                   /\ \A e2 \in 1 .. Len(backlog'[s2]) :
                         backlog'[s2][e] = backlog'[s2][e2] => e = e2
    <3>1. PICK q2 : q2 = backlog[s2] /\ q2 \in Seq(Clients)
      BY DEF ListInv, ClusterTypeOK
    <3>2. \A e \in 1 .. Len(q2) : /\ q2[e] \in Clients /\ Waits(q2[e], s2)
                                  /\ \A e2 \in 1 .. Len(q2) : q2[e] = q2[e2] => e = e2
      BY <3>1 DEF ListInv, ConnectionsOK
    <3>3. CASE s2 # s
      <4>1. backlog'[s2] = q2
        BY <2>4, <3>1, <3>3 DEF ListInv, ClusterTypeOK
      <4>2. \A e \in 1 .. Len(q2) : q2[e] # c
        BY <2>10, <3>2, <3>3 DEF Waits
      <4>. QED
        BY <2>11, <3>2, <4>1, <4>2
    <3>4. CASE s2 = s
      <4>1. backlog'[s2] = Tail(q) /\ q2 = q
        BY <2>3, <2>4, <3>1, <3>4 DEF ListInv, ClusterTypeOK
      <4>2. Len(Tail(q)) = Len(q) - 1
        BY <2>3
      <4>3. \A e \in 1 .. Len(q) - 1 : Tail(q)[e] = q[e + 1] /\ e + 1 \in 1 .. Len(q)
        BY <2>3
      <4>4. \A e \in 1 .. Len(q) - 1 : q[e + 1] # c
        <5>1. TAKE e \in 1 .. Len(q) - 1
        <5>2. e + 1 \in 1 .. Len(q) /\ e + 1 # 1
          BY <2>3
        <5>. QED
          BY <2>3, <3>2, <4>1, <5>2
      <4>5. \A e \in 1 .. Len(q) - 1 : Waits(q[e + 1], s2)'
        BY <2>11, <3>2, <4>1, <4>3, <4>4
      <4>6. \A e, e2 \in 1 .. Len(q) - 1 : Tail(q)[e] = Tail(q)[e2] => e = e2
        <5>1. TAKE e, e2 \in 1 .. Len(q) - 1
        <5>2. HAVE Tail(q)[e] = Tail(q)[e2]
        <5>3. q[e + 1] = q[e2 + 1] /\ e + 1 \in 1 .. Len(q) /\ e2 + 1 \in 1 .. Len(q)
          BY <4>3, <5>2
        <5>4. e + 1 = e2 + 1
          BY <3>2, <4>1, <5>3
        <5>. QED
          BY <2>3, <5>4
      <4>. QED
        BY <4>1, <4>2, <4>3, <4>5, <4>6
    <3>. QED
      BY <3>3, <3>4
  <2>13. ConnectionsOK'
    <3>1. \A x \in Open' : \/ x = fd /\ files'[x] = c
                           \/ x \in Open /\ files'[x] = files[x] /\ files[x] \in Clients
      BY <2>2, <2>4, <2>5, Types DEF ListInv, ClusterTypeOK
    <3>2. clientPc[c] # "off" /\ \A x \in Open : files[x] # c
      BY <2>10 DEF Waits
    <3>3. /\ \A x \in Open' : clientPc'[files'[x]] # "off"
          /\ \A x, x2 \in Open' : files'[x] = files'[x2] => x = x2
      BY <2>8, <3>1, <3>2 DEF ListInv, ConnectionsOK
    <3>. QED
      BY <2>8, <2>9, <2>12, <3>3 DEF ListInv, ConnectionsOK
  <2>14. NothingHungUp'
    BY <2>4, <2>5, <2>8 DEF ListInv, NothingHungUp
  <2>15. ListIsRightBeforeTheFirstLeaves'
    <3>1. SUFFICES ASSUME ~SomeoneLeft
                   PROVE  (/\ Pinged = Open
                           /\ \A k, k2 \in Active : clientFds[k] = clientFds[k2] => k = k2
                           /\ \A x, x2 \in Open : files[x] = files[x2] => x = x2)'
      BY <2>8 DEF ListIsRightBeforeTheFirstLeaves
    <3>2. /\ Pinged = Open
          /\ \A k, k2 \in Active : clientFds[k] = clientFds[k2] => k = k2
      BY <3>1 DEF ListInv, ListIsRightBeforeTheFirstLeaves
    <3>3. clientFdsSize \in -1 .. MAXCLIENTS - 1
      BY <1>2, ClusterAssumption DEF ListInv, ClusterTypeOK
    <3>4. /\ Active' = Active \cup {clientFdsSize + 1} /\ clientFdsSize + 1 \notin Active
          /\ clientFds'[clientFdsSize + 1] = fd
          /\ \A k \in Active : clientFds'[k] = clientFds[k]
      BY <2>4, <3>3, ClusterAssumption DEF Active, Index
    <3>5. \A k \in Active : clientFds[k] # fd
      BY <2>2, <3>2 DEF Pinged
    <3>6. Pinged' = Pinged \cup {fd}
      BY <3>4 DEF Pinged
    <3>7. \A k, k2 \in Active' : clientFds'[k] = clientFds'[k2] => k = k2
      BY <3>2, <3>4, <3>5
    <3>. QED
      BY <2>5, <2>13, <3>2, <3>6, <3>7 DEF ConnectionsOK
  <2>16. MailOK'
    BY <2>4 DEF ListInv, MailOK, netOthers, clientsVars, cmdVars
  <2>17. ThreadsOK'
    BY <2>4 DEF ListInv, ThreadsOK, netOthers, cmdVars
  <2>18. ClusterTypeOK'
    <3>1. Sockets \cup Open' \subseteq Sockets \cup Fds
      BY <2>5 DEF Open
    <3>2. ready' \in Seq(Sockets \cup Fds)
      BY <2>9, <3>1, LongerIsSeq
    <3>3. backlog' \in [Sockets -> Seq(Clients)]
      <4>1. Tail(q) \in Seq(Clients)
        BY <2>3
      <4>. QED
        BY <2>3, <2>4, <4>1 DEF ListInv, ClusterTypeOK
    <3>4. clientFds' \in [Index -> Fds \cup {-1}]
      BY <2>2, <2>4 DEF ListInv, ClusterTypeOK
    <3>5. clientFdsSize' \in -1 .. MAXCLIENTS
      BY <1>2, <2>4, ClusterAssumption DEF ListInv, ClusterTypeOK
    <3>. QED
      BY <2>4, <2>5, <3>2, <3>3, <3>4, <3>5 DEF ListInv, ClusterTypeOK, netOthers,
         clientsVars, cmdVars
  <2>. QED
    BY <2>7, <2>13, <2>14, <2>15, <2>16, <2>17, <2>18 DEF ListInv
<1>. QED
  BY <1>1, <1>2

LEMMA ListStep == ListInv /\ [ClusterNext]_clusterVars => ListInv'
<1>. SUFFICES ASSUME ListInv, [ClusterNext]_clusterVars PROVE ListInv'
  OBVIOUS
<1>1. CASE serverTask
  BY <1>1, EpollKeeps, HangUpKeeps, HandleKeeps, AcceptKeeps, AcceptNoMoreKeeps,
     ReceiveHelloKeeps, ReceiveAnswerKeeps, ReceivePingKeeps, ReceiveNothingKeeps,
     ReceiveEndKeeps DEF serverTask
<1>2. CASE commandline
  BY <1>2, ScanKeeps, DrawKeeps, FetchKeeps, WriteTaskKeeps, DieKeeps
     DEF commandline, DrawOfNone, WriteFails
<1>3. CASE ping_task \/ sigexit
  BY <1>3, PingAllKeeps, DieKeeps DEF ping_task, PingBreaks, sigexit
<1>4. CASE \E c \in Clients : Connect(c) \/ ClientTurn(c) \/ Leave(c)
  BY <1>4, ConnectKeeps, HelloKeeps, RespondKeeps, PongKeeps, LeaveKeeps DEF ClientTurn
<1>5. CASE UNCHANGED clusterVars
  <2>1. UNCHANGED <<server, clientPc, starts, files, listVars, netVars>>
    BY <1>5 DEF clusterVars, clientsVars
  <2>2. ClusterTypeOK' /\ MailOK' /\ ThreadsOK'
    BY <1>5 DEF clusterVars, clientsVars, listVars, netVars, cmdVars, ListInv, ClusterTypeOK,
       MailOK, ThreadsOK
  <2>. QED
    BY <2>1, <2>2, QuietStep
<1>. QED
  BY <1>1, <1>2, <1>3, <1>4, <1>5 DEF ClusterNext, Stopped

\* The list of clients has an entry for each open connection and, until the first client
\* leaves, exactly those entries (server.c:241-331).
THEOREM TheListCounts == ClusterSpec => []ListOK
<1>1. ListInv => ListOK
  BY DEF ListInv, ListOK
<1>. QED
  BY <1>1, ListInit, ListStep, PTL DEF ClusterSpec
-----------------------------------------------------------------------------
(* The tasks. *)

\* A task or an answer is where it was in a queue, or one place further on; a step that
\* takes nothing else away leaves it in the queue.
Moves(r, q, m) == \E k \in {0, 1} : \A e \in Nat : At(r, e, m) => At(q, e + k, m)
Stays(r, q, m) == \A e \in Nat : At(q, e, m) => \E e2 \in Nat : At(r, e2, m)

LEMMA QueueMoves ==
    ASSUME NEW q \in Seq(Messages), NEW m
    PROVE  /\ Moves(q, q, m) /\ Stays(q, q, m)
           /\ Moves(<<>>, q, m)
           /\ \A a \in Messages : /\ a # m => Moves(Put(q, a), q, m)
                                  /\ Stays(Put(q, a), q, m)
           /\ q # <<>> => Moves(Tail(q), q, m)
           /\ q # <<>> /\ Head(q) # m => Stays(Tail(q), q, m)
<1>1. Moves(q, q, m) /\ Stays(q, q, m)
  <2>1. \A e \in Nat : At(q, e, m) => At(q, e + 0, m)
    OBVIOUS
  <2>. QED
    BY <2>1 DEF Moves, Stays
<1>2. Moves(<<>>, q, m)
  <2>1. \A e \in Nat : At(<<>>, e, m) => At(q, e + 0, m)
    BY DEF At
  <2>. QED
    BY <2>1 DEF Moves
<1>3. ASSUME NEW a \in Messages
      PROVE  /\ a # m => Moves(Put(q, a), q, m)
             /\ Stays(Put(q, a), q, m)
  <2>1. CASE Put(q, a) = q
    BY <1>1, <2>1
  <2>2. CASE Put(q, a) = Append(q, a)
    <3>1. \A e \in 1 .. Len(q) : Append(q, a)[e] = q[e]
      OBVIOUS
    <3>2. Append(q, a)[Len(q) + 1] = a /\ Len(Append(q, a)) = Len(q) + 1 /\ Len(q) \in Nat
      OBVIOUS
    <3>3. a # m => \A e \in Nat : At(Append(q, a), e, m) => At(q, e + 0, m)
      BY <3>1, <3>2 DEF At
    <3>4. \A e \in Nat : At(q, e, m) => At(Append(q, a), e, m)
      BY <3>1, <3>2 DEF At
    <3>. QED
      BY <2>2, <3>3, <3>4 DEF Moves, Stays
  <2>. QED
    BY <2>1, <2>2 DEF Put
<1>4. ASSUME q # <<>>
      PROVE  /\ Moves(Tail(q), q, m)
             /\ Head(q) # m => Stays(Tail(q), q, m)
  <2>1. Len(Tail(q)) = Len(q) - 1 /\ Len(q) \in Nat /\ Len(q) > 0 /\ Head(q) = q[1]
    BY <1>4
  <2>2. \A e \in 1 .. Len(q) - 1 : Tail(q)[e] = q[e + 1]
    BY <1>4
  <2>3. \A e \in Nat : At(Tail(q), e, m) => At(q, e + 1, m)
    BY <2>1, <2>2 DEF At
  <2>4. ASSUME Head(q) # m, NEW e \in Nat, At(q, e, m)
        PROVE  \E e2 \in Nat : At(Tail(q), e2, m)
    <3>1. e - 1 \in Nat /\ e - 1 \in 1 .. Len(q) - 1
      BY <2>1, <2>4 DEF At
    <3>2. Tail(q)[e - 1] = m
      BY <2>2, <2>4, <3>1 DEF At
    <3>. QED
      BY <2>1, <3>1, <3>2 DEF At
  <2>. QED
    BY <2>3, <2>4 DEF Moves, Stays
<1>. QED
  BY <1>1, <1>2, <1>3, <1>4

\* A task that only moves up its queue stays in one place.
LEMMA OnceStays ==
    ASSUME NEW n \in Nat, Once(n),
           \A c \in Clients : Moves(toClient'[c], toClient[c], MSG(n)),
           \A c \in Clients : Moves(toServer'[c], toServer[c], ANSWER(n + 1)),
           n + 1 \in printed' => n + 1 \in printed
    PROVE  Once(n)'
<1>1. ASSUME NEW c \in Clients, NEW c2 \in Clients, NEW e \in Nat, NEW e2 \in Nat,
             TaskAt(c, e, n)', TaskAt(c2, e2, n)'
      PROVE  c = c2 /\ e = e2
  <2>1. PICK k \in {0, 1} :
             \A d \in Nat : At(toClient'[c], d, MSG(n)) => At(toClient[c], d + k, MSG(n))
    BY DEF Moves
  <2>2. PICK k2 \in {0, 1} :
             \A d \in Nat : At(toClient'[c2], d, MSG(n)) => At(toClient[c2], d + k2, MSG(n))
    BY DEF Moves
  <2>3. TaskAt(c, e + k, n) /\ TaskAt(c2, e2 + k2, n) /\ e + k \in Nat /\ e2 + k2 \in Nat
    BY <1>1, <2>1, <2>2 DEF TaskAt
  <2>4. c = c2
    BY <2>3 DEF Once
  <2>5. TaskAt(c2, e2 + k, n) /\ e2 + k \in Nat
    BY <1>1, <2>1, <2>4 DEF TaskAt
  <2>6. e + k = e2 + k
    BY <2>3, <2>5 DEF Once
  <2>. QED
    BY <2>4, <2>6
<1>2. ASSUME NEW c \in Clients, NEW c2 \in Clients, NEW e \in Nat, NEW e2 \in Nat,
             AnswerAt(c, e, n)', AnswerAt(c2, e2, n)'
      PROVE  c = c2 /\ e = e2
  <2>1. PICK k \in {0, 1} :
           \A d \in Nat : At(toServer'[c], d, ANSWER(n + 1))
               => At(toServer[c], d + k, ANSWER(n + 1))
    BY DEF Moves
  <2>2. PICK k2 \in {0, 1} :
           \A d \in Nat : At(toServer'[c2], d, ANSWER(n + 1))
               => At(toServer[c2], d + k2, ANSWER(n + 1))
    BY DEF Moves
  <2>3. AnswerAt(c, e + k, n) /\ AnswerAt(c2, e2 + k2, n) /\ e + k \in Nat /\ e2 + k2 \in Nat
    BY <1>2, <2>1, <2>2 DEF AnswerAt
  <2>4. c = c2
    BY <2>3 DEF Once
  <2>5. AnswerAt(c2, e2 + k, n) /\ e2 + k \in Nat
    BY <1>2, <2>1, <2>4 DEF AnswerAt
  <2>6. e + k = e2 + k
    BY <2>3, <2>5 DEF Once
  <2>. QED
    BY <2>4, <2>6
<1>3. \A c \in Clients : \A e \in Nat :
         /\ TaskAt(c, e, n)' => \E e2 \in Nat : TaskAt(c, e2, n)
         /\ AnswerAt(c, e, n)' => \E e2 \in Nat : AnswerAt(c, e2, n)
  <2>1. TAKE c \in Clients
  <2>2. PICK k \in {0, 1} :
             \A d \in Nat : At(toClient'[c], d, MSG(n)) => At(toClient[c], d + k, MSG(n))
    BY DEF Moves
  <2>3. PICK k2 \in {0, 1} :
           \A d \in Nat : At(toServer'[c], d, ANSWER(n + 1))
               => At(toServer[c], d + k2, ANSWER(n + 1))
    BY DEF Moves
  <2>4. TAKE e \in Nat
  <2>5. e + k \in Nat /\ e + k2 \in Nat
    OBVIOUS
  <2>. QED
    BY <2>2, <2>3, <2>5 DEF TaskAt, AnswerAt
<1>4. \A c, c2 \in Clients : \A e, e2 \in Nat : ~(TaskAt(c, e, n)' /\ AnswerAt(c2, e2, n)')
  BY <1>3 DEF Once
<1>5. \A c \in Clients : \A e \in Nat :
         TaskAt(c, e, n)' \/ AnswerAt(c, e, n)' => n + 1 \notin printed'
  BY <1>3 DEF Once
<1>. QED
  BY <1>1, <1>2, <1>4, <1>5 DEF Once

\* A step that leaves every task in its queue, or printed, loses none.
LEMMA NoneIsLost ==
    ASSUME TaskInv, NEW n \in Nat, n < taskCounter, printed \subseteq printed',
           server = "dead" => server' = "dead", SomeoneLeft => SomeoneLeft',
           \A c \in Clients : Stays(toClient'[c], toClient[c], MSG(n)),
           \A c \in Clients : Stays(toServer'[c], toServer[c], ANSWER(n + 1))
    PROVE  Placed(n)' \/ server' = "dead" \/ SomeoneLeft'
<1>1. CASE server = "dead" \/ SomeoneLeft
  BY <1>1
<1>2. CASE n + 1 \in printed
  BY <1>2 DEF Placed
<1>3. CASE \E c \in Clients : \E e \in Nat : TaskAt(c, e, n) \/ AnswerAt(c, e, n)
  BY <1>3 DEF Stays, Placed, TaskAt, AnswerAt
<1>. QED
  BY <1>1, <1>2, <1>3 DEF TaskInv, LostWithAClient, Placed
\* What the steps do to a queue that are not about a task, and those that empty it.
Quiet(r, q) == \/ r = q
               \/ r = Put(q, PING) \/ r = Put(q, HELLO)
               \/ q # <<>> /\ Head(q) \in {PING, HELLO} /\ r = Tail(q)
Lossy(r, q) == Quiet(r, q) \/ r = <<>>

LEMMA QuietQueues ==
    ASSUME NEW q \in Seq(Messages), NEW r, NEW n \in Nat
    PROVE  /\ Lossy(r, q) => Moves(r, q, MSG(n)) /\ Moves(r, q, ANSWER(n + 1))
           /\ Quiet(r, q) => Stays(r, q, MSG(n)) /\ Stays(r, q, ANSWER(n + 1))
<1>1. PICK m1, m2 : m1 = MSG(n) /\ m2 = ANSWER(n + 1)
  OBVIOUS
<1>2. PING \in Messages /\ HELLO \in Messages /\ {PING, HELLO} \cap {m1, m2} = {}
  BY <1>1, Contents DEF PING, HELLO, MSG, ANSWER
<1>3. \A m \in {m1, m2} : /\ Lossy(r, q) => Moves(r, q, m)
                          /\ Quiet(r, q) => Stays(r, q, m)
  <2>1. TAKE m \in {m1, m2}
  <2>2. PING # m /\ HELLO # m
    BY <1>2
  <2>. QED
    BY <1>2, <2>2, QueueMoves DEF Lossy, Quiet
<1>. QED
  BY <1>1, <1>3

LEMMA TasksStay ==
    ASSUME TaskInv, UNCHANGED <<printed, taskCounter>>,
           server = "dead" => server' = "dead", SomeoneLeft => SomeoneLeft',
           \A c \in Clients : /\ Lossy(toClient'[c], toClient[c])
                              /\ Lossy(toServer'[c], toServer[c]),
           \/ SomeoneLeft' \/ server' = "dead"
           \/ \A c \in Clients : /\ Quiet(toClient'[c], toClient[c])
                                 /\ Quiet(toServer'[c], toServer[c])
    PROVE  OncePlaced' /\ LostWithAClient'
<1>1. \A c \in Clients : toClient[c] \in Seq(Messages) /\ toServer[c] \in Seq(Messages)
  BY MailTypes DEF TaskInv, ListInv
<1>2. ASSUME NEW n \in Nat
      PROVE  \A c \in Clients : /\ Moves(toClient'[c], toClient[c], MSG(n))
                                /\ Moves(toServer'[c], toServer[c], ANSWER(n + 1))
  <2>1. TAKE c \in Clients
  <2>2. PICK q, r : q = toClient[c] /\ r = toClient'[c] /\ q \in Seq(Messages) /\ Lossy(r, q)
    BY <1>1
  <2>3. PICK q2, r2 : q2 = toServer[c] /\ r2 = toServer'[c] /\ q2 \in Seq(Messages) /\ Lossy(r2, q2)
    BY <1>1
  <2>4. Moves(r, q, MSG(n)) /\ Moves(r2, q2, ANSWER(n + 1))
    BY <2>2, <2>3, QuietQueues
  <2>. QED
    BY <2>2, <2>3, <2>4
<1>3. OncePlaced'
  <2>1. SUFFICES ASSUME NEW n \in Nat PROVE Once(n)'
    BY DEF OncePlaced
  <2>. QED
    BY <1>2, OnceStays DEF TaskInv, OncePlaced
<1>4. ASSUME NEW n \in Nat, n < taskCounter
      PROVE  Placed(n)' \/ server' = "dead" \/ SomeoneLeft'
  <2>1. CASE SomeoneLeft' \/ server' = "dead"
    BY <2>1
  <2>2. CASE \A c \in Clients : /\ Quiet(toClient'[c], toClient[c])
                                /\ Quiet(toServer'[c], toServer[c])
    <3>1. \A c \in Clients : /\ Stays(toClient'[c], toClient[c], MSG(n))
                             /\ Stays(toServer'[c], toServer[c], ANSWER(n + 1))
      <4>1. TAKE c \in Clients
      <4>2. PICK q, r : q = toClient[c] /\ r = toClient'[c] /\ q \in Seq(Messages) /\ Quiet(r, q)
        BY <1>1, <2>2
      <4>3. PICK q2, r2 :
                 q2 = toServer[c] /\ r2 = toServer'[c] /\ q2 \in Seq(Messages) /\ Quiet(r2, q2)
        BY <1>1, <2>2
      <4>4. Stays(r, q, MSG(n)) /\ Stays(r2, q2, ANSWER(n + 1))
        BY <4>2, <4>3, QuietQueues
      <4>. QED
        BY <4>2, <4>3, <4>4
    <3>. QED
      BY <1>4, <3>1, NoneIsLost
  <2>. QED
    BY <2>1, <2>2
<1>5. LostWithAClient'
  BY <1>4 DEF LostWithAClient
<1>. QED
  BY <1>3, <1>5

\* The steps of the server that are about connections only, and those of the others that
\* are not about a task.
LEMMA OtherSteps ==
    ASSUME TaskInv, UNCHANGED <<clientsVars, taskCounter, printed>>,
              server' \in {server, "dead"}
    PROVE  OncePlaced' /\ LostWithAClient'
<1>1. SomeoneLeft' = SomeoneLeft
  BY LeftIsSame DEF clientsVars
<1>2. \A c \in Clients : Quiet(toClient'[c], toClient[c]) /\ Quiet(toServer'[c], toServer[c])
  BY DEF Quiet, clientsVars
<1>. QED
  BY <1>1, <1>2, TasksStay DEF Lossy, clientsVars

LEMMA DieTasks == ASSUME TaskInv, Die PROVE OncePlaced' /\ LostWithAClient'
<1>1. SomeoneLeft' = SomeoneLeft
  BY LeftIsSame DEF Die
<1>2. \A c \in Clients : Lossy(toClient'[c], toClient[c]) /\ Lossy(toServer'[c], toServer[c])
  BY DEF Die, Lossy
<1>. QED
  BY <1>1, <1>2, TasksStay DEF Die

LEMMA PingAllTasks == ASSUME TaskInv, PingAll PROVE OncePlaced' /\ LostWithAClient'
<1>1. SomeoneLeft' = SomeoneLeft
  BY LeftIsSame DEF PingAll
<1>2. \A c \in Clients : Quiet(toClient'[c], toClient[c]) /\ Quiet(toServer'[c], toServer[c])
  BY DEF PingAll, Quiet
<1>. QED
  BY <1>1, <1>2, TasksStay DEF PingAll, Lossy, cmdVars

LEMMA HelloTasks ==
    ASSUME TaskInv, NEW c \in Clients, hello(c)
    PROVE  OncePlaced' /\ LostWithAClient'
<1>1. SomeoneLeft => SomeoneLeft'
  BY DEF hello, Send, SomeoneLeft, Gone, TaskInv, ListInv, ClusterTypeOK
<1>2. \A d \in Clients : Quiet(toClient'[d], toClient[d]) /\ Quiet(toServer'[d], toServer[d])
  BY MailTypes DEF hello, Send, Quiet, TaskInv, ListInv
<1>. QED
  BY <1>1, <1>2, TasksStay DEF hello, Send, Lossy, cmdVars

LEMMA PongTasks ==
    ASSUME TaskInv, NEW c \in Clients, Pong(c)
    PROVE  OncePlaced' /\ LostWithAClient'
<1>1. SomeoneLeft' = SomeoneLeft
  BY LeftIsSame DEF Pong, Received, Send
<1>2. toClient[c] \in Seq(Messages) /\ toClient[c] # <<>> /\ Head(toClient[c]).type = "PING"
  BY MailTypes DEF Pong, Received, TaskInv, ListInv
<1>3. Head(toClient[c]) = PING
  <2>1. Head(toClient[c]) \in Messages
    BY <1>2, QueueSteps, Contents
  <2>. QED
    BY <1>2, <2>1, Contents
<1>4. \A d \in Clients : Quiet(toClient'[d], toClient[d]) /\ Quiet(toServer'[d], toServer[d])
  BY <1>2, <1>3, MailTypes DEF Pong, Received, Send, Quiet, TaskInv, ListInv
<1>. QED
  BY <1>1, <1>4, TasksStay DEF Pong, Received, Send, Lossy, cmdVars

LEMMA LeaveTasks ==
    ASSUME TaskInv, NEW c \in Clients, Leave(c)
    PROVE  OncePlaced' /\ LostWithAClient'
<1>1. SomeoneLeft'
  BY DEF Leave, SomeoneLeft, Gone, TaskInv, ListInv, ClusterTypeOK
<1>2. \A d \in Clients : Lossy(toClient'[d], toClient[d]) /\ Lossy(toServer'[d], toServer[d])
  BY MailTypes DEF Leave, Lossy, Quiet, TaskInv, ListInv
<1>. QED
  BY <1>1, <1>2, TasksStay DEF Leave, cmdVars

LEMMA ConnectTasks ==
    ASSUME TaskInv, NEW c \in Clients, Connect(c)
    PROVE  OncePlaced' /\ LostWithAClient'
<1>1. SomeoneLeft => SomeoneLeft'
  BY ConnectCounts DEF TaskInv
<1>2. \A d \in Clients : Lossy(toClient'[d], toClient[d]) /\ Lossy(toServer'[d], toServer[d])
  BY MailTypes DEF Connect, Lossy, Quiet, TaskInv, ListInv
<1>3. CASE Gone(c)
  <2>1. SomeoneLeft'
    BY <1>1, <1>3 DEF SomeoneLeft
  <2>. QED
    BY <1>2, <2>1, TasksStay DEF Connect, cmdVars
<1>4. CASE clientPc[c] = "off"
  <2>1. toServer[c] = <<>>
    BY <1>4 DEF TaskInv, ListInv, MailOK
  <2>2. \A d \in Clients : Quiet(toClient'[d], toClient[d]) /\ Quiet(toServer'[d], toServer[d])
    BY <2>1, MailTypes DEF Connect, Quiet, TaskInv, ListInv
  <2>. QED
    BY <1>1, <1>2, <2>2, TasksStay DEF Connect, cmdVars
<1>. QED
  BY <1>3, <1>4 DEF Connect, Gone

LEMMA ArrivedTasks ==
    ASSUME TaskInv, NEW type \in {"HELLO", "PING"}, Arrived(type), UNCHANGED printed
    PROVE  OncePlaced' /\ LostWithAClient'
<1>1. SomeoneLeft' = SomeoneLeft
  BY LeftIsSame DEF Arrived
<1>2. PICK c \in Clients : /\ toServer[c] # <<>> /\ Head(toServer[c]).type = type
                           /\ toServer' = [toServer EXCEPT ![c] = Tail(@)]
  BY Types DEF Arrived, BadFile, TaskInv, ListInv
<1>3. Head(toServer[c]) \in {PING, HELLO}
  <2>1. toServer[c] \in Seq(Messages)
    BY MailTypes DEF TaskInv, ListInv
  <2>2. Head(toServer[c]) \in Messages
    BY <1>2, <2>1, QueueSteps, Contents
  <2>. QED
    BY <1>2, <2>2, Contents
<1>4. \A d \in Clients : Quiet(toClient'[d], toClient[d]) /\ Quiet(toServer'[d], toServer[d])
  BY <1>2, <1>3, MailTypes DEF Arrived, Quiet, TaskInv, ListInv
<1>. QED
  BY <1>1, <1>4, TasksStay DEF Arrived, Lossy, cmdVars
\* Messages with different numbers are different.
LEMMA NumbersDiffer ==
    \A n, n2 \in Nat : /\ MSG(n) = MSG(n2) => n = n2
                       /\ ANSWER(n) = ANSWER(n2) => n = n2
                       /\ MSG(n) # PING /\ ANSWER(n) # PING /\ MSG(n) # ANSWER(n2)
BY Contents DEF PING, MSG, ANSWER

\* Where a message is when the first of a queue has been taken, or one added.
LEMMA TailAt ==
    ASSUME NEW q \in Seq(Messages), q # <<>>, NEW m, Head(q) = m
    PROVE  /\ At(q, 1, m)
           /\ \A e \in Nat : At(Tail(q), e, m) => e + 1 # 1 /\ At(q, e + 1, m)
<1>1. Len(Tail(q)) = Len(q) - 1 /\ Len(q) \in Nat /\ Len(q) > 0 /\ Head(q) = q[1]
  OBVIOUS
<1>2. \A e \in 1 .. Len(q) - 1 : Tail(q)[e] = q[e + 1]
  OBVIOUS
<1>. QED
  BY <1>1, <1>2 DEF At

LEMMA PutAt ==
    ASSUME NEW q \in Seq(Messages), NEW m \in Messages, m # PING
    PROVE  /\ Len(q) + 1 \in Nat /\ At(Put(q, m), Len(q) + 1, m)
           /\ \A e \in Nat : At(Put(q, m), e, m) => e = Len(q) + 1 \/ At(q, e, m)
<1>1. Put(q, m) = Append(q, m)
  BY DEF Put
<1>2. \A e \in 1 .. Len(q) : Append(q, m)[e] = q[e]
  OBVIOUS
<1>3. Append(q, m)[Len(q) + 1] = m /\ Len(Append(q, m)) = Len(q) + 1 /\ Len(q) \in Nat
  OBVIOUS
<1>. QED
  BY <1>1, <1>2, <1>3 DEF At

LEMMA RespondTasks ==
    ASSUME TaskInv, NEW c \in Clients, respond(c)
    PROVE  OncePlaced' /\ LostWithAClient'
<1>1. SomeoneLeft' = SomeoneLeft /\ taskCounter' = taskCounter /\ printed' = printed
      /\ server' = server
  BY LeftIsSame DEF respond, Received, Send, cmdVars
<1>2. PICK n0 \in Nat : n0 < taskCounter /\ Head(toClient[c]) = MSG(n0)
  BY ReceivedIs DEF respond, TaskInv
<1>3. PICK q, r : /\ q = toClient[c] /\ r = toServer[c] /\ q # <<>> /\ Head(q) = MSG(n0)
                  /\ q \in Seq(Messages) /\ r \in Seq(Messages)
  BY <1>2, MailTypes DEF TaskInv, ListInv, respond, Received
<1>4. PICK a \in Messages : a = ANSWER(n0 + 1) /\ a # PING
  <2>1. n0 + 1 \in 0 .. MaxTasks
    BY <1>2, ClusterAssumption DEF TaskInv, ListInv, ClusterTypeOK
  <2>2. ANSWER(n0 + 1) \in Messages
    BY <2>1, Contents
  <2>. QED
    BY <2>2, NumbersDiffer
<1>5. \A d \in Clients : /\ toClient'[d] = IF d = c THEN Tail(q) ELSE toClient[d]
                         /\ toServer'[d] = IF d = c THEN Put(r, a) ELSE toServer[d]
  <2>1. Head(toClient[c]).counter + 1 = n0 + 1
    BY <1>2, Contents
  <2>. QED
    BY <1>3, <1>4, <2>1, MailTypes DEF TaskInv, ListInv, respond, Received, Send
<1>6. \A d \in Clients : toClient[d] \in Seq(Messages) /\ toServer[d] \in Seq(Messages)
  BY MailTypes DEF TaskInv, ListInv
<1>7. ASSUME NEW n \in Nat, n # n0
      PROVE  \A d \in Clients : /\ Moves(toClient'[d], toClient[d], MSG(n))
                                /\ Stays(toClient'[d], toClient[d], MSG(n))
                                /\ Moves(toServer'[d], toServer[d], ANSWER(n + 1))
                                /\ Stays(toServer'[d], toServer[d], ANSWER(n + 1))
  <2>1. PICK m, m2 : m = MSG(n) /\ m2 = ANSWER(n + 1) /\ m # MSG(n0) /\ m2 # a
    BY <1>4, <1>7, NumbersDiffer
  <2>2. \A d \in Clients : d # c => /\ Moves(toClient'[d], toClient[d], m)
                                    /\ Stays(toClient'[d], toClient[d], m)
                                    /\ Moves(toServer'[d], toServer[d], m2)
                                    /\ Stays(toServer'[d], toServer[d], m2)
    <3>1. TAKE d \in Clients
    <3>2. HAVE d # c
    <3>3. PICK x, y :
               x = toClient[d] /\ y = toServer[d] /\ x \in Seq(Messages) /\ y \in Seq(Messages)
      BY <1>6
    <3>4. toClient'[d] = x /\ toServer'[d] = y
      BY <1>5, <3>2, <3>3
    <3>5. Moves(x, x, m) /\ Stays(x, x, m) /\ Moves(y, y, m2) /\ Stays(y, y, m2)
      BY <3>3, QueueMoves
    <3>. QED
      BY <3>3, <3>4, <3>5
  <2>3. Moves(Tail(q), q, m) /\ Stays(Tail(q), q, m)
    BY <1>3, <2>1, QueueMoves
  <2>4. Moves(Put(r, a), r, m2) /\ Stays(Put(r, a), r, m2)
    BY <1>3, <2>1, QueueMoves
  <2>. QED
    BY <1>3, <1>5, <2>1, <2>2, <2>3, <2>4
<1>8. PICK m : m = MSG(n0)
  OBVIOUS
<1>9. TaskAt(c, 1, n0) /\ \A e \in Nat : At(Tail(q), e, m) => e + 1 # 1 /\ TaskAt(c, e + 1, n0)
  BY <1>3, <1>8, TailAt DEF TaskAt
<1>10. /\ Len(r) + 1 \in Nat /\ At(Put(r, a), Len(r) + 1, a)
       /\ \A e \in Nat : At(Put(r, a), e, a) => e = Len(r) + 1 \/ AnswerAt(c, e, n0)
  BY <1>3, <1>4, PutAt DEF AnswerAt
<1>11. \A d \in Clients : \A e \in Nat : ~TaskAt(d, e, n0)'
  <2>1. TAKE d \in Clients
  <2>2. TAKE e \in Nat
  <2>3. e + 1 \in Nat /\ 1 \in Nat
    OBVIOUS
  <2>4. Once(n0)
    BY DEF TaskInv, OncePlaced
  <2>5. CASE d = c
    BY <1>5, <1>8, <1>9, <2>3, <2>4, <2>5 DEF TaskAt, Once
  <2>6. CASE d # c
    <3>1. TaskAt(d, e, n0)' => TaskAt(d, e, n0)
      BY <1>5, <2>6 DEF TaskAt
    <3>. QED
      BY <1>9, <2>3, <2>4, <2>6, <3>1 DEF Once
  <2>. QED
    BY <2>5, <2>6
<1>12. \A d \in Clients : \A e \in Nat : AnswerAt(d, e, n0)' => d = c /\ e = Len(r) + 1
  <2>1. TAKE d \in Clients
  <2>2. TAKE e \in Nat
  <2>3. ~AnswerAt(d, e, n0)
    BY <1>9 DEF TaskInv, OncePlaced, Once
  <2>. QED
    BY <1>4, <1>5, <1>10, <2>3 DEF AnswerAt
<1>13. AnswerAt(c, Len(r) + 1, n0)'
  BY <1>4, <1>5, <1>10 DEF AnswerAt
<1>14. Once(n0)'
  <2>1. n0 + 1 \notin printed'
    BY <1>1, <1>9 DEF TaskInv, OncePlaced, Once
  <2>. QED
    BY <1>11, <1>12, <2>1 DEF Once
<1>15. OncePlaced'
  <2>1. SUFFICES ASSUME NEW n \in Nat PROVE Once(n)'
    BY DEF OncePlaced
  <2>2. CASE n # n0
    BY <1>1, <1>7, <2>2, OnceStays DEF TaskInv, OncePlaced
  <2>. QED
    BY <1>14, <2>2
<1>16. LostWithAClient'
  <2>1. SUFFICES ASSUME NEW n \in Nat, n < taskCounter'
                 PROVE  Placed(n)' \/ server' = "dead" \/ SomeoneLeft'
    BY DEF LostWithAClient
  <2>2. CASE n # n0
    BY <1>1, <1>7, <2>1, <2>2, NoneIsLost
  <2>3. CASE n = n0
    BY <1>10, <1>13, <2>3 DEF Placed
  <2>. QED
    BY <2>2, <2>3
<1>. QED
  BY <1>15, <1>16
\* A number that has not been given yet is nowhere.
LEMMA NotGivenYet ==
    ASSUME ListInv, NEW n \in Nat, n >= taskCounter
    PROVE  /\ n + 1 \notin printed
           /\ \A c \in Clients : \A e \in Nat : ~TaskAt(c, e, n) /\ ~AnswerAt(c, e, n)
<1>1. taskCounter \in Nat /\ printed \subseteq 1 .. taskCounter
  BY MailTypes DEF ListInv, MailOK
<1>2. ASSUME NEW c \in Clients, NEW e \in Nat, TaskAt(c, e, n)
      PROVE  FALSE
  <2>1. PICK n2 \in Nat : n2 < taskCounter /\ toClient[c][e] = MSG(n2)
    BY <1>2, Contents DEF TaskAt, At, ListInv, MailOK
  <2>2. MSG(n) = MSG(n2)
    BY <1>2, <2>1 DEF TaskAt, At
  <2>. QED
    BY <1>1, <2>1, <2>2, NumbersDiffer
<1>3. ASSUME NEW c \in Clients, NEW e \in Nat, AnswerAt(c, e, n)
      PROVE  FALSE
  <2>1. ANSWER(n + 1).type = "ANSWER"
    BY Contents
  <2>2. PICK n2 \in Nat : n2 < taskCounter /\ toServer[c][e] = ANSWER(n2 + 1)
    BY <1>3, <2>1 DEF AnswerAt, At, ListInv, MailOK
  <2>3. ANSWER(n + 1) = ANSWER(n2 + 1)
    BY <1>3, <2>2 DEF AnswerAt, At
  <2>4. n + 1 = n2 + 1
    BY <2>3, NumbersDiffer
  <2>. QED
    BY <1>1, <2>2, <2>4
<1>. QED
  BY <1>1, <1>2, <1>3

LEMMA WriteTaskTasks == ASSUME TaskInv, WriteTask PROVE OncePlaced' /\ LostWithAClient'
<1>1. SomeoneLeft' = SomeoneLeft /\ taskCounter' = taskCounter + 1 /\ printed' = printed
      /\ server' = server /\ toServer' = toServer
  BY LeftIsSame DEF WriteTask, cmdOthers
<1>2. PICK n0 \in Nat : n0 = taskCounter
  BY MailTypes DEF TaskInv, ListInv
<1>3. PICK c \in Clients : c = files[pick]
  BY PickIsOpen DEF WriteTask, TaskInv
<1>4. PICK a \in Messages : a = MSG(n0) /\ a # PING
  <2>1. n0 \in 0 .. MaxTasks
    BY <1>2, ClusterAssumption DEF TaskInv, ListInv, ClusterTypeOK
  <2>2. MSG(n0) \in Messages
    BY <2>1, Contents
  <2>. QED
    BY <2>2, NumbersDiffer
<1>5. PICK q : q = toClient[c] /\ q \in Seq(Messages)
  BY MailTypes DEF TaskInv, ListInv
<1>6. \A d \in Clients : toClient[d] \in Seq(Messages) /\ toServer[d] \in Seq(Messages)
  BY MailTypes DEF TaskInv, ListInv
<1>7. CASE Broken(pick)
  <2>1. toClient' = toClient
    BY <1>7 DEF WriteTask
  <2>2. SomeoneLeft
    BY <1>3, <1>7 DEF Broken, SomeoneLeft
  <2>3. \A n \in Nat : Once(n)'
    <3>1. TAKE n \in Nat
    <3>2. \A d \in Clients : /\ Moves(toClient'[d], toClient[d], MSG(n))
                             /\ Moves(toServer'[d], toServer[d], ANSWER(n + 1))
      BY <1>1, <1>6, <2>1, QueueMoves
    <3>. QED
      BY <1>1, <3>2, OnceStays DEF TaskInv, OncePlaced
  <2>. QED
    BY <1>1, <2>2, <2>3 DEF OncePlaced, LostWithAClient
<1>8. CASE ~Broken(pick)
  <2>1. \A d \in Clients : toClient'[d] = IF d = c THEN Put(q, a) ELSE toClient[d]
    BY <1>2, <1>3, <1>4, <1>5, <1>8, MailTypes DEF WriteTask, TaskInv, ListInv
  <2>2. ASSUME NEW n \in Nat, n # n0
        PROVE  \A d \in Clients : /\ Moves(toClient'[d], toClient[d], MSG(n))
                                  /\ Stays(toClient'[d], toClient[d], MSG(n))
                                  /\ Moves(toServer'[d], toServer[d], ANSWER(n + 1))
                                  /\ Stays(toServer'[d], toServer[d], ANSWER(n + 1))
    <3>1. PICK m, m2 : m = MSG(n) /\ m2 = ANSWER(n + 1) /\ m # a
      BY <1>4, <2>2, NumbersDiffer
    <3>2. TAKE d \in Clients
    <3>3. PICK x, y :
               x = toClient[d] /\ y = toServer[d] /\ x \in Seq(Messages) /\ y \in Seq(Messages)
      BY <1>6
    <3>4. Moves(y, y, m2) /\ Stays(y, y, m2)
      BY <3>3, QueueMoves
    <3>5. Moves(toClient'[d], x, m) /\ Stays(toClient'[d], x, m)
      <4>1. CASE d = c
        BY <1>5, <2>1, <3>1, <3>3, <4>1, QueueMoves
      <4>2. CASE d # c
        BY <2>1, <3>3, <4>2, QueueMoves
      <4>. QED
        BY <4>1, <4>2
    <3>. QED
      BY <1>1, <3>1, <3>3, <3>4, <3>5
  <2>3. /\ n0 + 1 \notin printed
        /\ \A d \in Clients : \A e \in Nat : ~TaskAt(d, e, n0) /\ ~AnswerAt(d, e, n0)
    BY <1>2, NotGivenYet DEF TaskInv
  <2>4. /\ Len(q) + 1 \in Nat /\ At(Put(q, a), Len(q) + 1, a)
        /\ \A e \in Nat : At(Put(q, a), e, a) => e = Len(q) + 1 \/ At(q, e, a)
    BY <1>4, <1>5, PutAt
  <2>5. \A d \in Clients : \A e \in Nat : /\ TaskAt(d, e, n0)' => d = c /\ e = Len(q) + 1
                                          /\ ~AnswerAt(d, e, n0)'
    BY <1>1, <1>4, <1>5, <2>1, <2>3, <2>4 DEF TaskAt, AnswerAt
  <2>6. TaskAt(c, Len(q) + 1, n0)'
    BY <1>4, <2>1, <2>4 DEF TaskAt
  <2>7. Once(n0)'
    BY <1>1, <2>3, <2>5 DEF Once
  <2>8. OncePlaced'
    <3>1. SUFFICES ASSUME NEW n \in Nat PROVE Once(n)'
      BY DEF OncePlaced
    <3>2. CASE n # n0
      BY <1>1, <2>2, <3>2, OnceStays DEF TaskInv, OncePlaced
    <3>. QED
      BY <2>7, <3>2
  <2>9. LostWithAClient'
    <3>1. SUFFICES ASSUME NEW n \in Nat, n < taskCounter'
                   PROVE  Placed(n)' \/ server' = "dead" \/ SomeoneLeft'
      BY DEF LostWithAClient
    <3>2. CASE n # n0
      <4>1. n < taskCounter
        BY <1>1, <1>2, <3>1, <3>2
      <4>. QED
        BY <1>1, <2>2, <3>2, <4>1, NoneIsLost
    <3>3. CASE n = n0
      BY <2>4, <2>6, <3>3 DEF Placed
    <3>. QED
      BY <3>2, <3>3
  <2>. QED
    BY <2>8, <2>9
<1>. QED
  BY <1>7, <1>8

LEMMA ReceiveAnswerTasks == ASSUME TaskInv, ReceiveAnswer PROVE OncePlaced' /\ LostWithAClient'
<1>1. SomeoneLeft' = SomeoneLeft /\ taskCounter' = taskCounter /\ server' = server
      /\ toClient' = toClient
  BY LeftIsSame DEF ReceiveAnswer, Arrived, cmdVars
<1>2. PICK c \in Clients, n0 \in Nat :
         /\ c = files[event.fd] /\ n0 < taskCounter /\ toServer[c] # <<>>
         /\ Head(toServer[c]) = ANSWER(n0 + 1)
         /\ Head(toServer[files[event.fd]]).counter = n0 + 1
  BY AnswerIs DEF ReceiveAnswer, TaskInv
<1>3. PICK q, a : q = toServer[c] /\ q \in Seq(Messages) /\ q # <<>> /\ Head(q) = a
                  /\ a = ANSWER(n0 + 1)
  BY <1>2, MailTypes DEF TaskInv, ListInv
<1>4. printed' = printed \cup {n0 + 1}
  BY <1>2 DEF ReceiveAnswer
<1>5. \A d \in Clients : /\ toServer'[d] = IF d = c THEN Tail(q) ELSE toServer[d]
                         /\ toClient[d] \in Seq(Messages) /\ toServer[d] \in Seq(Messages)
  BY <1>2, <1>3, MailTypes DEF TaskInv, ListInv, ReceiveAnswer, Arrived
<1>6. ASSUME NEW n \in Nat, n # n0
      PROVE  /\ \A d \in Clients : /\ Moves(toClient'[d], toClient[d], MSG(n))
                                  /\ Stays(toClient'[d], toClient[d], MSG(n))
                                  /\ Moves(toServer'[d], toServer[d], ANSWER(n + 1))
                                  /\ Stays(toServer'[d], toServer[d], ANSWER(n + 1))
             /\ n + 1 \in printed' => n + 1 \in printed
  <2>1. PICK m, m2 : m = MSG(n) /\ m2 = ANSWER(n + 1) /\ m2 # a
    <3>1. n + 1 # n0 + 1
      BY <1>6
    <3>2. ANSWER(n + 1) # ANSWER(n0 + 1)
      BY <3>1, NumbersDiffer
    <3>. QED
      BY <1>3, <3>2
  <2>2. ASSUME NEW d \in Clients
        PROVE  /\ Moves(toClient'[d], toClient[d], m) /\ Stays(toClient'[d], toClient[d], m)
               /\ Moves(toServer'[d], toServer[d], m2) /\ Stays(toServer'[d], toServer[d], m2)
    <3>1. PICK x, y :
               x = toClient[d] /\ y = toServer[d] /\ x \in Seq(Messages) /\ y \in Seq(Messages)
      BY <1>5
    <3>2. Moves(x, x, m) /\ Stays(x, x, m)
      BY <3>1, QueueMoves
    <3>3. Moves(toServer'[d], y, m2) /\ Stays(toServer'[d], y, m2)
      <4>1. CASE d = c
        BY <1>3, <1>5, <2>1, <3>1, <4>1, QueueMoves
      <4>2. CASE d # c
        BY <1>5, <3>1, <4>2, QueueMoves
      <4>. QED
        BY <4>1, <4>2
    <3>. QED
      BY <1>1, <3>1, <3>2, <3>3
  <2>3. n + 1 \in printed' => n + 1 \in printed
    BY <1>4, <1>6
  <2>. QED
    BY <2>1, <2>2, <2>3
<1>7. AnswerAt(c, 1, n0) /\ \A e \in Nat : At(Tail(q), e, a) => e + 1 # 1 /\ AnswerAt(c, e + 1, n0)
  BY <1>3, TailAt DEF AnswerAt
<1>8. \A d \in Clients : \A e \in Nat : ~TaskAt(d, e, n0)' /\ ~AnswerAt(d, e, n0)'
  <2>1. TAKE d \in Clients
  <2>2. TAKE e \in Nat
  <2>3. e + 1 \in Nat /\ 1 \in Nat
    OBVIOUS
  <2>4. Once(n0)
    BY DEF TaskInv, OncePlaced
  <2>5. ~TaskAt(d, e, n0)'
    <3>1. TaskAt(d, e, n0)' => TaskAt(d, e, n0)
      BY <1>1 DEF TaskAt
    <3>. QED
      BY <1>7, <2>3, <2>4, <3>1 DEF Once
  <2>6. CASE d = c
    <3>1. AnswerAt(d, e, n0)' => At(Tail(q), e, a)
      BY <1>3, <1>5, <2>6 DEF AnswerAt
    <3>. QED
      BY <1>7, <2>3, <2>4, <2>5, <2>6, <3>1 DEF Once
  <2>7. CASE d # c
    <3>1. AnswerAt(d, e, n0)' => AnswerAt(d, e, n0)
      BY <1>5, <2>7 DEF AnswerAt
    <3>. QED
      BY <1>7, <2>3, <2>4, <2>5, <2>7, <3>1 DEF Once
  <2>. QED
    BY <2>6, <2>7
<1>9. OncePlaced'
  <2>1. SUFFICES ASSUME NEW n \in Nat PROVE Once(n)'
    BY DEF OncePlaced
  <2>2. CASE n # n0
    BY <1>6, <2>2, OnceStays DEF TaskInv, OncePlaced
  <2>3. CASE n = n0
    BY <1>8, <2>3 DEF Once
  <2>. QED
    BY <2>2, <2>3
<1>10. LostWithAClient'
  <2>1. SUFFICES ASSUME NEW n \in Nat, n < taskCounter'
                 PROVE  Placed(n)' \/ server' = "dead" \/ SomeoneLeft'
    BY DEF LostWithAClient
  <2>2. CASE n # n0
    BY <1>1, <1>4, <1>6, <2>1, <2>2, NoneIsLost
  <2>3. CASE n = n0
    BY <1>4, <2>3 DEF Placed
  <2>. QED
    BY <2>2, <2>3
<1>. QED
  BY <1>9, <1>10

LEMMA TaskInit == ClusterInit => TaskInv
<1>. SUFFICES ASSUME ClusterInit PROVE TaskInv
  OBVIOUS
<1>1. \A c \in Clients : toClient[c] = <<>> /\ toServer[c] = <<>>
  BY DEF ClusterInit
<1>2. \A n \in Nat : \A c \in Clients : \A e \in Nat : ~TaskAt(c, e, n) /\ ~AnswerAt(c, e, n)
  BY <1>1 DEF TaskAt, AnswerAt, At
<1>3. OncePlaced
  BY <1>2 DEF OncePlaced, Once
<1>4. LostWithAClient
  BY DEF LostWithAClient, ClusterInit
<1>. QED
  BY <1>3, <1>4, ListInit DEF TaskInv

LEMMA TaskStep == TaskInv /\ [ClusterNext]_clusterVars => TaskInv'
<1>. SUFFICES ASSUME TaskInv, [ClusterNext]_clusterVars PROVE OncePlaced' /\ LostWithAClient'
  BY ListStep DEF TaskInv
<1>1. CASE serverTask
  <2>1. CASE epoll_wait \/ Handle \/ AcceptNoMore \/ ReceiveNothing
    BY <2>1, OtherSteps
       DEF epoll_wait, Handle, AcceptNoMore, ReceiveNothing, netOthers, cmdVars
  <2>2. CASE Accept
    BY <2>2, OtherSteps, DieTasks DEF Accept, netOthers, cmdVars
  <2>3. CASE HangUp \/ ReceiveEnd
    BY <2>3, OtherSteps, DieTasks DEF HangUp, ReceiveEnd, close_client, netOthers, cmdVars
  <2>4. CASE ReceiveHello \/ ReceivePing
    BY <2>4, ArrivedTasks DEF ReceiveHello, ReceivePing
  <2>. QED
    BY <1>1, <2>1, <2>2, <2>3, <2>4, ReceiveAnswerTasks DEF serverTask
<1>2. CASE commandline
  <2>1. CASE Scan \/ Draw \/ Fetch
    BY <2>1, OtherSteps DEF Scan, Draw, Fetch, cmdOthers, clientsVars
  <2>. QED
    BY <1>2, <2>1, WriteTaskTasks, DieTasks DEF commandline, DrawOfNone, WriteFails
<1>3. CASE ping_task \/ sigexit
  BY <1>3, PingAllTasks, DieTasks DEF ping_task, PingBreaks, sigexit
<1>4. CASE \E c \in Clients : Connect(c) \/ ClientTurn(c) \/ Leave(c)
  BY <1>4, ConnectTasks, HelloTasks, RespondTasks, PongTasks, LeaveTasks DEF ClientTurn
<1>5. CASE UNCHANGED clusterVars
  BY <1>5, OtherSteps DEF clusterVars, clientsVars, cmdVars
<1>. QED
  BY <1>1, <1>2, <1>3, <1>4, <1>5 DEF ClusterNext, Stopped

\* The places of a task, as the property counts them.
LEMMA PlacesAre ==
    ASSUME TaskInv, NEW n \in Nat
    PROVE  /\ \A x \in Places(n) : Places(n) = {x}
           /\ Places(n) # {} <=> Placed(n)
<1>1. \A c \in Clients : /\ MSG(n) \in ToSet(toClient[c]) <=> \E e \in Nat : TaskAt(c, e, n)
                         /\ ANSWER(n + 1) \in ToSet(toServer[c]) <=>
                               \E e \in Nat : AnswerAt(c, e, n)
  <2>1. TAKE c \in Clients
  <2>2. PICK q, r : q = toClient[c] /\ r = toServer[c] /\ q \in Seq(Messages) /\ r \in Seq(Messages)
    BY MailTypes DEF TaskInv, ListInv
  <2>3. /\ DOMAIN q = 1 .. Len(q) /\ \A e \in 1 .. Len(q) : e \in Nat
        /\ DOMAIN r = 1 .. Len(r) /\ \A e \in 1 .. Len(r) : e \in Nat
    BY <2>2
  <2>. QED
    BY <2>2, <2>3 DEF ToSet, TaskAt, AnswerAt, At
<1>2. \A x \in Places(n) :
         \/ \E c \in Clients : \E e \in Nat : x = <<"to", c>> /\ TaskAt(c, e, n)
         \/ \E c \in Clients : \E e \in Nat : x = <<"from", c>> /\ AnswerAt(c, e, n)
         \/ x = <<"printed">> /\ n + 1 \in printed
  BY <1>1 DEF Places
<1>3. Once(n)
  BY DEF TaskInv, OncePlaced
<1>4. \A x, y \in Places(n) : x = y
  BY <1>2, <1>3 DEF Once
<1>5. Places(n) # {} <=> Placed(n)
  BY <1>1 DEF Places, Placed
<1>. QED
  BY <1>4, <1>5

\* A task is in one place, and lost only with a client that has left or with the server
\* (server.c:195-238, client.c:134-153).
THEOREM TasksAreInOnePlace == ClusterSpec => []EachTaskInOnePlace
<1>1. ASSUME TaskInv PROVE EachTaskInOnePlace
  <2>1. SUFFICES ASSUME NEW n \in 0 .. MaxTasks - 1
                 PROVE  IF n < taskCounter
                        THEN /\ Cardinality(Places(n)) <= 1
                             /\ Places(n) = {} => server = "dead" \/ SomeoneLeft
                        ELSE Places(n) = {}
    BY DEF EachTaskInOnePlace
  <2>2. n \in Nat
    BY ClusterAssumption
  <2>3. Cardinality(Places(n)) <= 1
    <3>1. CASE Places(n) = {}
      BY <3>1, FS_EmptySet
    <3>2. CASE Places(n) # {}
      <4>1. PICK x : Places(n) = {x}
        BY <1>1, <2>2, <3>2, PlacesAre
      <4>2. Cardinality({x}) = 1
        BY FS_Singleton
      <4>. QED
        BY <4>1, <4>2
    <3>. QED
      BY <3>1, <3>2
  <2>4. CASE n < taskCounter
    BY <1>1, <2>2, <2>3, <2>4, PlacesAre DEF TaskInv, LostWithAClient
  <2>5. CASE ~(n < taskCounter)
    <3>1. n >= taskCounter
      BY <1>1, <2>2, <2>5, MailTypes DEF TaskInv, ListInv
    <3>2. ~Placed(n)
      BY <1>1, <2>2, <3>1, NotGivenYet DEF TaskInv, Placed
    <3>. QED
      BY <1>1, <2>2, <2>5, <3>2, PlacesAre
  <2>. QED
    BY <2>4, <2>5
<1>. QED
  BY <1>1, TaskInit, TaskStep, PTL DEF ClusterSpec
=============================================================================
