--------------------------- MODULE ProgramsProofs ---------------------------
(***************************************************************************)
(* Theorems about the small programs, and their proofs.  A step of the      *)
(* composition is a step of one program; each program is proved with an     *)
(* inductive invariant of its own, which the steps of the others leave      *)
(* alone because they leave its variables alone.                            *)
(***************************************************************************)
EXTENDS MCPrograms, Sequences, FiniteSetTheorems, TLAPS

-----------------------------------------------------------------------------
(* The composition. *)

\* A step of the composition is, for each program, one of its own steps or none.
LEMMA OneProgramRuns ==
    [Next]_vars => /\ [Permits!Next]_permitsVars
                   /\ [PingPong!Next]_pingPongVars
                   /\ [Search!Next]_searchVars
                   /\ [Records!Next]_recordsVars
                   /\ [Locking!Next]_lockingVars
                   /\ [Datagram!Next]_datagramVars
                   /\ [Mandelbrot!Next]_mandelbrotVars
                   /\ [Line!Next]_lineVars
                   /\ [Directory!Next]_directoryVars
                   /\ [Script!Next]_scriptVars
<1> SUFFICES ASSUME [Next]_vars
             PROVE /\ [Permits!Next]_permitsVars
                   /\ [PingPong!Next]_pingPongVars
                   /\ [Search!Next]_searchVars
                   /\ [Records!Next]_recordsVars
                   /\ [Locking!Next]_lockingVars
                   /\ [Datagram!Next]_datagramVars
                   /\ [Mandelbrot!Next]_mandelbrotVars
                   /\ [Line!Next]_lineVars
                   /\ [Directory!Next]_directoryVars
                   /\ [Script!Next]_scriptVars
  OBVIOUS
<1> USE DEF Only
<1>1. CASE RunAlphabet
  BY <1>1 DEF RunAlphabet
<1>2. CASE RunPermits
  BY <1>2 DEF RunPermits
<1>3. CASE RunPingPong
  BY <1>3 DEF RunPingPong
<1>4. CASE RunSearch
  BY <1>4 DEF RunSearch
<1>5. CASE RunRecords
  BY <1>5 DEF RunRecords
<1>6. CASE RunDirectory
  BY <1>6 DEF RunDirectory
<1>7. CASE RunLocking
  BY <1>7 DEF RunLocking
<1>8. CASE RunScript
  BY <1>8 DEF RunScript
<1>9. CASE RunLine
  BY <1>9 DEF RunLine
<1>10. CASE RunMandelbrot
  BY <1>10 DEF RunMandelbrot
<1>11. CASE RunDatagram
  BY <1>11 DEF RunDatagram
<1>12. CASE UNCHANGED vars
  BY <1>12 DEF vars
<1>. QED
  BY <1>1, <1>2, <1>3, <1>4, <1>5, <1>6, <1>7, <1>8, <1>9, <1>10, <1>11, <1>12 DEF Next

\* The assumptions, one by one.
LEMMA ConstantTypes ==
    /\ N \in Nat /\ K \in Nat /\ FileSize \in Nat
    /\ ThreadsNo \in Nat \ {0} /\ RecordsNo \in Nat \ {0}
    /\ FileRecords \in Nat \ {0} /\ MaxLength \in Nat \ {0} /\ childrenNo \in Nat \ {0}
    /\ Points \in Nat \ {0} /\ Depth \in Nat \ {0}
    /\ IsFiniteSet(Names)
    /\ Bytes \subseteq 0 .. 255
    /\ Lister \subseteq Process
    /\ Emits \subseteq Nat
BY ProgramsAssumption

-----------------------------------------------------------------------------
(* The signal ping-pong. *)

PingPongTypeOK ==
    /\ Type \in 1 .. 3
    /\ pingAt \in {"send", "count", "sig2", "wait", "over", "quit"}
    /\ PScounter \in Nat /\ PRcounter \in Nat /\ CRcounter \in Nat
    /\ toChild \in Nat /\ toParent \in Nat
    /\ pongAt \in {"spin", "handler", "gone"}
    /\ sig2 \in BOOLEAN

PingPongInv == PingPongTypeOK /\ SignalsAccountedFor

LEMMA PingPongInit == PingPong!Init => PingPongInv
<1> SUFFICES ASSUME PingPong!Init PROVE PingPongInv
  OBVIOUS
<1> USE DEF PingPong!Init
<1>1. pingAt \in {"send", "sig2"}
  OBVIOUS
<1>2. PingPongTypeOK
  BY <1>1 DEF PingPongTypeOK
<1>3. SignalsAccountedFor
  BY <1>1 DEF SignalsAccountedFor, PingPong!SignalsAccountedFor
<1>. QED
  BY <1>2, <1>3 DEF PingPongInv

LEMMA PingPongStep == PingPongInv /\ [PingPong!Next]_pingPongVars => PingPongInv'
<1> SUFFICES ASSUME PingPongInv, [PingPong!Next]_pingPongVars PROVE PingPongInv'
  OBVIOUS
<1> USE DEF PingPongInv, PingPongTypeOK, SignalsAccountedFor,
            PingPong!SignalsAccountedFor, PingPong!counters
<1>1. CASE PingPong!SendSig1
  BY <1>1 DEF PingPong!SendSig1, PingPong!Pending
<1>2. CASE PingPong!Count
  BY <1>2 DEF PingPong!Count
<1>3. CASE PingPong!SendSig2
  BY <1>3 DEF PingPong!SendSig2
<1>4. CASE PingPong!Wait
  BY <1>4 DEF PingPong!Wait
<1>5. CASE PingPong!ParentHandler
  BY <1>5 DEF PingPong!ParentHandler, PingPong!ParentLives
<1>6. CASE PingPong!quit
  BY <1>6 DEF PingPong!quit, PingPong!ParentLives
<1>7. CASE PingPong!ChildCounts
  BY <1>7 DEF PingPong!ChildCounts
<1>8. CASE PingPong!ChildAnswers
  BY <1>8 DEF PingPong!ChildAnswers, PingPong!Pending
<1>9. CASE PingPong!ChildExits
  <2> USE <1>9 DEF PingPong!ChildExits
  <2>1. CASE pongAt = "spin"
    BY <2>1
  <2>2. CASE pongAt = "handler"
    <3>1. /\ PRcounter + toParent <= CRcounter - 1
          /\ Type = 3 => PRcounter + toParent = CRcounter - 1
      BY <2>2
    <3>2. /\ PRcounter + toParent <= CRcounter
          /\ Type = 3 => PRcounter + toParent + 1 = CRcounter
      BY <3>1
    <3>3. PingPongTypeOK'
      OBVIOUS
    <3>4. SignalsAccountedFor'
      BY <3>2
    <3>. QED
      BY <3>3, <3>4
  <2>. QED
    BY <2>1, <2>2
<1>10. CASE PingPong!QuitChild
  BY <1>10 DEF PingPong!QuitChild
<1>11. CASE PingPong!Over \/ UNCHANGED pingPongVars
  BY <1>11 DEF PingPong!Over, PingPong!vars, pingPongVars
<1>. QED
  BY <1>1, <1>2, <1>3, <1>4, <1>5, <1>6, <1>7, <1>8, <1>9, <1>10, <1>11
     DEF PingPong!Next

\* No real-time signal is lost and no standard one doubled, however many signals the
\* parent sends (cw04/zad3).
THEOREM PingPongCounts == Spec => []SignalsAccountedFor
<1>1. Init => PingPongInv
  BY PingPongInit DEF Init
<1>2. PingPongInv /\ [Next]_vars => PingPongInv'
  BY OneProgramRuns, PingPongStep
<1>3. PingPongInv => SignalsAccountedFor
  BY DEF PingPongInv
<1>. QED
  BY <1>1, <1>2, <1>3, PTL DEF Spec

-----------------------------------------------------------------------------
(* Permissions by signals. *)

PermitsTypeOK ==
    /\ parentAt \in {"spin", "scan", "permit", "wait", "end"}
    /\ i \in 0 .. N
    /\ req \in Nat
    /\ CReq \in [Permits!Children -> {0, 1}]
    /\ permAfter \in {0, 1}
    /\ pendingUsr1 \in Permits!Children \cup {Permits!Nobody}
    /\ childAt \in [Permits!Children -> {"work", "asked", "asleep", "told", "gone"}]
    /\ handled \subseteq Permits!Children
    /\ permits \in [Permits!Children -> {0, 1}]

\* A child asks once: while it works nothing of it is on its way, and its signal is
\* pending or handled, not both.
AsksOnce == /\ \A c \in handled : childAt[c] # "work"
            /\ pendingUsr1 # Permits!Nobody =>
                  pendingUsr1 \notin handled /\ childAt[pendingUsr1] # "work"

\* Who has a permission, and who is still noted for one, at each place of the parent.
WhoIsPermitted ==
    /\ permAfter = 1 => parentAt \in {"wait", "end"}
    /\ permAfter = 0 => parentAt # "wait" /\ \A c \in handled : CReq[c] = 1
    /\ parentAt = "spin" => i = 0 /\ \A c \in Permits!Children : permits[c] = 0
    /\ parentAt \in {"scan", "wait"} => req >= K
    /\ \A c \in Permits!Children : CReq[c] = 1 => c \in handled

PermitsInv == PermitsTypeOK /\ AsksOnce /\ WhoIsPermitted /\ PermitsFollowRequests

LEMMA PermitsInit == Permits!Init => PermitsInv
BY ProgramsAssumption
   DEF Permits!Init, PermitsInv, PermitsTypeOK, AsksOnce, WhoIsPermitted,
       PermitsFollowRequests, Permits!PermitsFollowRequests, Permits!Children,
       Permits!Nobody

LEMMA PermitsStep == PermitsInv /\ [Permits!Next]_permitsVars => PermitsInv'
<1> SUFFICES ASSUME PermitsInv, [Permits!Next]_permitsVars PROVE PermitsInv'
  OBVIOUS
<1> USE DEF PermitsInv, PermitsTypeOK, AsksOnce, WhoIsPermitted, PermitsFollowRequests,
        Permits!PermitsFollowRequests
<1>0. N \in Nat /\ K \in Nat /\ Permits!Nobody \notin Permits!Children
  BY ConstantTypes DEF Permits!Nobody, Permits!Children
<1>1. CASE Permits!HandleUsr1
  <2> USE <1>1 DEF Permits!HandleUsr1
  <2>1. i' \in 0 .. N /\ (parentAt # "wait" => i' = i)
    BY <1>0 DEF Permits!Interrupted
  <2>2. pendingUsr1 \in Permits!Children /\ permits[pendingUsr1] = 0
    OBVIOUS
  <2>3. PermitsTypeOK'
    BY <2>1, <2>2 DEF Permits!Permit
  <2>4. AsksOnce'
    OBVIOUS
  <2>5. WhoIsPermitted'
    BY <1>0, <2>1, <2>2 DEF Permits!Permit
  <2>6. PermitsFollowRequests'
    BY <1>0, <2>1, <2>2 DEF Permits!Permit
  <2>. QED
    BY <2>3, <2>4, <2>5, <2>6
<1>2. CASE Permits!HandleRt
  <2> USE <1>2 DEF Permits!HandleRt
  <2>1. i' \in 0 .. N /\ (parentAt # "wait" => i' = i)
    BY <1>0 DEF Permits!Interrupted
  <2>. QED
    BY <2>1
<1>3. CASE Permits!Enough
  BY <1>3 DEF Permits!Enough, Permits!childVars
<1>4. CASE Permits!Scan
  <2> USE <1>4 DEF Permits!Scan, Permits!childVars
  <2>1. i \in Permits!Children /\ i' \in 0 .. N /\ permAfter = 0
    BY <1>0 DEF Permits!Children
  <2>2. \A c \in Permits!Children : c \in Nat
    BY DEF Permits!Children
  <2>3. CASE CReq[i] = 1
    <3>1. permits[i] = 0
      BY <2>1, <2>2
    <3>2. permits' = [permits EXCEPT ![i] = 1]
      BY <2>3, <3>1, <2>1 DEF Permits!Permit
    <3>3. PermitsTypeOK' /\ AsksOnce' /\ WhoIsPermitted'
      BY <2>1, <3>2
    <3>4. PermitsFollowRequests'
      BY <2>1, <2>2, <2>3, <3>2
    <3>. QED
      BY <3>3, <3>4
  <2>4. CASE CReq[i] # 1
    BY <2>1, <2>2, <2>4
  <2>. QED
    BY <2>3, <2>4
<1>5. CASE Permits!Scanned
  BY <1>0, <1>5 DEF Permits!Scanned, Permits!childVars
<1>6. CASE Permits!WaitPid \/ Permits!End \/ Permits!quit
  BY <1>0, <1>6 DEF Permits!WaitPid, Permits!End, Permits!quit, Permits!childVars
<1>7. ASSUME NEW c \in Permits!Children, Permits!Child(c)
      PROVE  PermitsInv'
  <2> USE DEF Permits!parentVars, Permits!parentLocal, Permits!ChildGoto
  <2>1. CASE Permits!Ask(c)
    BY <1>0, <2>1 DEF Permits!Ask
  <2>2. CASE Permits!Doze(c)
    BY <2>2 DEF Permits!Doze
  <2>3. CASE Permits!Told(c)
    BY <2>3 DEF Permits!Told
  <2>4. CASE Permits!GiveUp(c)
    BY <2>4 DEF Permits!GiveUp
  <2>5. CASE Permits!Leave(c)
    BY <2>5 DEF Permits!Leave
  <2>6. CASE Permits!QuitChild(c)
    BY <2>6 DEF Permits!QuitChild
  <2>. QED
    BY <1>7, <2>1, <2>2, <2>3, <2>4, <2>5, <2>6 DEF Permits!Child
<1>8. CASE Permits!Finished \/ UNCHANGED permitsVars
  BY <1>8 DEF Permits!Finished, Permits!vars, permitsVars
<1>. QED
  BY <1>1, <1>2, <1>3, <1>4, <1>5, <1>6, <1>7, <1>8 DEF Permits!Next, Permits!Parent

\* Nobody is permitted without having asked, too early or twice, and a request that is
\* not answered is one whose handler ran behind the scan: for every number of children
\* and of requests to wait for (cw04/zad2).
THEOREM PermitsAnswerRequests == Spec => []PermitsFollowRequests
<1>1. Init => PermitsInv
  BY PermitsInit DEF Init
<1>2. PermitsInv /\ [Next]_vars => PermitsInv'
  BY OneProgramRuns, PermitsStep
<1>3. PermitsInv => PermitsFollowRequests
  BY DEF PermitsInv
<1>. QED
  BY <1>1, <1>2, <1>3, PTL DEF Spec

-----------------------------------------------------------------------------
(* Record locks. *)

LockingTypeOK ==
    /\ locks \subseteq Locking!Lock
    /\ asked \in [Process -> SUBSET Locking!Lock]
    /\ b \in [Lister -> Nat]
    /\ listed \in [Lister -> SUBSET Locking!Lock]
    /\ held \in [Lister -> SUBSET Locking!Lock]

\* The table of the kernel: a process has one lock on a byte, and locks of two
\* processes on one byte are read locks.
TableOK ==
    \A m, l \in locks : m.pos = l.pos =>
        /\ m.owner = l.owner => m = l
        /\ m.owner # l.owner => m.type = "read" /\ l.type = "read"

\* The list of p, of the bytes that have been passed, whether it is being printed or not.
ListSoFar(p) ==
    /\ \A m \in listed[p] : m.owner # p /\ m.pos < b[p]
    /\ \A m, l \in listed[p] : m.pos = l.pos => m = l
    /\ \A l \in held[p] : /\ l \in locks /\ l.owner # p
                          /\ l.pos < b[p] =>
                                \E m \in listed[p] : /\ m.pos = l.pos
                                                     /\ m.type = l.type
                                                     /\ l.type = "write" => m = l

LockingInv == LockingTypeOK /\ TableOK /\ \A p \in Lister : ListSoFar(p)

LEMMA LockFields ==
    \A l \in Locking!Lock : l.pos \in Nat /\ l.type \in {"read", "write"} /\ l.owner \in Process
BY ConstantTypes DEF Locking!Lock, Locking!Position

LEMMA LockingInit == Locking!Init => LockingInv
BY DEF Locking!Init, LockingInv, LockingTypeOK, TableOK, ListSoFar

\* A change of the table that keeps it in order leaves the list as true as it was.
LEMMA TableChanges ==
    ASSUME LockingInv, NEW new, new \subseteq Locking!Lock, Locking!Locks(new), TableOK',
           UNCHANGED <<b, listed>>, asked' \in [Process -> SUBSET Locking!Lock]
    PROVE  LockingInv'
<1> USE DEF LockingInv, Locking!Locks
<1>1. LockingTypeOK'
  BY DEF LockingTypeOK
<1>2. ASSUME NEW p \in Lister
      PROVE  ListSoFar(p)'
  <2>1. held'[p] = held[p] \cap new
    OBVIOUS
  <2>. QED
    BY <2>1 DEF ListSoFar
<1>. QED
  BY <1>1, <1>2

LEMMA GrantKeepsTable ==
    ASSUME LockingInv, NEW lock \in Locking!Lock,
           Locking!Conflicts(lock) = {}, Locking!Grant(lock)
    PROVE  TableOK'
<1> USE DEF LockingInv, LockingTypeOK, Locking!Grant, Locking!Locks, Locking!Without
<1> SUFFICES ASSUME NEW m \in locks', NEW l \in locks', m.pos = l.pos
             PROVE  /\ m.owner = l.owner => m = l
                    /\ m.owner # l.owner => m.type = "read" /\ l.type = "read"
  BY DEF TableOK
<1>1. \A h \in locks : h.owner # lock.owner /\ h.pos = lock.pos =>
         h.type = "read" /\ lock.type = "read"
  BY LockFields DEF Locking!Conflicts
<1>2. \A h \in locks' :
         h = lock \/ (h \in locks /\ (h.owner # lock.owner \/ h.pos # lock.pos))
  OBVIOUS
<1>. QED
  BY <1>1, <1>2 DEF TableOK

LEMMA GetLockLists ==
    ASSUME LockingInv, NEW p \in Lister, Locking!GetLock(p)
    PROVE  LockingInv'
<1> USE DEF LockingInv, Locking!GetLock
<1>1. /\ UNCHANGED <<locks, asked, held>>
      /\ b' = [b EXCEPT ![p] = b[p] + 1]
  OBVIOUS
<1>2. TableOK'
  BY <1>1 DEF TableOK
<1>3. Locking!Conflicts(Locking!Query(p)) = {l \in locks : l.owner # p /\ l.pos = b[p]}
  BY DEF Locking!Conflicts, Locking!Query
<1> DEFINE There == {l \in locks : l.owner # p /\ l.pos = b[p]}
<1>4. LockingTypeOK'
  BY <1>1, <1>3 DEF LockingTypeOK
<1>5. \A q \in Lister : q # p => b'[q] = b[q] /\ listed'[q] = listed[q]
  BY <1>1 DEF LockingTypeOK
<1>6. b[p] \in Nat /\ b'[p] = b[p] + 1
  BY <1>1 DEF LockingTypeOK
<1>7. \A l \in listed[p] \cup held[p] \cup locks : l.pos \in Nat
  BY LockFields DEF LockingTypeOK
<1>8. ListSoFar(p)'
  <2>1. CASE There = {}
    <3>1. listed' = listed
      BY <1>3, <2>1
    <3>2. \A l \in held[p] : l.pos < b'[p] => l.pos < b[p]
      BY <1>6, <1>7, <2>1 DEF ListSoFar
    <3>. QED
      BY <1>1, <1>6, <1>7, <3>1, <3>2 DEF ListSoFar
  <2>2. ASSUME NEW lock \in There, listed' = [listed EXCEPT ![p] = listed[p] \cup {lock}]
        PROVE  ListSoFar(p)'
    <3>1. listed'[p] = listed[p] \cup {lock}
      BY <2>2 DEF LockingTypeOK
    <3>2. \A m \in listed'[p] : m.owner # p /\ m.pos < b'[p]
      BY <1>6, <1>7, <3>1 DEF ListSoFar
    <3>3. \A m, l \in listed'[p] : m.pos = l.pos => m = l
      BY <1>6, <1>7, <3>1 DEF ListSoFar
    <3>4. ASSUME NEW l \in held'[p], l.pos < b'[p]
          PROVE  \E m \in listed'[p] : /\ m.pos = l.pos /\ m.type = l.type
                                       /\ l.type = "write" => m = l
      <4>1. l \in held[p] /\ l \in locks /\ l.owner # p
        BY <1>1, <3>4 DEF ListSoFar
      <4>2. CASE l.pos < b[p]
        BY <3>1, <4>1, <4>2 DEF ListSoFar
      <4>3. CASE l.pos = b[p]
        <5>1. lock = l \/ (lock.type = "read" /\ l.type = "read")
          BY <4>1, <4>3 DEF TableOK
        <5>. QED
          BY <3>1, <4>3, <5>1
      <4>. QED
        BY <1>6, <1>7, <3>4, <4>1, <4>2, <4>3
    <3>. QED
      BY <1>1, <3>2, <3>3, <3>4 DEF ListSoFar
  <2>. QED
    BY <1>3, <2>1, <2>2
<1>9. \A q \in Lister : ListSoFar(q)'
  BY <1>1, <1>5, <1>8 DEF ListSoFar
<1>. QED
  BY <1>2, <1>4, <1>9

LEMMA LockingStep == LockingInv /\ [Locking!Next]_lockingVars => LockingInv'
<1> SUFFICES ASSUME LockingInv, [Locking!Next]_lockingVars PROVE LockingInv'
  OBVIOUS
<1> USE DEF Locking!scanVars
<1>1. ASSUME NEW lock \in Locking!Lock, Locking!lockRequest(lock)
      PROVE  LockingInv'
  <2>1. TableOK'
    BY <1>1, GrantKeepsTable DEF Locking!lockRequest
  <2>2. Locking!Without(lock.owner, lock.pos) \cup {lock} \subseteq Locking!Lock
    BY DEF Locking!Without, LockingInv, LockingTypeOK
  <2>. QED
    BY <1>1, <2>1, <2>2, TableChanges
       DEF Locking!lockRequest, Locking!Grant, LockingInv, LockingTypeOK
<1>2. ASSUME NEW lock \in Locking!Lock, Locking!lockWait(lock)
      PROVE  LockingInv'
  <2>1. LockingTypeOK'
    BY <1>2 DEF Locking!lockWait, LockingInv, LockingTypeOK
  <2>2. UNCHANGED <<locks, held, listed, b>>
    BY <1>2 DEF Locking!lockWait
  <2>3. TableOK'
    BY <2>2 DEF LockingInv, TableOK
  <2>4. \A q \in Lister : ListSoFar(q)'
    BY <2>2 DEF LockingInv, ListSoFar
  <2>. QED
    BY <2>1, <2>3, <2>4 DEF LockingInv
<1>3. ASSUME NEW p \in Process, Locking!Granted(p)
      PROVE  LockingInv'
  <2>1. PICK lock \in Locking!Lock : Locking!Conflicts(lock) = {} /\ Locking!Grant(lock)
    BY <1>3 DEF Locking!Granted, LockingInv, LockingTypeOK
  <2>2. TableOK'
    BY <2>1, GrantKeepsTable
  <2>3. Locking!Without(lock.owner, lock.pos) \cup {lock} \subseteq Locking!Lock
    BY DEF Locking!Without, LockingInv, LockingTypeOK
  <2>4. asked' \in [Process -> SUBSET Locking!Lock] /\ UNCHANGED <<b, listed>>
    BY <1>3 DEF Locking!Granted, LockingInv, LockingTypeOK
  <2>. QED
    BY <2>1, <2>2, <2>3, <2>4, TableChanges DEF Locking!Grant
<1>4. ASSUME NEW p \in Process, Locking!quit(p)
      PROVE  LockingInv'
  <2> DEFINE new == {l \in locks : l.owner # p}
  <2>1. TableOK' /\ new \subseteq Locking!Lock /\ Locking!Locks(new)
    BY <1>4 DEF Locking!quit, Locking!Locks, LockingInv, LockingTypeOK, TableOK
  <2>2. asked' \in [Process -> SUBSET Locking!Lock] /\ UNCHANGED <<b, listed>>
    BY <1>4 DEF Locking!quit, LockingInv, LockingTypeOK
  <2>. QED
    BY <2>1, <2>2, TableChanges
<1>5. ASSUME NEW p \in Process, NEW pos \in Locking!Position, Locking!unlock(p, pos)
      PROVE  LockingInv'
  <2> DEFINE new == Locking!Without(p, pos)
  <2>1. TableOK' /\ new \subseteq Locking!Lock /\ Locking!Locks(new)
    BY <1>5 DEF Locking!unlock, Locking!Locks, Locking!Without, LockingInv, LockingTypeOK,
                TableOK
  <2>2. asked' \in [Process -> SUBSET Locking!Lock] /\ UNCHANGED <<b, listed>>
    BY <1>5 DEF Locking!unlock, LockingInv, LockingTypeOK
  <2>. QED
    BY <2>1, <2>2, TableChanges
<1>6. ASSUME NEW p \in Process, NEW pos \in Locking!Position, Locking!overwrite(p, pos)
      PROVE  LockingInv'
  BY <1>6 DEF Locking!overwrite, LockingInv, LockingTypeOK, TableOK, ListSoFar
<1>7. ASSUME NEW p \in Lister, Locking!FirstByte(p) \/ Locking!LastByte(p)
      PROVE  LockingInv'
  <2>1. /\ listed' = [listed EXCEPT ![p] = {}] /\ b' = [b EXCEPT ![p] = 0]
        /\ \/ held' = [held EXCEPT ![p] = {l \in locks : l.owner # p}]
           \/ held' = [held EXCEPT ![p] = {}]
        /\ UNCHANGED <<locks, asked>>
    BY <1>7 DEF Locking!FirstByte, Locking!LastByte
  <2>2. LockingTypeOK' /\ TableOK'
    BY <2>1 DEF LockingInv, LockingTypeOK, TableOK
  <2>3. \A q \in Lister : q # p => ListSoFar(q)'
    BY <2>1 DEF LockingInv, LockingTypeOK, ListSoFar
  <2>4. /\ listed'[p] = {} /\ b'[p] = 0
        /\ \A l \in held'[p] : l \in locks' /\ l.owner # p /\ l.pos \in Nat
    BY <2>1, LockFields DEF LockingInv, LockingTypeOK
  <2>5. ListSoFar(p)'
    BY <2>4 DEF ListSoFar
  <2>. QED
    BY <2>2, <2>3, <2>5 DEF LockingInv
<1>8. ASSUME NEW p \in Lister, Locking!GetLock(p)
      PROVE  LockingInv'
  BY <1>8, GetLockLists
<1>9. CASE UNCHANGED lockingVars
  BY <1>9 DEF lockingVars, LockingInv, LockingTypeOK, TableOK, ListSoFar
<1>. QED
  BY <1>1, <1>2, <1>3, <1>4, <1>5, <1>6, <1>7, <1>8, <1>9
     DEF Locking!Next, Locking!printLocks

\* printLocks misses no lock that was there all the time, shows it with its type, and
\* has one line for a byte, whatever the other processes lock and unlock between its
\* calls of fcntl: for every number of processes and of bytes (cw02/zad3).
THEOREM LocksAreListed == Spec => []ListIsTrue
<1>1. Init => LockingInv
  BY LockingInit DEF Init
<1>2. LockingInv /\ [Next]_vars => LockingInv'
  BY OneProgramRuns, LockingStep
<1>3. LockingInv => ListIsTrue
  BY DEF LockingInv, ListSoFar, ListIsTrue, Locking!ListIsTrue
<1>. QED
  BY <1>1, <1>2, <1>3, PTL DEF Spec

-----------------------------------------------------------------------------
(* The search of the file. *)

SearchTypeOK ==
    /\ VERSION \in 1 .. 3
    /\ offset \in 0 .. FileSize
    /\ mutex \in Search!Thread \cup {Search!Free}
    /\ at \in [Search!Thread -> {"lock", "read", "unlock", "testcancel", "search", "cancel",
                                 "endCancel", "gone"}]
    /\ k \in [Search!Thread -> Nat]
    /\ buffer \in [Search!Thread -> [Search!Slots -> 0 .. FileSize]]
    /\ CharsReaded \in [Search!Thread -> BOOLEAN]

\* Who reads has the mutex, and has it when he is at the end of the file.
ReadersHoldMutex ==
    \A t \in Search!Thread : at[t] \in {"read", "unlock", "endCancel"} => mutex = t

\* Nothing is in a buffer that has not been read, and nothing in two buffers.
BuffersApart ==
    /\ \A t \in Search!Thread, s \in Search!Slots : buffer[t][s] <= offset
    /\ \A t, u \in Search!Thread : t # u =>
          \A s, r \in Search!Slots : buffer[t][s] = buffer[u][r] => buffer[t][s] = 0

\* The records in the first slots follow one another.
RunOf(t, m) == \A s \in 1 .. m : buffer[t][s] = buffer[t][1] + s - 1

\* The batch of t, while it is read and when it has been read.
BatchOf(t) ==
    /\ at[t] = "read" =>
          /\ k[t] \in Search!Slots
          /\ k[t] > 1 => IF CharsReaded[t]
                         THEN RunOf(t, k[t] - 1) /\ buffer[t][k[t] - 1] = offset
                         ELSE offset = FileSize
    /\ at[t] \in {"unlock", "testcancel", "search"} /\ CharsReaded[t] => RunOf(t, RecordsNo)

SearchInv == /\ SearchTypeOK /\ ReadersHoldMutex /\ BuffersApart
             /\ \A t \in Search!Thread : BatchOf(t)

LEMMA SearchInit == Search!Init => SearchInv
BY ConstantTypes
   DEF Search!Init, SearchInv, SearchTypeOK, ReadersHoldMutex, BuffersApart, BatchOf

LEMMA ThreadTypes ==
    /\ Search!Thread \subseteq Nat /\ Search!Free \notin Search!Thread
    /\ RecordsNo \in Nat \ {0} /\ FileSize \in Nat
    /\ \A s : s \in Search!Slots <=> s \in Nat /\ s >= 1 /\ s <= RecordsNo
BY ConstantTypes DEF Search!Thread, Search!Free, Search!Slots

\* A step that reads nothing keeps the batches if it takes t to a place where there
\* is none, or leaves what has been read as it is.
LEMMA BatchesStay ==
    ASSUME SearchInv, UNCHANGED <<offset, buffer, CharsReaded>>, NEW t \in Search!Thread,
           \A u \in Search!Thread : u # t => at'[u] = at[u] /\ k'[u] = k[u],
           \/ at'[t] \in {"lock", "cancel", "endCancel", "gone"}
           \/ at'[t] = "read" /\ k'[t] = 1
           \/ /\ at'[t] \in {"testcancel", "search"}
              /\ at[t] \in {"unlock", "testcancel"}
    PROVE  BuffersApart' /\ \A u \in Search!Thread : BatchOf(u)'
<1>1. BuffersApart'
  BY DEF SearchInv, BuffersApart
<1>2. \A u \in Search!Thread, m \in Nat : RunOf(u, m)' <=> RunOf(u, m)
  BY DEF RunOf
<1>3. \A u \in Search!Thread : u # t => BatchOf(u)'
  BY ThreadTypes, <1>2 DEF SearchInv, SearchTypeOK, BatchOf
<1>4. BatchOf(t)'
  BY ThreadTypes, <1>2 DEF SearchInv, BatchOf
<1>. QED
  BY <1>1, <1>3, <1>4

LEMMA ReadReads ==
    ASSUME SearchInv, NEW t \in Search!Thread, Search!Read(t)
    PROVE  SearchInv'
<1> USE ThreadTypes DEF SearchInv, SearchTypeOK
<1>0. PICK s : s = k[t]
  OBVIOUS
<1>1. /\ at[t] = "read" /\ s \in Search!Slots /\ mutex = t
      /\ offset \in 0 .. FileSize
      /\ UNCHANGED <<VERSION, mutex>>
  BY <1>0 DEF Search!Read, BatchOf, ReadersHoldMutex
<1>2. /\ CharsReaded' = [CharsReaded EXCEPT ![t] = offset < FileSize]
      /\ CharsReaded'[t] <=> offset < FileSize
      /\ \A u \in Search!Thread : u # t => CharsReaded'[u] = CharsReaded[u]
      /\ CharsReaded' \in [Search!Thread -> BOOLEAN]
  <2>1. CharsReaded' = [CharsReaded EXCEPT ![t] = offset < FileSize]
    BY DEF Search!Read
  <2>2. CharsReaded \in [Search!Thread -> BOOLEAN] /\ (offset < FileSize) \in BOOLEAN
    OBVIOUS
  <2>. QED
    BY ONLY <2>1, <2>2, t \in Search!Thread, Zenon
<1>3. /\ at' \in [Search!Thread -> {"lock", "read", "unlock", "testcancel", "search", "cancel",
                                    "endCancel", "gone"}]
      /\ k' \in [Search!Thread -> Nat]
      /\ \A u \in Search!Thread : u # t => at'[u] = at[u] /\ k'[u] = k[u]
      /\ \/ at'[t] = "read" /\ s < RecordsNo /\ k'[t] = s + 1
         \/ at'[t] = "endCancel" /\ s = RecordsNo
         \/ at'[t] = "unlock" /\ s = RecordsNo
  BY <1>0, <1>1 DEF Search!Read, Search!Goto
<1>4. ReadersHoldMutex'
  BY <1>1, <1>3 DEF ReadersHoldMutex
<1>5. \A u \in Search!Thread : u # t =>
         at[u] \notin {"read", "unlock", "endCancel"}
  BY <1>1 DEF ReadersHoldMutex
<1>6. CASE offset < FileSize
  <2>1. /\ offset' = offset + 1
        /\ buffer' = [buffer EXCEPT ![t][s] = offset + 1]
    BY <1>0, <1>6 DEF Search!Read
  <2>2. /\ buffer' \in [Search!Thread -> [Search!Slots -> 0 .. FileSize]]
        /\ buffer'[t][s] = offset + 1
        /\ \A r \in Search!Slots : r # s => buffer'[t][r] = buffer[t][r]
        /\ \A u \in Search!Thread : u # t => buffer'[u] = buffer[u]
    BY <1>1, <1>6, <2>1
  <2>3. SearchTypeOK'
    BY <1>1, <1>2, <1>3, <1>6, <2>1, <2>2
  <2>4. BuffersApart'
    <3>1. \A u \in Search!Thread, r \in Search!Slots :
             buffer'[u][r] \in Nat /\ buffer[u][r] \in Nat /\ buffer[u][r] <= offset
      BY <2>2 DEF BuffersApart
    <3>2. \A u \in Search!Thread, r \in Search!Slots :
             \/ buffer'[u][r] = buffer[u][r]
             \/ u = t /\ r = s /\ buffer'[u][r] = offset + 1
      BY <2>2
    <3>. QED
      BY <1>1, <2>1, <3>1, <3>2 DEF BuffersApart
  <2>5. \A u \in Search!Thread : u # t => BatchOf(u)'
    BY <1>2, <1>3, <1>5, <2>2 DEF BatchOf, RunOf
  <2>6. s > 1 => CharsReaded[t] /\ RunOf(t, s - 1) /\ buffer[t][s - 1] = offset
    BY <1>0, <1>1, <1>6 DEF BatchOf
  <2>7. RunOf(t, s)'
    <3>1. CASE s = 1
      BY <2>2, <3>1, <1>1, <1>6 DEF RunOf
    <3>2. CASE s > 1
      <4>1. RunOf(t, s - 1) /\ buffer[t][s - 1] = offset
        BY <2>6, <3>2
      <4>2. /\ 1 \in Search!Slots /\ s - 1 \in 1 .. s - 1 /\ s \in Nat
            /\ \A r \in 1 .. s - 1 : r \in Search!Slots /\ r # s
            /\ buffer[t][1] \in Nat
        BY <1>1, <3>2
      <4>3. offset = buffer[t][1] + (s - 1) - 1
        BY <4>1, <4>2 DEF RunOf
      <4>4. buffer'[t][1] = buffer[t][1]
        BY <2>2, <4>2, <3>2
      <4>5. \A r \in 1 .. s - 1 : buffer'[t][r] = buffer'[t][1] + r - 1
        BY <2>2, <4>1, <4>2, <4>4 DEF RunOf
      <4>6. buffer'[t][s] = buffer'[t][1] + s - 1
        BY <2>2, <4>2, <4>3, <4>4
      <4>7. \A r \in 1 .. s : r \in 1 .. s - 1 \/ r = s
        BY <4>2
      <4>. QED
        BY <4>5, <4>6, <4>7 DEF RunOf
    <3>. QED
      BY <1>1, <3>1, <3>2
  <2>8. BatchOf(t)'
    BY <1>1, <1>2, <1>3, <1>6, <2>1, <2>2, <2>7 DEF BatchOf
  <2>. QED
    BY <1>4, <2>3, <2>4, <2>5, <2>8
<1>7. CASE ~(offset < FileSize)
  <2>1. UNCHANGED <<offset, buffer>> /\ offset = FileSize
    BY <1>1, <1>7 DEF Search!Read
  <2>2. SearchTypeOK'
    BY <1>1, <1>2, <1>3, <2>1
  <2>3. BuffersApart'
    BY <2>1 DEF BuffersApart
  <2>4. \A u \in Search!Thread : u # t => BatchOf(u)'
    BY <1>2, <1>3, <1>5, <2>1 DEF BatchOf, RunOf
  <2>5. BatchOf(t)'
    BY <1>1, <1>2, <1>3, <1>7, <2>1 DEF BatchOf
  <2>. QED
    BY <1>4, <2>2, <2>3, <2>4, <2>5
<1>. QED
  BY <1>6, <1>7

LEMMA SearchStep == SearchInv /\ [Search!Next]_searchVars => SearchInv'
<1> SUFFICES ASSUME SearchInv, [Search!Next]_searchVars PROVE SearchInv'
  OBVIOUS
<1>1. ASSUME NEW t \in Search!Thread,
             \/ Search!Lock(t) \/ Search!Unlock(t) \/ Search!TestCancel(t)
             \/ Search!SearchOnce(t) \/ Search!SearchOn(t) \/ Search!Return(t)
             \/ Search!Die(t)
      PROVE  SearchInv'
  <2> USE ThreadTypes
  <2>1. /\ UNCHANGED <<VERSION, offset, buffer, CharsReaded>>
        /\ \A u \in Search!Thread : u # t => at'[u] = at[u] /\ k'[u] = k[u]
        /\ \/ at'[t] \in {"lock", "cancel", "endCancel", "gone"}
           \/ at'[t] = "read" /\ k'[t] = 1
           \/ at'[t] \in {"testcancel", "search"} /\ at[t] \in {"unlock", "testcancel"}
    BY <1>1 DEF Search!Lock, Search!Unlock, Search!TestCancel, Search!SearchOnce,
                Search!SearchOn, Search!Return, Search!Die, Search!Goto, SearchInv,
                SearchTypeOK
  <2>2. SearchTypeOK'
    BY <1>1 DEF Search!Lock, Search!Unlock, Search!TestCancel, Search!SearchOnce,
                Search!SearchOn, Search!Return, Search!Die, Search!Goto, SearchInv,
                SearchTypeOK
  <2>3. ReadersHoldMutex'
    BY <1>1 DEF Search!Lock, Search!Unlock, Search!TestCancel, Search!SearchOnce,
                Search!SearchOn, Search!Return, Search!Die, Search!Goto, SearchInv,
                SearchTypeOK, ReadersHoldMutex
  <2>. QED
    BY <2>1, <2>2, <2>3, BatchesStay DEF SearchInv
<1>2. ASSUME NEW t \in Search!Thread, Search!Read(t)
      PROVE  SearchInv'
  BY <1>2, ReadReads
<1>3. ASSUME NEW t \in Search!Thread, Search!CancelOther(t)
      PROVE  SearchInv'
  BY <1>3, ThreadTypes
     DEF Search!CancelOther, SearchInv, SearchTypeOK, ReadersHoldMutex, BuffersApart,
         BatchOf, RunOf
<1>4. CASE Search!Stopped \/ UNCHANGED searchVars
  BY <1>4 DEF Search!Stopped, Search!vars, searchVars, SearchInv, SearchTypeOK,
              ReadersHoldMutex, BuffersApart, BatchOf, RunOf
<1>. QED
  BY <1>1, <1>2, <1>3, <1>4 DEF Search!Next, Search!Run

\* A whole batch is a run of the file, and no record is searched by two threads, for
\* every number of threads, size of the batches and length of the file, and also when
\* threads are cancelled between any two steps (cw08/zad1).
THEOREM BatchesAreRead == Spec => []BatchesAreRuns
<1>1. Init => SearchInv
  BY SearchInit DEF Init
<1>2. SearchInv /\ [Next]_vars => SearchInv'
  BY OneProgramRuns, SearchStep
<1>3. SearchInv => BatchesAreRuns
  BY DEF SearchInv, BuffersApart, BatchOf, RunOf, BatchesAreRuns, Search!BatchesAreRuns,
         Search!Slots
<1>. QED
  BY <1>1, <1>2, <1>3, PTL DEF Spec

-----------------------------------------------------------------------------
(* The file of records. *)

\* The file as it is when the exchange under way has been finished.
Whole == IF fileAt = "second" THEN [file EXCEPT ![Records!Target] = record1] ELSE file

RecordsTypeOK ==
    /\ op \in {"sort", "shuffle"}
    /\ recordAmount \in 0 .. FileRecords + 1
    /\ generated \in BOOLEAN
    /\ first \in [Records!Record -> 0 .. 255]
    /\ generated => \A r \in Records!Record : first[r] <= 127
    /\ fileAt \in {"loop", "first", "second", "done", "failed"}
    /\ file \in [Records!Place -> Records!Place \cup {Records!Torn}]
    /\ fileAt # "failed" => file \in [Records!Place -> Records!Place]
    /\ n \in Int /\ index \in Int /\ j \in Int
    /\ change \in {0, 1}
    /\ record1 \in Records!Place \cup {Records!Torn}
    /\ fileAt \in {"first", "second"} => record1 \in Records!Place

\* Where the loops are.
LoopsOK ==
    /\ op = "sort" => /\ n <= recordAmount /\ index \in Records!Record
                      /\ fileAt = "loop" => index <= n - 1 \/ index = 0
                      /\ fileAt # "first"
                      /\ fileAt = "second" => index < n - 1 /\ index + 1 \in Records!Record
                      /\ n < recordAmount => recordAmount <= FileRecords
                      /\ fileAt = "done" => n < recordAmount
    /\ op = "shuffle" => /\ index < recordAmount
                         /\ fileAt \in {"loop", "first", "second"} /\ recordAmount > 0 =>
                               index >= 0
                         /\ fileAt \in {"first", "second"} => index >= 1 /\ j \in 0 .. index - 1
                         /\ fileAt = "done" => index < 1 /\ (recordAmount > 0 => index = 0)

\* Nothing is lost but what a write that failed has destroyed.
NothingLost ==
    /\ fileAt # "failed" =>
          \A r \in Records!Record : \E p \in Records!Place : Whole[p] = r
    /\ fileAt = "failed" =>
          \E lost \in Records!Place : \A r \in Records!Record :
              r # lost => \E p \in Records!Place : file[p] = r
    /\ fileAt = "first" => record1 = file[index]
    /\ \A p \in Records!Place : p >= recordAmount => file[p] = p

\* The order of the sort, in which no two records are equal.
Key(r) == Records!Char(first[r])
Before(r, s) == Key(r) < Key(s) \/ (Key(r) = Key(s) /\ r < s)

\* The records behind the bound n are in order, the one at index comes behind those
\* it has passed, and those are in order as well if nothing has been changed.
SortOK ==
    /\ \A p \in Records!Record : Whole[p] \in Records!Record
    /\ \A p, q \in Records!Record :
          p < q /\ Key(Whole[p]) = Key(Whole[q]) => Whole[p] < Whole[q]
    /\ \A p, q \in Records!Record :
          p < q /\ n <= q /\ q < recordAmount => Before(Whole[p], Whole[q])
    /\ fileAt = "loop" => \A p \in Records!Record :
          p < index => Before(Whole[p], Whole[index])
    /\ fileAt = "second" => \A p \in Records!Record :
          p <= index => Before(Whole[p], Whole[index + 1])
    /\ fileAt = "loop" /\ change = 0 => \A p, q \in Records!Record :
          p < q /\ q <= index => Before(Whole[p], Whole[q])
    /\ fileAt = "done" => \A p, q \in Records!Record :
          p < q /\ q < recordAmount => Before(Whole[p], Whole[q])

\* The places of the shuffle, and the last one that has still to be drawn for.
Shuffled == 0 .. recordAmount - 1
Undrawn == IF fileAt = "second" THEN index - 1 ELSE index

\* A set of places that the permutation maps to itself.
Closed(S) == \A p \in Shuffled : Whole[p] \in S <=> p \in S

\* The permutation has one cycle for each place up to the last one that is not drawn
\* for: each of these is on a cycle of its own, and no cycle is without one of them.
ShuffleOK ==
    /\ \A p \in Shuffled : Whole[p] \in Shuffled
    /\ \A p, q \in Shuffled : Whole[p] = Whole[q] => p = q
    /\ \A p \in Shuffled : \E q \in Shuffled : Whole[q] = p
    /\ recordAmount > 0 =>
          \E cycle \in [Shuffled -> 0 .. Undrawn] :
              /\ \A p \in Shuffled : cycle[Whole[p]] = cycle[p]
              /\ \A p \in 0 .. Undrawn : cycle[p] = p
    /\ \A S \in SUBSET Shuffled :
          Closed(S) /\ S # {} => \E p \in S : p <= Undrawn

RecordsInv == /\ RecordsTypeOK /\ LoopsOK /\ NothingLost
              /\ op = "sort" /\ fileAt # "failed" => SortOK
              /\ op = "shuffle" /\ fileAt # "failed" => ShuffleOK

LEMMA Places ==
    /\ FileRecords \in Nat \ {0}
    /\ \A p : p \in Records!Record <=> p \in Nat /\ p < FileRecords
    /\ \A p : p \in Records!Place <=> p \in Nat /\ p <= FileRecords
    /\ Records!Torn \notin Records!Place
BY ConstantTypes DEF Records!Record, Records!Place, Records!Torn

\* The bytes as signed chars.
LEMMA Keys ==
    /\ \A byte \in 0 .. 255 : Records!Char(byte) \in Int
    /\ \A byte \in 0 .. 127 : Records!Char(byte) = byte
    /\ \A x, y \in 0 .. 255 : Records!Char(x) = Records!Char(y) => x = y
BY DEF Records!Char

LEMMA OneByteForAKey ==
    ASSUME NEW u \in 0 .. 255, NEW v \in 0 .. 255,
           Records!Char(u) = Records!Char(v)
    PROVE  u = v
BY DEF Records!Char

LEMMA NormalIsAscii == {Records!Normal(byte) : byte \in Bytes} \subseteq 0 .. 127
<1> SUFFICES ASSUME NEW x \in {Records!Normal(byte) : byte \in Bytes}
             PROVE  x \in 0 .. 127
  OBVIOUS
<1>1. PICK byte \in Bytes : x = Records!Normal(byte)
  BY DEF Records!Normal, Records!Char
<1>2. \A y \in Nat : y % 20 \in 0 .. 19
  OBVIOUS
<1>3. PICK char \in Int : char = Records!Char(byte)
  BY ConstantTypes DEF Records!Char
<1>4. x = IF char >= 0 THEN 65 + (char % 20) ELSE 65 - ((-char) % 20)
  BY <1>1, <1>3 DEF Records!Normal, Records!Char
<1>5. CASE char >= 0
  BY <1>2, <1>4, <1>5
<1>6. CASE ~(char >= 0)
  <2>1. -char \in Nat
    BY <1>6
  <2>. QED
    BY <1>2, <1>4, <1>6, <2>1
<1>. QED
  BY <1>5, <1>6

\* Records are ordered as numbers are.
LEMMA BeforeIsAnOrder ==
    ASSUME RecordsTypeOK, NEW r \in Records!Record, NEW s \in Records!Record,
           NEW t \in Records!Record
    PROVE  /\ Key(r) \in Int /\ r \in Int
           /\ Before(r, s) /\ Before(s, t) => Before(r, t)
<1>1. Key(r) \in Int /\ Key(s) \in Int /\ Key(t) \in Int
  BY DEF Key, Records!Char, RecordsTypeOK
<1>2. r \in Int /\ s \in Int /\ t \in Int
  BY Places
<1>. QED
  BY <1>1, <1>2 DEF Before

LEMMA WholeType ==
    ASSUME RecordsTypeOK, fileAt # "failed"
    PROVE  Whole \in [Records!Place -> Records!Place]
BY DEF RecordsTypeOK, Whole

LEMMA BytesFit ==
    first \in [Records!Record -> Bytes] => first \in [Records!Record -> 0 .. 255]
<1>1. Bytes \subseteq 0 .. 255
  BY ConstantTypes
<1>. QED
  BY <1>1, Zenon

LEMMA RecordsInit == Records!Init => RecordsInv
<1> SUFFICES ASSUME Records!Init PROVE RecordsInv
  OBVIOUS
<1> USE DEF Records!Init
<1>1. /\ fileAt = "loop" /\ file = [p \in Records!Place |-> p] /\ Whole = file
      /\ recordAmount \in 0 .. FileRecords + 1 /\ n = recordAmount /\ change = 0
  BY DEF Whole
<1>2. /\ op = "sort" => index = 0
      /\ op = "shuffle" => index = recordAmount - 1
      /\ op \in {"sort", "shuffle"} /\ generated \in BOOLEAN
      /\ j = 0 /\ record1 = Records!Torn
  OBVIOUS
<1>3. RecordsTypeOK
  <2>1. PICK ascii \in SUBSET (0 .. 127) :
           first \in [Records!Record -> IF generated THEN ascii ELSE Bytes]
    BY NormalIsAscii
  <2>2. CASE generated
    <3>1. first \in [Records!Record -> 0 .. 127]
      BY <2>1, <2>2
    <3>. QED
      BY <1>1, <1>2, <3>1, ConstantTypes DEF RecordsTypeOK
  <2>3. CASE ~generated
    <3>1. first \in [Records!Record -> 0 .. 255]
      BY <2>1, <2>3, BytesFit
    <3>. QED
      BY <1>1, <1>2, <2>3, <3>1, ConstantTypes DEF RecordsTypeOK
  <2>. QED
    BY <1>2, <2>2, <2>3
<1>4. LoopsOK
  BY <1>1, <1>2, Places DEF LoopsOK
<1>5. NothingLost
  BY <1>1, Places DEF NothingLost
<1>6. op = "sort" => SortOK
  BY <1>1, <1>2, Places DEF SortOK
<1>7. op = "shuffle" => ShuffleOK
  <2> SUFFICES ASSUME op = "shuffle" PROVE ShuffleOK
    OBVIOUS
  <2>1. Undrawn = recordAmount - 1
    BY <1>1, <1>2 DEF Undrawn
  <2>2. /\ \A p \in Shuffled : Whole[p] = p /\ p <= Undrawn
        /\ Shuffled = 0 .. Undrawn
    BY <1>1, <2>1, Places DEF Shuffled
  <2> DEFINE cycle == [p \in Shuffled |-> p]
  <2>3. /\ cycle \in [Shuffled -> 0 .. Undrawn]
        /\ \A p \in Shuffled : cycle[Whole[p]] = cycle[p]
        /\ \A p \in 0 .. Undrawn : cycle[p] = p
    BY <2>2
  <2>. QED
    BY <2>2, <2>3 DEF ShuffleOK
<1>. QED
  BY <1>3, <1>4, <1>5, <1>6, <1>7 DEF RecordsInv

\* Two places of f have been exchanged, the others are as they were.
IsExchanged(new, f, p, q) ==
    /\ new[p] = f[q] /\ new[q] = f[p]
    /\ \A r \in Records!Place : r # p /\ r # q => new[r] = f[r]

\* The first write of an exchange decides it.
LEMMA WriteRecord2Exchanges ==
    ASSUME RecordsInv, Records!WriteRecord2
    PROVE  /\ fileAt = "loop" /\ fileAt' = "second" /\ op = "sort"
           /\ index \in Records!Record /\ index + 1 \in Records!Record /\ index < n - 1
           /\ UNCHANGED <<op, recordAmount, generated, first, n, index, j, change>>
           /\ record1' = file[index] /\ file'[index] = file[index + 1]
           /\ \A p \in Records!Place : p # index => file'[p] = file[p]
           /\ file' \in [Records!Place -> Records!Place]
           /\ record1' \in Records!Place
           /\ Whole = file
           /\ IsExchanged(Whole', Whole, index, index + 1)
           /\ Key(Whole[index]) > Key(Whole[index + 1])
<1> USE DEF Records!WriteRecord2, Records!Goto, Records!Exchange, Records!InPass,
            Records!constant
<1>1. /\ fileAt = "loop" /\ fileAt' = "second" /\ op = "sort"
      /\ index \in Records!Record /\ index + 1 \in Records!Record /\ index < n - 1
      /\ UNCHANGED <<op, recordAmount, generated, first, n, index, j, change>>
      /\ record1' = file[index]
      /\ file' = [file EXCEPT ![index] = file[index + 1]]
  BY DEF RecordsInv, LoopsOK
<1>2. file \in [Records!Place -> Records!Place]
  BY <1>1 DEF RecordsInv, RecordsTypeOK
<1>3. index \in Records!Place /\ index + 1 \in Records!Place /\ index # index + 1
  BY <1>1, Places
<1>4. /\ file'[index] = file[index + 1]
      /\ \A p \in Records!Place : p # index => file'[p] = file[p]
      /\ file' \in [Records!Place -> Records!Place]
      /\ record1' \in Records!Place
  BY <1>1, <1>2, <1>3
<1>5. Whole = file /\ Whole' = [file' EXCEPT ![index + 1] = record1']
  BY <1>1 DEF Whole, Records!Target
<1>6. IsExchanged(Whole', Whole, index, index + 1)
  BY <1>1, <1>2, <1>3, <1>4, <1>5 DEF IsExchanged
<1>7. Key(Whole[index]) > Key(Whole[index + 1])
  BY <1>5 DEF Records!Greater, Key, Records!Char
<1>. QED
  BY <1>1, <1>4, <1>5, <1>6, <1>7

LEMMA WriteRecord2Sorts ==
    ASSUME RecordsInv, Records!WriteRecord2
    PROVE  RecordsInv'
<1>1. /\ fileAt = "loop" /\ fileAt' = "second" /\ op = "sort"
      /\ index \in Records!Record /\ index + 1 \in Records!Record /\ index < n - 1
      /\ UNCHANGED <<op, recordAmount, generated, first, n, index, j, change>>
      /\ record1' = file[index] /\ file'[index] = file[index + 1]
      /\ \A p \in Records!Place : p # index => file'[p] = file[p]
      /\ file' \in [Records!Place -> Records!Place]
      /\ record1' \in Records!Place
      /\ Whole = file
      /\ IsExchanged(Whole', Whole, index, index + 1)
      /\ Key(Whole[index]) > Key(Whole[index + 1])
  BY WriteRecord2Exchanges
<1>2. RecordsTypeOK /\ LoopsOK /\ NothingLost /\ SortOK
  BY <1>1 DEF RecordsInv
<1>3. RecordsTypeOK'
  BY <1>1, <1>2, Places DEF RecordsTypeOK
<1>4. LoopsOK'
  BY <1>1, <1>2 DEF LoopsOK
<1>5. NothingLost'
  <2>1. \A r \in Records!Record : \E p \in Records!Place : Whole'[p] = r
    <3> SUFFICES ASSUME NEW r \in Records!Record
                 PROVE  \E p \in Records!Place : Whole'[p] = r
      OBVIOUS
    <3>1. PICK p \in Records!Place : Whole[p] = r
      BY <1>1, <1>2 DEF NothingLost
    <3>2. index \in Records!Place /\ index + 1 \in Records!Place
      BY <1>1, Places
    <3>. QED
      BY <1>1, <3>1, <3>2 DEF IsExchanged
  <2>2. \A p \in Records!Place : p >= recordAmount => file'[p] = p
    BY <1>1, <1>2, Places DEF NothingLost, LoopsOK, RecordsTypeOK
  <2>. QED
    BY <1>1, <2>1, <2>2 DEF NothingLost
<1>6. SortOK'
  <2>1. /\ \A p \in Records!Record : Whole[p] \in Records!Record
        /\ \A r \in Records!Record : Key(r)' = Key(r)
        /\ \A r, s \in Records!Record : Before(r, s)' <=> Before(r, s)
    BY <1>1, <1>2 DEF SortOK, Key, Before
  <2>2. /\ Whole'[index] = Whole[index + 1] /\ Whole'[index + 1] = Whole[index]
        /\ \A p \in Records!Record : p # index /\ p # index + 1 => Whole'[p] = Whole[p]
    BY <1>1, Places DEF IsExchanged
  <2>3. \A p \in Records!Record : Whole'[p] \in Records!Record
    BY <1>1, <2>1, <2>2
  <2>4. \A r \in Records!Record : r \in Int /\ Key(r) \in Int
    BY <1>2, BeforeIsAnOrder
  <2>5. ASSUME NEW p \in Records!Record, NEW q \in Records!Record,
               p < q, Key(Whole'[p]) = Key(Whole'[q])
        PROVE  Whole'[p] < Whole'[q]
    <3>1. p \in Int /\ q \in Int /\ index \in Int
      BY Places, <1>1
    <3>2. \A u, v \in Records!Record :
             u < v /\ Key(Whole[u]) = Key(Whole[v]) => Whole[u] < Whole[v]
      BY <1>2 DEF SortOK
    <3>3. p # index \/ q # index + 1
      BY <1>1, <2>1, <2>2, <2>4, <2>5
    <3>. QED
      BY <1>1, <2>2, <2>5, <3>1, <3>2, <3>3
  <2>6. ASSUME NEW p \in Records!Record, NEW q \in Records!Record,
               p < q, n <= q, q < recordAmount
        PROVE  Before(Whole'[p], Whole'[q])
    <3>1. p \in Int /\ q \in Int /\ index \in Int /\ n \in Int
      BY Places, <1>1, <1>2 DEF RecordsTypeOK
    <3>2. \A u \in Records!Record : u < q => Before(Whole[u], Whole[q])
      BY <1>2, <2>6 DEF SortOK
    <3>. QED
      BY <1>1, <2>2, <2>6, <3>1, <3>2
  <2>7. ASSUME NEW p \in Records!Record, p <= index
        PROVE  Before(Whole'[p], Whole'[index + 1])
    <3>1. CASE p = index
      BY <1>1, <2>1, <2>2, <2>4, <3>1 DEF Before
    <3>2. CASE p # index
      <4>1. p < index /\ p # index + 1
        BY Places, <1>1, <2>7, <3>2
      <4>. QED
        BY <1>1, <1>2, <2>2, <3>2, <4>1 DEF SortOK
    <3>. QED
      BY <3>1, <3>2
  <2>. QED
    BY <1>1, <2>1, <2>3, <2>5, <2>6, <2>7 DEF SortOK
<1>. QED
  BY <1>1, <1>3, <1>4, <1>5, <1>6 DEF RecordsInv

LEMMA PassSorts ==
    ASSUME RecordsInv, Records!Pass
    PROVE  RecordsInv'
<1> USE DEF Records!Pass, Records!InPass, Records!constant
<1>1. /\ fileAt = "loop" /\ op = "sort"
      /\ index \in Records!Record /\ index + 1 \in Records!Record /\ index < n - 1
      /\ index' = index + 1
      /\ UNCHANGED <<op, recordAmount, generated, first, file, fileAt, n, j, change, record1>>
      /\ Whole = file /\ Whole' = Whole
  BY DEF RecordsInv, LoopsOK, Whole
<1>2. RecordsTypeOK /\ LoopsOK /\ NothingLost /\ SortOK
  BY <1>1 DEF RecordsInv
<1>3. RecordsTypeOK'
  BY <1>1, <1>2, Places DEF RecordsTypeOK
<1>4. index \in Int /\ n \in Int
  BY <1>2 DEF RecordsTypeOK
<1>5. LoopsOK'
  BY <1>1, <1>2, <1>4 DEF LoopsOK
<1>6. NothingLost'
  BY <1>1, <1>2 DEF NothingLost
<1>7. SortOK'
  <2>1. /\ \A p \in Records!Record : Whole[p] \in Records!Record
        /\ \A r \in Records!Record : Key(r)' = Key(r)
        /\ \A r, s \in Records!Record : Before(r, s)' <=> Before(r, s)
        /\ \A r \in Records!Record : r \in Int /\ Key(r) \in Int
    BY <1>1, <1>2, BeforeIsAnOrder DEF SortOK, Key, Before
  <2>2. Key(Whole[index]) <= Key(Whole[index + 1])
    <3>1. ~(Key(Whole[index]) > Key(Whole[index + 1]))
      BY <1>1 DEF Records!Greater, Key, Records!Char
    <3>. QED
      BY <1>1, <2>1, <3>1
  <2>3. Before(Whole[index], Whole[index + 1])
    <3>1. Key(Whole[index]) = Key(Whole[index + 1]) => Whole[index] < Whole[index + 1]
      BY <1>1, <1>2, <1>4 DEF SortOK
    <3>. QED
      BY <1>1, <2>1, <2>2, <3>1 DEF Before
  <2>4. ASSUME NEW p \in Records!Record, p < index + 1
        PROVE  Before(Whole[p], Whole[index + 1])
    <3>1. p \in Int
      BY Places
    <3>2. CASE p = index
      BY <2>3, <3>2
    <3>3. CASE p < index
      <4>1. Before(Whole[p], Whole[index])
        BY <1>1, <1>2, <3>3 DEF SortOK
      <4>. QED
        BY <1>1, <1>2, <2>1, <2>3, <4>1, BeforeIsAnOrder
    <3>. QED
      BY <1>4, <2>4, <3>1, <3>2, <3>3
  <2>5. ASSUME change = 0, NEW p \in Records!Record, NEW q \in Records!Record,
               p < q, q <= index + 1
        PROVE  Before(Whole[p], Whole[q])
    <3>1. p \in Int /\ q \in Int
      BY Places
    <3>2. CASE q = index + 1
      BY <2>4, <2>5, <3>2
    <3>3. CASE q <= index
      BY <1>1, <1>2, <2>5, <3>3 DEF SortOK
    <3>. QED
      BY <1>4, <2>5, <3>1, <3>2, <3>3
  <2>6. /\ \A p, q \in Records!Record :
              p < q /\ Key(Whole[p]) = Key(Whole[q]) => Whole[p] < Whole[q]
        /\ \A p, q \in Records!Record :
              p < q /\ n <= q /\ q < recordAmount => Before(Whole[p], Whole[q])
    BY <1>2 DEF SortOK
  <2>7. /\ \A p \in Records!Record : p < index + 1 => Before(Whole[p], Whole[index + 1])
        /\ change = 0 => \A p, q \in Records!Record :
              p < q /\ q <= index + 1 => Before(Whole[p], Whole[q])
    BY <2>4, <2>5
  <2>. QED
    BY <1>1, <2>1, <2>6, <2>7 DEF SortOK
<1>. QED
  BY <1>1, <1>3, <1>5, <1>6, <1>7 DEF RecordsInv

LEMMA WriteRecord1Sorts ==
    ASSUME RecordsInv, Records!WriteRecord1
    PROVE  RecordsInv'
<1>1. /\ fileAt = "second" /\ fileAt' = "loop" /\ op = "sort"
      /\ file' = [file EXCEPT ![index + 1] = record1]
      /\ change' = 1 /\ index' = index + 1
      /\ UNCHANGED <<op, recordAmount, generated, first, n, j, record1>>
  BY DEF Records!WriteRecord1, Records!Goto, Records!constant
<1>2. RecordsTypeOK /\ LoopsOK /\ NothingLost /\ SortOK
  BY <1>1 DEF RecordsInv
<1>3. /\ index \in Records!Record /\ index + 1 \in Records!Record /\ index < n - 1
      /\ index \in Int /\ n \in Int /\ record1 \in Records!Place
  BY <1>1, <1>2 DEF LoopsOK, RecordsTypeOK
<1>4. Whole' = Whole /\ Whole = file'
  BY <1>1 DEF Whole, Records!Target
<1>5. file' \in [Records!Place -> Records!Place]
  BY <1>1, <1>2, <1>3 DEF RecordsTypeOK
<1>6. RecordsTypeOK'
  BY <1>1, <1>2, <1>3, <1>5 DEF RecordsTypeOK
<1>7. LoopsOK'
  BY <1>1, <1>2, <1>3 DEF LoopsOK
<1>8. NothingLost'
  <2>1. \A p \in Records!Place : p >= recordAmount => file'[p] = p
    <3>1. index + 1 < recordAmount
      BY <1>1, <1>2, <1>3 DEF LoopsOK, RecordsTypeOK
    <3>. QED
      BY <1>1, <1>2, <1>3, <3>1 DEF NothingLost, RecordsTypeOK
  <2>. QED
    BY <1>1, <1>2, <1>4, <2>1 DEF NothingLost
<1>9. SortOK'
  <2>1. /\ \A r \in Records!Record : Key(r)' = Key(r)
        /\ \A r, s \in Records!Record : Before(r, s)' <=> Before(r, s)
        /\ \A p \in Records!Record : Whole[p] \in Records!Record
    BY <1>1, <1>2 DEF SortOK, Key, Before
  <2>2. \A p \in Records!Record : p < index + 1 => p <= index
    BY <1>3, Places
  <2>3. /\ \A p, q \in Records!Record :
              p < q /\ Key(Whole[p]) = Key(Whole[q]) => Whole[p] < Whole[q]
        /\ \A p, q \in Records!Record :
              p < q /\ n <= q /\ q < recordAmount => Before(Whole[p], Whole[q])
        /\ \A p \in Records!Record : p <= index => Before(Whole[p], Whole[index + 1])
    BY <1>1, <1>2 DEF SortOK
  <2>4. \A p \in Records!Record : p < index + 1 => Before(Whole[p], Whole[index + 1])
    BY <2>2, <2>3
  <2>5. /\ fileAt' = "loop" /\ change' = 1 /\ index' = index + 1 /\ n' = n
        /\ recordAmount' = recordAmount /\ Whole' = Whole
    BY <1>1, <1>4
  <2>6. \A p, q \in Records!Record : /\ Key(Whole[p])' = Key(Whole[p])
                                    /\ Before(Whole[p], Whole[q])' <=> Before(Whole[p], Whole[q])
    BY <2>1, <2>5
  <2>7. \A p \in Records!Record : p < index' => Before(Whole[p], Whole[index])'
    BY <1>3, <2>1, <2>4, <2>5
  <2>. QED
    BY <2>1, <2>3, <2>5, <2>6, <2>7 DEF SortOK
<1>. QED
  BY <1>1, <1>6, <1>7, <1>8, <1>9 DEF RecordsInv

LEMMA EndPassSorts ==
    ASSUME RecordsInv, Records!EndPass
    PROVE  RecordsInv'
<1> USE DEF Records!EndPass, Records!InPass, Records!constant
<1>1. /\ fileAt = "loop" /\ op = "sort" /\ ~(index < n - 1)
      /\ n' = n - 1
      /\ \/ fileAt' = "done" /\ (change = 0 \/ n - 1 <= 1) /\ UNCHANGED <<index, change>>
         \/ fileAt' = "loop" /\ index' = 0 /\ change' = 0
      /\ UNCHANGED <<op, recordAmount, generated, first, file, j, record1>>
  OBVIOUS
<1>2. RecordsTypeOK /\ LoopsOK /\ NothingLost /\ SortOK
  BY <1>1 DEF RecordsInv
<1>3. /\ index \in Records!Record /\ index \in Int /\ n \in Int
      /\ n <= recordAmount /\ recordAmount \in 0 .. FileRecords + 1
      /\ index <= n - 1 \/ index = 0
  BY <1>1, <1>2 DEF LoopsOK, RecordsTypeOK
<1>4. Whole' = Whole /\ Whole = file
  BY <1>1 DEF Whole
<1>5. RecordsTypeOK'
  BY <1>1, <1>2 DEF RecordsTypeOK
<1>6. LoopsOK'
  BY <1>1, <1>2, <1>3, Places DEF LoopsOK
<1>7. NothingLost'
  BY <1>1, <1>2, <1>4 DEF NothingLost
<1>8. SortOK'
  <2>1. /\ \A r \in Records!Record : Key(r)' = Key(r)
        /\ \A r, s \in Records!Record : Before(r, s)' <=> Before(r, s)
        /\ \A p \in Records!Record : Whole[p] \in Records!Record
        /\ \A p \in Records!Record : p \in Nat
    BY <1>1, <1>2, Places DEF SortOK, Key, Before
  <2>2. ASSUME NEW p \in Records!Record, NEW q \in Records!Record,
               p < q, n - 1 <= q, q < recordAmount
        PROVE  Before(Whole[p], Whole[q])
    <3>1. CASE n <= q
      BY <1>2, <2>2, <3>1 DEF SortOK
    <3>2. CASE q = n - 1
      <4>1. q = index
        BY <1>1, <1>3, <2>1, <2>2, <3>2
      <4>. QED
        BY <1>1, <1>2, <2>2, <4>1 DEF SortOK
    <3>. QED
      BY <1>3, <2>1, <2>2, <3>1, <3>2
  <2>3. ASSUME fileAt' = "done", NEW p \in Records!Record, NEW q \in Records!Record,
               p < q, q < recordAmount
        PROVE  Before(Whole[p], Whole[q])
    <3>1. CASE n - 1 <= q
      BY <2>2, <2>3, <3>1
    <3>2. CASE ~(n - 1 <= q)
      <4>1. change = 0 /\ q <= index
        BY <1>1, <1>3, <2>1, <2>3, <3>2
      <4>. QED
        BY <1>1, <1>2, <2>3, <4>1 DEF SortOK
    <3>. QED
      BY <3>1, <3>2
  <2>4. /\ \A p, q \in Records!Record :
              p < q /\ Key(Whole[p]) = Key(Whole[q]) => Whole[p] < Whole[q]
        /\ \A p, q \in Records!Record :
              p < q /\ n - 1 <= q /\ q < recordAmount => Before(Whole[p], Whole[q])
        /\ fileAt' = "done" => \A p, q \in Records!Record :
              p < q /\ q < recordAmount => Before(Whole[p], Whole[q])
    BY <1>2, <2>2, <2>3 DEF SortOK
  <2>5. fileAt' = "loop" => /\ \A p \in Records!Record : ~(p < index')
                            /\ \A p, q \in Records!Record : ~(p < q /\ q <= index')
    BY <1>1, <2>1
  <2>6. fileAt' \in {"done", "loop"}
    BY <1>1
  <2>. QED
    BY <1>1, <1>4, <2>1, <2>4, <2>5, <2>6 DEF SortOK
<1>. QED
  BY <1>1, <1>5, <1>6, <1>7, <1>8 DEF RecordsInv

\* The steps of the shuffle that leave the permutation alone.
LEMMA ShuffleStays ==
    ASSUME ShuffleOK, Whole' = Whole, Undrawn' = Undrawn, recordAmount' = recordAmount
    PROVE  ShuffleOK'
<1>1. Shuffled' = Shuffled
  BY DEF Shuffled
<1>2. \A S : Closed(S)' <=> Closed(S)
  BY <1>1 DEF Closed
<1>. QED
  BY <1>1, <1>2 DEF ShuffleOK

LEMMA DrawShuffles ==
    ASSUME RecordsInv, Records!Draw
    PROVE  RecordsInv'
<1>1. /\ op = "shuffle" /\ index >= 1 /\ fileAt = "loop" /\ fileAt' = "first"
      /\ j' \in 0 .. index - 1 /\ record1' = file[index]
      /\ UNCHANGED <<op, recordAmount, generated, first, file, n, index, change>>
  BY DEF Records!Draw, Records!Draws, Records!Goto, Records!constant
<1>2. RecordsTypeOK /\ LoopsOK /\ NothingLost /\ ShuffleOK
  BY <1>1 DEF RecordsInv
<1>3. /\ index \in Int /\ recordAmount \in 0 .. FileRecords + 1 /\ index < recordAmount
      /\ index \in Records!Place /\ file \in [Records!Place -> Records!Place]
  BY <1>1, <1>2, Places DEF RecordsTypeOK, LoopsOK
<1>4. Whole' = Whole /\ Undrawn' = Undrawn
  BY <1>1 DEF Whole, Undrawn
<1>5. RecordsTypeOK'
  BY <1>1, <1>2, <1>3 DEF RecordsTypeOK
<1>6. LoopsOK'
  BY <1>1, <1>2, <1>3 DEF LoopsOK
<1>7. NothingLost'
  BY <1>1, <1>2, <1>4 DEF NothingLost
<1>8. ShuffleOK'
  BY <1>1, <1>2, <1>4, ShuffleStays
<1>. QED
  BY <1>1, <1>5, <1>6, <1>7, <1>8 DEF RecordsInv

LEMMA EndShuffleShuffles ==
    ASSUME RecordsInv, Records!EndShuffle
    PROVE  RecordsInv'
<1>1. /\ op = "shuffle" /\ index < 1 /\ fileAt = "loop" /\ fileAt' = "done"
      /\ UNCHANGED <<op, recordAmount, generated, first, file, n, index, j, change, record1>>
  BY DEF Records!EndShuffle, Records!Goto, Records!constant
<1>2. RecordsTypeOK /\ LoopsOK /\ NothingLost /\ ShuffleOK
  BY <1>1 DEF RecordsInv
<1>3. index \in Int /\ Whole' = Whole /\ Undrawn' = Undrawn
  BY <1>1, <1>2 DEF Whole, Undrawn, RecordsTypeOK
<1>4. RecordsTypeOK'
  BY <1>1, <1>2 DEF RecordsTypeOK
<1>5. LoopsOK'
  BY <1>1, <1>2, <1>3 DEF LoopsOK
<1>6. NothingLost'
  BY <1>1, <1>2, <1>3 DEF NothingLost
<1>7. ShuffleOK'
  BY <1>1, <1>2, <1>3, ShuffleStays
<1>. QED
  BY <1>1, <1>4, <1>5, <1>6, <1>7 DEF RecordsInv

\* The second write of an exchange finishes it.
LEMMA PutRecord1Shuffles ==
    ASSUME RecordsInv, Records!PutRecord1
    PROVE  RecordsInv'
<1>1. /\ op = "shuffle" /\ fileAt = "second" /\ fileAt' = "loop"
      /\ file' = [file EXCEPT ![j] = record1] /\ index' = index - 1
      /\ UNCHANGED <<op, recordAmount, generated, first, n, j, change, record1>>
  BY DEF Records!PutRecord1, Records!Goto, Records!constant
<1>2. RecordsTypeOK /\ LoopsOK /\ NothingLost /\ ShuffleOK
  BY <1>1 DEF RecordsInv
<1>3. /\ index \in Int /\ recordAmount \in 0 .. FileRecords + 1 /\ index < recordAmount
      /\ index >= 1 /\ j \in 0 .. index - 1 /\ record1 \in Records!Place
      /\ file \in [Records!Place -> Records!Place]
  BY <1>1, <1>2 DEF RecordsTypeOK, LoopsOK
<1>4. Whole' = Whole /\ Whole = file' /\ Undrawn' = Undrawn
  BY <1>1 DEF Whole, Undrawn, Records!Target
<1>5. file' \in [Records!Place -> Records!Place]
  BY <1>1, <1>3
<1>6. RecordsTypeOK'
  BY <1>1, <1>2, <1>3, <1>5 DEF RecordsTypeOK
<1>7. LoopsOK'
  BY <1>1, <1>2, <1>3 DEF LoopsOK
<1>8. NothingLost'
  <2>1. \A p \in Records!Place : p >= recordAmount => file'[p] = p
    BY <1>1, <1>2, <1>3 DEF NothingLost
  <2>. QED
    BY <1>1, <1>2, <1>4, <2>1 DEF NothingLost
<1>9. ShuffleOK'
  BY <1>1, <1>2, <1>4, ShuffleStays
<1>. QED
  BY <1>1, <1>6, <1>7, <1>8, <1>9 DEF RecordsInv

\* A finite set is not the image of a part of itself.
LEMMA NoPartCovers ==
    ASSUME NEW T, IsFiniteSet(T), NEW x \in T, NEW f \in [T \ {x} -> T],
           \A y \in T : \E q \in T \ {x} : f[q] = y
    PROVE  FALSE
<1>1. f \in Surjection(T \ {x}, T)
  BY DEF Surjection
<1>2. IsFiniteSet(T \ {x}) /\ Cardinality(T \ {x}) = Cardinality(T) - 1
  BY FS_RemoveElement
<1>3. Cardinality(T) <= Cardinality(T \ {x})
  BY <1>1, <1>2, FS_Surjection
<1>4. Cardinality(T) \in Nat
  BY FS_CardinalityType
<1>. QED
  BY <1>2, <1>3, <1>4

\* An exchange joins the cycle of the last place to that of an earlier one.
LEMMA ExchangeJoins ==
    ASSUME RecordsTypeOK, ShuffleOK, fileAt = "first", fileAt' = "second",
           index' = index, recordAmount' = recordAmount,
           index >= 1, index < recordAmount, j \in 0 .. index - 1,
           IsExchanged(Whole', Whole, index, j)
    PROVE  ShuffleOK'
<1>1. /\ index \in Int /\ recordAmount \in 0 .. FileRecords + 1 /\ recordAmount \in Int
      /\ j \in Int /\ 0 <= j /\ j < index
  BY DEF RecordsTypeOK
<1>2. /\ index \in Shuffled /\ j \in Shuffled /\ j # index
      /\ \A p \in Shuffled : p \in Records!Place /\ p \in Int /\ 0 <= p
      /\ Shuffled' = Shuffled
  BY <1>1, Places DEF Shuffled
<1>3. Undrawn = index /\ Undrawn' = index - 1
  BY DEF Undrawn
<1>4. /\ \A p \in Shuffled : Whole[p] \in Shuffled
      /\ \A p, q \in Shuffled : Whole[p] = Whole[q] => p = q
      /\ \A p \in Shuffled : \E q \in Shuffled : Whole[q] = p
  BY DEF ShuffleOK
<1>5. PICK cycle \in [Shuffled -> 0 .. index] :
         /\ \A p \in Shuffled : cycle[Whole[p]] = cycle[p]
         /\ \A p \in 0 .. index : cycle[p] = p
  BY <1>1, <1>3 DEF ShuffleOK
<1>6. /\ Whole'[index] = Whole[j] /\ Whole'[j] = Whole[index]
      /\ \A p \in Shuffled : p # index /\ p # j => Whole'[p] = Whole[p]
  BY <1>2 DEF IsExchanged
<1>7. cycle[index] = index /\ cycle[j] = j
  BY <1>1, <1>5
<1>8. \A p \in Shuffled : Whole'[p] \in Shuffled
  BY <1>2, <1>4, <1>6
<1>9. \A p, q \in Shuffled : Whole'[p] = Whole'[q] => p = q
  BY <1>2, <1>4, <1>6
<1>10. \A p \in Shuffled : \E q \in Shuffled : Whole'[q] = p
  <2> SUFFICES ASSUME NEW p \in Shuffled
               PROVE  \E q \in Shuffled : Whole'[q] = p
    OBVIOUS
  <2>1. PICK q \in Shuffled : Whole[q] = p
    BY <1>4
  <2>. QED
    BY <1>2, <1>6, <2>1
<1>11. \E joined \in [Shuffled -> 0 .. index - 1] :
          /\ \A p \in Shuffled : joined[Whole'[p]] = joined[p]
          /\ \A p \in 0 .. index - 1 : joined[p] = p
  <2> DEFINE joined == [p \in Shuffled |-> IF cycle[p] = index THEN j ELSE cycle[p]]
  <2>1. \A p \in Shuffled : joined[p] = IF cycle[p] = index THEN j ELSE cycle[p]
    OBVIOUS
  <2>2. joined \in [Shuffled -> 0 .. index - 1]
    <3>1. \A p \in Shuffled : cycle[p] # index => cycle[p] \in 0 .. index - 1
      BY <1>1, <1>5
    <3>. QED
      BY <1>1, <3>1
  <2>3. \A p \in Shuffled : joined[Whole'[p]] = joined[p]
    <3> SUFFICES ASSUME NEW p \in Shuffled
                 PROVE  joined[Whole'[p]] = joined[p]
      OBVIOUS
    <3>1. joined[Whole'[p]] =
             IF cycle[Whole'[p]] = index THEN j ELSE cycle[Whole'[p]]
      BY <1>8, <2>1
    <3>2. CASE p = index
      BY <1>2, <1>5, <1>6, <1>7, <2>1, <3>1, <3>2
    <3>3. CASE p = j
      BY <1>2, <1>5, <1>6, <1>7, <2>1, <3>1, <3>3
    <3>4. CASE p # index /\ p # j
      BY <1>5, <1>6, <2>1, <3>1, <3>4
    <3>. QED
      BY <3>2, <3>3, <3>4
  <2>4. \A p \in 0 .. index - 1 : joined[p] = p
    <3>1. \A p \in 0 .. index - 1 : p \in Shuffled /\ p \in 0 .. index /\ p # index
      BY <1>1 DEF Shuffled
    <3>. QED
      BY <1>5, <2>1, <3>1
  <2>. QED
    BY <2>2, <2>3, <2>4
<1>12. ASSUME NEW S \in SUBSET Shuffled, S # {},
              \A p \in Shuffled : Whole'[p] \in S <=> p \in S
       PROVE  \E p \in S : p <= index - 1
  <2>1. CASE j \in S
    BY <1>1, <2>1
  <2>2. CASE j \notin S /\ index \notin S
    <3>1. Closed(S)
      BY <1>2, <1>6, <1>12, <2>2 DEF Closed
    <3>2. PICK p \in S : p <= index
      BY <1>3, <1>12, <3>1 DEF ShuffleOK
    <3>. QED
      BY <1>1, <1>2, <2>2, <3>2
  <2>3. CASE j \notin S /\ index \in S
    <3> DEFINE T == {p \in S : cycle[p] = index}
               step == [p \in T \ {index} |-> Whole[p]]
    <3>1. IsFiniteSet(T)
      <4>1. IsFiniteSet(Shuffled)
        BY <1>1, FS_Interval DEF Shuffled
      <4>. QED
        BY <4>1, FS_Subset
    <3>2. index \in T
      BY <1>7, <2>3
    <3>3. step \in [T \ {index} -> T]
      <4>1. ASSUME NEW p \in T \ {index} PROVE Whole[p] \in T
        <5>1. p \in S /\ p \in Shuffled /\ p # index /\ p # j /\ cycle[p] = index
          BY <1>12, <2>3
        <5>. QED
          BY <1>5, <1>6, <1>12, <5>1
      <4>. QED
        BY <4>1
    <3>4. \A y \in T : \E q \in T \ {index} : step[q] = y
      <4> SUFFICES ASSUME NEW y \in T PROVE \E q \in T \ {index} : step[q] = y
        OBVIOUS
      <4>1. PICK q \in Shuffled : Whole[q] = y
        BY <1>4
      <4>2. cycle[q] = index
        BY <1>5, <4>1
      <4>3. q # j
        BY <1>2, <1>7, <4>2
      <4>4. q # index
        BY <1>2, <1>6, <1>12, <2>3, <4>1
      <4>5. q \in T \ {index}
        BY <1>6, <1>12, <4>1, <4>2, <4>3, <4>4
      <4>. QED
        BY <4>1, <4>5
    <3> HIDE DEF T, step
    <3>. QED
      BY <3>1, <3>2, <3>3, <3>4, NoPartCovers
  <2>. QED
    BY <2>1, <2>2, <2>3
<1>13. \A S : Closed(S)' <=> \A p \in Shuffled : Whole'[p] \in S <=> p \in S
  BY <1>2 DEF Closed
<1>. QED
  BY <1>2, <1>3, <1>8, <1>9, <1>10, <1>11, <1>12, <1>13 DEF ShuffleOK

LEMMA PutRecord2Shuffles ==
    ASSUME RecordsInv, Records!PutRecord2
    PROVE  RecordsInv'
<1>1. /\ fileAt = "first" /\ fileAt' = "second"
      /\ file' = [file EXCEPT ![index] = file[j]]
      /\ UNCHANGED <<op, recordAmount, generated, first, n, index, j, change, record1>>
  BY DEF Records!PutRecord2, Records!Goto, Records!constant
<1>2. RecordsTypeOK /\ LoopsOK /\ NothingLost /\ op = "shuffle" /\ ShuffleOK
  BY <1>1 DEF RecordsInv, LoopsOK, RecordsTypeOK
<1>3. /\ index \in Int /\ recordAmount \in 0 .. FileRecords + 1 /\ index < recordAmount
      /\ index >= 1 /\ j \in 0 .. index - 1 /\ record1 \in Records!Place
      /\ file \in [Records!Place -> Records!Place] /\ record1 = file[index]
  BY <1>1, <1>2 DEF RecordsTypeOK, LoopsOK, NothingLost
<1>4. index \in Records!Place /\ j \in Records!Place /\ index # j
  BY <1>3, Places
<1>5. file' \in [Records!Place -> Records!Place]
  BY <1>1, <1>3, <1>4
<1>6. Whole = file /\ Whole' = [file' EXCEPT ![j] = record1]
  BY <1>1, <1>2 DEF Whole, Records!Target
<1>7. IsExchanged(Whole', Whole, index, j)
  BY <1>1, <1>3, <1>4, <1>5, <1>6 DEF IsExchanged
<1>8. RecordsTypeOK'
  BY <1>1, <1>2, <1>3, <1>5 DEF RecordsTypeOK
<1>9. LoopsOK'
  BY <1>1, <1>2, <1>3 DEF LoopsOK
<1>10. NothingLost'
  <2>1. \A r \in Records!Record : \E p \in Records!Place : Whole'[p] = r
    <3> SUFFICES ASSUME NEW r \in Records!Record
                 PROVE  \E p \in Records!Place : Whole'[p] = r
      OBVIOUS
    <3>1. PICK p \in Records!Place : Whole[p] = r
      BY <1>1, <1>2 DEF NothingLost
    <3>. QED
      BY <1>4, <1>7, <3>1 DEF IsExchanged
  <2>2. \A p \in Records!Place : p >= recordAmount => file'[p] = p
    BY <1>1, <1>2, <1>3, <1>4 DEF NothingLost
  <2>. QED
    BY <1>1, <2>1, <2>2 DEF NothingLost
<1>11. ShuffleOK'
  BY <1>1, <1>2, <1>3, <1>7, ExchangeJoins
<1>. QED
  BY <1>1, <1>2, <1>8, <1>9, <1>10, <1>11 DEF RecordsInv

LEMMA ReadFailsKeeps ==
    ASSUME RecordsInv, Records!ReadFails
    PROVE  RecordsInv'
<1>1. /\ fileAt = "loop" /\ fileAt' = "failed" /\ op = "sort"
      /\ UNCHANGED <<op, recordAmount, generated, first, file, n, index, j, change, record1>>
  BY DEF Records!ReadFails, Records!InPass, Records!Goto, Records!constant
<1>2. RecordsTypeOK /\ LoopsOK /\ NothingLost
  BY <1>1 DEF RecordsInv
<1>3. RecordsTypeOK'
  BY <1>1, <1>2 DEF RecordsTypeOK
<1>4. LoopsOK'
  BY <1>1, <1>2 DEF LoopsOK
<1>5. NothingLost'
  <2>1. \A r \in Records!Record : \E p \in Records!Place : file[p] = r
    BY <1>1, <1>2 DEF NothingLost, Whole
  <2>2. 0 \in Records!Place
    BY Places
  <2>. QED
    BY <1>1, <1>2, <2>1, <2>2 DEF NothingLost
<1>. QED
  BY <1>1, <1>3, <1>4, <1>5 DEF RecordsInv

\* The record that a write that fails may destroy is the one on its way to, or
\* already saved from, the place that is written.
LEMMA WriteFailsKeeps ==
    ASSUME RecordsInv, Records!WriteFails
    PROVE  RecordsInv'
<1>1. /\ Records!Exchange \/ fileAt \in {"first", "second"}
      /\ fileAt' = "failed"
      /\ file' = file \/ file' = [file EXCEPT ![Records!Target] = Records!Torn]
      /\ UNCHANGED <<op, recordAmount, generated, first, n, index, j, change, record1>>
  BY DEF Records!WriteFails, Records!constant
<1>2. /\ RecordsTypeOK /\ LoopsOK /\ NothingLost
      /\ Records!Exchange => fileAt = "loop" /\ op = "sort" /\ index < n - 1
      /\ Records!Exchange => index + 1 \in Records!Record
      /\ fileAt \in {"loop", "first", "second"} /\ op \in {"sort", "shuffle"}
  BY <1>1 DEF RecordsInv, Records!Exchange, Records!InPass, RecordsTypeOK
<1>3. /\ index \in Int /\ n \in Int /\ j \in Int /\ recordAmount \in Int
      /\ recordAmount <= FileRecords + 1 /\ FileRecords \in Nat
      /\ file \in [Records!Place -> Records!Place]
  BY <1>2, Places DEF RecordsTypeOK
<1>4. PICK target : target = Records!Target
  OBVIOUS
<1>5. target \in Int /\ 0 <= target /\ target < recordAmount
  <2>1. CASE Records!Exchange
    <3>1. target = index /\ index \in Records!Record /\ n <= recordAmount
      BY <1>2, <1>4, <2>1 DEF Records!Target, LoopsOK
    <3>. QED
      BY <1>2, <1>3, <2>1, <3>1, Places
  <2>2. CASE fileAt = "second" /\ op = "sort"
    <3>1. target = index + 1 /\ index + 1 \in Records!Record /\ n <= recordAmount
          /\ index < n - 1
      BY <1>2, <1>4, <2>2 DEF Records!Target, LoopsOK
    <3>. QED
      BY <1>3, <3>1, Places
  <2>3. CASE fileAt \in {"first", "second"} /\ op = "shuffle"
    <3>1. target \in {index, j} /\ index >= 1 /\ j \in 0 .. index - 1
          /\ index < recordAmount
      BY <1>2, <1>4, <2>3 DEF Records!Target, LoopsOK
    <3>. QED
      BY <1>3, <3>1
  <2>4. ~(fileAt = "first" /\ op = "sort")
    BY <1>2 DEF LoopsOK
  <2>. QED
    BY <1>1, <1>2, <2>1, <2>2, <2>3, <2>4
<1>6. target \in Records!Place
  BY <1>3, <1>5, Places
<1>7. /\ Whole[target] \in Records!Place
      /\ \A p \in Records!Place : p # target => file'[p] = Whole[p] /\ file'[p] = file[p]
  <2>1. Whole \in [Records!Place -> Records!Place]
    BY <1>2, WholeType
  <2>2. \A p \in Records!Place : p # target => Whole[p] = file[p]
    BY <1>3, <1>4 DEF Whole
  <2>. QED
    BY <1>1, <1>3, <1>4, <1>6, <2>1, <2>2
<1>8. RecordsTypeOK'
  <2>1. file' \in [Records!Place -> Records!Place \cup {Records!Torn}]
    BY <1>1, <1>3, <1>4
  <2>. QED
    BY <1>1, <1>2, <2>1 DEF RecordsTypeOK
<1>9. LoopsOK'
  BY <1>1, <1>2 DEF LoopsOK
<1>10. NothingLost'
  <2>1. \A r \in Records!Record :
           r # Whole[target] => \E p \in Records!Place : file'[p] = r
    <3>1. \A r \in Records!Record : \E p \in Records!Place : Whole[p] = r
      BY <1>2 DEF NothingLost
    <3>. QED
      BY <1>7, <3>1
  <2>2. \A p \in Records!Place : p >= recordAmount => file'[p] = p
    BY <1>2, <1>3, <1>5, <1>7 DEF NothingLost
  <2>. QED
    BY <1>1, <1>7, <2>1, <2>2 DEF NothingLost
<1>. QED
  BY <1>1, <1>8, <1>9, <1>10 DEF RecordsInv

LEMMA RecordsStep ==
    ASSUME RecordsInv, [Records!Next]_recordsVars
    PROVE  RecordsInv'
<1>1. CASE Records!Stopped \/ UNCHANGED recordsVars
  <2>1. UNCHANGED recordsVars
    BY <1>1 DEF Records!Stopped, Records!vars, recordsVars
  <2>2. /\ Whole' = Whole /\ Undrawn' = Undrawn
        /\ UNCHANGED <<op, recordAmount, generated, first, file, fileAt, n, index, j,
                       change, record1>>
    BY <2>1 DEF Whole, Undrawn, recordsVars, Records!Target
  <2>3. RecordsTypeOK => RecordsTypeOK'
    BY <2>2 DEF RecordsTypeOK
  <2>4. (LoopsOK => LoopsOK') /\ (NothingLost => NothingLost')
    BY <2>2 DEF LoopsOK, NothingLost
  <2>5. SortOK => SortOK'
    BY <2>2 DEF SortOK, Before, Key
  <2>6. ShuffleOK => ShuffleOK'
    BY <2>2, ShuffleStays
  <2>. QED
    BY <2>2, <2>3, <2>4, <2>5, <2>6 DEF RecordsInv
<1>. QED
  BY <1>1, PassSorts, WriteRecord2Sorts, WriteRecord1Sorts, EndPassSorts, DrawShuffles,
     PutRecord2Shuffles, PutRecord1Shuffles, EndShuffleShuffles, ReadFailsKeeps,
     WriteFailsKeeps
     DEF Records!Next, Records!bSort, Records!Shuffle

LEMMA SameCardinality == \A S : Records!Cardinality(S) = Cardinality(S)
BY DEF Records!Cardinality, Cardinality

\* At most the record in hand is at risk, and none that was not asked for.
LEMMA OneIsAtRisk == RecordsInv => Records!OneAtRisk
<1> SUFFICES ASSUME RecordsInv PROVE Records!OneAtRisk
  OBVIOUS
<1>1. RecordsTypeOK /\ NothingLost
  BY DEF RecordsInv
<1> DEFINE Missing == {r \in Records!Record : \A p \in Records!Place : file[p] # r}
<1>2. CASE fileAt \notin {"second", "failed"}
  <2>1. \A r \in Records!Record : \E p \in Records!Place : file[p] = r
    BY <1>1, <1>2 DEF NothingLost, Whole
  <2>2. Missing = {}
    BY <2>1
  <2>3. Cardinality(Missing) = 0
    BY <2>2, FS_EmptySet
  <2>. QED
    BY <1>1, <1>2, <2>3, SameCardinality DEF Records!OneAtRisk, Records!Missing, NothingLost
<1>3. CASE fileAt \in {"second", "failed"}
  <2>1. PICK lost : Missing \subseteq {lost}
    <3>1. CASE fileAt = "second"
      <4>1. \A r \in Records!Record : \E p \in Records!Place : Whole[p] = r
        BY <1>1, <3>1 DEF NothingLost
      <4>2. \A p \in Records!Place : Whole[p] = file[p] \/ Whole[p] = record1
        BY <1>1, <3>1 DEF Whole, RecordsTypeOK
      <4>3. Missing \subseteq {record1}
        BY <4>1, <4>2
      <4>. QED
        BY <4>3
    <3>2. CASE fileAt = "failed"
      BY <1>1, <3>2 DEF NothingLost
    <3>. QED
      BY <1>3, <3>1, <3>2
  <2>2. Cardinality(Missing) <= 1
    <3>1. IsFiniteSet({lost}) /\ Cardinality({lost}) = 1
      BY FS_Singleton
    <3> HIDE DEF Missing
    <3>2. Cardinality(Missing) <= Cardinality({lost})
      BY <2>1, <3>1, FS_Subset
    <3>. QED
      BY <3>1, <3>2
  <2>. QED
    BY <1>1, <1>3, <2>2, SameCardinality DEF Records!OneAtRisk, Records!Missing, NothingLost
<1>. QED
  BY <1>2, <1>3

\* The bubble sort is stable, also with its early stop, and whatever fails only the
\* record in hand can be lost, for every file and every number of records asked for
\* (cw02/zad1).
THEOREM TheSortIsStable == Spec => []SortIsStable
<1>1. Init => RecordsInv
  BY RecordsInit DEF Init
<1>2. RecordsInv /\ [Next]_vars => RecordsInv'
  BY OneProgramRuns, RecordsStep
<1>3. RecordsInv => SortIsStable
  <2> SUFFICES ASSUME RecordsInv, op = "sort"
               PROVE  /\ fileAt = "done" =>
                            \A p, q \in 0 .. recordAmount - 1 : p < q =>
                               \/ Key(file[p]) < Key(file[q])
                               \/ first[file[p]] = first[file[q]] /\ file[p] < file[q]
                      /\ fileAt = "done" /\ generated =>
                            \A p, q \in 0 .. recordAmount - 1 : p < q =>
                               first[file[p]] <= first[file[q]]
                      /\ Records!OneAtRisk
    BY DEF SortIsStable, Records!SortIsStable, Key, Records!Char
  <2>1. RecordsTypeOK /\ LoopsOK
    BY DEF RecordsInv
  <2>2. ASSUME fileAt = "done", NEW p \in 0 .. recordAmount - 1,
               NEW q \in 0 .. recordAmount - 1, p < q
        PROVE  /\ \/ Key(file[p]) < Key(file[q])
                  \/ first[file[p]] = first[file[q]] /\ file[p] < file[q]
               /\ generated => first[file[p]] <= first[file[q]]
    <3>1. recordAmount <= FileRecords /\ recordAmount \in Int
      BY <2>1, <2>2 DEF LoopsOK, RecordsTypeOK
    <3>2. p \in Records!Record /\ q \in Records!Record
      BY <2>2, <3>1, Places
    <3>3. Before(file[p], file[q]) /\ file[p] \in Records!Record /\ file[q] \in Records!Record
      BY <2>2, <3>1, <3>2 DEF RecordsInv, SortOK, Whole
    <3>4. first[file[p]] \in 0 .. 255 /\ first[file[q]] \in 0 .. 255
      BY <2>1, <3>3 DEF RecordsTypeOK
    <3>5. Key(file[p]) = Key(file[q]) => first[file[p]] = first[file[q]]
      <4>1. PICK u \in 0 .. 255, v \in 0 .. 255 : u = first[file[p]] /\ v = first[file[q]]
        BY <3>4
      <4>2. Records!Char(u) = Records!Char(v) => u = v
        BY ONLY OneByteForAKey, <4>1, Zenon
      <4>. QED
        BY <4>1, <4>2 DEF Key
    <3>6. generated => Key(file[p]) = first[file[p]] /\ Key(file[q]) = first[file[q]]
      <4>1. generated => first[file[p]] \in 0 .. 127 /\ first[file[q]] \in 0 .. 127
        BY <2>1, <3>3, <3>4 DEF RecordsTypeOK
      <4>2. ASSUME NEW u \in 0 .. 127 PROVE Records!Char(u) = u
        BY ONLY Keys
      <4>. QED
        BY ONLY <4>1, <4>2 DEF Key
    <3>7. Key(file[p]) \in Int /\ Key(file[q]) \in Int
      <4>1. first[file[p]] \in Int /\ first[file[q]] \in Int
        BY <3>4
      <4>. QED
        BY <4>1 DEF Key, Records!Char
    <3>. QED
      BY <3>3, <3>5, <3>6, <3>7 DEF Before
  <2>. QED
    BY <2>2, OneIsAtRisk
<1>. QED
  BY <1>1, <1>2, <1>3, PTL DEF Spec

\* A shuffle that ends is one cycle through all its records, for every number of
\* records and whatever is drawn (cw02/zad1).
THEOREM TheShuffleIsOneCycle == Spec => []ShuffleIsOneCycle
<1>1. Init => RecordsInv
  BY RecordsInit DEF Init
<1>2. RecordsInv /\ [Next]_vars => RecordsInv'
  BY OneProgramRuns, RecordsStep
<1>3. RecordsInv => ShuffleIsOneCycle
  <2> SUFFICES ASSUME RecordsInv, op = "shuffle", fileAt = "done",
                      NEW S \in SUBSET (0 .. recordAmount - 1),
                      {file[p] : p \in S} = S
               PROVE  S \in {{}, 0 .. recordAmount - 1}
    BY OneIsAtRisk DEF ShuffleIsOneCycle, Records!ShuffleIsOneCycle
  <2>1. ShuffleOK /\ Whole = file /\ Shuffled = 0 .. recordAmount - 1
    BY DEF RecordsInv, Whole, Shuffled
  <2>2. recordAmount \in Int /\ index \in Int
    BY DEF RecordsInv, RecordsTypeOK
  <2>3. Closed(S)
    <3>1. \A p, q \in Shuffled : Whole[p] = Whole[q] => p = q
      BY <2>1 DEF ShuffleOK
    <3>2. ASSUME NEW p \in Shuffled, file[p] \in S PROVE p \in S
      <4>1. PICK q \in S : file[q] = file[p]
        BY <3>2
      <4>. QED
        BY <2>1, <3>1, <4>1
    <3>3. \A p \in S : file[p] \in S
      OBVIOUS
    <3>. QED
      BY <2>1, <3>2, <3>3 DEF Closed
  <2>4. Closed(Shuffled \ S)
    BY <2>1, <2>3 DEF Closed, ShuffleOK
  <2>5. Undrawn <= 0
    BY <2>2 DEF Undrawn, RecordsInv, LoopsOK
  <2>6. ASSUME NEW C \in SUBSET Shuffled, Closed(C), C # {} PROVE 0 \in C
    <3>1. PICK p \in C : p <= Undrawn
      BY <2>1, <2>6 DEF ShuffleOK
    <3>2. p \in Int /\ 0 <= p /\ Undrawn \in Int
      BY <2>1, <2>2, <2>6 DEF Undrawn
    <3>. QED
      BY <2>5, <3>1, <3>2
  <2>7. S = {} \/ 0 \in S
    BY <2>1, <2>3, <2>6
  <2>8. Shuffled \ S = {} \/ 0 \in Shuffled \ S
    BY <2>4, <2>6
  <2>. QED
    BY <2>1, <2>7, <2>8
<1>. QED
  BY <1>1, <1>2, <1>3, PTL DEF Spec

-----------------------------------------------------------------------------
(* The datagram server. *)

\* The network thread has a socket once it has left epoll_wait, and what it has
\* registered since is that socket.
DatagramInv ==
    /\ queue \in [Datagram!Socket -> Seq(Datagram!Types)]
    /\ msgType \in Datagram!Types
    /\ servAt \in {"init", "epoll", "recv", "pong", "add", "close"}
    /\ served \in Datagram!Socket \cup {Datagram!Nothing}
    /\ served = Datagram!Nothing <=> servAt \in {"init", "epoll"}
    /\ clientFds \in Seq(Datagram!Socket)
    /\ served = Datagram!Nothing => clientFds = <<>>
    /\ \A e \in 1 .. Len(clientFds) : clientFds[e] = served

LEMMA DatagramInit == Datagram!Init => DatagramInv
BY DEF Datagram!Init, DatagramInv, Datagram!Socket, Datagram!Nothing

\* What a step does to a queue, and with which socket.
DatagramStepOK ==
    /\ \A s \in Datagram!Socket :
          Len(queue[s]) > Len(queue'[s]) => served = s /\ served' = s
    /\ served # Datagram!Nothing => served' = served

LEMMA DatagramStep ==
    ASSUME DatagramInv, [Datagram!Next]_datagramVars
    PROVE  DatagramInv' /\ DatagramStepOK
<1> USE DEF Datagram!Die, Datagram!Put, Datagram!cmdVars
<1>1. \A s \in Datagram!Socket : queue[s] \in Seq(Datagram!Types)
  BY DEF DatagramInv
<1>2. {"PING", "HELLO", "MSG"} \subseteq Datagram!Types
  BY DEF Datagram!Types
<1>3. Datagram!Nothing \notin Datagram!Socket /\ "un_sock" \in Datagram!Socket
  BY DEF Datagram!Nothing, Datagram!Socket
<1>4. ASSUME NEW s \in Datagram!Socket, NEW type \in Datagram!Types, Datagram!Put(s, type),
             UNCHANGED <<served, servAt, clientFds>>, msgType' \in Datagram!Types
      PROVE  DatagramInv' /\ DatagramStepOK
  <2>1. queue' \in [Datagram!Socket -> Seq(Datagram!Types)]
    BY <1>1, <1>4 DEF DatagramInv
  <2>2. \A u \in Datagram!Socket :
           queue'[u] = IF u = s THEN Append(queue[u], type) ELSE queue[u]
    BY <1>4 DEF DatagramInv
  <2>3. ASSUME NEW u \in Datagram!Socket
        PROVE  ~(Len(queue[u]) > Len(queue'[u]))
    <3>1. /\ Len(queue[u]) \in Nat
          /\ Len(Append(queue[u], type)) = Len(queue[u]) + 1
      BY <1>1
    <3>2. CASE u = s
      <4>1. queue'[u] = Append(queue[u], type)
        BY <2>2, <3>2
      <4>. QED
        BY <3>1, <4>1
    <3>3. CASE u # s
      <4>1. queue'[u] = queue[u]
        BY <2>2, <3>3
      <4>. QED
        BY <3>1, <4>1
    <3>. QED
      BY <3>2, <3>3
  <2>. QED
    BY <1>4, <2>1, <2>3 DEF DatagramInv, DatagramStepOK
<1>5. ASSUME UNCHANGED <<queue, served, servAt, clientFds>>, msgType' \in Datagram!Types
      PROVE  DatagramInv' /\ DatagramStepOK
  <2>1. \A u \in Datagram!Socket : ~(Len(queue[u]) > Len(queue'[u]))
    BY <1>1, <1>5
  <2>. QED
    BY <1>5, <2>1 DEF DatagramInv, DatagramStepOK
<1>6. ASSUME UNCHANGED <<queue, msgType>>, clientFds' = clientFds,
             servAt' \in {"epoll", "recv", "pong", "add", "close"},
             \/ served' = served /\ (served = Datagram!Nothing <=> servAt' = "epoll")
             \/ /\ served = Datagram!Nothing /\ served' \in Datagram!Socket
                /\ servAt' = "recv"
      PROVE  DatagramInv' /\ DatagramStepOK
  <2>1. \A u \in Datagram!Socket : ~(Len(queue[u]) > Len(queue'[u]))
    BY <1>1, <1>6
  <2>. QED
    BY <1>3, <1>6, <2>1 DEF DatagramInv, DatagramStepOK
<1>7. CASE Datagram!serverTask
  <2>1. CASE Datagram!init_sockets
    BY <1>6, <2>1 DEF DatagramInv, Datagram!init_sockets, Datagram!ServGoto
  <2>2. CASE Datagram!EpollWait
    BY <1>6, <2>2 DEF DatagramInv, Datagram!EpollWait, Datagram!ServGoto
  <2>3. CASE Datagram!Receive
    <3>1. /\ servAt = "recv" /\ served \in Datagram!Socket /\ queue[served] # <<>>
          /\ servAt' = Datagram!Case(Head(queue[served]))
          /\ queue' = [queue EXCEPT ![served] = Tail(@)]
          /\ UNCHANGED <<served, clientFds, msgType>>
      BY <2>3 DEF Datagram!Receive, DatagramInv
    <3>2. servAt' \in {"recv", "pong", "add", "close"}
      BY <3>1 DEF Datagram!Case, Datagram!NextMessage
    <3>3. Tail(queue[served]) \in Seq(Datagram!Types)
      BY <1>1, <3>1
    <3>4. \A u \in Datagram!Socket :
             queue'[u] = IF u = served THEN Tail(queue[u]) ELSE queue[u]
      BY <3>1 DEF DatagramInv
    <3>5. \A u \in Datagram!Socket : Len(queue[u]) > Len(queue'[u]) => u = served
      BY <1>1, <3>4
    <3>. QED
      BY <3>1, <3>2, <3>3, <3>5 DEF DatagramInv, DatagramStepOK
  <2>4. CASE Datagram!Pong
    BY <1>6, <2>4 DEF DatagramInv, Datagram!Pong, Datagram!ServGoto, Datagram!NextMessage
  <2>5. CASE Datagram!add_client
    <3>1. /\ servAt = "add" /\ servAt' = "recv" /\ clientFds' = Append(clientFds, served)
          /\ UNCHANGED <<queue, served, msgType>> /\ served \in Datagram!Socket
      BY <2>5 DEF DatagramInv, Datagram!add_client, Datagram!ServGoto, Datagram!NextMessage
    <3>2. /\ clientFds' \in Seq(Datagram!Socket)
          /\ \A e \in 1 .. Len(clientFds') : clientFds'[e] = served
      BY <3>1 DEF DatagramInv
    <3>3. \A u \in Datagram!Socket : ~(Len(queue[u]) > Len(queue'[u]))
      BY <1>1, <3>1
    <3>. QED
      BY <1>3, <3>1, <3>2, <3>3 DEF DatagramInv, DatagramStepOK
  <2>6. CASE Datagram!close_client
    <3>1. /\ servAt = "close" /\ servAt' \in {"recv", "close"}
          /\ UNCHANGED <<queue, served, clientFds, msgType>>
      BY <2>6 DEF Datagram!close_client, Datagram!NextMessage
    <3>. QED
      BY <1>6, <3>1 DEF DatagramInv
  <2>. QED
    BY <1>7, <2>1, <2>2, <2>3, <2>4, <2>5, <2>6 DEF Datagram!serverTask
<1>8. CASE Datagram!ping_task
  <2>1. CASE Datagram!SendPing
    BY <1>2, <1>3, <1>4, <2>1 DEF Datagram!SendPing, DatagramInv
  <2>2. CASE Datagram!StartRound \/ Datagram!SendPingFails \/ Datagram!EndRound
    BY <1>5, <2>2
       DEF Datagram!StartRound, Datagram!SendPingFails, Datagram!EndRound, DatagramInv
  <2>. QED
    BY <1>8, <2>1, <2>2 DEF Datagram!ping_task
<1>9. CASE Datagram!commandline
  <2>1. CASE Datagram!Scan
    BY <1>2, <1>5, <2>1 DEF Datagram!Scan, DatagramInv
  <2>2. CASE Datagram!SendTask
    BY <1>3, <1>4, <2>2 DEF Datagram!SendTask, DatagramInv
  <2>3. CASE Datagram!SendTaskFails
    BY <1>5, <2>3 DEF Datagram!SendTaskFails, DatagramInv
  <2>. QED
    BY <1>9, <2>1, <2>2, <2>3 DEF Datagram!commandline
<1>10. CASE Datagram!sigexit \/ Datagram!Stopped \/ UNCHANGED datagramVars
  BY <1>5, <1>10
     DEF Datagram!sigexit, Datagram!Stopped, Datagram!vars, datagramVars, DatagramInv
<1>11. ASSUME NEW c \in Datagram!Client,
              Datagram!Connect(c) \/ Datagram!HelloLost(c) \/ Datagram!Leave(c)
       PROVE  DatagramInv' /\ DatagramStepOK
  BY <1>5, <1>11
     DEF Datagram!Connect, Datagram!HelloLost, Datagram!Leave, Datagram!others, DatagramInv
<1>12. ASSUME NEW c \in Datagram!Client, Datagram!Hello(c)
       PROVE  DatagramInv' /\ DatagramStepOK
  <2>1. Datagram!SocketOf(c) \in Datagram!Socket
    BY DEF Datagram!SocketOf, Datagram!Socket
  <2>. QED
    BY <1>2, <1>4, <1>12, <2>1 DEF Datagram!Hello, Datagram!others, DatagramInv
<1>. QED
  BY <1>7, <1>8, <1>9, <1>10, <1>11, <1>12 DEF Datagram!Next

\* What the code does against cw10/Zadanie10:6, which wants both sockets served: the
\* datagram server serves one only, for all clients and sizes of a queue, and whatever
\* is typed (cw10/zad2/server.c:87-127).
THEOREM ServesOneSocket == Spec => Datagram!OneSocketServed
<1> DEFINE Registered == \A e \in 1 .. Len(clientFds) : clientFds[e] = served
           Taken == \A s \in Datagram!Socket :
                       Len(queue[s]) > Len(queue'[s]) => served = s /\ served' = s
           Kept == served # Datagram!Nothing => served' = served
<1>1. Init => DatagramInv
  BY DatagramInit DEF Init
<1>2. DatagramInv /\ [Next]_vars => DatagramInv'
  BY OneProgramRuns, DatagramStep
<1>3. DatagramInv => Registered
  BY DEF DatagramInv
<1>4. DatagramInv /\ [Next]_vars => [Taken]_Datagram!vars /\ [Kept]_Datagram!vars
  BY OneProgramRuns, DatagramStep DEF DatagramStepOK
<1>5. Spec => []Registered /\ [][Taken]_Datagram!vars /\ [][Kept]_Datagram!vars
  BY <1>1, <1>2, <1>3, <1>4, PTL DEF Spec
<1>6. []Registered /\ [][Taken]_Datagram!vars /\ [][Kept]_Datagram!vars
        => Datagram!OneSocketServed
  BY PTL DEF Datagram!OneSocketServed
<1>. QED
  BY <1>5, <1>6

-----------------------------------------------------------------------------
(* The picture. *)

\* How many records of a slave there are in a FIFO.
Within(fifoOf, s) == {e \in 1 .. Len(fifoOf) : fifoOf[e] = s}
Count(fifoOf, s) == Cardinality(Within(fifoOf, s))

LEMMA WithinIsFinite ==
    ASSUME NEW D, NEW f \in Seq(D), NEW s
    PROVE  IsFiniteSet(Within(f, s)) /\ Count(f, s) \in Nat
<1>1. IsFiniteSet(1 .. Len(f))
  BY FS_Interval
<1>2. Within(f, s) \in SUBSET (1 .. Len(f))
  BY DEF Within
<1>. QED
  BY <1>1, <1>2, FS_Subset, FS_CardinalityType DEF Count

LEMMA CountEmpty == \A s : Count(<<>>, s) = 0
<1>1. \A s : Within(<<>>, s) = {}
  BY DEF Within
<1>. QED
  BY <1>1, FS_EmptySet DEF Count

LEMMA CountAppend ==
    ASSUME NEW D, NEW f \in Seq(D), NEW x \in D, NEW s
    PROVE  Count(Append(f, x), s) = IF x = s THEN Count(f, s) + 1 ELSE Count(f, s)
<1>1. /\ Len(f) \in Nat /\ Len(Append(f, x)) = Len(f) + 1
      /\ \A e \in 1 .. Len(f) : Append(f, x)[e] = f[e]
      /\ Append(f, x)[Len(f) + 1] = x
  OBVIOUS
<1>2. Within(Append(f, x), s) =
         IF x = s THEN Within(f, s) \cup {Len(f) + 1} ELSE Within(f, s)
  <2>1. \A e : e \in 1 .. Len(f) + 1 <=> e \in 1 .. Len(f) \/ e = Len(f) + 1
    BY <1>1
  <2>. QED
    BY <1>1, <2>1, Zenon DEF Within
<1>3. Len(f) + 1 \notin Within(f, s)
  BY <1>1 DEF Within
<1>. QED
  BY <1>2, <1>3, WithinIsFinite, FS_AddElement DEF Count

LEMMA CountTail ==
    ASSUME NEW D, NEW f \in Seq(D), f # <<>>, NEW s
    PROVE  Count(f, s) = IF Head(f) = s THEN Count(Tail(f), s) + 1 ELSE Count(Tail(f), s)
<1>1. /\ Len(f) \in Nat \ {0} /\ Tail(f) \in Seq(D) /\ Len(Tail(f)) = Len(f) - 1
      /\ \A e \in 1 .. Len(f) - 1 : Tail(f)[e] = f[e + 1]
      /\ Head(f) = f[1]
  OBVIOUS
<1> DEFINE moved == [e \in Within(Tail(f), s) |-> e + 1]
           rest == Within(f, s) \ {1}
<1>2. moved \in Bijection(Within(Tail(f), s), rest)
  <2>1. \A e \in Within(Tail(f), s) : e \in Int /\ e + 1 \in rest
    BY <1>1 DEF Within
  <2>2. moved \in [Within(Tail(f), s) -> rest]
    BY <2>1
  <2>3. \A d, e \in Within(Tail(f), s) : moved[d] = moved[e] => d = e
    BY <2>1
  <2>4. ASSUME NEW d \in rest PROVE \E e \in Within(Tail(f), s) : moved[e] = d
    <3>1. d - 1 \in Within(Tail(f), s) /\ d \in Int
      BY <1>1 DEF Within
    <3>. QED
      BY <3>1
  <2>. QED
    BY <2>2, <2>3, <2>4 DEF Bijection, Injection, Surjection, IsInjective
<1>3. Cardinality(rest) = Count(Tail(f), s)
  <2>1. ExistsBijection(Within(Tail(f), s), rest)
    BY <1>2 DEF ExistsBijection
  <2>. QED
    BY <1>1, <2>1, WithinIsFinite, FS_Bijection DEF Count
<1>4. 1 \in Within(f, s) <=> Head(f) = s
  BY <1>1 DEF Within
<1>5. IsFiniteSet(Within(f, s)) /\ Count(f, s) \in Nat
  BY WithinIsFinite
<1>6. Cardinality(rest) = IF 1 \in Within(f, s) THEN Count(f, s) - 1 ELSE Count(f, s)
  BY <1>5, FS_RemoveElement DEF Count
<1>. QED
  BY <1>3, <1>4, <1>5, <1>6

\* What a slave has written follows from where it is; once one slave has opened the
\* FIFO there is always one that has closed it or still writes; and nothing written
\* is lost before the master closes the FIFO.
PictureInv ==
    /\ masterAt \in {"fork", "open", "read", "close", "end"}
    /\ slaveAt \in [Mandelbrot!Slave -> {"off", "open", "write", "closed", "gone"}]
    /\ written \in [Mandelbrot!Slave -> Nat]
    /\ drawn \in [Mandelbrot!Slave -> Nat]
    /\ fifo \in Seq(Mandelbrot!Slave)
    /\ \A s \in Mandelbrot!Slave :
          /\ slaveAt[s] \in {"off", "open"} => written[s] = 0
          /\ slaveAt[s] = "closed" => written[s] = Points
          /\ slaveAt[s] = "gone" /\ masterAt # "end" => written[s] = 0
          /\ slaveAt[s] \in {"write", "closed"} => masterAt # "fork"
          /\ masterAt # "end" => written[s] = drawn[s] + Count(fifo, s)
          /\ masterAt \in {"close", "end"} => drawn[s] \in {0, Points}
    /\ masterAt = "read" => \E s \in Mandelbrot!Slave : slaveAt[s] \in {"write", "closed"}
    /\ masterAt \in {"close", "end"} => \E s \in Mandelbrot!Slave : drawn[s] = Points

LEMMA PictureInit == Mandelbrot!Init => PictureInv
BY CountEmpty DEF Mandelbrot!Init, PictureInv

LEMMA PictureStep ==
    ASSUME PictureInv, [Mandelbrot!Next]_mandelbrotVars
    PROVE  PictureInv'
<1> USE DEF PictureInv, Mandelbrot!MasterGoto, Mandelbrot!SlaveGoto
<1>1. CASE Mandelbrot!Start
  <2>1. PICK at1 \in {"open", "gone"} :
           /\ slaveAt[started + 1] = "off"
           /\ slaveAt' = [slaveAt EXCEPT ![started + 1] = at1]
    BY <1>1 DEF Mandelbrot!Start
  <2>2. masterAt = "fork" /\ UNCHANGED <<masterAt, written, fifo, drawn>>
    BY <1>1 DEF Mandelbrot!Start
  <2>. QED
    BY <2>1, <2>2
<1>2. CASE Mandelbrot!CallOpen
  BY <1>2 DEF Mandelbrot!CallOpen
<1>3. CASE Mandelbrot!Open
  BY <1>3 DEF Mandelbrot!Open
<1>4. CASE Mandelbrot!ReadValue
  <2>1. /\ masterAt = "read" /\ fifo # <<>> /\ fifo' = Tail(fifo)
        /\ drawn' = [drawn EXCEPT ![Head(fifo)] = @ + 1]
        /\ UNCHANGED <<masterAt, started, slaveAt, written>>
    BY <1>4 DEF Mandelbrot!ReadValue
  <2>2. Head(fifo) \in Mandelbrot!Slave /\ fifo' \in Seq(Mandelbrot!Slave)
    BY <2>1
  <2>3. ASSUME NEW s \in Mandelbrot!Slave
        PROVE  written'[s] = drawn'[s] + Count(fifo', s)
    <3>1. Count(fifo, s) =
             IF Head(fifo) = s THEN Count(Tail(fifo), s) + 1 ELSE Count(Tail(fifo), s)
      BY <2>1, CountTail
    <3>2. Count(Tail(fifo), s) \in Nat
      BY <2>1, <2>2, WithinIsFinite
    <3>3. drawn'[s] = IF Head(fifo) = s THEN drawn[s] + 1 ELSE drawn[s]
      BY <2>1
    <3>4. written'[s] = drawn[s] + Count(fifo, s) /\ drawn[s] \in Nat
      BY <2>1
    <3>5. Count(fifo', s) = Count(Tail(fifo), s)
      BY <2>1
    <3>. QED
      BY ONLY <3>1, <3>2, <3>3, <3>4, <3>5
  <2>4. drawn' \in [Mandelbrot!Slave -> Nat]
    BY <2>1, <2>2
  <2>. QED
    BY <2>1, <2>2, <2>3, <2>4
<1>5. CASE Mandelbrot!EndOfFile
  <2>1. /\ masterAt = "read" /\ masterAt' = "close" /\ fifo = <<>>
        /\ \A s \in Mandelbrot!Slave : slaveAt[s] # "write"
        /\ UNCHANGED <<started, slaveAt, written, fifo, drawn>>
    BY <1>5 DEF Mandelbrot!EndOfFile, Mandelbrot!Writing
  <2>2. ASSUME NEW s \in Mandelbrot!Slave
        PROVE  drawn[s] = written[s] /\ written[s] \in {0, Points}
    <3>1. drawn[s] = written[s]
      BY <2>1, CountEmpty
    <3>2. slaveAt[s] \in {"off", "open", "closed", "gone"}
      BY <2>1
    <3>. QED
      BY <2>1, <3>1, <3>2
  <2>3. \E s \in Mandelbrot!Slave : drawn[s] = Points
    BY <2>1, <2>2
  <2>. QED
    BY <2>1, <2>2, <2>3
<1>6. CASE Mandelbrot!CloseMaster
  BY <1>6 DEF Mandelbrot!CloseMaster
<1>7. ASSUME NEW s \in Mandelbrot!Slave, Mandelbrot!OpenSlave(s)
      PROVE  PictureInv'
  BY <1>7 DEF Mandelbrot!OpenSlave, Mandelbrot!Reading
<1>8. ASSUME NEW s \in Mandelbrot!Slave, Mandelbrot!WriteValue(s)
      PROVE  PictureInv'
  <2>1. /\ slaveAt[s] = "write" /\ slaveAt' = slaveAt
        /\ masterAt \in {"open", "read", "close"}
        /\ written' = [written EXCEPT ![s] = @ + 1]
        /\ fifo' = Append(fifo, s)
        /\ UNCHANGED <<masterAt, started, drawn>>
    BY <1>8 DEF Mandelbrot!WriteValue, Mandelbrot!Reading
  <2>2. ASSUME NEW t \in Mandelbrot!Slave
        PROVE  /\ written'[t] = drawn'[t] + Count(fifo', t)
               /\ t # s => written'[t] = written[t]
    <3>1. Count(fifo', t) = IF s = t THEN Count(fifo, t) + 1 ELSE Count(fifo, t)
      BY <2>1, CountAppend
    <3>2. Count(fifo, t) \in Nat
      BY WithinIsFinite
    <3>3. written'[t] = IF t = s THEN written[t] + 1 ELSE written[t]
      BY <2>1
    <3>4. written[t] = drawn[t] + Count(fifo, t) /\ drawn[t] \in Nat
      BY <2>1
    <3>. QED
      BY <2>1, <3>1, <3>2, <3>3, <3>4
  <2>3. fifo' \in Seq(Mandelbrot!Slave) /\ written' \in [Mandelbrot!Slave -> Nat]
    BY <2>1
  <2>. QED
    BY <2>1, <2>2, <2>3
<1>9. ASSUME NEW s \in Mandelbrot!Slave, Mandelbrot!WriteBreaks(s)
      PROVE  PictureInv'
  BY <1>9 DEF Mandelbrot!WriteBreaks, Mandelbrot!Reading
<1>10. ASSUME NEW s \in Mandelbrot!Slave, Mandelbrot!CloseSlave(s)
       PROVE  PictureInv'
  BY <1>10 DEF Mandelbrot!CloseSlave
<1>11. CASE Mandelbrot!Stopped \/ UNCHANGED mandelbrotVars
  BY <1>11 DEF Mandelbrot!Stopped, Mandelbrot!vars, mandelbrotVars
<1>. QED
  BY <1>1, <1>2, <1>3, <1>4, <1>5, <1>6, <1>7, <1>8, <1>9, <1>10, <1>11
     DEF Mandelbrot!Next, Mandelbrot!Master, Mandelbrot!SlaveNext

LEMMA SameCount == \A S : Mandelbrot!Cardinality(S) = Cardinality(S)
BY DEF Mandelbrot!Cardinality, Cardinality

\* Of each slave the picture shows all the points or none, and what was written
\* before the end is drawn or still to be read, for every number of slaves and
\* points and every size of the FIFO (cw05/zad2).
THEOREM PicturesAreWhole == Spec => []AllOrNothing
<1>1. Init => PictureInv
  BY PictureInit DEF Init
<1>2. PictureInv /\ [Next]_vars => PictureInv'
  BY OneProgramRuns, PictureStep
<1>3. PictureInv => AllOrNothing
  <2>1. \A s : Mandelbrot!Cardinality(Mandelbrot!InFifo(s)) = Count(fifo, s)
    BY SameCount DEF Mandelbrot!InFifo, Count, Within
  <2>. QED
    BY <2>1 DEF PictureInv, AllOrNothing, Mandelbrot!AllOrNothing
<1>. QED
  BY <1>1, <1>2, <1>3, PTL DEF Spec

-----------------------------------------------------------------------------
(* The line of commands. *)

\* What size units of one command look like, in a pipe or at the terminal.
Copies(size, unit) == [m \in 1 .. size |-> unit]

\* What a descriptor may be open on.
Ends == Nat \X {"closed", "tty", "read", "write"}
FdTables == [Line!Fd -> Ends]

\* What a command reads from, and writes to.
InputOf(cmd) == IF cmd = 1 THEN Line!Tty ELSE Line!ReadEnd(cmd)
OutputOf(cmd) == IF cmd < Len(commands) THEN Line!WriteEnd(cmd + 1) ELSE Line!Tty

LineTypeOK ==
    /\ commands \in Seq([reads : BOOLEAN, emits : Emits]) /\ Len(commands) >= 1
    /\ shellAt \in {"first", "loop", "parent", "wait", "end"}
    /\ shellAt \in {"first", "loop", "end"} <=> execAt = "none"
    /\ execAt \in {"none", "exec", "read", "write", "exited"}
    /\ cmdNo \in 1 .. Len(commands) + 1
    /\ shellAt \in {"parent", "wait"} => cmdNo <= Len(commands)
    /\ shellAt = "first" => cmdNo = 1
    /\ shellFds \in FdTables
    /\ childFds \in FdTables
    /\ pipes \in Seq(Seq(Nat)) /\ got \in Seq(Nat) /\ left \in Nat
    /\ shellAt \in {"parent", "wait"} => Len(pipes) = cmdNo + 1
    /\ shellAt = "loop" => Len(pipes) = cmdNo
    /\ shellAt = "first" => pipes = <<>>

\* The descriptors of the shell go back and forth between two tables: the input of
\* the next command is at descriptor 0 or at 5, and pipe gets 5 or 0 for the other.
DescriptorsOK ==
    /\ last \in {0, 5} /\ (cmdNo = 1 /\ shellAt # "end" => last = 0)
    /\ shellAt = "first" => shellFds = Line!AtStart
    /\ shellAt \in {"loop", "parent", "wait"} =>
          /\ shellFds[1] = Line!Tty /\ shellFds[2] = Line!Tty
          /\ shellFds[3] = Line!ReadEnd(1) /\ shellFds[4] = Line!WriteEnd(1)
          /\ shellFds[7] = Line!Closed
    /\ shellAt = "loop" => /\ shellFds[last] = InputOf(cmdNo)
                           /\ shellFds[5 - last] = Line!Closed
                           /\ shellFds[6] = Line!Closed
    /\ shellAt \in {"parent", "wait"} => fd = <<5 - last, 6>>
    /\ shellAt = "parent" => shellFds[last] = InputOf(cmdNo)
    /\ shellAt \in {"parent", "wait"} => shellFds[5 - last] = Line!ReadEnd(cmdNo + 1)
    /\ execAt = "exec" => /\ childFds[last] = InputOf(cmdNo)
                          /\ childFds[1] = Line!Tty
                          /\ childFds[6] = Line!WriteEnd(cmdNo + 1)
    /\ execAt \in {"read", "write"} => /\ childFds[0] = InputOf(cmdNo)
                                       /\ childFds[1] = OutputOf(cmdNo)

\* What the command has read and what is left of it; what it has written.
UnitsOK ==
    /\ shellAt = "loop" /\ 1 < cmdNo /\ cmdNo <= Len(commands) =>
          pipes[cmdNo] = Copies(commands[cmdNo - 1].emits, cmdNo - 1)
    /\ shellAt \in {"first", "loop"} =>
          terminal = IF cmdNo <= Len(commands) THEN <<>>
                     ELSE Copies(commands[Len(commands)].emits, Len(commands))
    /\ shellAt \in {"parent", "wait"} =>
          /\ cmdNo = 1 => got = <<>>
          /\ cmdNo > 1 => /\ got = Copies(Len(got), cmdNo - 1)
                          /\ pipes[cmdNo] = Copies(Len(pipes[cmdNo]), cmdNo - 1)
                          /\ Len(got) + Len(pipes[cmdNo]) = commands[cmdNo - 1].emits
          /\ execAt \in {"write", "exited"} /\ commands[cmdNo].reads /\ cmdNo > 1 =>
                pipes[cmdNo] = <<>>
          /\ left <= commands[cmdNo].emits
          /\ execAt \in {"exec", "read"} => left = commands[cmdNo].emits
          /\ execAt = "exited" => left = 0
          /\ IF cmdNo < Len(commands)
             THEN /\ pipes[cmdNo + 1] = Copies(commands[cmdNo].emits - left, cmdNo)
                  /\ terminal = <<>>
             ELSE terminal = Copies(commands[cmdNo].emits - left, cmdNo)
    /\ shellAt = "end" => terminal = Copies(commands[Len(commands)].emits, Len(commands))

LineInv == LineTypeOK /\ DescriptorsOK /\ UnitsOK

LEMMA LowestIs ==
    ASSUME NEW S \in SUBSET Int, NEW x \in S, \A y \in S : x <= y
    PROVE  Line!Lowest(S) = x
<1>1. \A y \in S : (\A z \in S : y <= z) <=> y = x
  OBVIOUS
<1>. QED
  BY <1>1, Zenon DEF Line!Lowest

\* The ends of pipes, the terminal and closed descriptors are told apart.
LEMMA EndsDiffer ==
    /\ \A p \in Nat : {Line!ReadEnd(p), Line!WriteEnd(p), Line!Tty, Line!Closed}
                         \subseteq Ends
    /\ \A p \in Nat : /\ Line!ReadEnd(p) # Line!Closed /\ Line!WriteEnd(p) # Line!Closed
                      /\ Line!ReadEnd(p)[1] = p /\ Line!WriteEnd(p)[1] = p
                      /\ Line!WriteEnd(p) # Line!Tty
    /\ Line!Tty # Line!Closed /\ Line!Tty[1] = 0
BY DEF Line!ReadEnd, Line!WriteEnd, Line!Tty, Line!Closed, Line!Fd, Ends

LEMMA Descriptors == \A f : f \in Line!Fd <=> f \in {0, 1, 2, 3, 4, 5, 6, 7}
BY DEF Line!Fd

LEMMA ChangedTable ==
    ASSUME NEW table \in FdTables, NEW a \in Line!Fd, NEW x \in Ends
    PROVE  /\ [table EXCEPT ![a] = x] \in FdTables
           /\ \A f \in Line!Fd : [table EXCEPT ![a] = x][f] = IF f = a THEN x ELSE table[f]
BY DEF FdTables

\* pipe takes the two lowest descriptors that are free.
LEMMA PipeTakes ==
    ASSUME NEW r \in Line!Fd, NEW w \in Line!Fd, r < w,
           shellFds[r] = Line!Closed, shellFds[w] = Line!Closed,
           \A f \in Line!Fd : f < w /\ f # r => shellFds[f] # Line!Closed,
           Line!MakePipe, shellFds \in FdTables, Len(pipes) \in Nat
    PROVE  /\ fd' = <<r, w>>
           /\ pipes' = Append(pipes, <<>>)
           /\ shellFds' \in FdTables
           /\ \A f \in Line!Fd : shellFds'[f] =
                 IF f = r THEN Line!ReadEnd(Len(pipes) + 1)
                 ELSE IF f = w THEN Line!WriteEnd(Len(pipes) + 1) ELSE shellFds[f]
<1> DEFINE F == Line!Free(shellFds)
<1>1. F \in SUBSET Int /\ r \in F /\ w \in F \ {r} /\ F \ {r} \in SUBSET Int
  BY DEF Line!Free, Line!Fd
<1>2. (\A y \in F : r <= y) /\ (\A y \in F \ {r} : w <= y)
  BY DEF Line!Free, Line!Fd
<1>3. Line!Lowest(F) = r
  BY <1>1, <1>2, LowestIs
<1>4. Line!Lowest(F \ {r}) = w
  BY <1>1, <1>2, LowestIs
<1>5. /\ fd' = <<r, w>> /\ pipes' = Append(pipes, <<>>)
      /\ shellFds' = [shellFds EXCEPT ![r] = Line!ReadEnd(Len(pipes) + 1),
                                      ![w] = Line!WriteEnd(Len(pipes) + 1)]
  BY <1>3, <1>4 DEF Line!MakePipe
<1>6. Line!ReadEnd(Len(pipes) + 1) \in Ends /\ Line!WriteEnd(Len(pipes) + 1) \in Ends
  BY EndsDiffer
<1>7. r # w
  BY DEF Line!Fd
<1>. QED
  BY <1>5, <1>6, <1>7 DEF FdTables

\* Sequences of one unit.
LEMMA CopiesAre ==
    ASSUME NEW size \in Nat, NEW unit \in Nat
    PROVE  /\ Copies(size, unit) \in Seq(Nat) /\ Len(Copies(size, unit)) = size
           /\ Append(Copies(size, unit), unit) = Copies(size + 1, unit)
           /\ size > 0 => /\ Copies(size, unit) # <<>>
                          /\ Head(Copies(size, unit)) = unit
                          /\ Tail(Copies(size, unit)) = Copies(size - 1, unit)
           /\ Copies(0, unit) = <<>>
BY DEF Copies

LEMMA ArrayIsSequence ==
    ASSUME NEW S, NEW size \in Nat, NEW row \in [1 .. size -> S]
    PROVE  row \in Seq(S) /\ Len(row) = size
OBVIOUS

LEMMA ElementOf ==
    ASSUME NEW S, NEW q \in Seq(S)
    PROVE  Len(q) \in Nat /\ \A e \in 1 .. Len(q) : q[e] \in S
OBVIOUS

LEMMA LineInit == Line!Init => LineInv
<1> SUFFICES ASSUME Line!Init PROVE LineInv
  OBVIOUS
<1>1. PICK size \in 1 .. MAX_CMDS :
         commands \in [1 .. size -> [reads : BOOLEAN, emits : Emits]]
  BY DEF Line!Init
<1>2. /\ shellFds = Line!AtStart /\ shellAt = "first" /\ cmdNo = 1 /\ last = 0
      /\ pipes = <<>> /\ childFds = Line!AllClosed /\ execAt = "none" /\ got = <<>>
      /\ left = 0 /\ terminal = <<>>
  BY DEF Line!Init
<1>3. size \in Nat /\ size >= 1
  BY ConstantTypes
<1>4. commands \in Seq([reads : BOOLEAN, emits : Emits]) /\ Len(commands) = size
  BY <1>1, <1>3, ArrayIsSequence, Zenon
<1>5. /\ shellFds \in FdTables
      /\ childFds \in FdTables
  BY <1>2, EndsDiffer DEF Line!AtStart, Line!AllClosed, FdTables
<1>6. LineTypeOK
  BY <1>2, <1>3, <1>4, <1>5 DEF LineTypeOK
<1>7. DescriptorsOK
  BY <1>2 DEF DescriptorsOK
<1>8. UnitsOK
  BY <1>2, <1>3, <1>4 DEF UnitsOK
<1>. QED
  BY <1>6, <1>7, <1>8 DEF LineInv

\* Facts of the constants that the steps need.
LEMMA CommandTypes ==
    ASSUME LineInv
    PROVE  /\ Len(commands) \in Nat
           /\ \A cmd \in 1 .. Len(commands) :
                 commands[cmd].emits \in Nat /\ commands[cmd].reads \in BOOLEAN
<1>1. commands \in Seq([reads : BOOLEAN, emits : Emits])
  BY DEF LineInv, LineTypeOK
<1>2. /\ Len(commands) \in Nat
      /\ \A cmd \in 1 .. Len(commands) : commands[cmd] \in [reads : BOOLEAN, emits : Emits]
  BY <1>1, ElementOf, Zenon
<1>. QED
  BY <1>2, ConstantTypes

LEMMA FirstPipeKeeps ==
    ASSUME LineInv, Line!FirstPipe
    PROVE  LineInv'
<1>1. /\ shellAt = "first" /\ shellAt' = "loop" /\ Line!MakePipe
      /\ UNCHANGED <<commands, cmdNo, last, childFds, execAt, got, left, terminal>>
  BY DEF Line!FirstPipe
<1>2. LineTypeOK /\ DescriptorsOK /\ UnitsOK
  BY DEF LineInv
<1>3. /\ shellFds = Line!AtStart /\ cmdNo = 1 /\ pipes = <<>> /\ last = 0
      /\ Len(commands) \in Nat /\ Len(commands) >= 1
  BY <1>1, <1>2, CommandTypes DEF LineTypeOK, DescriptorsOK
<1>4. \A f \in Line!Fd : shellFds[f] = IF f <= 2 THEN Line!Tty ELSE Line!Closed
  BY <1>3 DEF Line!AtStart
<1>5. /\ pipes' = Append(pipes, <<>>)
      /\ shellFds' \in FdTables
      /\ \A f \in Line!Fd : shellFds'[f] =
            IF f = 3 THEN Line!ReadEnd(1) ELSE IF f = 4 THEN Line!WriteEnd(1) ELSE shellFds[f]
  <2>1. shellFds[3] = Line!Closed /\ shellFds[4] = Line!Closed
    BY <1>4, Descriptors
  <2>2. \A f \in Line!Fd : f < 4 /\ f # 3 => shellFds[f] # Line!Closed
    BY <1>4, EndsDiffer, Descriptors
  <2>3. /\ Len(pipes) + 1 = 1 /\ Len(pipes) \in Nat /\ 3 \in Line!Fd /\ 4 \in Line!Fd
        /\ shellFds \in FdTables
    BY <1>2, <1>3, Descriptors DEF LineTypeOK
  <2>. QED
    BY <1>1, <2>1, <2>2, <2>3, PipeTakes
<1>6. /\ pipes' \in Seq(Seq(Nat)) /\ Len(pipes') = 1
      /\ shellFds' \in FdTables
      /\ shellFds'[0] = Line!Tty /\ shellFds'[1] = Line!Tty /\ shellFds'[2] = Line!Tty
      /\ shellFds'[3] = Line!ReadEnd(1) /\ shellFds'[4] = Line!WriteEnd(1)
      /\ shellFds'[5] = Line!Closed /\ shellFds'[6] = Line!Closed
      /\ shellFds'[7] = Line!Closed
  <2>1. pipes' \in Seq(Seq(Nat)) /\ Len(pipes') = 1
    BY <1>3, <1>5
  <2>. QED
    BY <1>4, <1>5, <2>1, Descriptors
<1>7. LineTypeOK'
  BY <1>1, <1>2, <1>3, <1>6 DEF LineTypeOK
<1>8. DescriptorsOK'
  BY <1>1, <1>2, <1>3, <1>6 DEF DescriptorsOK, LineTypeOK, InputOf
<1>9. UnitsOK'
  BY <1>1, <1>2, <1>3 DEF UnitsOK
<1>. QED
  BY <1>7, <1>8, <1>9 DEF LineInv

LEMMA ForkKeeps ==
    ASSUME LineInv, Line!Fork
    PROVE  LineInv'
<1>1. /\ shellAt = "loop" /\ shellAt' = "parent" /\ cmdNo <= Len(commands)
      /\ Line!MakePipe /\ childFds' = shellFds'
      /\ execAt' = "exec" /\ got' = <<>> /\ left' = commands[cmdNo].emits
      /\ UNCHANGED <<commands, cmdNo, last, terminal>>
  BY DEF Line!Fork
<1>2. LineTypeOK /\ DescriptorsOK /\ UnitsOK
  BY DEF LineInv
<1>3. /\ cmdNo \in Nat /\ cmdNo >= 1 /\ Len(commands) \in Nat
      /\ commands[cmdNo].emits \in Nat /\ Len(pipes) = cmdNo /\ pipes \in Seq(Seq(Nat))
      /\ cmdNo > 1 => commands[cmdNo - 1].emits \in Nat
  <2>1. /\ cmdNo \in Nat /\ cmdNo >= 1 /\ Len(commands) \in Nat
        /\ Len(pipes) = cmdNo /\ pipes \in Seq(Seq(Nat))
    BY <1>1, <1>2, CommandTypes DEF LineTypeOK
  <2>2. cmdNo \in 1 .. Len(commands) /\ (cmdNo > 1 => cmdNo - 1 \in 1 .. Len(commands))
    BY <1>1, <2>1
  <2>. QED
    BY <2>1, <2>2, CommandTypes
<1>4. /\ last \in {0, 5} /\ shellFds[last] = InputOf(cmdNo)
      /\ shellFds[5 - last] = Line!Closed /\ shellFds[6] = Line!Closed
      /\ shellFds[1] = Line!Tty /\ shellFds[2] = Line!Tty
      /\ shellFds[3] = Line!ReadEnd(1) /\ shellFds[4] = Line!WriteEnd(1)
      /\ shellFds[7] = Line!Closed
  BY <1>1, <1>2 DEF DescriptorsOK
<1>5. /\ fd' = <<5 - last, 6>>
      /\ pipes' = Append(pipes, <<>>)
      /\ shellFds' \in FdTables
      /\ \A f \in Line!Fd : shellFds'[f] =
            IF f = 5 - last THEN Line!ReadEnd(cmdNo + 1)
            ELSE IF f = 6 THEN Line!WriteEnd(cmdNo + 1) ELSE shellFds[f]
  <2>1. InputOf(cmdNo) # Line!Closed
    BY <1>3, EndsDiffer DEF InputOf
  <2>2. \A f \in Line!Fd : f < 6 /\ f # 5 - last => shellFds[f] # Line!Closed
    <3>0. /\ Line!Tty # Line!Closed /\ Line!ReadEnd(1) # Line!Closed
          /\ Line!WriteEnd(1) # Line!Closed
      BY EndsDiffer
    <3>1. CASE last = 0
      BY ONLY <1>4, <2>1, <3>0, <3>1, Descriptors
    <3>2. CASE last = 5
      BY ONLY <1>4, <2>1, <3>0, <3>2, Descriptors
    <3>. QED
      BY ONLY <1>4, <3>1, <3>2
  <2>3. 5 - last \in Line!Fd /\ 5 - last < 6 /\ 6 \in Line!Fd /\ shellFds \in FdTables
    <3>1. 5 - last \in {0, 5}
      BY <1>4
    <3>2. shellFds \in FdTables
      BY <1>2 DEF LineTypeOK
    <3>. QED
      BY <3>1, <3>2, Descriptors
  <2>4. /\ Line!MakePipe /\ Len(pipes) \in Nat
        /\ shellFds[5 - last] = Line!Closed /\ shellFds[6] = Line!Closed
    BY <1>1, <1>3, <1>4
  <2>5. /\ fd' = <<5 - last, 6>>
        /\ pipes' = Append(pipes, <<>>)
        /\ shellFds' \in FdTables
        /\ \A f \in Line!Fd : shellFds'[f] =
              IF f = 5 - last THEN Line!ReadEnd(Len(pipes) + 1)
              ELSE IF f = 6 THEN Line!WriteEnd(Len(pipes) + 1) ELSE shellFds[f]
    BY ONLY <2>2, <2>3, <2>4, PipeTakes
  <2>. QED
    BY <1>3, <2>5
<1>6. /\ shellFds' \in FdTables
      /\ shellFds'[last] = InputOf(cmdNo)
      /\ shellFds'[5 - last] = Line!ReadEnd(cmdNo + 1)
      /\ shellFds'[6] = Line!WriteEnd(cmdNo + 1)
      /\ shellFds'[1] = Line!Tty /\ shellFds'[2] = Line!Tty
      /\ shellFds'[3] = Line!ReadEnd(1) /\ shellFds'[4] = Line!WriteEnd(1)
      /\ shellFds'[7] = Line!Closed
  <2>0. /\ 0 \in Line!Fd /\ 1 \in Line!Fd /\ 2 \in Line!Fd /\ 3 \in Line!Fd
        /\ 4 \in Line!Fd /\ 5 \in Line!Fd /\ 6 \in Line!Fd /\ 7 \in Line!Fd
    BY ONLY Descriptors
  <2>1. CASE last = 0
    BY ONLY <1>4, <1>5, <2>0, <2>1
  <2>2. CASE last = 5
    BY ONLY <1>4, <1>5, <2>0, <2>2
  <2>. QED
    BY ONLY <1>4, <2>1, <2>2
<1>7. /\ pipes' \in Seq(Seq(Nat)) /\ Len(pipes') = cmdNo + 1
      /\ pipes'[cmdNo] = pipes[cmdNo] /\ pipes'[cmdNo + 1] = <<>>
  BY <1>3, <1>5
<1>8. LineTypeOK'
  <2>1. got' \in Seq(Nat) /\ left' \in Nat
    BY <1>1, <1>3
  <2>2. /\ UNCHANGED <<commands, cmdNo>> /\ childFds' \in FdTables /\ shellFds' \in FdTables
        /\ shellAt' = "parent" /\ execAt' = "exec" /\ cmdNo <= Len(commands)
    BY <1>1, <1>6
  <2>. QED
    BY <1>2, <1>7, <2>1, <2>2 DEF LineTypeOK
<1>9. DescriptorsOK'
  BY <1>1, <1>2, <1>4, <1>5, <1>6 DEF DescriptorsOK, InputOf
<1>10. UnitsOK'
  <2>1. cmdNo > 1 => /\ pipes'[cmdNo] = Copies(commands[cmdNo - 1].emits, cmdNo - 1)
                     /\ Len(pipes'[cmdNo]) = commands[cmdNo - 1].emits
    <3> SUFFICES ASSUME cmdNo > 1
                 PROVE  /\ pipes[cmdNo] = Copies(commands[cmdNo - 1].emits, cmdNo - 1)
                        /\ Len(pipes[cmdNo]) = commands[cmdNo - 1].emits
      BY <1>7
    <3>1. pipes[cmdNo] = Copies(commands[cmdNo - 1].emits, cmdNo - 1)
      BY <1>1, <1>2 DEF UnitsOK
    <3>2. cmdNo - 1 \in Nat /\ commands[cmdNo - 1].emits \in Nat
      BY <1>3
    <3>3. Len(Copies(commands[cmdNo - 1].emits, cmdNo - 1)) = commands[cmdNo - 1].emits
      BY <3>2, CopiesAre
    <3>. QED
      BY <3>1, <3>3
  <2>2. Copies(0, cmdNo) = <<>> /\ Copies(0, cmdNo - 1) = <<>>
    BY <1>3, CopiesAre
  <2>3. terminal = <<>>
    BY <1>1, <1>2 DEF UnitsOK
  <2>4. left' <= commands[cmdNo].emits /\ commands[cmdNo].emits - left' = 0
    BY <1>1, <1>3
  <2>. QED
    BY <1>1, <1>3, <1>7, <2>1, <2>2, <2>3, <2>4 DEF UnitsOK
<1>. QED
  BY <1>8, <1>9, <1>10 DEF LineInv

LEMMA ParentKeeps ==
    ASSUME LineInv, Line!Parent
    PROVE  LineInv'
<1>1. /\ shellAt = "parent" /\ shellAt' = "wait"
      /\ shellFds' = Line!Dup2(Line!Close(shellFds, fd[2]), fd[1], 0)
      /\ UNCHANGED <<commands, cmdNo, fd, last, pipes, childFds, execAt, got, left, terminal>>
  BY DEF Line!Parent
<1>2. LineTypeOK /\ DescriptorsOK /\ UnitsOK
  BY DEF LineInv
<1>3. /\ last \in {0, 5} /\ fd = <<5 - last, 6>>
      /\ shellFds[5 - last] = Line!ReadEnd(cmdNo + 1)
      /\ shellFds \in FdTables
      /\ shellFds[1] = Line!Tty /\ shellFds[2] = Line!Tty
      /\ shellFds[3] = Line!ReadEnd(1) /\ shellFds[4] = Line!WriteEnd(1)
      /\ shellFds[7] = Line!Closed
  BY <1>1, <1>2 DEF DescriptorsOK, LineTypeOK
<1>4. /\ Line!Closed \in Ends
      /\ Line!ReadEnd(cmdNo + 1) \in Ends
  BY <1>2, EndsDiffer DEF LineTypeOK
<1>5. /\ shellFds' \in FdTables
      /\ \A f \in Line!Fd : shellFds'[f] =
            IF f = 0 THEN Line!ReadEnd(cmdNo + 1)
            ELSE IF f = 6 THEN Line!Closed ELSE shellFds[f]
  <2> DEFINE closed == [shellFds EXCEPT ![6] = Line!Closed]
  <2>1. 0 \in Line!Fd /\ 6 \in Line!Fd /\ 5 - last \in Line!Fd /\ 5 - last # 6
    BY <1>3, Descriptors
  <2>2. shellFds' = [closed EXCEPT ![0] = closed[5 - last]]
    BY <1>1, <1>3 DEF Line!Dup2, Line!Close
  <2>3. /\ closed \in FdTables
        /\ \A f \in Line!Fd : closed[f] = IF f = 6 THEN Line!Closed ELSE shellFds[f]
    BY <1>3, <1>4, <2>1, ChangedTable
  <2>4. closed[5 - last] = Line!ReadEnd(cmdNo + 1)
    BY <1>3, <2>1, <2>3
  <2>5. shellFds' = [closed EXCEPT ![0] = Line!ReadEnd(cmdNo + 1)]
    BY <2>2, <2>4
  <2> HIDE DEF closed
  <2>6. /\ shellFds' \in FdTables
        /\ \A f \in Line!Fd : shellFds'[f] =
              IF f = 0 THEN Line!ReadEnd(cmdNo + 1) ELSE closed[f]
    <3>1. PICK end \in Ends : end = Line!ReadEnd(cmdNo + 1)
      BY <1>4
    <3>2. closed \in FdTables /\ 0 \in Line!Fd
      BY <2>1, <2>3
    <3>3. /\ [closed EXCEPT ![0] = end] \in FdTables
          /\ \A f \in Line!Fd : [closed EXCEPT ![0] = end][f] = IF f = 0 THEN end ELSE closed[f]
      BY ONLY <3>2, ChangedTable
    <3>4. shellFds' = [closed EXCEPT ![0] = end]
      BY <2>5, <3>1
    <3>. QED
      BY <3>1, <3>3, <3>4
  <2>. QED
    BY <2>3, <2>6
<1>6. /\ shellFds'[5 - last] = Line!ReadEnd(cmdNo + 1)
      /\ shellFds'[1] = Line!Tty /\ shellFds'[2] = Line!Tty
      /\ shellFds'[3] = Line!ReadEnd(1) /\ shellFds'[4] = Line!WriteEnd(1)
      /\ shellFds'[7] = Line!Closed
  <2>1. CASE last = 0
    BY <1>3, <1>5, <2>1, Descriptors
  <2>2. CASE last = 5
    BY <1>3, <1>5, <2>2, Descriptors
  <2>. QED
    BY <1>3, <2>1, <2>2
<1>7. LineTypeOK'
  BY <1>1, <1>2, <1>5 DEF LineTypeOK
<1>8. DescriptorsOK'
  BY <1>1, <1>2, <1>6 DEF DescriptorsOK, InputOf, OutputOf
<1>9. UnitsOK'
  BY <1>1, <1>2 DEF UnitsOK
<1>. QED
  BY <1>7, <1>8, <1>9 DEF LineInv

LEMMA AllClosedIsTable == Line!AllClosed \in FdTables
BY EndsDiffer DEF Line!AllClosed, FdTables

LEMMA WaitKeeps ==
    ASSUME LineInv, Line!Wait
    PROVE  LineInv'
<1>1. /\ shellAt = "wait" /\ shellAt' = "loop" /\ execAt = "exited" /\ execAt' = "none"
      /\ shellFds' = Line!Close(Line!Close(shellFds, last), fd[2])
      /\ last' = fd[1] /\ cmdNo' = cmdNo + 1
      /\ UNCHANGED <<commands, fd, pipes, childFds, got, left, terminal>>
  BY DEF Line!Wait
<1>2. LineTypeOK /\ DescriptorsOK /\ UnitsOK
  BY DEF LineInv
<1>3. /\ last \in {0, 5} /\ fd = <<5 - last, 6>>
      /\ shellFds[5 - last] = Line!ReadEnd(cmdNo + 1) /\ shellFds \in FdTables
      /\ shellFds[1] = Line!Tty /\ shellFds[2] = Line!Tty
      /\ shellFds[3] = Line!ReadEnd(1) /\ shellFds[4] = Line!WriteEnd(1)
      /\ shellFds[7] = Line!Closed
      /\ cmdNo \in Nat /\ cmdNo >= 1 /\ cmdNo <= Len(commands) /\ Len(commands) \in Nat
      /\ Len(pipes) = cmdNo + 1
  BY <1>1, <1>2, CommandTypes DEF DescriptorsOK, LineTypeOK
<1>4. last' = 5 - last /\ last' \in {0, 5} /\ 5 - last' = last
  BY <1>1, <1>3
<1>5. /\ shellFds' \in FdTables
      /\ \A f \in Line!Fd :
            shellFds'[f] = IF f = 6 \/ f = last THEN Line!Closed ELSE shellFds[f]
  <2>1. PICK closed \in Ends : closed = Line!Closed
    BY EndsDiffer
  <2>2. last \in Line!Fd /\ 6 \in Line!Fd /\ shellFds \in FdTables
    BY <1>3, Descriptors
  <2>3. shellFds' = [[shellFds EXCEPT ![last] = closed] EXCEPT ![6] = closed]
    BY <1>1, <1>3, <2>1 DEF Line!Close
  <2>4. /\ [[shellFds EXCEPT ![last] = closed] EXCEPT ![6] = closed] \in FdTables
        /\ \A f \in Line!Fd : [[shellFds EXCEPT ![last] = closed] EXCEPT ![6] = closed][f] =
              IF f = 6 THEN closed ELSE IF f = last THEN closed ELSE shellFds[f]
    BY ONLY <2>2 DEF FdTables
  <2>. QED
    BY <2>1, <2>3, <2>4
<1>6. /\ shellFds'[5 - last] = Line!ReadEnd(cmdNo + 1)
      /\ shellFds'[last] = Line!Closed /\ shellFds'[6] = Line!Closed
      /\ shellFds'[1] = Line!Tty /\ shellFds'[2] = Line!Tty
      /\ shellFds'[3] = Line!ReadEnd(1) /\ shellFds'[4] = Line!WriteEnd(1)
      /\ shellFds'[7] = Line!Closed
  <2>1. CASE last = 0
    BY <1>3, <1>5, <2>1, Descriptors
  <2>2. CASE last = 5
    BY <1>3, <1>5, <2>2, Descriptors
  <2>. QED
    BY <1>3, <2>1, <2>2
<1>7. LineTypeOK'
  BY <1>1, <1>2, <1>3, <1>5 DEF LineTypeOK
<1>8. DescriptorsOK'
  <2>1. InputOf(cmdNo)' = Line!ReadEnd(cmdNo + 1) /\ cmdNo' # 1
    BY <1>1, <1>3 DEF InputOf
  <2>. QED
    BY <1>1, <1>4, <1>6, <2>1 DEF DescriptorsOK
<1>9. UnitsOK'
  <2>1. /\ left = 0 /\ commands[cmdNo].emits \in Nat
        /\ commands[cmdNo].emits - left = commands[cmdNo].emits
    <3>1. cmdNo \in 1 .. Len(commands)
      BY <1>3
    <3>2. left = 0
      BY <1>1, <1>2 DEF UnitsOK
    <3>. QED
      BY <3>1, <3>2, CommandTypes
  <2>2. CASE cmdNo < Len(commands)
    <3>1. pipes[cmdNo + 1] = Copies(commands[cmdNo].emits, cmdNo) /\ terminal = <<>>
      BY <1>1, <1>2, <2>1, <2>2 DEF UnitsOK
    <3>2. cmdNo' - 1 = cmdNo /\ cmdNo' <= Len(commands)
      BY <1>1, <1>3, <2>2
    <3>. QED
      BY <1>1, <3>1, <3>2 DEF UnitsOK
  <2>3. CASE ~(cmdNo < Len(commands))
    <3>1. terminal = Copies(commands[cmdNo].emits, cmdNo)
      BY <1>1, <1>2, <2>1, <2>3 DEF UnitsOK
    <3>2. cmdNo = Len(commands) /\ ~(cmdNo' <= Len(commands))
      BY <1>1, <1>3, <2>3
    <3>. QED
      BY <1>1, <3>1, <3>2 DEF UnitsOK
  <2>. QED
    BY <2>2, <2>3
<1>. QED
  BY <1>7, <1>8, <1>9 DEF LineInv

LEMMA EndShellKeeps ==
    ASSUME LineInv, Line!EndShell
    PROVE  LineInv'
<1>1. /\ shellAt = "loop" /\ shellAt' = "end" /\ cmdNo > Len(commands)
      /\ shellFds' = Line!AllClosed
      /\ UNCHANGED <<commands, cmdNo, fd, last, pipes, childFds, execAt, got, left, terminal>>
  BY DEF Line!EndShell
<1>2. LineTypeOK /\ DescriptorsOK /\ UnitsOK
  BY DEF LineInv
<1>3. cmdNo \in Nat /\ Len(commands) \in Nat /\ ~(cmdNo <= Len(commands))
  BY <1>1, <1>2, CommandTypes DEF LineTypeOK
<1>4. LineTypeOK'
  BY <1>1, <1>2, AllClosedIsTable DEF LineTypeOK
<1>5. execAt = "none"
  BY <1>1, <1>2 DEF LineTypeOK
<1>6. DescriptorsOK'
  BY <1>1, <1>2, <1>5 DEF DescriptorsOK
<1>7. UnitsOK'
  BY <1>1, <1>2, <1>3 DEF UnitsOK
<1>. QED
  BY <1>4, <1>6, <1>7 DEF LineInv

LEMMA ExecKeeps ==
    ASSUME LineInv, Line!Exec
    PROVE  LineInv'
<1> DEFINE in == [childFds EXCEPT ![0] = childFds[last]]
<1>1. /\ execAt = "exec"
      /\ execAt' = IF commands[cmdNo].reads THEN "read" ELSE "write"
      /\ childFds' = IF cmdNo < Len(commands) THEN [in EXCEPT ![1] = in[fd[2]]] ELSE in
      /\ UNCHANGED <<commands, shellFds, shellAt, cmdNo, fd, last, pipes, got, left, terminal>>
  BY DEF Line!Exec, Line!Dup2, Line!HasNext
<1>2. LineTypeOK /\ DescriptorsOK /\ UnitsOK
  BY DEF LineInv
<1>3. /\ shellAt \in {"parent", "wait"} /\ last \in {0, 5} /\ fd[2] = 6
      /\ childFds \in FdTables
      /\ childFds[last] = InputOf(cmdNo) /\ childFds[1] = Line!Tty
      /\ childFds[6] = Line!WriteEnd(cmdNo + 1)
      /\ cmdNo \in Nat /\ cmdNo <= Len(commands)
  <2>1. shellAt \in {"parent", "wait"}
    BY <1>1, <1>2 DEF LineTypeOK
  <2>2. childFds \in FdTables /\ cmdNo \in Nat /\ cmdNo <= Len(commands)
    BY ONLY <1>2, <2>1 DEF LineTypeOK
  <2>3. /\ last \in {0, 5} /\ fd = <<5 - last, 6>>
        /\ childFds[last] = InputOf(cmdNo) /\ childFds[1] = Line!Tty
        /\ childFds[6] = Line!WriteEnd(cmdNo + 1)
    BY ONLY <1>1, <1>2, <2>1 DEF DescriptorsOK
  <2>. QED
    BY ONLY <2>1, <2>2, <2>3
<1>4. PICK input \in Ends, output \in Ends :
         input = InputOf(cmdNo) /\ output = Line!WriteEnd(cmdNo + 1)
  <2>1. InputOf(cmdNo) \in Ends /\ Line!WriteEnd(cmdNo + 1) \in Ends
    BY <1>3, EndsDiffer DEF InputOf
  <2>. QED
    BY <2>1
<1>5. 0 \in Line!Fd /\ 1 \in Line!Fd /\ 6 \in Line!Fd
  BY Descriptors
<1>6. /\ in = [childFds EXCEPT ![0] = input] /\ in \in FdTables
      /\ \A f \in Line!Fd : in[f] = IF f = 0 THEN input ELSE childFds[f]
  BY <1>3, <1>4, <1>5, ChangedTable
<1>7. /\ childFds' \in FdTables
      /\ childFds'[0] = InputOf(cmdNo) /\ childFds'[1] = OutputOf(cmdNo)
  <2>1. CASE cmdNo < Len(commands)
    <3>1. in[fd[2]] = output
      BY <1>3, <1>4, <1>5, <1>6
    <3> HIDE DEF in
    <3>2. childFds' = [in EXCEPT ![1] = output] /\ in \in FdTables
      BY <1>1, <1>6, <2>1, <3>1
    <3>3. /\ [in EXCEPT ![1] = output] \in FdTables
          /\ \A f \in Line!Fd : [in EXCEPT ![1] = output][f] =
                IF f = 1 THEN output ELSE in[f]
      BY ONLY <1>5, <3>2 DEF FdTables
    <3>4. /\ childFds' \in FdTables
          /\ \A f \in Line!Fd : childFds'[f] = IF f = 1 THEN output ELSE in[f]
      BY <3>2, <3>3
    <3>. QED
      BY <1>4, <1>5, <1>6, <2>1, <3>4 DEF OutputOf
  <2>2. CASE ~(cmdNo < Len(commands))
    BY <1>1, <1>3, <1>4, <1>5, <1>6, <2>2 DEF OutputOf
  <2>. QED
    BY <2>1, <2>2
<1>8. execAt' \in {"read", "write"} /\ (execAt' = "write" => ~commands[cmdNo].reads)
  BY <1>1
<1> HIDE DEF in
<1>9. LineTypeOK'
  <2>1. execAt' # "none" /\ execAt # "none"
    BY <1>1, <1>8
  <2>. QED
    BY <1>1, <1>2, <1>7, <1>8, <2>1 DEF LineTypeOK
<1>10. DescriptorsOK'
  BY <1>1, <1>2, <1>7, <1>8 DEF DescriptorsOK, InputOf, OutputOf
<1>11. UnitsOK'
  BY <1>1, <1>2, <1>3, <1>8 DEF UnitsOK
<1>. QED
  BY <1>9, <1>10, <1>11 DEF LineInv

\* What the steps of a command start from.
LEMMA CommandRuns ==
    ASSUME LineInv, execAt # "none"
    PROVE  /\ LineTypeOK /\ DescriptorsOK /\ UnitsOK
           /\ shellAt \in {"parent", "wait"}
           /\ cmdNo \in Nat /\ cmdNo >= 1 /\ cmdNo <= Len(commands) /\ Len(commands) \in Nat
           /\ commands[cmdNo].emits \in Nat
           /\ Len(pipes) = cmdNo + 1 /\ pipes \in Seq(Seq(Nat))
<1>1. LineTypeOK /\ DescriptorsOK /\ UnitsOK /\ Len(commands) \in Nat
  BY CommandTypes DEF LineInv
<1>2. /\ shellAt \in {"parent", "wait"}
      /\ cmdNo \in Nat /\ cmdNo >= 1 /\ cmdNo <= Len(commands)
      /\ Len(pipes) = cmdNo + 1 /\ pipes \in Seq(Seq(Nat))
  BY <1>1 DEF LineTypeOK
<1>3. cmdNo \in 1 .. Len(commands)
  BY <1>1, <1>2
<1>. QED
  BY <1>1, <1>2, <1>3, CommandTypes

LEMMA ReadKeeps ==
    ASSUME LineInv, Line!Read
    PROVE  LineInv'
<1>1. /\ execAt = "read" /\ Line!Units(Line!In[1]) # <<>>
      /\ got' = Append(got, Head(pipes[Line!In[1]]))
      /\ pipes' = [pipes EXCEPT ![Line!In[1]] = Tail(@)]
      /\ UNCHANGED <<commands, shellFds, shellAt, cmdNo, fd, last, childFds, execAt, left,
                     terminal>>
  BY DEF Line!Read
<1>2. /\ LineTypeOK /\ DescriptorsOK /\ UnitsOK
      /\ shellAt \in {"parent", "wait"}
      /\ cmdNo \in Nat /\ cmdNo >= 1 /\ cmdNo <= Len(commands) /\ Len(commands) \in Nat
      /\ Len(pipes) = cmdNo + 1 /\ pipes \in Seq(Seq(Nat))
  BY <1>1, CommandRuns
<1>3. cmdNo > 1 /\ Line!In[1] = cmdNo
  <2>1. Line!In = InputOf(cmdNo)
    BY <1>1, <1>2 DEF DescriptorsOK, Line!In
  <2>2. CASE cmdNo = 1
    BY <1>1, <2>1, <2>2, EndsDiffer DEF InputOf, Line!Units
  <2>3. CASE cmdNo # 1
    BY <1>2, <2>1, <2>3, EndsDiffer DEF InputOf
  <2>. QED
    BY <2>2, <2>3
<1>4. PICK source \in Nat : source = cmdNo - 1
  BY <1>2, <1>3
<1>5. PICK held1 \in Nat, taken \in Nat :
         /\ held1 = Len(pipes[cmdNo]) /\ pipes[cmdNo] = Copies(held1, source)
         /\ taken = Len(got) /\ got = Copies(taken, source)
         /\ taken + held1 = commands[source].emits
  <2>1. pipes[cmdNo] \in Seq(Nat) /\ got \in Seq(Nat)
    BY <1>2 DEF LineTypeOK
  <2>2. Len(pipes[cmdNo]) \in Nat /\ Len(got) \in Nat
    BY <2>1
  <2>. QED
    BY <1>2, <1>3, <1>4, <2>2 DEF UnitsOK
<1>6. held1 > 0
  <2>1. pipes[cmdNo] # <<>>
    BY <1>1, <1>2, <1>3 DEF Line!Units
  <2>2. Copies(0, source) = <<>>
    BY CopiesAre
  <2>. QED
    BY <1>5, <2>1, <2>2
<1>7. /\ Head(pipes[cmdNo]) = source /\ Tail(pipes[cmdNo]) = Copies(held1 - 1, source)
      /\ Len(Copies(held1 - 1, source)) = held1 - 1 /\ Copies(held1 - 1, source) \in Seq(Nat)
      /\ Append(got, source) = Copies(taken + 1, source)
      /\ Len(Copies(taken + 1, source)) = taken + 1 /\ Copies(taken + 1, source) \in Seq(Nat)
  <2>1. held1 - 1 \in Nat /\ taken + 1 \in Nat
    BY <1>6
  <2>2. /\ Head(Copies(held1, source)) = source
        /\ Tail(Copies(held1, source)) = Copies(held1 - 1, source)
    BY <1>6, CopiesAre
  <2>3. /\ Len(Copies(held1 - 1, source)) = held1 - 1
        /\ Copies(held1 - 1, source) \in Seq(Nat)
    BY <2>1, CopiesAre
  <2>4. Append(Copies(taken, source), source) = Copies(taken + 1, source)
    BY CopiesAre
  <2>5. /\ Len(Copies(taken + 1, source)) = taken + 1
        /\ Copies(taken + 1, source) \in Seq(Nat)
    BY <2>1, CopiesAre
  <2>. QED
    BY <1>5, <2>2, <2>3, <2>4, <2>5
<1>8. /\ got' = Copies(taken + 1, source)
      /\ pipes' = [pipes EXCEPT ![cmdNo] = Copies(held1 - 1, source)]
  BY <1>1, <1>3, <1>7
<1>9. /\ pipes' \in Seq(Seq(Nat)) /\ Len(pipes') = Len(pipes)
      /\ pipes'[cmdNo] = Copies(held1 - 1, source)
      /\ pipes'[cmdNo + 1] = pipes[cmdNo + 1]
  <2>1. cmdNo \in 1 .. Len(pipes) /\ cmdNo + 1 \in 1 .. Len(pipes) /\ cmdNo + 1 # cmdNo
    BY <1>2
  <2>. QED
    BY <1>2, <1>7, <1>8, <2>1
<1>10. LineTypeOK'
  <2>1. got' \in Seq(Nat)
    BY <1>7, <1>8
  <2>. QED
    BY <1>1, <1>2, <1>9, <2>1 DEF LineTypeOK
<1>11. DescriptorsOK'
  BY <1>1, <1>2 DEF DescriptorsOK, InputOf, OutputOf
<1>12. UnitsOK'
  <2>1. Len(got') = taken + 1 /\ Len(pipes'[cmdNo]) = held1 - 1
    BY <1>7, <1>8, <1>9
  <2>2. Len(got') + Len(pipes'[cmdNo]) = taken + held1
    BY <2>1
  <2>3. /\ got' = Copies(Len(got'), cmdNo - 1)
        /\ pipes'[cmdNo] = Copies(Len(pipes'[cmdNo]), cmdNo - 1)
        /\ Len(got') + Len(pipes'[cmdNo]) = commands[cmdNo - 1].emits
    BY <1>4, <1>5, <1>8, <1>9, <2>1, <2>2
  <2>4. /\ left <= commands[cmdNo].emits /\ left = commands[cmdNo].emits
        /\ IF cmdNo < Len(commands)
           THEN /\ pipes[cmdNo + 1] = Copies(commands[cmdNo].emits - left, cmdNo)
                /\ terminal = <<>>
           ELSE terminal = Copies(commands[cmdNo].emits - left, cmdNo)
    BY <1>1, <1>2 DEF UnitsOK
  <2>5. /\ UNCHANGED <<commands, shellAt, cmdNo, execAt, left, terminal>>
        /\ execAt = "read" /\ shellAt \notin {"first", "loop", "end"}
        /\ cmdNo > 1 /\ cmdNo # 1
        /\ pipes'[cmdNo + 1] = pipes[cmdNo + 1]
    BY <1>1, <1>2, <1>3, <1>9
  <2>. QED
    BY <2>3, <2>4, <2>5 DEF UnitsOK
<1>. QED
  BY <1>10, <1>11, <1>12 DEF LineInv

LEMMA ReadEOFKeeps ==
    ASSUME LineInv, Line!ReadEOF
    PROVE  LineInv'
<1>1. /\ execAt = "read" /\ execAt' = "write" /\ Line!Units(Line!In[1]) = <<>>
      /\ UNCHANGED <<commands, shellFds, shellAt, cmdNo, fd, last, pipes, childFds, got, left,
                     terminal>>
  BY DEF Line!ReadEOF
<1>2. /\ LineTypeOK /\ DescriptorsOK /\ UnitsOK
      /\ shellAt \in {"parent", "wait"} /\ cmdNo \in Nat
  BY <1>1, CommandRuns
<1>3. cmdNo > 1 => pipes[cmdNo] = <<>>
  <2>1. Line!In = InputOf(cmdNo)
    BY <1>1, <1>2 DEF DescriptorsOK, Line!In
  <2>2. cmdNo > 1 => Line!In[1] = cmdNo
    BY <1>2, <2>1, EndsDiffer DEF InputOf
  <2>. QED
    BY <1>1, <1>2, <2>2 DEF Line!Units
<1>4. LineTypeOK'
  BY <1>1, <1>2 DEF LineTypeOK
<1>5. DescriptorsOK'
  BY <1>1, <1>2 DEF DescriptorsOK, InputOf, OutputOf
<1>6. UnitsOK'
  BY <1>1, <1>2, <1>3 DEF UnitsOK
<1>. QED
  BY <1>4, <1>5, <1>6 DEF LineInv

LEMMA WriteKeeps ==
    ASSUME LineInv, Line!Write
    PROVE  LineInv'
<1>1. /\ execAt = "write" /\ left > 0 /\ left' = left - 1
      /\ IF Line!Out = Line!Tty
         THEN terminal' = Append(terminal, cmdNo) /\ pipes' = pipes
         ELSE /\ pipes' = [pipes EXCEPT ![Line!Out[1]] = Append(@, cmdNo)]
              /\ terminal' = terminal
      /\ UNCHANGED <<commands, shellFds, shellAt, cmdNo, fd, last, childFds, execAt, got>>
  BY DEF Line!Write
<1>2. /\ LineTypeOK /\ DescriptorsOK /\ UnitsOK
      /\ shellAt \in {"parent", "wait"}
      /\ cmdNo \in Nat /\ cmdNo >= 1 /\ cmdNo <= Len(commands) /\ Len(commands) \in Nat
      /\ commands[cmdNo].emits \in Nat
      /\ Len(pipes) = cmdNo + 1 /\ pipes \in Seq(Seq(Nat))
  BY <1>1, CommandRuns
<1>3. Line!Out = OutputOf(cmdNo)
  BY <1>1, <1>2 DEF DescriptorsOK, Line!Out
<1>4. PICK sent \in Nat : /\ sent = commands[cmdNo].emits - left
                          /\ commands[cmdNo].emits - left' = sent + 1
                          /\ left' \in Nat /\ left' <= commands[cmdNo].emits
  <2>1. left \in Nat /\ left <= commands[cmdNo].emits
    BY <1>2 DEF LineTypeOK, UnitsOK
  <2>2. PICK emitted \in Nat : emitted = commands[cmdNo].emits
    BY <1>2
  <2>3. /\ emitted - left \in Nat /\ emitted - (left - 1) = (emitted - left) + 1
        /\ left - 1 \in Nat /\ left - 1 <= emitted
    BY <1>1, <2>1, <2>2
  <2>. QED
    BY <1>1, <2>2, <2>3
<1>5. /\ Append(Copies(sent, cmdNo), cmdNo) = Copies(sent + 1, cmdNo)
      /\ Copies(sent + 1, cmdNo) \in Seq(Nat)
  <2>1. Append(Copies(sent, cmdNo), cmdNo) = Copies(sent + 1, cmdNo)
    BY <1>2, CopiesAre
  <2>2. sent + 1 \in Nat
    OBVIOUS
  <2>3. Copies(sent + 1, cmdNo) \in Seq(Nat)
    BY <1>2, <2>2, CopiesAre
  <2>. QED
    BY <2>1, <2>3
<1>6. DescriptorsOK'
  BY <1>1, <1>2 DEF DescriptorsOK, InputOf, OutputOf
<1>7. CASE cmdNo < Len(commands)
  <2>1. Line!Out # Line!Tty /\ Line!Out[1] = cmdNo + 1
    BY <1>2, <1>3, <1>7, EndsDiffer DEF OutputOf
  <2>2. pipes[cmdNo + 1] = Copies(sent, cmdNo) /\ terminal = <<>>
    BY <1>2, <1>4, <1>7 DEF UnitsOK
  <2>3. pipes' = [pipes EXCEPT ![cmdNo + 1] = Copies(sent + 1, cmdNo)] /\ terminal' = terminal
    BY <1>1, <1>5, <2>1, <2>2
  <2>4. /\ pipes' \in Seq(Seq(Nat)) /\ Len(pipes') = Len(pipes)
        /\ pipes'[cmdNo] = pipes[cmdNo]
        /\ pipes'[cmdNo + 1] = Copies(sent + 1, cmdNo)
    <3>1. cmdNo \in 1 .. Len(pipes) /\ cmdNo + 1 \in 1 .. Len(pipes) /\ cmdNo + 1 # cmdNo
      BY <1>2
    <3>. QED
      BY <1>2, <1>5, <2>3, <3>1
  <2>5. LineTypeOK'
    BY <1>1, <1>2, <1>4, <2>4 DEF LineTypeOK
  <2>6. UnitsOK'
    BY <1>1, <1>2, <1>4, <1>7, <2>2, <2>3, <2>4 DEF UnitsOK
  <2>. QED
    BY <1>6, <2>5, <2>6 DEF LineInv
<1>8. CASE ~(cmdNo < Len(commands))
  <2>1. Line!Out = Line!Tty
    BY <1>3, <1>8 DEF OutputOf
  <2>2. terminal = Copies(sent, cmdNo)
    BY <1>2, <1>4, <1>8 DEF UnitsOK
  <2>3. terminal' = Copies(sent + 1, cmdNo) /\ pipes' = pipes
    BY <1>1, <1>5, <2>1, <2>2
  <2>4. LineTypeOK'
    BY <1>1, <1>2, <1>4, <2>3 DEF LineTypeOK
  <2>5. UnitsOK'
    BY <1>1, <1>2, <1>4, <1>8, <2>3 DEF UnitsOK
  <2>. QED
    BY <1>6, <2>4, <2>5 DEF LineInv
<1>. QED
  BY <1>7, <1>8

LEMMA ExitKeeps ==
    ASSUME LineInv, Line!Exit
    PROVE  LineInv'
<1>1. /\ execAt = "write" /\ left = 0 /\ execAt' = "exited" /\ childFds' = Line!AllClosed
      /\ UNCHANGED <<commands, shellFds, shellAt, cmdNo, fd, last, pipes, got, left, terminal>>
  BY DEF Line!Exit
<1>2. LineTypeOK /\ DescriptorsOK /\ UnitsOK /\ shellAt \in {"parent", "wait"}
  BY <1>1, CommandRuns
<1>3. LineTypeOK'
  BY <1>1, <1>2, AllClosedIsTable DEF LineTypeOK
<1>4. DescriptorsOK'
  BY <1>1, <1>2 DEF DescriptorsOK, InputOf
<1>5. UnitsOK'
  BY <1>1, <1>2 DEF UnitsOK
<1>. QED
  BY <1>3, <1>4, <1>5 DEF LineInv

LEMMA LineStep ==
    ASSUME LineInv, [Line!Next]_lineVars
    PROVE  LineInv'
<1>1. CASE (Line!Stopped /\ UNCHANGED Line!vars) \/ UNCHANGED lineVars
  <2>1. UNCHANGED <<commands, shellFds, shellAt, cmdNo, fd, last, pipes, childFds,
                    execAt, got, left, terminal>>
    BY <1>1 DEF Line!vars, lineVars
  <2>2. LineTypeOK'
    BY <2>1 DEF LineInv, LineTypeOK
  <2>3. DescriptorsOK'
    BY <2>1 DEF LineInv, DescriptorsOK, InputOf, OutputOf
  <2>4. UnitsOK'
    BY <2>1 DEF LineInv, UnitsOK
  <2>. QED
    BY <2>2, <2>3, <2>4 DEF LineInv
<1>. QED
  BY <1>1, FirstPipeKeeps, ForkKeeps, ParentKeeps, WaitKeeps, EndShellKeeps, ExecKeeps,
     ReadKeeps, ReadEOFKeeps, WriteKeeps, ExitKeeps
     DEF Line!Next, Line!Shell, Line!Child

\* Each command of a line reads all that the one before it wrote and nothing else,
\* and the last one alone writes to the terminal, for lines of any length, commands
\* that write as much as they please and pipes of any size (cw05/zad1).
THEOREM LinesArePipelines == Spec => []ReadsItsPredecessor
<1>1. Init => LineInv
  BY LineInit DEF Init
<1>2. LineInv /\ [Next]_vars => LineInv'
  BY OneProgramRuns, LineStep
<1>3. LineInv => ReadsItsPredecessor
  <2> SUFFICES ASSUME LineInv
               PROVE  /\ execAt \in {"write", "exited"} /\ commands[cmdNo].reads =>
                            got = IF cmdNo = 1 THEN <<>>
                                  ELSE Copies(commands[cmdNo - 1].emits, cmdNo - 1)
                      /\ shellAt = "end" =>
                            terminal = Copies(commands[Len(commands)].emits, Len(commands))
    BY DEF ReadsItsPredecessor, Line!ReadsItsPredecessor, Line!Output, Copies
  <2>1. shellAt = "end" =>
           terminal = Copies(commands[Len(commands)].emits, Len(commands))
    BY DEF LineInv, UnitsOK
  <2>2. ASSUME execAt \in {"write", "exited"}, commands[cmdNo].reads
        PROVE  got = IF cmdNo = 1 THEN <<>>
                     ELSE Copies(commands[cmdNo - 1].emits, cmdNo - 1)
    <3>1. UnitsOK /\ LineTypeOK /\ shellAt \in {"parent", "wait"} /\ cmdNo \in Nat /\ cmdNo >= 1
      BY <2>2, CommandRuns
    <3>2. CASE cmdNo = 1
      BY <3>1, <3>2 DEF UnitsOK
    <3>3. CASE cmdNo > 1
      <4>1. /\ got = Copies(Len(got), cmdNo - 1) /\ pipes[cmdNo] = <<>>
            /\ Len(got) + Len(pipes[cmdNo]) = commands[cmdNo - 1].emits
        BY <2>2, <3>1, <3>3 DEF UnitsOK
      <4>2. Len(got) \in Nat /\ Len(pipes[cmdNo]) = 0
        BY <3>1, <4>1 DEF LineTypeOK
      <4>3. Len(got) = commands[cmdNo - 1].emits
        BY <4>1, <4>2
      <4>. QED
        BY <3>3, <4>1, <4>3
    <3>. QED
      BY <3>1, <3>2, <3>3
  <2>. QED
    BY <2>1, <2>2
<1>. QED
  BY <1>1, <1>2, <1>3, PTL DEF Spec

-----------------------------------------------------------------------------
(* The search of a tree. *)

\* The least element of a set of numbers: induction, for those proofs that need it.
LEMMA LeastNumber ==
    ASSUME NEW T, T \subseteq Nat, T # {}
    PROVE  \E x \in T : \A y \in T : x <= y
<1>1. IsWellFoundedOn({ss \in Nat \X Nat : ss[1] < ss[2]}, Nat)
  BY NatLessThanWellFounded DEF OpToRel
<1>2. PICK x \in T : \A y \in T : ~ (<<y, x>> \in {ss \in Nat \X Nat : ss[1] < ss[2]})
  BY <1>1, WFMin
<1>3. \A y \in T : <<y, x>> \in Nat \X Nat => ~ (y < x)
  BY <1>2
<1>4. \A y \in T : ~ (y < x)
  BY <1>3
<1>. QED
  BY <1>4

\* The first names of a path.
Upto(path, m) == [e \in 1 .. m |-> path[e]]

\* What there is lies in a directory.
TreeOK ==
    /\ tree \in [Directory!Path -> Directory!Kinds]
    /\ \A p \in Directory!Path :
          Len(p) > 1 /\ tree[p] # "none" => tree[Upto(p, Len(p) - 1)] = "dir"

\* The directory that the call at level l reads is on the way to p, and the name that
\* leads on to p is still to be read.
StillIn(p, l) == l <= Len(p) /\ Upto(p, l - 1) = roots[l] /\ p[l] \in dents[l]
Ahead(p) == \E l \in 1 .. Len(dents) : StillIn(p, l)

\* The call at each level reads a directory one name longer than the call above,
\* and has done with that name.
RootsOK ==
    /\ dents \in Seq(SUBSET Names) /\ Len(dents) > 0
    /\ roots \in Seq(Seq(Names)) /\ Len(roots) = Len(dents) + 1
    /\ \A l \in 1 .. Len(dents) : Len(roots[l]) = l - 1
    /\ \A l, m \in 1 .. Len(dents) :
          l < m => Upto(roots[m], l - 1) = roots[l] /\ roots[m][l] \notin dents[l]

FoundOnce ==
    /\ found \in Seq(Directory!Path)
    /\ \A e \in 1 .. Len(found) : tree[found[e]] = "file"
    /\ \A e, m \in 1 .. Len(found) : found[e] = found[m] => e = m

IsFound(p) == \E e \in 1 .. Len(found) : found[e] = p

\* A file has been found unless it is ahead.
DirectoryInv ==
    /\ TreeOK /\ FoundOnce
    /\ version \in {"normal", "unftw"} /\ searchAt \in {"run", "end", "crashed"}
    /\ version = "normal" =>
          /\ RootsOK
          /\ \A p \in Directory!Path : tree[p] = "file" => (IsFound(p) <=> ~Ahead(p))
          /\ searchAt = "end" => \A l \in 1 .. Len(dents) : dents[l] = {}
    /\ version = "unftw" /\ searchAt = "end" =>
          \A p \in Directory!Path : tree[p] = "file" => IsFound(p)
    /\ searchAt = "crashed" =>
          version = "normal" /\ \E p \in Directory!Path : tree[p] = "locked"

\* The sequence new is the sequence old with x at e.
IsChanged(new, old, e, x) ==
    /\ Len(new) = Len(old)
    /\ \A m \in 1 .. Len(old) : new[m] = IF m = e THEN x ELSE old[m]

LEMMA ChangedSequence ==
    ASSUME NEW S, NEW old \in Seq(S), NEW e \in 1 .. Len(old), NEW x \in S
    PROVE  [old EXCEPT ![e] = x] \in Seq(S) /\ IsChanged([old EXCEPT ![e] = x], old, e, x)
BY DEF IsChanged

IsLonger(new, old, x) ==
    /\ Len(new) = Len(old) + 1
    /\ \A m \in 1 .. Len(old) : new[m] = old[m]
    /\ new[Len(old) + 1] = x

LEMMA LongerSequence ==
    ASSUME NEW S, NEW old \in Seq(S), NEW x \in S
    PROVE  Append(old, x) \in Seq(S) /\ IsLonger(Append(old, x), old, x)
BY DEF IsLonger

LEMMA PathsAreSequences ==
    /\ \A p : p \in Directory!Path <=> p \in Seq(Names) /\ Len(p) \in 1 .. Depth
    /\ \A p \in Directory!Path : p = [e \in 1 .. Len(p) |-> p[e]]
<1>1. Depth \in Nat
  BY ConstantTypes
<1>2. ASSUME NEW p \in Directory!Path
      PROVE  p \in Seq(Names) /\ Len(p) \in 1 .. Depth /\ p = [e \in 1 .. Len(p) |-> p[e]]
  <2>1. PICK m \in 1 .. Depth : p \in [1 .. m -> Names]
    BY DEF Directory!Path
  <2>2. p \in Seq(Names) /\ Len(p) = m
    BY <1>1, <2>1, ArrayIsSequence
  <2>. QED
    BY <2>1, <2>2
<1>3. ASSUME NEW p \in Seq(Names), Len(p) \in 1 .. Depth
      PROVE  p \in Directory!Path
  <2>1. p \in [1 .. Len(p) -> Names]
    BY <1>3
  <2>. QED
    BY <1>3, <2>1 DEF Directory!Path
<1>. QED
  BY <1>2, <1>3

LEMMA Prefixes ==
    ASSUME NEW p \in Seq(Names), NEW m \in 0 .. Len(p)
    PROVE  /\ Upto(p, m) \in Seq(Names) /\ Len(Upto(p, m)) = m
           /\ \A e \in 1 .. m : Upto(p, m)[e] = p[e]
           /\ \A e \in 0 .. m : Upto(Upto(p, m), e) = Upto(p, e)
           /\ Upto(p, Len(p)) = p
<1>1. /\ Len(p) \in Nat
      /\ \A e \in 1 .. Len(p) : p[e] \in Names
      /\ p = [e \in 1 .. Len(p) |-> p[e]]
  OBVIOUS
<1>2. m \in Nat /\ Upto(p, m) \in [1 .. m -> Names]
  BY <1>1 DEF Upto
<1>3. Upto(p, m) \in Seq(Names) /\ Len(Upto(p, m)) = m
  BY <1>2, ArrayIsSequence
<1>4. \A e \in 1 .. m : Upto(p, m)[e] = p[e]
  BY DEF Upto
<1>5. \A e \in 0 .. m : Upto(Upto(p, m), e) = Upto(p, e)
  BY <1>2 DEF Upto
<1>6. Upto(p, Len(p)) = p
  BY ONLY <1>1 DEF Upto
<1>. QED
  BY <1>3, <1>4, <1>5, <1>6

\* The paths that go on with name from root.
LEMMA OneNameMore ==
    ASSUME NEW root \in Seq(Names), NEW name \in Names
    PROVE  /\ Append(root, name) \in Seq(Names)
           /\ Len(Append(root, name)) = Len(root) + 1
           /\ Append(root, name)[Len(root) + 1] = name
           /\ \A e \in 1 .. Len(root) : Append(root, name)[e] = root[e]
           /\ \A m \in 0 .. Len(root) : Upto(Append(root, name), m) = Upto(root, m)
           /\ Upto(Append(root, name), Len(root)) = root
<1>1. /\ Len(root) \in Nat
      /\ \A e \in 1 .. Len(root) : root[e] \in Names
      /\ root = [e \in 1 .. Len(root) |-> root[e]]
  OBVIOUS
<1>2. PICK q \in Seq(Names) : q = Append(root, name)
  <2>1. Append(root, name) \in Seq(Names)
    OBVIOUS
  <2>. QED
    BY <2>1
<1>3. /\ Len(q) = Len(root) + 1
      /\ q[Len(root) + 1] = name
      /\ \A e \in 1 .. Len(root) : q[e] = root[e]
  BY <1>2
<1>4. \A m \in 0 .. Len(root) : Upto(q, m) = Upto(root, m)
  BY <1>1, <1>3 DEF Upto
<1>5. Upto(root, Len(root)) = root
  BY ONLY <1>1 DEF Upto
<1>. QED
  BY <1>1, <1>2, <1>3, <1>4, <1>5

LEMMA GoingOn ==
    ASSUME NEW root \in Seq(Names), NEW name \in Names,
           NEW p \in Seq(Names), Len(root) < Len(p)
    PROVE  Upto(p, Len(root) + 1) = Append(root, name)
              <=> Upto(p, Len(root)) = root /\ p[Len(root) + 1] = name
<1>1. /\ Len(root) \in Nat /\ Len(p) \in Nat
      /\ root = [e \in 1 .. Len(root) |-> root[e]]
  OBVIOUS
<1>2. PICK q \in Seq(Names) : q = Append(root, name)
  <2>1. Append(root, name) \in Seq(Names)
    OBVIOUS
  <2>. QED
    BY <2>1
<1>3. /\ Len(q) = Len(root) + 1
      /\ q[Len(root) + 1] = name
      /\ \A e \in 1 .. Len(root) : q[e] = root[e]
      /\ q = [e \in 1 .. Len(q) |-> q[e]]
  <2>1. q = [e \in 1 .. Len(q) |-> q[e]]
    OBVIOUS
  <2>. QED
    BY <1>2, <2>1
<1>4. Upto(p, Len(root) + 1) = q <=> \A e \in 1 .. Len(root) + 1 : p[e] = q[e]
  BY ONLY <1>1, <1>3 DEF Upto
<1>5. Upto(p, Len(root)) = root <=> \A e \in 1 .. Len(root) : p[e] = root[e]
  BY ONLY <1>1 DEF Upto
<1>6. (\A e \in 1 .. Len(root) + 1 : p[e] = q[e])
         <=> (\A e \in 1 .. Len(root) : p[e] = root[e]) /\ p[Len(root) + 1] = name
  BY ONLY <1>1, <1>3
<1>. QED
  BY <1>2, <1>4, <1>5, <1>6

\* Whatever there is, all the directories above it are directories.
LEMMA AncestorsAreDirs ==
    ASSUME TreeOK, NEW p \in Directory!Path, tree[p] # "none",
           NEW m \in 1 .. Len(p) - 1
    PROVE  Upto(p, m) \in Directory!Path /\ tree[Upto(p, m)] = "dir"
<1>1. p \in Seq(Names) /\ Len(p) \in 1 .. Depth /\ Depth \in Nat
  BY PathsAreSequences, ConstantTypes
<1>2. \A e \in 1 .. Len(p) : /\ Upto(p, e) \in Directory!Path
                            /\ Len(Upto(p, e)) = e
                            /\ Upto(Upto(p, e), e - 1) = Upto(p, e - 1)
  <2> SUFFICES ASSUME NEW e \in 1 .. Len(p)
               PROVE  /\ Upto(p, e) \in Directory!Path
                      /\ Len(Upto(p, e)) = e
                      /\ Upto(Upto(p, e), e - 1) = Upto(p, e - 1)
    OBVIOUS
  <2>1. e \in 0 .. Len(p) /\ e - 1 \in 0 .. e /\ e \in 1 .. Depth
    BY <1>1
  <2>2. /\ Upto(p, e) \in Seq(Names) /\ Len(Upto(p, e)) = e
        /\ Upto(Upto(p, e), e - 1) = Upto(p, e - 1)
    BY <1>1, <2>1, Prefixes
  <2>. QED
    BY <2>1, <2>2, PathsAreSequences
<1>3. \A e \in 2 .. Len(p) : tree[Upto(p, e)] # "none" => tree[Upto(p, e - 1)] = "dir"
  BY <1>1, <1>2 DEF TreeOK
<1>4. tree[Upto(p, Len(p))] # "none"
  BY <1>1, Prefixes
<1> DEFINE Wrong == {d \in 1 .. Len(p) - 1 : tree[Upto(p, Len(p) - d)] # "dir"}
<1>5. Wrong = {}
  <2> SUFFICES ASSUME Wrong # {} PROVE FALSE
    OBVIOUS
  <2>1. Wrong \subseteq Nat
    BY <1>1
  <2>2. PICK d \in Wrong : \A y \in Wrong : d <= y
    BY <2>1, LeastNumber
  <2>3. d \in 1 .. Len(p) - 1 /\ tree[Upto(p, Len(p) - d)] # "dir"
    BY <2>2
  <2>4. PICK e \in 2 .. Len(p) : e = Len(p) - d + 1
    <3>1. Len(p) - d + 1 \in 2 .. Len(p)
      BY <1>1, <2>3
    <3>. QED
      BY <3>1
  <2>5. e - 1 = Len(p) - d
    BY <1>1, <2>3, <2>4
  <2>6. tree[Upto(p, e)] # "none"
    <3>1. CASE d = 1
      BY <1>1, <1>4, <2>4, <3>1
    <3>2. CASE d # 1
      <4>1. d - 1 \in 1 .. Len(p) - 1 /\ d - 1 \notin Wrong /\ Len(p) - (d - 1) = e
        BY <1>1, <2>2, <2>3, <2>4, <3>2
      <4>. QED
        BY <4>1
    <3>. QED
      BY <3>1, <3>2
  <2>. QED
    BY <1>3, <2>3, <2>5, <2>6
<1>6. PICK d \in 1 .. Len(p) - 1 : Len(p) - d = m
  <2>1. Len(p) - m \in 1 .. Len(p) - 1 /\ Len(p) - (Len(p) - m) = m
    BY <1>1
  <2>. QED
    BY <2>1
<1>7. m \in 1 .. Len(p)
  BY <1>1
<1>. QED
  BY <1>2, <1>5, <1>6, <1>7

LEMMA DirectoryInit == Directory!Init => DirectoryInv
<1> SUFFICES ASSUME Directory!Init PROVE DirectoryInv
  OBVIOUS
<1>1. /\ version \in {"normal", "unftw"} /\ searchAt = "run"
      /\ roots = <<<<>>, <<>>>> /\ found = <<>>
      /\ dents = <<{name \in Names : tree[<<name>>] # "none"}>>
      /\ tree \in [Directory!Path -> Directory!Kinds]
  BY DEF Directory!Init
<1>2. TreeOK
  <2>1. ASSUME NEW p \in Directory!Path, Len(p) > 1
        PROVE  Directory!Front(p) = Upto(p, Len(p) - 1)
    <3>1. p \in Seq(Names) /\ Len(p) \in Nat
      BY PathsAreSequences
    <3>. QED
      BY <2>1, <3>1 DEF Directory!Front, Upto
  <2>2. \A p \in Directory!Path :
           Len(p) > 1 /\ tree[p] # "none" => tree[Directory!Front(p)] = "dir"
    BY DEF Directory!Init
  <2>. QED
    BY <1>1, <2>1, <2>2 DEF TreeOK
<1>3. FoundOnce
  BY <1>1 DEF FoundOnce
<1>4. Len(dents) = 1 /\ Len(roots) = 2 /\ roots[1] = <<>>
      /\ dents[1] = {name \in Names : tree[<<name>>] # "none"}
  BY <1>1
<1>5. RootsOK
  <2>1. <<>> \in Seq(Names) /\ Len(<<>>) = 0
    OBVIOUS
  <2>2. roots \in Seq(Seq(Names)) /\ dents \in Seq(SUBSET Names)
    BY <1>1, <2>1
  <2>. QED
    BY <1>4, <2>1, <2>2 DEF RootsOK
<1>6. ASSUME NEW p \in Directory!Path, tree[p] = "file"
      PROVE  Ahead(p)
  <2>1. p \in Seq(Names) /\ Len(p) \in 1 .. Depth /\ Depth \in Nat
    BY PathsAreSequences, ConstantTypes
  <2>2. Upto(p, 0) = <<>>
    BY DEF Upto
  <2>3. Upto(p, 1) = <<p[1]>>
    BY DEF Upto
  <2>4. tree[Upto(p, 1)] # "none"
    <3>1. CASE Len(p) = 1
      BY <1>6, <2>1, <3>1, Prefixes
    <3>2. CASE Len(p) # 1
      <4>1. 1 \in 1 .. Len(p) - 1
        <5>1. \A size \in Nat : size # 0 /\ size # 1 => 1 \in 1 .. size - 1
          OBVIOUS
        <5>2. Len(p) \in Nat /\ Len(p) # 0
          BY <2>1
        <5>. QED
          BY <3>2, <5>1, <5>2
      <4>. QED
        BY <1>2, <1>6, <4>1, AncestorsAreDirs
    <3>. QED
      BY <3>1, <3>2
  <2>5. p[1] \in dents[1]
    BY <1>4, <2>1, <2>3, <2>4
  <2>6. StillIn(p, 1)
    BY <1>4, <2>1, <2>2, <2>5 DEF StillIn
  <2>. QED
    BY <1>4, <2>6 DEF Ahead
<1>7. \A p : ~IsFound(p)
  BY <1>1 DEF IsFound
<1>. QED
  BY <1>1, <1>2, <1>3, <1>5, <1>6, <1>7 DEF DirectoryInv

\* A path is ahead at one level only.
LEMMA OneLevel ==
    ASSUME RootsOK, NEW p \in Seq(Names),
           NEW l \in 1 .. Len(dents), NEW m \in 1 .. Len(dents),
           StillIn(p, l), StillIn(p, m)
    PROVE  l = m
<1>1. ASSUME NEW u \in 1 .. Len(dents), NEW v \in 1 .. Len(dents),
             StillIn(p, u), StillIn(p, v), u < v
      PROVE  FALSE
  <2>1. Len(p) \in Nat /\ Len(dents) \in Nat
    <3>1. dents \in Seq(SUBSET Names)
      BY DEF RootsOK
    <3>. QED
      BY <3>1
  <2>2. Upto(p, v - 1) = roots[v] /\ v <= Len(p) /\ p[u] \in dents[u]
    BY <1>1 DEF StillIn
  <2>3. v - 1 \in 0 .. Len(p) /\ u \in 1 .. v - 1
    BY <1>1, <2>1, <2>2
  <2>4. Upto(p, v - 1)[u] = p[u]
    BY <2>3, Prefixes
  <2>. QED
    BY <1>1, <2>2, <2>4 DEF RootsOK
<1>2. l \in Int /\ m \in Int
  BY DEF RootsOK
<1>3. ~(l < m) /\ ~(m < l)
  BY <1>1
<1>. QED
  BY <1>2, <1>3

\* The paths that are ahead because of the name to be read next.
NameLeads(lv, name, q) ==
    /\ name \in Names /\ roots[lv] \in Seq(Names) /\ Len(roots[lv]) = lv - 1
    /\ q \in Seq(Names) /\ Len(q) = lv
    /\ \A p \in Directory!Path :
          StillIn(p, lv) /\ p[lv] = name <=> lv <= Len(p) /\ Upto(p, lv) = q
    /\ \A p \in Directory!Path :
          tree[p] # "none" /\ lv <= Len(p) /\ Upto(p, lv) = q =>
             \/ p = q
             \/ lv < Len(p) /\ q \in Directory!Path /\ tree[q] = "dir"

LEMMA AheadOfName ==
    ASSUME RootsOK, TreeOK, NEW lv \in Nat \ {0}, lv = Len(dents),
           NEW name \in dents[lv], NEW q, q = Append(roots[lv], name)
    PROVE  NameLeads(lv, name, q)
<1>1. /\ lv \in 1 .. Len(dents) /\ lv \in 1 .. Len(roots)
      /\ dents[lv] \in SUBSET Names /\ roots[lv] \in Seq(Names)
      /\ Len(roots[lv]) = lv - 1
  BY DEF RootsOK
<1>2. name \in Names
  BY <1>1
<1>3. q \in Seq(Names) /\ Len(q) = lv
  BY <1>1, <1>2, OneNameMore
<1>4. ASSUME NEW p \in Directory!Path
      PROVE  StillIn(p, lv) /\ p[lv] = name <=> lv <= Len(p) /\ Upto(p, lv) = q
  <2>1. p \in Seq(Names) /\ Len(p) \in Nat
    BY PathsAreSequences
  <2>2. CASE lv <= Len(p)
    <3>1. Len(roots[lv]) < Len(p) /\ Len(roots[lv]) + 1 = lv
      BY <1>1, <2>1, <2>2
    <3>2. PICK root \in Seq(Names) : root = roots[lv] /\ Len(root) = lv - 1
      BY <1>1
    <3>3. Upto(p, Len(root) + 1) = Append(root, name)
             <=> Upto(p, Len(root)) = root /\ p[Len(root) + 1] = name
      BY <1>2, <2>1, <3>1, <3>2, GoingOn
    <3>4. Len(root) + 1 = lv
      BY <3>1, <3>2
    <3>. QED
      BY <2>2, <3>2, <3>3, <3>4 DEF StillIn
  <2>3. CASE ~(lv <= Len(p))
    BY <2>3 DEF StillIn
  <2>. QED
    BY <2>2, <2>3
<1>5. ASSUME NEW p \in Directory!Path,
             tree[p] # "none", lv <= Len(p), Upto(p, lv) = q
      PROVE  p = q \/ (lv < Len(p) /\ q \in Directory!Path /\ tree[q] = "dir")
  <2>1. p \in Seq(Names) /\ Len(p) \in Nat
    BY PathsAreSequences
  <2>2. CASE lv = Len(p)
    BY <1>5, <2>1, <2>2, Prefixes
  <2>3. CASE lv # Len(p)
    <3>1. lv \in 1 .. Len(p) - 1 /\ lv < Len(p)
      BY <1>5, <2>1, <2>3
    <3>. QED
      BY <1>5, <3>1, AncestorsAreDirs
  <2>. QED
    BY <2>2, <2>3
<1>. QED
  BY <1>1, <1>2, <1>3, <1>4, <1>5 DEF NameLeads

\* One file more has been found.
LEMMA FoundMore ==
    ASSUME FoundOnce, NEW q \in Directory!Path, tree[q] = "file", ~IsFound(q),
           found' = Append(found, q), tree' = tree
    PROVE  FoundOnce' /\ \A p : IsFound(p)' <=> IsFound(p) \/ p = q
<1>1. /\ found \in Seq(Directory!Path) /\ Len(found) \in Nat
      /\ \A e \in 1 .. Len(found) : tree[found[e]] = "file" /\ found[e] # q
      /\ \A e, m \in 1 .. Len(found) : found[e] = found[m] => e = m
  BY DEF FoundOnce, IsFound
<1>2. /\ found' \in Seq(Directory!Path) /\ Len(found') = Len(found) + 1
      /\ \A e \in 1 .. Len(found) : found'[e] = found[e]
      /\ found'[Len(found) + 1] = q
  BY <1>1
<1>3. \A e \in 1 .. Len(found') : e \in 1 .. Len(found) \/ e = Len(found) + 1
  BY <1>1, <1>2
<1>4. Len(found) + 1 \in 1 .. Len(found') /\ 1 .. Len(found) \subseteq 1 .. Len(found')
  BY <1>1, <1>2
<1>5. FoundOnce'
  <2>1. \A e \in 1 .. Len(found') : tree'[found'[e]] = "file"
    BY <1>1, <1>2, <1>3
  <2>2. \A e, m \in 1 .. Len(found') : found'[e] = found'[m] => e = m
    BY <1>1, <1>2, <1>3
  <2>. QED
    BY <1>2, <2>1, <2>2 DEF FoundOnce
<1>6. ASSUME NEW p PROVE IsFound(p)' <=> IsFound(p) \/ p = q
  <2>1. (\E e \in 1 .. Len(found') : found'[e] = p)
           <=> (\E e \in 1 .. Len(found) : found[e] = p) \/ p = q
    BY <1>2, <1>3, <1>4
  <2>. QED
    BY <2>1 DEF IsFound
<1>. QED
  BY <1>5, <1>6

\* A name is read that is no directory: what was ahead because of it is the file
\* itself, if anything.
LEMMA CheckRegKeeps ==
    ASSUME DirectoryInv, NEW name \in Names, Directory!checkReg(name)
    PROVE  DirectoryInv'
<1>1. /\ version = "normal" /\ searchAt = "run"
      /\ UNCHANGED <<tree, version, searchAt>>
      /\ TreeOK /\ FoundOnce /\ RootsOK
      /\ \A p \in Directory!Path : tree[p] = "file" => (IsFound(p) <=> ~Ahead(p))
  BY DEF Directory!checkReg, Directory!Take, Directory!Running, DirectoryInv
<1>2. PICK lv \in Nat \ {0} : lv = Len(dents)
  BY <1>1 DEF RootsOK
<1>3. PICK q : q = Append(roots[lv], name)
  OBVIOUS
<1>4. /\ name \in dents[lv]
      /\ Directory!Kind(q) \in {"file", "skipped", "none"}
      /\ found' = IF Directory!Kind(q) = "file" THEN Append(found, q) ELSE found
      /\ dents' = [dents EXCEPT ![lv] = dents[lv] \ {name}]
      /\ roots' = [roots EXCEPT ![lv + 1] = roots[lv]]
  BY <1>2, <1>3 DEF Directory!checkReg, Directory!Take, Directory!tmpRoot, Directory!level,
                    Directory!Taken
<1>5. NameLeads(lv, name, q)
  <2>1. /\ RootsOK /\ TreeOK /\ lv \in Nat \ {0} /\ lv = Len(dents)
        /\ name \in dents[lv] /\ q = Append(roots[lv], name)
    BY <1>1, <1>2, <1>3, <1>4
  <2>. QED
    BY ONLY <2>1, AheadOfName, Zenon
<1>6. /\ dents' \in Seq(SUBSET Names) /\ Len(dents') = lv
      /\ \A l \in 1 .. lv : dents'[l] = IF l = lv THEN dents[l] \ {name} ELSE dents[l]
  <2>1. dents \in Seq(SUBSET Names) /\ lv \in 1 .. Len(dents)
    BY <1>1, <1>2 DEF RootsOK
  <2>2. dents[lv] \ {name} \in SUBSET Names
    <3>1. dents[lv] \in SUBSET Names
      BY ONLY <2>1, ElementOf
    <3>. QED
      BY <3>1
  <2>3. dents' \in Seq(SUBSET Names) /\ IsChanged(dents', dents, lv, dents[lv] \ {name})
    <3>1. [dents EXCEPT ![lv] = dents[lv] \ {name}] = dents'
      BY <1>4
    <3>. QED
      BY ONLY <2>1, <2>2, <3>1, ChangedSequence, Zenon
  <2>. QED
    BY ONLY <1>2, <2>3 DEF IsChanged
<1>7. /\ roots' \in Seq(Seq(Names)) /\ Len(roots') = lv + 1
      /\ \A l \in 1 .. lv : roots'[l] = roots[l]
  <2>1. /\ roots \in Seq(Seq(Names)) /\ Len(roots) = lv + 1
        /\ lv + 1 \in 1 .. Len(roots) /\ \A l \in 1 .. lv : l # lv + 1
    BY <1>1, <1>2 DEF RootsOK
  <2>2. roots' \in Seq(Seq(Names)) /\ IsChanged(roots', roots, lv + 1, roots[lv])
    <3>1. [roots EXCEPT ![lv + 1] = roots[lv]] = roots' /\ roots[lv] \in Seq(Names)
      BY <1>4, <1>5 DEF NameLeads
    <3>. QED
      BY ONLY <2>1, <3>1, ChangedSequence, Zenon
  <2>3. \A l \in 1 .. lv : l \in 1 .. Len(roots)
    BY ONLY <1>2, <2>1
  <2>4. \A l \in 1 .. lv : roots'[l] = roots[l]
    BY ONLY <2>1, <2>2, <2>3 DEF IsChanged
  <2>. QED
    BY ONLY <2>1, <2>2, <2>4 DEF IsChanged
<1>8. RootsOK'
  <2>1. \A l \in 1 .. lv : Len(roots'[l]) = l - 1
    BY <1>1, <1>2, <1>7 DEF RootsOK
  <2>2. \A l, m \in 1 .. lv : l < m =>
           Upto(roots'[m], l - 1) = roots'[l] /\ roots'[m][l] \notin dents'[l]
    BY <1>1, <1>2, <1>6, <1>7 DEF RootsOK
  <2>3. dents' \in Seq(SUBSET Names) /\ Len(dents') = lv /\ lv > 0
    BY ONLY <1>2, <1>6
  <2>. QED
    BY ONLY <1>7, <2>1, <2>2, <2>3 DEF RootsOK
<1>9. ASSUME NEW p \in Directory!Path, NEW l \in 1 .. lv
      PROVE  StillIn(p, l)' <=> StillIn(p, l) /\ ~(l = lv /\ p[lv] = name)
  BY <1>6, <1>7 DEF StillIn
<1>10. ASSUME NEW p \in Directory!Path
       PROVE  Ahead(p)' <=> Ahead(p) /\ ~(lv <= Len(p) /\ Upto(p, lv) = q)
  <2>1. Ahead(p)' <=> \E l \in 1 .. lv : StillIn(p, l)'
    BY <1>6 DEF Ahead
  <2>2. Ahead(p) <=> \E l \in 1 .. lv : StillIn(p, l)
    BY <1>2 DEF Ahead
  <2>3. p \in Seq(Names)
    BY PathsAreSequences
  <2>4. \A l \in 1 .. lv : StillIn(p, l) /\ StillIn(p, lv) => l = lv
    BY <1>1, <1>2, <2>3, OneLevel
  <2>5. StillIn(p, lv) /\ p[lv] = name <=> lv <= Len(p) /\ Upto(p, lv) = q
    BY <1>5 DEF NameLeads
  <2>. QED
    BY <1>9, <2>1, <2>2, <2>4, <2>5
<1>11. CASE Directory!Kind(q) = "file"
  <2>1. q \in Directory!Path /\ tree[q] = "file" /\ found' = Append(found, q)
    BY <1>4, <1>11 DEF Directory!Kind
  <2>2. lv <= Len(q) /\ Upto(q, lv) = q
    BY <1>5, Prefixes DEF NameLeads
  <2>3. Ahead(q) /\ ~IsFound(q)
    <3>1. StillIn(q, lv)
      BY <1>5, <2>1, <2>2 DEF NameLeads
    <3>2. Ahead(q)
      BY <1>2, <3>1 DEF Ahead
    <3>. QED
      BY <1>1, <2>1, <3>2
  <2>4. FoundOnce' /\ \A p : IsFound(p)' <=> IsFound(p) \/ p = q
    BY <1>1, <2>1, <2>3, FoundMore
  <2>5. ASSUME NEW p \in Directory!Path, tree[p] = "file"
        PROVE  IsFound(p)' <=> ~Ahead(p)'
    <3>1. lv <= Len(p) /\ Upto(p, lv) = q <=> p = q
      BY <1>5, <2>1, <2>2, <2>5 DEF NameLeads
    <3>. QED
      BY <1>1, <1>10, <2>4, <2>5, <3>1
  <2>. QED
    BY <1>1, <1>8, <2>4, <2>5 DEF DirectoryInv, TreeOK
<1>12. CASE Directory!Kind(q) # "file"
  <2>1. found' = found /\ FoundOnce' /\ \A p : IsFound(p)' <=> IsFound(p)
    BY <1>1, <1>4, <1>12 DEF FoundOnce, IsFound
  <2>2. ASSUME NEW p \in Directory!Path, tree[p] = "file"
        PROVE  IsFound(p)' <=> ~Ahead(p)'
    <3>1. ~(lv <= Len(p) /\ Upto(p, lv) = q)
      BY <1>4, <1>5, <1>12, <2>2 DEF Directory!Kind, NameLeads
    <3>. QED
      BY <1>1, <1>10, <2>1, <2>2, <3>1
  <2>. QED
    BY <1>1, <1>8, <2>1, <2>2 DEF DirectoryInv, TreeOK
<1>. QED
  BY <1>11, <1>12

\* What is ahead in the directory that is entered was ahead because of its name.
LEMMA SearchKeeps ==
    ASSUME DirectoryInv, NEW name \in Names, Directory!search(name)
    PROVE  DirectoryInv'
<1>1. /\ version = "normal" /\ searchAt = "run"
      /\ UNCHANGED <<tree, version, searchAt, found>>
      /\ TreeOK /\ FoundOnce /\ RootsOK
      /\ \A p \in Directory!Path : tree[p] = "file" => (IsFound(p) <=> ~Ahead(p))
  BY DEF Directory!search, Directory!Take, Directory!Running, DirectoryInv
<1>2. PICK lv \in Nat \ {0} : lv = Len(dents)
  BY <1>1 DEF RootsOK
<1>3. PICK q : q = Append(roots[lv], name)
  OBVIOUS
<1>4. /\ name \in dents[lv]
      /\ Directory!Kind(q) = "dir"
      /\ dents' = Append([dents EXCEPT ![lv] = dents[lv] \ {name}], Directory!Entries(q))
      /\ roots' = Append([roots EXCEPT ![lv + 1] = q], <<>>)
  BY <1>2, <1>3 DEF Directory!search, Directory!Take, Directory!tmpRoot, Directory!level,
                    Directory!Taken
<1>5. NameLeads(lv, name, q)
  <2>1. /\ RootsOK /\ TreeOK /\ lv \in Nat \ {0} /\ lv = Len(dents)
        /\ name \in dents[lv] /\ q = Append(roots[lv], name)
    BY <1>1, <1>2, <1>3, <1>4
  <2>. QED
    BY ONLY <2>1, AheadOfName, Zenon
<1>6. q \in Directory!Path /\ tree[q] = "dir" /\ q \in Seq(Names) /\ Len(q) = lv
  BY <1>4, <1>5 DEF Directory!Kind, NameLeads
<1>7. /\ dents' \in Seq(SUBSET Names) /\ Len(dents') = lv + 1
      /\ \A l \in 1 .. lv : dents'[l] = IF l = lv THEN dents[l] \ {name} ELSE dents[l]
      /\ dents'[lv + 1] = Directory!Entries(q)
  <2>1. dents \in Seq(SUBSET Names) /\ lv \in 1 .. Len(dents)
    BY <1>1, <1>2 DEF RootsOK
  <2>2. dents[lv] \ {name} \in SUBSET Names /\ Directory!Entries(q) \in SUBSET Names
    <3>1. dents[lv] \in SUBSET Names
      BY ONLY <2>1, ElementOf
    <3>. QED
      BY <3>1 DEF Directory!Entries
  <2>3. PICK rest \in Seq(SUBSET Names) :
           /\ rest = [dents EXCEPT ![lv] = dents[lv] \ {name}]
           /\ IsChanged(rest, dents, lv, dents[lv] \ {name})
    BY ONLY <2>1, <2>2, ChangedSequence, Zenon
  <2>4. /\ Append(rest, Directory!Entries(q)) \in Seq(SUBSET Names)
        /\ IsLonger(Append(rest, Directory!Entries(q)), rest, Directory!Entries(q))
    BY ONLY <2>2, LongerSequence, Zenon
  <2>5. dents' = Append(rest, Directory!Entries(q))
    BY <1>4, <2>3
  <2>. QED
    BY ONLY <1>2, <2>3, <2>4, <2>5 DEF IsChanged, IsLonger
<1>8. /\ roots' \in Seq(Seq(Names)) /\ Len(roots') = lv + 2
      /\ \A l \in 1 .. lv : roots'[l] = roots[l]
      /\ roots'[lv + 1] = q
  <2>1. /\ roots \in Seq(Seq(Names)) /\ Len(roots) = lv + 1
        /\ lv + 1 \in 1 .. Len(roots) /\ <<>> \in Seq(Names)
    BY <1>1, <1>2 DEF RootsOK
  <2>2. PICK rest \in Seq(Seq(Names)) :
           /\ rest = [roots EXCEPT ![lv + 1] = q]
           /\ IsChanged(rest, roots, lv + 1, q)
    BY ONLY <1>6, <2>1, ChangedSequence, Zenon
  <2>3. Append(rest, <<>>) \in Seq(Seq(Names)) /\ IsLonger(Append(rest, <<>>), rest, <<>>)
    BY ONLY <2>1, LongerSequence, Zenon
  <2>4. roots' = Append(rest, <<>>)
    BY <1>4, <2>2
  <2>. QED
    BY ONLY <1>2, <2>1, <2>2, <2>3, <2>4 DEF IsChanged, IsLonger
<1>9. \A e : e \in 1 .. lv + 1 <=> e \in 1 .. lv \/ e = lv + 1
  BY <1>2
<1>10. /\ \A l \in 1 .. lv : Len(roots[l]) = l - 1
       /\ \A l, m \in 1 .. lv :
             l < m => Upto(roots[m], l - 1) = roots[l] /\ roots[m][l] \notin dents[l]
  BY <1>1, <1>2 DEF RootsOK
<1>11. ASSUME NEW l \in 1 .. lv
       PROVE  Upto(q, l - 1) = roots[l] /\ q[l] \notin dents'[l]
  <2>1. /\ roots[lv] \in Seq(Names) /\ Len(roots[lv]) = lv - 1 /\ name \in Names
        /\ lv \in 1 .. lv
    BY <1>5 DEF NameLeads
  <2>2. /\ q[lv] = name
        /\ \A e \in 1 .. lv - 1 : q[e] = roots[lv][e]
        /\ \A m \in 0 .. lv - 1 : Upto(q, m) = Upto(roots[lv], m)
        /\ Upto(q, lv - 1) = roots[lv]
    BY <1>3, <2>1, OneNameMore
  <2>3. CASE l = lv
    BY <1>7, <2>1, <2>2, <2>3
  <2>4. CASE l # lv
    <3>1. l < lv /\ l \in 1 .. lv - 1 /\ l - 1 \in 0 .. lv - 1
      BY <2>4
    <3>. QED
      BY <1>7, <1>10, <2>1, <2>2, <3>1
  <2>. QED
    BY <2>3, <2>4
<1>12. RootsOK'
  <2>1. ASSUME NEW l \in 1 .. lv + 1
        PROVE  Len(roots'[l]) = l - 1
    <3>1. CASE l \in 1 .. lv
      BY <1>8, <1>10, <3>1
    <3>2. CASE l = lv + 1
      <4>1. l - 1 = lv
        BY <3>2
      <4>. QED
        BY <1>6, <1>8, <3>2, <4>1
    <3>3. l \in 1 .. lv \/ l = lv + 1
      OBVIOUS
    <3>. QED
      BY <3>1, <3>2, <3>3
  <2>2. ASSUME NEW l \in 1 .. lv + 1, NEW m \in 1 .. lv + 1, l < m
        PROVE  Upto(roots'[m], l - 1) = roots'[l] /\ roots'[m][l] \notin dents'[l]
    <3>1. l \in 1 .. lv
      BY <2>2
    <3>2. CASE m = lv + 1
      BY <1>8, <1>11, <3>1, <3>2
    <3>3. CASE m # lv + 1
      <4>1. m \in 1 .. lv
        BY <1>9, <3>3
      <4>2. roots'[l] = roots[l] /\ roots'[m] = roots[m]
        BY ONLY <1>8, <3>1, <4>1
      <4>3. Upto(roots[m], l - 1) = roots[l] /\ roots[m][l] \notin dents[l]
        BY ONLY <1>10, <2>2, <3>1, <4>1
      <4>4. dents'[l] \subseteq dents[l]
        BY ONLY <1>7, <3>1
      <4>. QED
        BY ONLY <4>2, <4>3, <4>4
    <3>. QED
      BY <3>2, <3>3
  <2>3. Len(dents') > 0 /\ Len(roots') = Len(dents') + 1
    BY <1>7, <1>8
  <2>. QED
    BY <1>7, <1>8, <2>1, <2>2, <2>3 DEF RootsOK
<1>13. ASSUME NEW p \in Directory!Path, tree[p] = "file"
       PROVE  Ahead(p)' <=> Ahead(p)
  <2>1. Ahead(p)' <=> StillIn(p, lv + 1)' \/ \E l \in 1 .. lv : StillIn(p, l)'
    BY <1>7, <1>9 DEF Ahead
  <2>2. Ahead(p) <=> \E l \in 1 .. lv : StillIn(p, l)
    BY <1>2 DEF Ahead
  <2>3. p \in Seq(Names) /\ Len(p) \in 1 .. Depth /\ Depth \in Nat
    BY PathsAreSequences, ConstantTypes
  <2>4. \A l \in 1 .. lv : StillIn(p, l) /\ StillIn(p, lv) => l = lv
    BY <1>1, <1>2, <2>3, OneLevel
  <2>5. StillIn(p, lv) /\ p[lv] = name <=> lv <= Len(p) /\ Upto(p, lv) = q
    BY <1>5 DEF NameLeads
  <2>6. \A l \in 1 .. lv : StillIn(p, l)' <=> StillIn(p, l) /\ ~(l = lv /\ p[lv] = name)
    BY <1>7, <1>8 DEF StillIn
  <2>7. StillIn(p, lv + 1)' <=>
           lv + 1 <= Len(p) /\ Upto(p, lv) = q /\ p[lv + 1] \in Directory!Entries(q)
    BY <1>7, <1>8 DEF StillIn
  <2>8. ASSUME lv <= Len(p), Upto(p, lv) = q
        PROVE  lv + 1 <= Len(p) /\ p[lv + 1] \in Directory!Entries(q)
    <3>1. lv < Len(p)
      BY <1>5, <1>6, <1>13, <2>8 DEF NameLeads
    <3>2. lv + 1 <= Len(p) /\ lv + 1 \in 1 .. Len(p)
      BY <2>3, <3>1
    <3>3. p[lv + 1] \in Names
      BY <2>3, <3>2
    <3>4. Upto(p, lv + 1) = Append(q, p[lv + 1])
      BY <1>6, <2>3, <2>8, <3>1, <3>3, GoingOn
    <3>5. Upto(p, lv + 1) \in Directory!Path /\ tree[Upto(p, lv + 1)] # "none"
      <4>1. CASE lv + 1 = Len(p)
        BY <1>13, <2>3, <4>1, Prefixes
      <4>2. CASE lv + 1 # Len(p)
        <5>1. lv + 1 \in 1 .. Len(p) - 1
          BY <2>3, <3>2, <4>2
        <5>. QED
          BY <1>1, <1>13, <5>1, AncestorsAreDirs
      <4>. QED
        BY <4>1, <4>2
    <3>. QED
      BY <3>2, <3>3, <3>4, <3>5 DEF Directory!Entries, Directory!Kind
  <2>9. lv + 1 <= Len(p) => lv <= Len(p)
    BY <2>3
  <2>. QED
    BY <2>1, <2>2, <2>4, <2>5, <2>6, <2>7, <2>8, <2>9
<1>14. FoundOnce' /\ TreeOK' /\ \A p : IsFound(p)' <=> IsFound(p)
  BY <1>1 DEF FoundOnce, IsFound, TreeOK
<1>. QED
  BY <1>1, <1>12, <1>13, <1>14 DEF DirectoryInv

\* A level is left when nothing is ahead at it.
LEMMA ReturnKeeps ==
    ASSUME DirectoryInv, Directory!Return
    PROVE  DirectoryInv'
<1>1. /\ version = "normal" /\ searchAt = "run"
      /\ UNCHANGED <<tree, version, found>>
      /\ TreeOK /\ FoundOnce /\ RootsOK
      /\ \A p \in Directory!Path : tree[p] = "file" => (IsFound(p) <=> ~Ahead(p))
  BY DEF Directory!Return, Directory!Running, DirectoryInv
<1>2. PICK lv \in Nat \ {0} : lv = Len(dents)
  BY <1>1 DEF RootsOK
<1>3. /\ dents[lv] = {}
      /\ IF lv = 1
         THEN searchAt' = "end" /\ UNCHANGED <<roots, dents>>
         ELSE /\ roots' = Directory!Front(roots) /\ dents' = Directory!Front(dents)
              /\ UNCHANGED searchAt
  BY <1>2 DEF Directory!Return, Directory!level
<1>4. FoundOnce' /\ TreeOK' /\ \A p : IsFound(p)' <=> IsFound(p)
  BY <1>1 DEF FoundOnce, IsFound, TreeOK
<1>5. CASE lv = 1
  <2>1. RootsOK' /\ \A p : Ahead(p)' <=> Ahead(p)
    BY <1>1, <1>3, <1>5 DEF RootsOK, Ahead, StillIn
  <2>2. \A l \in 1 .. Len(dents') : dents'[l] = {}
    <3>1. dents' = dents /\ Len(dents) = 1
      BY <1>2, <1>3, <1>5
    <3>2. \A l \in 1 .. 1 : l = 1
      OBVIOUS
    <3>. QED
      BY <1>3, <1>5, <3>1, <3>2
  <2>. QED
    BY <1>1, <1>3, <1>4, <1>5, <2>1, <2>2 DEF DirectoryInv
<1>6. CASE lv # 1
  <2>1. PICK above \in Nat \ {0} : above = lv - 1
    BY <1>6
  <2>2. /\ dents' \in Seq(SUBSET Names) /\ Len(dents') = above
        /\ \A l \in 1 .. above : dents'[l] = dents[l]
    <3>1. dents \in Seq(SUBSET Names) /\ Len(dents) = above + 1
      BY <1>1, <1>2, <2>1 DEF RootsOK
    <3>2. dents' = SubSeq(dents, 1, above)
      BY <1>2, <1>3, <1>6, <2>1 DEF Directory!Front
    <3>. QED
      BY ONLY <2>1, <3>1, <3>2
  <2>3. /\ roots' \in Seq(Seq(Names)) /\ Len(roots') = above + 1
        /\ \A l \in 1 .. above : roots'[l] = roots[l]
    <3>1. roots \in Seq(Seq(Names)) /\ Len(roots) = above + 2
      BY <1>1, <1>2, <2>1 DEF RootsOK
    <3>2. roots' = SubSeq(roots, 1, above + 1)
      BY <1>3, <1>6, <3>1 DEF Directory!Front
    <3>. QED
      BY ONLY <2>1, <3>1, <3>2
  <2>4. \A l : l \in 1 .. lv <=> l \in 1 .. above \/ l = lv
    BY <2>1
  <2>5. RootsOK'
    <3>1. /\ \A l \in 1 .. lv : Len(roots[l]) = l - 1
          /\ \A l, m \in 1 .. lv :
                l < m => Upto(roots[m], l - 1) = roots[l] /\ roots[m][l] \notin dents[l]
      BY <1>1, <1>2 DEF RootsOK
    <3>2. /\ \A l \in 1 .. above : Len(roots'[l]) = l - 1
          /\ \A l, m \in 1 .. above :
                l < m => Upto(roots'[m], l - 1) = roots'[l] /\ roots'[m][l] \notin dents'[l]
      BY <2>2, <2>3, <2>4, <3>1
    <3>3. Len(dents') > 0
      BY <2>2
    <3>. QED
      BY <2>2, <2>3, <3>2, <3>3 DEF RootsOK
  <2>6. ASSUME NEW p PROVE Ahead(p)' <=> Ahead(p)
    <3>1. Ahead(p)' <=> \E l \in 1 .. above : StillIn(p, l)'
      BY <2>2 DEF Ahead
    <3>2. Ahead(p) <=> \E l \in 1 .. lv : StillIn(p, l)
      BY <1>2 DEF Ahead
    <3>3. ~StillIn(p, lv)
      BY <1>3 DEF StillIn
    <3>4. \A l \in 1 .. above : StillIn(p, l)' <=> StillIn(p, l)
      BY <2>2, <2>3 DEF StillIn
    <3>. QED
      BY <2>4, <3>1, <3>2, <3>3, <3>4
  <2>. QED
    BY <1>1, <1>3, <1>4, <1>6, <2>5, <2>6 DEF DirectoryInv
<1>. QED
  BY <1>5, <1>6


\* A directory that cannot be opened ends the search; that is where it lies.
LEMMA CrashKeeps ==
    ASSUME DirectoryInv, NEW name \in Names, Directory!Crash(name)
    PROVE  DirectoryInv'
<1>1. /\ version = "normal" /\ searchAt' = "crashed"
      /\ UNCHANGED <<tree, version, roots, dents, found>>
      /\ Directory!Kind(Append(Directory!tmpRoot, name)) = "locked"
  BY DEF Directory!Crash, Directory!Take, Directory!Running
<1>2. PICK q : q = Append(Directory!tmpRoot, name)
  OBVIOUS
<1>3. q \in Directory!Path /\ tree[q] = "locked"
  BY <1>1, <1>2 DEF Directory!Kind
<1>4. TreeOK' /\ FoundOnce' /\ (RootsOK' <=> RootsOK)
  BY <1>1 DEF DirectoryInv, TreeOK, FoundOnce, RootsOK
<1>5. \A p : (IsFound(p)' <=> IsFound(p)) /\ (Ahead(p)' <=> Ahead(p))
  BY <1>1 DEF IsFound, Ahead, StillIn
<1>. QED
  BY <1>1, <1>3, <1>4, <1>5 DEF DirectoryInv

\* There are only finitely many paths: a longer one is a shorter one and a name.
LEMMA FiniteTuples == \A m \in Nat : IsFiniteSet([1 .. m -> Names])
<1>1. SUFFICES ASSUME \E m \in Nat : ~ IsFiniteSet([1 .. m -> Names])
               PROVE  FALSE
  OBVIOUS
<1>2. PICK T : T = {m \in Nat : ~ IsFiniteSet([1 .. m -> Names])}
  OBVIOUS
<1>3. T \subseteq Nat /\ T # {}
  BY <1>1, <1>2
<1>4. PICK m \in T : \A y \in T : m <= y
  BY <1>3, LeastNumber
<1>5. m \in Nat /\ ~ IsFiniteSet([1 .. m -> Names])
  BY <1>2, <1>4
<1>6. CASE m = 0
  <2>1. [1 .. m -> Names] \subseteq {<<>>}
    BY <1>6
  <2>2. IsFiniteSet({<<>>})
    BY FS_Singleton
  <2>. QED
    BY <1>5, <2>1, <2>2, FS_Subset
<1>7. CASE m # 0
  <2>1. PICK less \in Nat : m = less + 1
    <3>1. m - 1 \in Nat /\ m = (m - 1) + 1
      BY <1>5, <1>7
    <3>. QED
      BY <3>1
  <2>2. less \notin T
    BY <1>4, <2>1
  <2>3. IsFiniteSet([1 .. less -> Names])
    BY <1>2, <2>2
  <2>4. IsFiniteSet([1 .. less -> Names] \X Names)
    BY <2>3, ConstantTypes, FS_Product
  <2>5. PICK longer : longer = [s \in [1 .. less -> Names] \X Names |->
                                  [e \in 1 .. m |-> IF e = m THEN s[2] ELSE s[1][e]]]
    OBVIOUS
  <2>6. longer \in Surjection([1 .. less -> Names] \X Names, [1 .. m -> Names])
    <3>1. longer \in [[1 .. less -> Names] \X Names -> [1 .. m -> Names]]
      <4>1. ASSUME NEW s \in [1 .. less -> Names] \X Names
            PROVE  [e \in 1 .. m |-> IF e = m THEN s[2] ELSE s[1][e]] \in [1 .. m -> Names]
        <5>1. s[1] \in [1 .. less -> Names] /\ s[2] \in Names
          OBVIOUS
        <5>2. \A e \in 1 .. m : e = m \/ e \in 1 .. less
          BY <2>1
        <5>. QED
          BY <5>1, <5>2
      <4>. QED
        BY <2>5, <4>1
    <3>2. ASSUME NEW t \in [1 .. m -> Names]
          PROVE  \E s \in [1 .. less -> Names] \X Names : longer[s] = t
      <4>1. \A e \in 1 .. less : e \in 1 .. m /\ e # m
        BY <2>1
      <4>2. m \in 1 .. m /\ t[m] \in Names
        BY <2>1
      <4>3. PICK s : s = <<[e \in 1 .. less |-> t[e]], t[m]>>
        OBVIOUS
      <4>4. /\ s[1] = [e \in 1 .. less |-> t[e]] /\ s[2] = t[m]
            /\ s \in [1 .. less -> Names] \X Names
        BY <4>1, <4>2, <4>3
      <4>5. longer[s] = [e \in 1 .. m |-> IF e = m THEN s[2] ELSE s[1][e]]
        BY <2>5, <4>4
      <4>6. \A e \in 1 .. m : (IF e = m THEN s[2] ELSE s[1][e]) = t[e]
        <5>1. \A e \in 1 .. m : e # m => e \in 1 .. less
          BY <2>1
        <5>. QED
          BY <4>4, <5>1
      <4>7. longer[s] = t
        BY <4>5, <4>6
      <4>. QED
        BY <4>4, <4>7
    <3>. QED
      BY <3>1, <3>2 DEF Surjection
  <2>. QED
    BY <1>5, <2>4, <2>6, FS_Surjection
<1>. QED
  BY <1>6, <1>7

LEMMA FinitelyManyPaths == IsFiniteSet(Directory!Path)
<1>1. Depth \in Nat
  BY ConstantTypes
<1>2. IsFiniteSet(1 .. Depth)
  BY <1>1, FS_Interval
<1>3. PICK ofLength : ofLength = [m \in 1 .. Depth |-> [1 .. m -> Names]]
  OBVIOUS
<1>4. PICK all : all = {[1 .. m -> Names] : m \in 1 .. Depth}
  OBVIOUS
<1>5. ofLength \in Surjection(1 .. Depth, all)
  BY <1>3, <1>4 DEF Surjection
<1>6. IsFiniteSet(all)
  BY <1>2, <1>5, FS_Surjection
<1>7. \A T \in all : IsFiniteSet(T)
  BY <1>4, FiniteTuples
<1>8. IsFiniteSet(UNION all)
  BY <1>6, <1>7, FS_UNION
<1>. QED
  BY <1>4, <1>8 DEF Directory!Path

LEMMA SameNumber == \A S : Directory!Cardinality(S) = Cardinality(S)
BY DEF Directory!Cardinality, Cardinality

\* The sequence that nftw gives: every file, and none twice.
LEMMA AllFiles ==
    ASSUME NEW s, s = Directory!SetToSeq(Directory!Files)
    PROVE  /\ s \in Seq(Directory!Files)
           /\ \A e, m \in 1 .. Len(s) : s[e] = s[m] => e = m
           /\ \A p \in Directory!Files : \E e \in 1 .. Len(s) : s[e] = p
<1>1. IsFiniteSet(Directory!Files)
  BY FinitelyManyPaths, FS_Subset DEF Directory!Files
<1>2. PICK size \in Nat : size = Cardinality(Directory!Files)
  BY <1>1, FS_CardinalityType
<1>3. PICK g : g \in Bijection(1 .. size, Directory!Files)
  BY <1>1, <1>2, FS_CardinalityType DEF ExistsBijection
<1>4. g \in [1 .. size -> Directory!Files] /\ Directory!IsInjective(g)
  BY <1>3 DEF Bijection, Injection, IsInjective, Directory!IsInjective
<1>5. s = CHOOSE f \in [1 .. size -> Directory!Files] : Directory!IsInjective(f)
  BY <1>2, SameNumber DEF Directory!SetToSeq
<1>6. s \in [1 .. size -> Directory!Files] /\ Directory!IsInjective(s)
  BY <1>4, <1>5
<1>7. s \in Seq(Directory!Files) /\ Len(s) = size
  BY ONLY <1>2, <1>6, ArrayIsSequence
<1>8. s \in Injection(1 .. size, Directory!Files)
  BY <1>6 DEF Injection, IsInjective, Directory!IsInjective
<1>9. IsFiniteSet(1 .. size) /\ Cardinality(1 .. size) = size
  BY <1>2, FS_Interval
<1>10. s \in Surjection(1 .. size, Directory!Files)
  BY <1>1, <1>2, <1>8, <1>9, FS_Injection
<1>11. \A p \in Directory!Files : \E e \in 1 .. size : s[e] = p
  BY <1>10 DEF Surjection
<1>12. \A e, m \in 1 .. size : s[e] = s[m] => e = m
  BY <1>6 DEF Directory!IsInjective
<1>. QED
  BY <1>7, <1>11, <1>12

LEMMA NftwKeeps ==
    ASSUME DirectoryInv, Directory!searchnftw
    PROVE  DirectoryInv'
<1>1. /\ version = "unftw" /\ searchAt' = "end"
      /\ UNCHANGED <<tree, version, roots, dents>>
      /\ found' = Directory!SetToSeq(Directory!Files)
  BY DEF Directory!searchnftw, Directory!Running
<1>2. PICK s : s = Directory!SetToSeq(Directory!Files)
  OBVIOUS
<1>3. /\ s \in Seq(Directory!Files)
      /\ \A e, m \in 1 .. Len(s) : s[e] = s[m] => e = m
      /\ \A p \in Directory!Files : \E e \in 1 .. Len(s) : s[e] = p
  BY ONLY <1>2, AllFiles
<1>4. found' = s
  BY <1>1, <1>2
<1>5. FoundOnce'
  <2>1. \A e \in 1 .. Len(s) : s[e] \in Directory!Files
    BY ONLY <1>3, ElementOf
  <2>2. Directory!Files \subseteq Directory!Path /\ \A p \in Directory!Files : tree[p] = "file"
    BY DEF Directory!Files
  <2>3. s \in Seq(Directory!Path)
    BY ONLY <1>3, <2>2
  <2>. QED
    BY <1>1, <1>3, <1>4, <2>1, <2>2, <2>3 DEF FoundOnce
<1>6. \A p \in Directory!Path : tree'[p] = "file" => IsFound(p)'
  BY <1>1, <1>3, <1>4 DEF IsFound, Directory!Files
<1>7. TreeOK'
  BY <1>1 DEF DirectoryInv, TreeOK
<1>. QED
  BY <1>1, <1>5, <1>6, <1>7 DEF DirectoryInv

LEMMA DirectoryStep ==
    DirectoryInv /\ [Directory!Next]_directoryVars => DirectoryInv'
<1> SUFFICES ASSUME DirectoryInv, [Directory!Next]_directoryVars
             PROVE  DirectoryInv'
  OBVIOUS
<1>1. ASSUME NEW name \in Names, Directory!checkReg(name)
      PROVE  DirectoryInv'
  BY <1>1, CheckRegKeeps
<1>2. ASSUME NEW name \in Names, Directory!search(name)
      PROVE  DirectoryInv'
  BY <1>2, SearchKeeps
<1>3. ASSUME NEW name \in Names, Directory!Crash(name)
      PROVE  DirectoryInv'
  BY <1>3, CrashKeeps
<1>4. CASE Directory!Return
  BY <1>4, ReturnKeeps
<1>5. CASE Directory!searchnftw
  BY <1>5, NftwKeeps
<1>6. CASE UNCHANGED directoryVars
  <2>1. UNCHANGED <<tree, version, searchAt, roots, dents, found>>
    BY <1>6 DEF directoryVars
  <2>2. TreeOK' /\ FoundOnce' /\ (RootsOK' <=> RootsOK)
    BY <2>1 DEF DirectoryInv, TreeOK, FoundOnce, RootsOK
  <2>3. \A p : (IsFound(p)' <=> IsFound(p)) /\ (Ahead(p)' <=> Ahead(p))
    BY <2>1 DEF IsFound, Ahead, StillIn
  <2>. QED
    BY <2>1, <2>2, <2>3 DEF DirectoryInv
<1>7. CASE searchAt # "run" /\ UNCHANGED Directory!vars
  <2>1. UNCHANGED directoryVars
    BY <1>7 DEF Directory!vars, directoryVars
  <2>. QED
    BY <1>6, <2>1
<1>. QED
  BY <1>1, <1>2, <1>3, <1>4, <1>5, <1>6, <1>7 DEF Directory!Next

\* At the end of the search nothing is ahead, so that every file has been found.
LEMMA NothingAhead == DirectoryInv => EachFileFoundOnce
<1> SUFFICES ASSUME DirectoryInv
             PROVE  EachFileFoundOnce
  OBVIOUS
<1>1. FoundOnce
  BY DEF DirectoryInv
<1>2. \A p \in Directory!ToSet(found) : p \in Directory!Files
  <2>1. \A e \in 1 .. Len(found) : found[e] \in Directory!Path
    BY ONLY <1>1, ElementOf DEF FoundOnce
  <2>. QED
    BY <1>1, <2>1 DEF FoundOnce, Directory!ToSet, Directory!Files
<1>3. ASSUME searchAt = "end", NEW p \in Directory!Files
      PROVE  p \in Directory!ToSet(found)
  <2>1. p \in Directory!Path /\ tree[p] = "file"
    BY DEF Directory!Files
  <2>2. CASE version = "unftw"
    <3>1. IsFound(p)
      BY <1>3, <2>1, <2>2 DEF DirectoryInv
    <3>. QED
      BY <1>1, <3>1 DEF IsFound, FoundOnce, Directory!ToSet
  <2>3. CASE version = "normal"
    <3>1. ~ Ahead(p)
      BY <1>3, <2>3 DEF DirectoryInv, Ahead, StillIn
    <3>2. IsFound(p)
      BY <2>1, <2>3, <3>1 DEF DirectoryInv
    <3>. QED
      BY <1>1, <3>2 DEF IsFound, FoundOnce, Directory!ToSet
  <2>. QED
    BY <2>2, <2>3 DEF DirectoryInv
<1>4. \A e, m \in 1 .. Len(found) : found[e] = found[m] => e = m
  BY <1>1 DEF FoundOnce
<1>5. searchAt = "crashed" => \E p \in Directory!Path : tree[p] = "locked"
  BY DEF DirectoryInv
<1>6. Directory!EachFileFoundOnce
  BY <1>2, <1>3, <1>4, <1>5 DEF Directory!EachFileFoundOnce
<1>. QED
  BY <1>6 DEF EachFileFoundOnce

\* Each file that is small enough is printed once, under its own path, by both
\* searches, whatever the tree and whatever the order of the names in each directory;
\* only a directory that cannot be opened ends the first one early (main.c:51-160).
THEOREM EachFileIsFound == Spec => []EachFileFoundOnce
<1>1. Init => DirectoryInv
  BY DirectoryInit DEF Init
<1>2. DirectoryInv /\ [Next]_vars => DirectoryInv'
  BY OneProgramRuns, DirectoryStep
<1>3. DirectoryInv => EachFileFoundOnce
  BY NothingAhead
<1>. QED
  BY <1>1, <1>2, <1>3, PTL DEF Spec

-----------------------------------------------------------------------------
(* The interpreters. *)

Interpreters == [lineNumber : Nat \ {0}, value : Nat]
Commands == [line : Nat, value : Nat]

\* The lines that are commands.
Runnable(l) == script[l] \in {"run", "fail", "full", "bad"}

\* The lines from a to the one before l that double the interpreters.
Doubling(a, l) == {m \in a .. l - 1 : script[m] = "bad"}

\* The runs of line l that are still to come if nobody crashes before: one for each
\* interpreter s[x[1]] that has not passed it and each set x[2] of the lines ahead of
\* it that double, those where the child goes on and not the parent.
ToCome(s, l) == {x \in (1 .. Len(s)) \X SUBSET (1 .. Len(script)) :
                    /\ s[x[1]].lineNumber <= l
                    /\ x[2] \subseteq Doubling(s[x[1]].lineNumber, l)}

\* The runs of line l that r holds.
RunsIn(r, l) == {m \in 1 .. Len(r) : r[m].line = l}

ScriptTypeOK ==
    /\ script \in Seq(Script!Kinds)
    /\ stack \in Seq(Interpreters)
    /\ ran \in Seq(Commands)

\* An interpreter has passed every line before its own and found in its environment
\* what they have left there.
Faithful(s) == \A q \in 1 .. Len(s) :
    /\ s[q].lineNumber <= Len(script) + 1
    /\ s[q].value = Script!ValueAt(s[q].lineNumber)
    /\ Script!Before(s[q].lineNumber, {"blank"}) = {}

\* The same for a command that was run.
RanFaithfully(r) == \A q \in 1 .. Len(r) :
    /\ r[q].line \in 1 .. Len(script) /\ Runnable(r[q].line)
    /\ r[q].value = Script!ValueAt(r[q].line)
    /\ Script!Before(r[q].line, {"blank"}) = {}

\* What was run of a line and what is still to come of it: a crash may only lose some,
\* and only a crash before the line.
RunsOf(s, r, l) == Cardinality(RunsIn(r, l)) + Cardinality(ToCome(s, l))

Doubled(s, r) == \A l \in 1 .. Len(script) : Runnable(l) =>
    LET all == Cardinality(SUBSET Script!Before(l, {"bad"}))
    IN /\ RunsOf(s, r, l) <= all
       /\ Script!Before(l, {"blank", "full"}) = {} => RunsOf(s, r, l) = all

ScriptInv == ScriptTypeOK /\ Faithful(stack) /\ RanFaithfully(ran) /\ Doubled(stack, ran)

\* The value that the last of the lines T leaves in the environment.
LastLine(T) == CHOOSE m \in T : \A e \in T : e <= m
LeftBy(T) == IF T = {} \/ script[LastLine(T)] = "unset" THEN 0 ELSE LastLine(T)

LEMMA ValueIsLeft ==
    \A l : Script!ValueAt(l) = LeftBy(Script!Before(l, {"set", "unset"}))
BY DEF Script!ValueAt, LeftBy, LastLine

\* One line further.
LEMMA OneLineMore ==
    ASSUME ScriptTypeOK, NEW l \in 1 .. Len(script)
    PROVE  /\ \A kinds : Script!Before(l + 1, kinds)
                          = IF script[l] \in kinds THEN Script!Before(l, kinds) \cup {l}
                            ELSE Script!Before(l, kinds)
           /\ Script!ValueAt(l + 1) = IF script[l] = "set" THEN l
                                      ELSE IF script[l] = "unset" THEN 0
                                      ELSE Script!ValueAt(l)
<1>1. Len(script) \in Nat /\ l \in Nat
  BY DEF ScriptTypeOK
<1>2. ASSUME NEW kinds
      PROVE  Script!Before(l + 1, kinds)
               = IF script[l] \in kinds THEN Script!Before(l, kinds) \cup {l}
                 ELSE Script!Before(l, kinds)
  <2>1. \A m : m \in 1 .. (l + 1) - 1 <=> (m \in 1 .. l - 1 \/ m = l)
    BY <1>1
  <2>. QED
    BY <2>1 DEF Script!Before
<1>3. PICK T : T = Script!Before(l + 1, {"set", "unset"})
  OBVIOUS
<1>4. CASE script[l] \in {"set", "unset"}
  <2>1. l \in T /\ \A m \in T : m \in 1 .. l
    BY <1>1, <1>2, <1>3, <1>4 DEF Script!Before
  <2>2. \A x \in T : (\A y \in T : y <= x) <=> x = l
    BY <1>1, <2>1
  <2>3. LastLine(T) = l
    BY <2>1, <2>2 DEF LastLine
  <2>4. Script!ValueAt(l + 1) = LeftBy(T)
    BY <1>3, ValueIsLeft
  <2>. QED
    BY <1>2, <1>4, <2>1, <2>3, <2>4 DEF LeftBy
<1>5. CASE script[l] \notin {"set", "unset"}
  <2>1. T = Script!Before(l, {"set", "unset"})
    BY <1>2, <1>3, <1>5
  <2>2. Script!ValueAt(l + 1) = LeftBy(T) /\ Script!ValueAt(l) = LeftBy(T)
    BY <1>3, <2>1, ValueIsLeft
  <2>. QED
    BY <1>2, <1>5, <2>2
<1>. QED
  BY <1>2, <1>4, <1>5

LEMMA DoublingLines ==
    ASSUME ScriptTypeOK, NEW e \in Nat, NEW l \in Nat
    PROVE  /\ Doubling(e, l) = IF e < l /\ script[e] = "bad"
                               THEN Doubling(e + 1, l) \cup {e} ELSE Doubling(e + 1, l)
           /\ e \notin Doubling(e + 1, l)
           /\ l <= e => Doubling(e, l) = {}
<1>1. \A m : m \in e .. l - 1 <=> (m \in e + 1 .. l - 1 \/ (m = e /\ e < l))
  OBVIOUS
<1>2. e \notin e + 1 .. l - 1 /\ (l <= e => e .. l - 1 = {})
  OBVIOUS
<1>. QED
  BY <1>1, <1>2 DEF Doubling

LEMMA FinitelyManyToCome ==
    ASSUME ScriptTypeOK, NEW s \in Seq(Interpreters), NEW r \in Seq(Commands), NEW l
    PROVE  /\ IsFiniteSet(ToCome(s, l)) /\ Cardinality(ToCome(s, l)) \in Nat
           /\ IsFiniteSet(RunsIn(r, l)) /\ Cardinality(RunsIn(r, l)) \in Nat
<1>1. Len(script) \in Int /\ Len(s) \in Int /\ Len(r) \in Int
  BY DEF ScriptTypeOK
<1>2. IsFiniteSet(1 .. Len(script)) /\ IsFiniteSet(1 .. Len(s)) /\ IsFiniteSet(1 .. Len(r))
  BY <1>1, FS_Interval
<1>3. PICK T : T = SUBSET (1 .. Len(script))
  OBVIOUS
<1>4. IsFiniteSet(T)
  BY <1>2, <1>3, FS_SUBSET
<1>5. PICK B : B = (1 .. Len(s)) \X T
  OBVIOUS
<1>6. IsFiniteSet(B)
  BY <1>2, <1>4, <1>5, FS_Product
<1>7. ToCome(s, l) \subseteq B /\ RunsIn(r, l) \subseteq 1 .. Len(r)
  BY <1>3, <1>5 DEF ToCome, RunsIn
<1>8. IsFiniteSet(ToCome(s, l)) /\ IsFiniteSet(RunsIn(r, l))
  BY <1>2, <1>6, <1>7, FS_Subset
<1>. QED
  BY <1>8, FS_CardinalityType

\* What is to come, member by member.
LEMMA ComesIf ==
    ASSUME NEW s, NEW l
    PROVE  \A x : x \in ToCome(s, l)
              <=> \E e \in 1 .. Len(s), B \in SUBSET (1 .. Len(script)) :
                      /\ x = <<e, B>>
                      /\ s[e].lineNumber <= l /\ B \subseteq Doubling(s[e].lineNumber, l)
<1>1. ASSUME NEW x, x \in ToCome(s, l)
      PROVE  \E e \in 1 .. Len(s), B \in SUBSET (1 .. Len(script)) :
                 /\ x = <<e, B>>
                 /\ s[e].lineNumber <= l /\ B \subseteq Doubling(s[e].lineNumber, l)
  <2>1. /\ x = <<x[1], x[2]>> /\ x[1] \in 1 .. Len(s) /\ x[2] \in SUBSET (1 .. Len(script))
        /\ s[x[1]].lineNumber <= l /\ x[2] \subseteq Doubling(s[x[1]].lineNumber, l)
    BY <1>1 DEF ToCome
  <2>. QED
    BY <2>1
<1>2. ASSUME NEW e \in 1 .. Len(s), NEW B \in SUBSET (1 .. Len(script)),
             s[e].lineNumber <= l, B \subseteq Doubling(s[e].lineNumber, l)
      PROVE  <<e, B>> \in ToCome(s, l)
  BY <1>2 DEF ToCome
<1>. QED
  BY <1>1, <1>2

\* The interpreter that runs is at line p.
RunsAt(s, p) == /\ s # <<>>
                /\ s[Len(s)].lineNumber = p

\* In t it has gone on by a line.
GoesOn(s, t) ==
    /\ Len(t) = Len(s)
    /\ \A q \in 1 .. Len(s) - 1 : t[q] = s[q]
    /\ t[Len(s)].lineNumber = s[Len(s)].lineNumber + 1

\* It has gone on, and so has a child of it.
GoTwoOn(s, t) ==
    /\ Len(t) = Len(s) + 1
    /\ \A q \in 1 .. Len(s) - 1 : t[q] = s[q]
    /\ t[Len(s)].lineNumber = s[Len(s)].lineNumber + 1
    /\ t[Len(s) + 1].lineNumber = s[Len(s)].lineNumber + 1

\* It is gone.
GoesAway(s, t) ==
    /\ Len(t) = Len(s) - 1
    /\ \A q \in 1 .. Len(s) - 1 : t[q] = s[q]

\* A line that does not double: what is to come of the others stays, and of the line
\* itself the run of the interpreter that has passed it is no longer to come.
LEMMA PassingALine ==
    ASSUME ScriptTypeOK, NEW s \in Seq(Interpreters), NEW t \in Seq(Interpreters),
           NEW p \in 1 .. Len(script), RunsAt(s, p), GoesOn(s, t), script[p] # "bad",
           NEW l \in 1 .. Len(script)
    PROVE  /\ l # p => ToCome(t, l) = ToCome(s, l)
           /\ l = p => ToCome(t, l) = ToCome(s, l) \ {<<Len(s), {}>>}
<1>1. Len(script) \in Nat /\ p \in Nat /\ l \in Nat /\ Len(s) \in Nat /\ Len(s) \in 1 .. Len(s)
  BY DEF ScriptTypeOK, RunsAt
<1>2. /\ s[Len(s)].lineNumber = p /\ t[Len(s)].lineNumber = p + 1 /\ Len(t) = Len(s)
      /\ \A q \in 1 .. Len(s) : q = Len(s) \/ t[q] = s[q]
  BY <1>1 DEF RunsAt, GoesOn
<1>3. Doubling(p, l) = Doubling(p + 1, l) /\ (l = p => Doubling(p, l) = {})
  <2>1. Doubling(p, l) = Doubling(p + 1, l)
    BY <1>1, DoublingLines
  <2>2. l <= p => Doubling(p, l) = {}
    BY <1>1, DoublingLines
  <2>. QED
    BY <1>1, <2>1, <2>2
<1>4. /\ p <= l <=> (p + 1 <= l \/ l = p)
      /\ l = p => ~ (p + 1 <= l)
  BY <1>1
<1>5. ASSUME NEW x
      PROVE  x \in ToCome(t, l) <=> x \in ToCome(s, l) /\ (l = p => x # <<Len(s), {}>>)
  <2>1. ASSUME x \in ToCome(t, l)
        PROVE  x \in ToCome(s, l) /\ (l = p => x # <<Len(s), {}>>)
    <3>1. PICK e \in 1 .. Len(t), B \in SUBSET (1 .. Len(script)) :
              /\ x = <<e, B>>
              /\ t[e].lineNumber <= l /\ B \subseteq Doubling(t[e].lineNumber, l)
      BY <2>1, ComesIf
    <3>2. s[e].lineNumber <= l /\ B \subseteq Doubling(s[e].lineNumber, l)
      BY <1>2, <1>3, <1>4, <3>1
    <3>3. x \in ToCome(s, l)
      BY <1>2, <3>1, <3>2, ComesIf
    <3>4. l = p => e # Len(s)
      BY <1>2, <1>4, <3>1
    <3>. QED
      BY <3>1, <3>3, <3>4
  <2>2. ASSUME x \in ToCome(s, l), l = p => x # <<Len(s), {}>>
        PROVE  x \in ToCome(t, l)
    <3>1. PICK e \in 1 .. Len(s), B \in SUBSET (1 .. Len(script)) :
              /\ x = <<e, B>>
              /\ s[e].lineNumber <= l /\ B \subseteq Doubling(s[e].lineNumber, l)
      BY <2>2, ComesIf
    <3>2. l = p => e # Len(s)
      BY <1>2, <1>3, <2>2, <3>1
    <3>3. t[e].lineNumber <= l /\ B \subseteq Doubling(t[e].lineNumber, l)
      BY <1>2, <1>3, <1>4, <3>1, <3>2
    <3>. QED
      BY <1>2, <3>1, <3>3, ComesIf
  <2>. QED
    BY <2>1, <2>2
<1>. QED
  BY <1>5

\* The run of the interpreter that is at the line is among those to come.
LEMMA OwnRun ==
    ASSUME ScriptTypeOK, NEW s \in Seq(Interpreters), NEW p \in 1 .. Len(script),
           RunsAt(s, p)
    PROVE  <<Len(s), {}>> \in ToCome(s, p)
<1>1. Len(s) \in 1 .. Len(s) /\ s[Len(s)].lineNumber <= p
  BY DEF RunsAt
<1>2. {} \in SUBSET (1 .. Len(script)) /\ {} \subseteq Doubling(s[Len(s)].lineNumber, p)
  OBVIOUS
<1>. QED
  BY <1>1, <1>2, ComesIf

\* An interpreter that ends takes with it what it had before it, and nothing else.
LEMMA EndingLeaves ==
    ASSUME ScriptTypeOK, NEW s \in Seq(Interpreters), NEW t \in Seq(Interpreters),
           NEW p \in Nat, RunsAt(s, p), GoesAway(s, t), NEW l \in 1 .. Len(script)
    PROVE  /\ ToCome(t, l) \subseteq ToCome(s, l)
           /\ l < p => ToCome(t, l) = ToCome(s, l)
           /\ l = p => ToCome(t, l) = ToCome(s, l) \ {<<Len(s), {}>>}
           /\ <<Len(s), {}>> \notin ToCome(t, l)
<1>1. l \in Nat /\ Len(s) \in Nat /\ Len(s) \in 1 .. Len(s)
  BY DEF ScriptTypeOK, RunsAt
<1>2. /\ s[Len(s)].lineNumber = p
      /\ \A e : e \in 1 .. Len(t) <=> e \in 1 .. Len(s) /\ e # Len(s)
      /\ \A e \in 1 .. Len(t) : t[e] = s[e]
  BY <1>1 DEF RunsAt, GoesAway
<1>3. ASSUME NEW x
      PROVE  x \in ToCome(t, l)
               <=> \E e \in 1 .. Len(s), B \in SUBSET (1 .. Len(script)) :
                      /\ x = <<e, B>> /\ e # Len(s)
                      /\ s[e].lineNumber <= l /\ B \subseteq Doubling(s[e].lineNumber, l)
  <2>1. x \in ToCome(t, l)
          <=> \E e \in 1 .. Len(t), B \in SUBSET (1 .. Len(script)) :
                 /\ x = <<e, B>>
                 /\ t[e].lineNumber <= l /\ B \subseteq Doubling(t[e].lineNumber, l)
    BY ComesIf
  <2>. QED
    BY <1>2, <2>1
<1>4. ASSUME NEW x
      PROVE  x \in ToCome(t, l) => x \in ToCome(s, l) /\ x # <<Len(s), {}>>
  <2> SUFFICES ASSUME x \in ToCome(t, l) PROVE x \in ToCome(s, l) /\ x # <<Len(s), {}>>
    OBVIOUS
  <2>1. PICK e \in 1 .. Len(s), B \in SUBSET (1 .. Len(script)) :
            /\ x = <<e, B>> /\ e # Len(s)
            /\ s[e].lineNumber <= l /\ B \subseteq Doubling(s[e].lineNumber, l)
    BY <1>3
  <2>. QED
    BY <2>1, ComesIf
<1>5. ASSUME NEW x, x \in ToCome(s, l), l <= p, l = p => x # <<Len(s), {}>>
      PROVE  x \in ToCome(t, l)
  <2>1. PICK e \in 1 .. Len(s), B \in SUBSET (1 .. Len(script)) :
            /\ x = <<e, B>>
            /\ s[e].lineNumber <= l /\ B \subseteq Doubling(s[e].lineNumber, l)
    BY <1>5, ComesIf
  <2>2. l = p => Doubling(p, l) = {}
    BY <1>1, DoublingLines
  <2>3. e # Len(s)
    BY <1>1, <1>2, <1>5, <2>1, <2>2
  <2>. QED
    BY <1>3, <2>1, <2>3
<1>6. l < p \/ l = p => l <= p
  BY <1>1
<1>7. l < p => l # p
  BY <1>1
<1>. QED
  BY <1>4, <1>5, <1>6, <1>7

\* A line that doubles: two interpreters behind it have to come what the one before it
\* had, the parent the sets without the line and the child those with it.
LEMMA DoublingALine ==
    ASSUME ScriptTypeOK, NEW s \in Seq(Interpreters), NEW t \in Seq(Interpreters),
           NEW p \in 1 .. Len(script), RunsAt(s, p), GoTwoOn(s, t), script[p] = "bad",
           NEW l \in 1 .. Len(script)
    PROVE  /\ l # p => Cardinality(ToCome(t, l)) = Cardinality(ToCome(s, l))
           /\ l = p => ToCome(t, l) = ToCome(s, l) \ {<<Len(s), {}>>}
<1>1. Len(script) \in Nat /\ p \in Nat /\ l \in Nat /\ Len(s) \in Nat /\ Len(s) \in 1 .. Len(s)
  BY DEF ScriptTypeOK, RunsAt
<1>2. /\ s[Len(s)].lineNumber = p
      /\ t[Len(s)].lineNumber = p + 1 /\ t[Len(s) + 1].lineNumber = p + 1
      /\ \A e : e \in 1 .. Len(t) <=> e \in 1 .. Len(s) \/ e = Len(s) + 1
      /\ \A e \in 1 .. Len(s) : e = Len(s) \/ t[e] = s[e]
      /\ Len(s) + 1 \notin 1 .. Len(s)
  BY <1>1 DEF RunsAt, GoTwoOn
<1>3. Doubling(p, l) = IF p < l THEN Doubling(p + 1, l) \cup {p} ELSE Doubling(p + 1, l)
  BY <1>1, DoublingLines
<1>4. p \notin Doubling(p + 1, l) /\ (l <= p => Doubling(p, l) = {})
  BY <1>1, DoublingLines
<1>5. /\ p <= l <=> (p < l \/ l = p)
      /\ p + 1 <= l <=> p < l
      /\ l = p => l <= p /\ ~ (p < l)
  BY <1>1
<1>6. ASSUME NEW x
      PROVE  x \in ToCome(t, l)
               <=> \E e \in 1 .. Len(t), B \in SUBSET (1 .. Len(script)) :
                      /\ x = <<e, B>>
                      /\ t[e].lineNumber <= l /\ B \subseteq Doubling(t[e].lineNumber, l)
  BY ComesIf
<1>7. ASSUME NEW x
      PROVE  x \in ToCome(s, l)
               <=> \E e \in 1 .. Len(s), B \in SUBSET (1 .. Len(script)) :
                      /\ x = <<e, B>>
                      /\ s[e].lineNumber <= l /\ B \subseteq Doubling(s[e].lineNumber, l)
  BY ComesIf
<1>8. CASE l = p
  <2>1. ASSUME NEW x, x \in ToCome(t, l)
        PROVE  x \in ToCome(s, l) /\ x # <<Len(s), {}>>
    <3>1. PICK e \in 1 .. Len(t), B \in SUBSET (1 .. Len(script)) :
              /\ x = <<e, B>>
              /\ t[e].lineNumber <= l /\ B \subseteq Doubling(t[e].lineNumber, l)
      BY <1>6, <2>1
    <3>2. e # Len(s) /\ e \in 1 .. Len(s)
      BY <1>2, <1>5, <1>8, <3>1
    <3>. QED
      BY <1>2, <1>7, <3>1, <3>2
  <2>2. ASSUME NEW x, x \in ToCome(s, l), x # <<Len(s), {}>>
        PROVE  x \in ToCome(t, l)
    <3>1. PICK e \in 1 .. Len(s), B \in SUBSET (1 .. Len(script)) :
              /\ x = <<e, B>>
              /\ s[e].lineNumber <= l /\ B \subseteq Doubling(s[e].lineNumber, l)
      BY <1>7, <2>2
    <3>2. e # Len(s)
      BY <1>2, <1>4, <1>5, <1>8, <2>2, <3>1
    <3>. QED
      BY <1>2, <1>6, <3>1, <3>2
  <2>3. ToCome(t, l) = ToCome(s, l) \ {<<Len(s), {}>>}
    BY <2>1, <2>2
  <2>. QED
    BY <1>8, <2>3
<1>9. CASE l # p
  <2>1. PICK size : size = Len(s)
    OBVIOUS
  <2>2. PICK S : S = ToCome(s, l)
    OBVIOUS
  <2>3. PICK T : T = ToCome(t, l)
    OBVIOUS
  <2> DEFINE Goes(x) == IF x[1] = size /\ p \in x[2] THEN <<size + 1, x[2] \ {p}>> ELSE x
             f == [x \in S |-> Goes(x)]
  <2>4. ASSUME NEW x \in S
        PROVE  Goes(x) \in T
    <3>1. PICK e \in 1 .. size, B \in SUBSET (1 .. Len(script)) :
              /\ x = <<e, B>>
              /\ s[e].lineNumber <= l /\ B \subseteq Doubling(s[e].lineNumber, l)
      BY <1>7, <2>1, <2>2
    <3>2. CASE e = size /\ p \in B
      <4>1. p < l /\ B \ {p} \subseteq Doubling(p + 1, l)
        BY <1>2, <1>3, <1>5, <1>9, <2>1, <3>1, <3>2
      <4>2. <<size + 1, B \ {p}>> \in T
        BY <1>2, <1>5, <1>6, <2>1, <2>3, <4>1
      <4>. QED
        BY <3>1, <3>2, <4>2
    <3>3. CASE e = size /\ p \notin B
      <4>1. p < l /\ B \subseteq Doubling(p + 1, l)
        BY <1>2, <1>3, <1>5, <1>9, <2>1, <3>1, <3>3
      <4>2. <<size, B>> \in T
        BY <1>1, <1>2, <1>5, <1>6, <2>1, <2>3, <4>1
      <4>. QED
        BY <3>1, <3>3, <4>2
    <3>4. CASE e # size
      <4>1. x \in T
        BY <1>2, <1>6, <2>1, <2>3, <3>1, <3>4
      <4>. QED
        BY <3>1, <3>4, <4>1
    <3>. QED
      BY <3>2, <3>3, <3>4
  <2>5. ASSUME NEW y \in T
        PROVE  \E x \in S : Goes(x) = y
    <3>1. PICK e \in 1 .. Len(t), B \in SUBSET (1 .. Len(script)) :
              /\ y = <<e, B>>
              /\ t[e].lineNumber <= l /\ B \subseteq Doubling(t[e].lineNumber, l)
      BY <1>6, <2>3
    <3>2. CASE e = size + 1
      <4>1. p < l /\ B \cup {p} \subseteq Doubling(p, l) /\ p \notin B
        BY <1>2, <1>3, <1>4, <1>5, <2>1, <3>1, <3>2
      <4>2. <<size, B \cup {p}>> \in S
        BY <1>1, <1>2, <1>5, <1>7, <2>1, <2>2, <4>1
      <4>3. (B \cup {p}) \ {p} = B
        BY <4>1
      <4>4. Goes(<<size, B \cup {p}>>) = <<size + 1, B>>
        BY <4>3
      <4>. QED
        BY <3>1, <3>2, <4>2, <4>4
    <3>3. CASE e = size
      <4>1. p < l /\ B \subseteq Doubling(p, l) /\ p \notin B
        BY <1>2, <1>3, <1>4, <1>5, <2>1, <3>1, <3>3
      <4>2. y \in S
        BY <1>1, <1>2, <1>5, <1>7, <2>1, <2>2, <3>1, <3>3, <4>1
      <4>3. Goes(y) = y
        BY <3>1, <4>1
      <4>. QED
        BY <4>2, <4>3
    <3>4. CASE e \in 1 .. size /\ e # size
      <4>1. y \in S
        BY <1>2, <1>7, <2>1, <2>2, <3>1, <3>4
      <4>2. Goes(y) = y
        BY <3>1, <3>4
      <4>. QED
        BY <4>1, <4>2
    <3>. QED
      BY <1>2, <2>1, <3>2, <3>3, <3>4
  <2>6. ASSUME NEW x \in S, NEW y \in S, Goes(x) = Goes(y)
        PROVE  x = y
    <3>1. PICK e \in 1 .. size, B \in SUBSET (1 .. Len(script)) : x = <<e, B>>
      BY <1>7, <2>1, <2>2
    <3>2. PICK m \in 1 .. size, D \in SUBSET (1 .. Len(script)) : y = <<m, D>>
      BY <1>7, <2>1, <2>2
    <3>3. e # size + 1 /\ m # size + 1
      BY <1>2, <2>1
    <3>4. Goes(x) = IF e = size /\ p \in B THEN <<size + 1, B \ {p}>> ELSE <<e, B>>
      BY <3>1
    <3>5. Goes(y) = IF m = size /\ p \in D THEN <<size + 1, D \ {p}>> ELSE <<m, D>>
      BY <3>2
    <3> HIDE DEF Goes
    <3>6. CASE e = size /\ p \in B
      <4> DEFINE X == B \ {p}
                 Y == D \ {p}
      <4>1. Goes(x) = <<size + 1, X>>
        BY <3>4, <3>6
      <4>2. m = size /\ p \in D => Goes(y) = <<size + 1, Y>>
        BY <3>5
      <4>3. ~ (m = size /\ p \in D) => Goes(y) = <<m, D>>
        BY <3>5
      <4> HIDE DEF X, Y
      <4>4. CASE ~ (m = size /\ p \in D)
        <5>1. <<size + 1, X>> = <<m, D>>
          BY <2>6, <4>1, <4>3, <4>4
        <5>2. size + 1 = m
          BY ONLY <5>1
        <5>. QED
          BY <3>3, <5>2
      <4>5. CASE m = size /\ p \in D
        <5>1. <<size + 1, X>> = <<size + 1, Y>>
          BY <2>6, <4>1, <4>2, <4>5
        <5>2. X = Y
          BY ONLY <5>1
        <5>3. \A z : z # p => (z \in B <=> z \in D)
          BY ONLY <5>2 DEF X, Y
        <5>4. \A z : z \in B <=> z \in D
          <6> TAKE z
          <6>1. CASE z = p
            BY <3>6, <4>5, <6>1
          <6>2. CASE z # p
            BY <5>3, <6>2
          <6>. QED
            BY <6>1, <6>2
        <5>5. B = D
          BY ONLY <5>4
        <5>. QED
          BY <3>1, <3>2, <3>6, <4>5, <5>5
      <4>. QED
        BY <4>4, <4>5
    <3>7. CASE ~ (e = size /\ p \in B)
      BY <2>6, <3>1, <3>2, <3>3, <3>4, <3>5, <3>7
    <3>. QED
      BY <3>6, <3>7
  <2> HIDE DEF Goes
  <2>7. f \in Surjection(S, T) /\ f \in Injection(S, T)
    BY <2>4, <2>5, <2>6 DEF Surjection, Injection, IsInjective
  <2>8. IsFiniteSet(S)
    <3>1. <<>> \in Seq(Commands)
      OBVIOUS
    <3>. QED
      BY <2>2, <3>1, FinitelyManyToCome
  <2>9. Cardinality(T) = Cardinality(S)
    <3> HIDE DEF f
    <3>. QED
      BY <2>7, <2>8, FS_Surjection
  <2>. QED
    BY <1>9, <2>2, <2>3, <2>9
<1>. QED
  BY <1>8, <1>9

\* The script stays, and so does all that is said of it.
LEMMA ScriptStays ==
    ASSUME UNCHANGED script, NEW t, t = stack', NEW w, w = ran',
           ScriptTypeOK, t \in Seq(Interpreters), w \in Seq(Commands),
           Faithful(t), RanFaithfully(w), Doubled(t, w)
    PROVE  ScriptInv'
<1>1. \A l, kinds : Script!Before(l, kinds)' = Script!Before(l, kinds)
  BY DEF Script!Before
<1>2. ASSUME NEW l
      PROVE  Script!ValueAt(l)' = Script!ValueAt(l)
  <2>1. PICK T : T = Script!Before(l, {"set", "unset"})
    OBVIOUS
  <2>2. (Script!ValueAt(l) = LeftBy(Script!Before(l, {"set", "unset"})))'
    BY DEF Script!ValueAt, LeftBy, LastLine
  <2>3. Script!ValueAt(l)' = LeftBy(T)'
    BY <1>1, <2>1, <2>2 DEF LeftBy
  <2>4. LeftBy(T)' = LeftBy(T)
    BY DEF LeftBy
  <2>. QED
    BY <2>1, <2>3, <2>4, ValueIsLeft
<1>3. ScriptTypeOK'
  BY DEF ScriptTypeOK, Script!Kinds
<1>4. Faithful(stack)'
  BY <1>1, <1>2 DEF Faithful
<1>5. RanFaithfully(ran)'
  BY <1>1, <1>2 DEF RanFaithfully, Runnable
<1>6. \A l : RunsOf(stack, ran, l)' = RunsOf(t, w, l)
  BY DEF RunsOf, ToCome, RunsIn, Doubling
<1>7. Doubled(stack, ran)'
  BY <1>1, <1>6 DEF Doubled, Runnable
<1>. QED
  BY <1>3, <1>4, <1>5, <1>7 DEF ScriptInv

\* No line gets more runs, and none fewer but behind a crash.
LEMMA StaysDoubled ==
    ASSUME ScriptTypeOK, NEW s \in Seq(Interpreters), NEW t \in Seq(Interpreters),
           NEW r \in Seq(Commands), NEW w \in Seq(Commands), Doubled(s, r),
           \A l \in 1 .. Len(script) : Runnable(l) =>
               \/ RunsOf(t, w, l) = RunsOf(s, r, l)
               \/ /\ RunsOf(t, w, l) <= RunsOf(s, r, l)
                  /\ Script!Before(l, {"blank", "full"}) # {}
    PROVE  Doubled(t, w)
<1> SUFFICES ASSUME NEW l \in 1 .. Len(script), Runnable(l)
             PROVE  LET all == Cardinality(SUBSET Script!Before(l, {"bad"}))
                    IN /\ RunsOf(t, w, l) <= all
                       /\ Script!Before(l, {"blank", "full"}) = {} => RunsOf(t, w, l) = all
  BY DEF Doubled
<1>1. RunsOf(s, r, l) \in Nat /\ RunsOf(t, w, l) \in Nat
  BY FinitelyManyToCome DEF RunsOf
<1>2. PICK all : all = Cardinality(SUBSET Script!Before(l, {"bad"}))
  OBVIOUS
<1>3. all \in Nat
  <2>1. PICK T : T = Script!Before(l, {"bad"})
    OBVIOUS
  <2>2. T \subseteq 1 .. l - 1 /\ l - 1 \in Int
    BY <2>1 DEF ScriptTypeOK, Script!Before
  <2>3. IsFiniteSet(T)
    <3>1. IsFiniteSet(1 .. l - 1)
      BY <2>2, FS_Interval
    <3>. QED
      BY <2>2, <3>1, FS_Subset
  <2>4. PICK D : D = SUBSET T
    OBVIOUS
  <2>5. IsFiniteSet(D)
    BY <2>3, <2>4, FS_SUBSET
  <2>6. Cardinality(D) \in Nat
    BY <2>5, FS_CardinalityType
  <2>. QED
    BY <1>2, <2>1, <2>4, <2>6
<1>4. /\ RunsOf(s, r, l) <= all
      /\ Script!Before(l, {"blank", "full"}) = {} => RunsOf(s, r, l) = all
  BY <1>2 DEF Doubled
<1>5. /\ RunsOf(t, w, l) <= all
      /\ Script!Before(l, {"blank", "full"}) = {} => RunsOf(t, w, l) = all
  BY <1>1, <1>3, <1>4
<1>. QED
  BY <1>2, <1>5

\* A command that is run is one run more of its line.
LEMMA RunsMore ==
    ASSUME NEW r \in Seq(Commands), NEW x \in Commands, NEW l
    PROVE  Cardinality(RunsIn(Append(r, x), l))
              = IF l = x.line THEN Cardinality(RunsIn(r, l)) + 1
                ELSE Cardinality(RunsIn(r, l))
<1>1. PICK w : w = Append(r, x) /\ w \in Seq(Commands) /\ IsLonger(w, r, x)
  BY LongerSequence
<1>2. PICK size : size = Len(r) /\ size \in Nat
  OBVIOUS
<1>3. \A m : m \in 1 .. Len(w) <=> m \in 1 .. size \/ m = size + 1
  BY <1>1, <1>2 DEF IsLonger
<1>4. size + 1 \notin 1 .. size
  BY <1>2
<1>5. PICK D : D = RunsIn(r, l)
  OBVIOUS
<1>6. RunsIn(w, l) = IF l = x.line THEN D \cup {size + 1} ELSE D
  BY <1>1, <1>2, <1>3, <1>5 DEF IsLonger, RunsIn
<1>7. size + 1 \notin D /\ IsFiniteSet(D)
  <2>1. D \subseteq 1 .. size /\ size \in Int
    BY <1>2, <1>5 DEF RunsIn
  <2>2. IsFiniteSet(1 .. size)
    BY <2>1, FS_Interval
  <2>3. IsFiniteSet(D)
    BY <2>1, <2>2, FS_Subset
  <2>. QED
    BY <1>4, <2>1, <2>3
<1>8. Cardinality(D \cup {size + 1}) = Cardinality(D) + 1
  BY <1>7, FS_AddElement
<1>. QED
  BY <1>1, <1>5, <1>6, <1>8

\* With the interpreter that passes the line one run less of it is to come.
LEMMA OneLessToCome ==
    ASSUME ScriptTypeOK, NEW s \in Seq(Interpreters), NEW t, NEW p \in 1 .. Len(script),
           RunsAt(s, p), ToCome(t, p) = ToCome(s, p) \ {<<Len(s), {}>>}
    PROVE  Cardinality(ToCome(t, p)) = Cardinality(ToCome(s, p)) - 1
<1>1. PICK T : T = ToCome(s, p)
  OBVIOUS
<1>2. PICK x : x = <<Len(s), {}>>
  OBVIOUS
<1>3. x \in T
  BY <1>1, <1>2, OwnRun
<1>4. IsFiniteSet(T)
  <2>1. <<>> \in Seq(Commands)
    OBVIOUS
  <2>. QED
    BY <1>1, <2>1, FinitelyManyToCome
<1>5. Cardinality(T \ {x}) = Cardinality(T) - 1
  BY <1>3, <1>4, FS_RemoveElement
<1>. QED
  BY <1>1, <1>2, <1>5

\* A line without a command is passed.
LEMMA PassedWithoutRun ==
    ASSUME ScriptTypeOK, NEW s \in Seq(Interpreters), NEW t \in Seq(Interpreters),
           NEW p \in 1 .. Len(script), RunsAt(s, p), GoesOn(s, t), ~ Runnable(p),
           NEW r \in Seq(Commands), Doubled(s, r)
    PROVE  Doubled(t, r)
<1>1. script[p] # "bad"
  BY DEF Runnable
<1>2. ASSUME NEW l \in 1 .. Len(script), Runnable(l)
      PROVE  RunsOf(t, r, l) = RunsOf(s, r, l)
  <2>1. l # p
    BY <1>2
  <2>2. ToCome(t, l) = ToCome(s, l)
    BY <1>1, <2>1, PassingALine
  <2>. QED
    BY <2>2 DEF RunsOf
<1>. QED
  BY <1>2, StaysDoubled

\* A command is run and its line is passed, by the interpreter alone or by a child of
\* it too, or the interpreter crashes there.
LEMMA PassedWithRun ==
    ASSUME ScriptTypeOK, NEW s \in Seq(Interpreters), NEW t \in Seq(Interpreters),
           NEW p \in 1 .. Len(script), RunsAt(s, p),
           NEW r \in Seq(Commands), NEW x \in Commands, x.line = p, Doubled(s, r),
           \/ script[p] \in {"run", "fail", "full"} /\ GoesOn(s, t)
           \/ script[p] = "full" /\ GoesAway(s, t)
           \/ script[p] = "bad" /\ GoTwoOn(s, t)
    PROVE  Doubled(t, Append(r, x))
<1>1. PICK w : w = Append(r, x) /\ w \in Seq(Commands)
  BY LongerSequence
<1>2. p \in Nat /\ \A l \in 1 .. Len(script) : l \in Nat
  BY DEF ScriptTypeOK
<1>3. \A l : Cardinality(RunsIn(w, l)) = IF l = p THEN Cardinality(RunsIn(r, l)) + 1
                                         ELSE Cardinality(RunsIn(r, l))
  BY <1>1, RunsMore
<1>4. \A l : /\ Cardinality(ToCome(s, l)) \in Nat /\ Cardinality(ToCome(t, l)) \in Nat
             /\ Cardinality(RunsIn(r, l)) \in Nat
  BY FinitelyManyToCome
<1>5. ToCome(t, p) = ToCome(s, p) \ {<<Len(s), {}>>}
  <2>1. CASE script[p] \in {"run", "fail", "full"} /\ GoesOn(s, t)
    <3>1. script[p] # "bad" /\ p \in 1 .. Len(script)
      BY <2>1
    <3>. QED
      BY <2>1, <3>1, PassingALine
  <2>2. CASE script[p] = "full" /\ GoesAway(s, t)
    <3>1. p \in Nat /\ GoesAway(s, t)
      BY ONLY <1>2, <2>2
    <3>2. \A l \in 1 .. Len(script) :
              l = p => ToCome(t, l) = ToCome(s, l) \ {<<Len(s), {}>>}
      BY <3>1, EndingLeaves
    <3>. QED
      BY <3>2
  <2>3. CASE script[p] = "bad" /\ GoTwoOn(s, t)
    <3>1. script[p] = "bad" /\ GoTwoOn(s, t)
      BY <2>3
    <3>2. \A l \in 1 .. Len(script) :
              l = p => ToCome(t, l) = ToCome(s, l) \ {<<Len(s), {}>>}
      BY <3>1, DoublingALine
    <3>. QED
      BY <3>2
  <2>. QED
    BY <2>1, <2>2, <2>3
<1>6. Cardinality(ToCome(t, p)) = Cardinality(ToCome(s, p)) - 1
  BY <1>5, OneLessToCome
<1>7. RunsOf(t, w, p) = RunsOf(s, r, p)
  BY <1>3, <1>4, <1>6 DEF RunsOf
<1>8. ASSUME NEW l \in 1 .. Len(script), l # p
      PROVE  \/ Cardinality(ToCome(t, l)) = Cardinality(ToCome(s, l))
             \/ /\ Cardinality(ToCome(t, l)) <= Cardinality(ToCome(s, l))
                /\ Script!Before(l, {"blank", "full"}) # {}
  <2>1. CASE script[p] \in {"run", "fail", "full"} /\ GoesOn(s, t)
    <3>1. script[p] # "bad"
      BY <2>1
    <3>2. ToCome(t, l) = ToCome(s, l)
      BY <1>8, <2>1, <3>1, PassingALine
    <3>. QED
      BY <3>2
  <2>2. CASE script[p] = "full" /\ GoesAway(s, t) /\ l < p
    BY <1>2, <2>2, EndingLeaves
  <2>3. CASE script[p] = "full" /\ GoesAway(s, t) /\ p < l
    <3>1. ToCome(t, l) \subseteq ToCome(s, l)
      BY <1>2, <2>3, EndingLeaves
    <3>2. PICK T : T = ToCome(s, l) /\ IsFiniteSet(T)
      BY FinitelyManyToCome
    <3>3. Cardinality(ToCome(t, l)) <= Cardinality(T)
      BY <3>1, <3>2, FS_Subset
    <3>4. p \in Script!Before(l, {"blank", "full"})
      BY <1>2, <2>3 DEF Script!Before
    <3>. QED
      BY <3>2, <3>3, <3>4
  <2>4. CASE script[p] = "bad" /\ GoTwoOn(s, t)
    BY <1>8, <2>4, DoublingALine
  <2>. QED
    BY <1>2, <1>8, <2>1, <2>2, <2>3, <2>4
<1>9. ASSUME NEW l \in 1 .. Len(script), l # p
      PROVE  \/ RunsOf(t, w, l) = RunsOf(s, r, l)
             \/ /\ RunsOf(t, w, l) <= RunsOf(s, r, l)
                /\ Script!Before(l, {"blank", "full"}) # {}
  <2>1. Cardinality(RunsIn(w, l)) = Cardinality(RunsIn(r, l))
    BY <1>3, <1>9
  <2>2. /\ Cardinality(ToCome(s, l)) \in Nat /\ Cardinality(ToCome(t, l)) \in Nat
        /\ Cardinality(RunsIn(r, l)) \in Nat
    BY <1>4
  <2>3. \/ Cardinality(ToCome(t, l)) = Cardinality(ToCome(s, l))
        \/ /\ Cardinality(ToCome(t, l)) <= Cardinality(ToCome(s, l))
           /\ Script!Before(l, {"blank", "full"}) # {}
    BY <1>8, <1>9
  <2>. QED
    BY ONLY <2>1, <2>2, <2>3 DEF RunsOf
<1>. QED
  BY <1>1, <1>7, <1>9, StaysDoubled

\* An interpreter ends behind the script, or crashes at a line without a word.
LEMMA EndedOrCrashed ==
    ASSUME ScriptTypeOK, NEW s \in Seq(Interpreters), NEW t \in Seq(Interpreters),
           NEW p \in Nat \ {0}, RunsAt(s, p), GoesAway(s, t),
           p > Len(script) \/ script[p] = "blank",
           NEW r \in Seq(Commands), Doubled(s, r)
    PROVE  Doubled(t, r)
<1>1. Len(script) \in Nat /\ \A l \in 1 .. Len(script) : l \in Nat /\ l <= Len(script)
  BY DEF ScriptTypeOK
<1>2. /\ Cardinality(RunsIn(r, p)) \in Nat
      /\ \A l : /\ Cardinality(ToCome(s, l)) \in Nat /\ Cardinality(ToCome(t, l)) \in Nat
                /\ Cardinality(RunsIn(r, l)) \in Nat
  BY FinitelyManyToCome
<1>3. ASSUME NEW l \in 1 .. Len(script), Runnable(l)
      PROVE  \/ RunsOf(t, r, l) = RunsOf(s, r, l)
             \/ /\ RunsOf(t, r, l) <= RunsOf(s, r, l)
                /\ Script!Before(l, {"blank", "full"}) # {}
  <2>1. CASE l < p
    BY <2>1, EndingLeaves DEF RunsOf
  <2>2. CASE l = p
    <3>1. script[p] = "blank"
      BY <1>1, <2>2
    <3>. QED
      BY <1>3, <2>2, <3>1 DEF Runnable
  <2>3. CASE p < l
    <3>1. script[p] = "blank" /\ p \in 1 .. l - 1
      BY <1>1, <2>3
    <3>2. Script!Before(l, {"blank", "full"}) # {}
      BY <3>1 DEF Script!Before
    <3>3. ToCome(t, l) \subseteq ToCome(s, l)
      BY EndingLeaves
    <3>4. PICK T : T = ToCome(s, l) /\ IsFiniteSet(T)
      BY FinitelyManyToCome
    <3>5. Cardinality(ToCome(t, l)) <= Cardinality(T)
      BY <3>3, <3>4, FS_Subset
    <3>6. Cardinality(ToCome(t, l)) <= Cardinality(ToCome(s, l))
      BY <3>4, <3>5
    <3>. QED
      BY <1>2, <3>2, <3>6 DEF RunsOf
  <2>. QED
    BY <1>1, <2>1, <2>2, <2>3
<1>. QED
  BY <1>3, StaysDoubled

\* What becomes of the stack.
LEMMA TopOff ==
    ASSUME NEW s \in Seq(Interpreters), s # <<>>
    PROVE  LET pop == SubSeq(s, 1, Len(s) - 1)
           IN  /\ pop \in Seq(Interpreters) /\ GoesAway(s, pop)
               /\ Len(s) \in Nat /\ s[Len(s)] \in Interpreters
<1>1. Len(s) \in Nat /\ Len(s) # 0 /\ \A q \in 1 .. Len(s) : s[q] \in Interpreters
  OBVIOUS
<1>2. PICK size : size \in Nat /\ Len(s) = size + 1 /\ size = Len(s) - 1
  BY <1>1
<1>3. PICK pop : pop = SubSeq(s, 1, size)
  OBVIOUS
<1>4. pop = [q \in 1 .. size |-> s[q]]
  BY <1>2, <1>3
<1>5. \A q \in 1 .. size : s[q] \in Interpreters
  BY <1>1, <1>2
<1>6. pop \in [1 .. size -> Interpreters]
  BY ONLY <1>4, <1>5
<1>7. pop \in Seq(Interpreters) /\ Len(pop) = size
  BY <1>2, <1>6, ArrayIsSequence
<1>8. GoesAway(s, pop)
  BY <1>2, <1>4, <1>7 DEF GoesAway
<1>. QED
  BY <1>1, <1>2, <1>3, <1>7, <1>8

LEMMA TopOn ==
    ASSUME NEW s \in Seq(Interpreters), s # <<>>,
           NEW u \in Seq(Interpreters), GoesAway(s, u),
           NEW y \in Interpreters, y.lineNumber = s[Len(s)].lineNumber + 1
    PROVE  /\ Append(u, y) \in Seq(Interpreters) /\ GoesOn(s, Append(u, y))
           /\ Append(u, y)[Len(s)] = y
<1>1. Len(s) \in Nat \ {0} /\ Len(u) = Len(s) - 1
  BY DEF GoesAway
<1>2. PICK t : t = Append(u, y) /\ t \in Seq(Interpreters) /\ IsLonger(t, u, y)
  BY LongerSequence
<1>3. t[Len(s)] = y /\ Len(t) = Len(s) /\ \A q \in 1 .. Len(s) - 1 : t[q] = s[q]
  BY <1>1, <1>2 DEF GoesAway, IsLonger
<1>. QED
  BY <1>2, <1>3 DEF GoesOn

LEMMA TopTwice ==
    ASSUME NEW s \in Seq(Interpreters), s # <<>>,
           NEW u \in Seq(Interpreters), GoesOn(s, u),
           NEW y \in Interpreters, y.lineNumber = s[Len(s)].lineNumber + 1
    PROVE  /\ Append(u, y) \in Seq(Interpreters) /\ GoTwoOn(s, Append(u, y))
           /\ Append(u, y)[Len(s)] = u[Len(s)] /\ Append(u, y)[Len(s) + 1] = y
<1>1. Len(s) \in Nat \ {0} /\ Len(u) = Len(s)
  BY DEF GoesOn
<1>2. PICK t : t = Append(u, y) /\ t \in Seq(Interpreters) /\ IsLonger(t, u, y)
  BY LongerSequence
<1>3. /\ t[Len(s) + 1] = y /\ Len(t) = Len(s) + 1
      /\ \A q \in 1 .. Len(s) - 1 : t[q] = s[q]
      /\ t[Len(s)] = u[Len(s)]
  BY <1>1, <1>2 DEF GoesOn, IsLonger
<1>. QED
  BY <1>2, <1>3 DEF GoTwoOn, GoesOn

\* The interpreters that go on are faithful if the one before the line was and its
\* environment is the one that the line leaves.
LEMMA StaysFaithful ==
    ASSUME ScriptTypeOK, NEW s \in Seq(Interpreters), NEW t \in Seq(Interpreters),
           NEW p \in 1 .. Len(script), RunsAt(s, p), Faithful(s), script[p] # "blank",
           \A q \in 1 .. Len(s) - 1 : t[q] = s[q],
           \A q \in 1 .. Len(t) : q \in 1 .. Len(s) - 1
                                  \/ (/\ t[q].lineNumber = p + 1
                                      /\ t[q].value = Script!ValueAt(p + 1))
    PROVE  Faithful(t)
<1>1. Len(script) \in Nat /\ p \in Nat /\ Len(s) \in Nat /\ Len(s) \in 1 .. Len(s)
  BY DEF ScriptTypeOK, RunsAt
<1>2. Script!Before(p, {"blank"}) = {}
  BY <1>1 DEF Faithful, RunsAt
<1>3. Script!Before(p + 1, {"blank"}) = {}
  BY <1>2, OneLineMore
<1>4. p + 1 <= Len(script) + 1
  BY <1>1
<1>5. ASSUME NEW q \in 1 .. Len(t)
      PROVE  /\ t[q].lineNumber <= Len(script) + 1
             /\ t[q].value = Script!ValueAt(t[q].lineNumber)
             /\ Script!Before(t[q].lineNumber, {"blank"}) = {}
  <2>1. CASE q \in 1 .. Len(s) - 1
    <3>1. q \in 1 .. Len(s) /\ t[q] = s[q]
      BY <1>1, <2>1
    <3>. QED
      BY <3>1 DEF Faithful
  <2>2. CASE t[q].lineNumber = p + 1 /\ t[q].value = Script!ValueAt(p + 1)
    BY <1>3, <1>4, <2>2
  <2>. QED
    BY <2>1, <2>2
<1>. QED
  BY <1>5 DEF Faithful

LEMMA LeavesFaithful ==
    ASSUME NEW s \in Seq(Interpreters), NEW t \in Seq(Interpreters),
           Faithful(s), GoesAway(s, t)
    PROVE  Faithful(t)
<1>1. Len(s) \in Nat /\ Len(t) = Len(s) - 1
  BY DEF GoesAway
<1>2. \A q \in 1 .. Len(t) : q \in 1 .. Len(s) /\ q \in 1 .. Len(s) - 1
  BY <1>1
<1>3. \A q \in 1 .. Len(t) : t[q] = s[q]
  BY <1>2 DEF GoesAway
<1>. QED
  BY <1>2, <1>3 DEF Faithful

\* The command that is run was found by one that was faithful.
LEMMA StaysRanFaithfully ==
    ASSUME ScriptTypeOK, NEW s \in Seq(Interpreters), NEW r \in Seq(Commands),
           NEW p \in 1 .. Len(script), RunsAt(s, p), Faithful(s), Runnable(p),
           RanFaithfully(r), NEW x \in Commands, x.line = p, x.value = s[Len(s)].value
    PROVE  RanFaithfully(Append(r, x))
<1>1. Len(s) \in 1 .. Len(s)
  BY DEF RunsAt
<1>2. x.value = Script!ValueAt(p) /\ Script!Before(p, {"blank"}) = {}
  BY <1>1 DEF Faithful, RunsAt
<1>3. PICK w : w = Append(r, x) /\ IsLonger(w, r, x)
  BY LongerSequence
<1>4. \A q \in 1 .. Len(w) : q \in 1 .. Len(r) \/ w[q] = x
  BY <1>3 DEF IsLonger
<1>5. \A q \in 1 .. Len(r) : w[q] = r[q]
  BY <1>3 DEF IsLonger
<1>6. ASSUME NEW q \in 1 .. Len(w)
      PROVE  /\ w[q].line \in 1 .. Len(script) /\ Runnable(w[q].line)
             /\ w[q].value = Script!ValueAt(w[q].line)
             /\ Script!Before(w[q].line, {"blank"}) = {}
  <2>1. CASE q \in 1 .. Len(r)
    BY <1>5, <2>1 DEF RanFaithfully
  <2>2. CASE w[q] = x
    BY <1>2, <2>2
  <2>. QED
    BY <1>4, <2>1, <2>2
<1>7. RanFaithfully(w)
  BY <1>6 DEF RanFaithfully
<1>. QED
  BY <1>3, <1>7

LEMMA ScriptInit == Script!Init => ScriptInv
<1> SUFFICES ASSUME Script!Init PROVE ScriptInv
  OBVIOUS
<1>1. PICK size \in 1 .. MaxLines : script \in [1 .. size -> Script!Kinds]
  BY DEF Script!Init, Script!Line
<1>2. size \in Nat
  BY <1>1, ProgramsAssumption
<1>3. script \in Seq(Script!Kinds) /\ Len(script) = size
  BY <1>1, <1>2, ArrayIsSequence
<1>4. PICK y : y = [lineNumber |-> 1, value |-> 0] /\ stack = <<y>> /\ ran = <<>>
  BY DEF Script!Init
<1>5. y \in Interpreters /\ y.lineNumber = 1 /\ y.value = 0
  BY <1>4 DEF Interpreters
<1>6. /\ stack \in Seq(Interpreters) /\ Len(stack) = 1 /\ stack[1] = y
      /\ ran \in Seq(Commands) /\ Len(ran) = 0
  BY <1>4, <1>5
<1>7. ScriptTypeOK
  BY <1>3, <1>6 DEF ScriptTypeOK
<1>8. \A kinds : Script!Before(1, kinds) = {}
  <2>1. 1 .. 1 - 1 = {}
    OBVIOUS
  <2>. QED
    BY <2>1 DEF Script!Before
<1>9. Script!ValueAt(1) = 0
  BY <1>8, ValueIsLeft DEF LeftBy
<1>10. Faithful(stack)
  BY <1>2, <1>3, <1>5, <1>6, <1>8, <1>9 DEF Faithful
<1>11. RanFaithfully(ran)
  BY <1>6 DEF RanFaithfully
<1>12. ASSUME NEW l \in 1 .. Len(script)
       PROVE  RunsOf(stack, ran, l) = Cardinality(SUBSET Script!Before(l, {"bad"}))
  <2>1. Doubling(1, l) = Script!Before(l, {"bad"})
    BY DEF Doubling, Script!Before
  <2>2. PICK T : T = Script!Before(l, {"bad"})
    OBVIOUS
  <2>3. T \subseteq 1 .. Len(script) /\ 1 <= l
    BY <1>2, <1>3, <2>2 DEF Script!Before
  <2>4. PICK D : D = SUBSET T
    OBVIOUS
  <2>5. PICK S : S = ToCome(stack, l)
    OBVIOUS
  <2>6. \A x : x \in S <=> \E B \in D : x = <<1, B>>
    <3>1. \A x : x \in S <=> \E e \in 1 .. 1, B \in SUBSET (1 .. Len(script)) :
                                /\ x = <<e, B>>
                                /\ stack[e].lineNumber <= l
                                /\ B \subseteq Doubling(stack[e].lineNumber, l)
      BY <1>6, <2>5, ComesIf
    <3>2. \A e : e \in 1 .. 1 <=> e = 1
      OBVIOUS
    <3>3. stack[1].lineNumber = 1 /\ Doubling(1, l) = T
      BY <1>5, <1>6, <2>1, <2>2
    <3>4. \A B : B \in D <=> B \in SUBSET (1 .. Len(script)) /\ B \subseteq T
      BY <2>3, <2>4
    <3>. QED
      BY <2>3, <3>1, <3>2, <3>3, <3>4
  <2> DEFINE f == [B \in D |-> <<1, B>>]
  <2>7. f \in Surjection(D, S) /\ f \in Injection(D, S)
    BY <2>6 DEF Surjection, Injection, IsInjective
  <2>8. IsFiniteSet(D)
    <3>1. T \subseteq 1 .. Len(script) /\ Len(script) \in Int
      BY <1>2, <1>3, <2>3
    <3>2. IsFiniteSet(1 .. Len(script))
      BY <3>1, FS_Interval
    <3>3. IsFiniteSet(T)
      BY <3>1, <3>2, FS_Subset
    <3>. QED
      BY <2>4, <3>3, FS_SUBSET
  <2>9. Cardinality(S) = Cardinality(D) /\ Cardinality(D) \in Nat
    <3> HIDE DEF f
    <3>. QED
      BY <2>7, <2>8, FS_Surjection, FS_CardinalityType
  <2>10. RunsIn(ran, l) = {}
    BY <1>6 DEF RunsIn
  <2>11. Cardinality(RunsIn(ran, l)) = 0
    BY <2>10, FS_EmptySet
  <2>. QED
    BY <2>2, <2>4, <2>5, <2>9, <2>11 DEF RunsOf
<1>13. Doubled(stack, ran)
  <2>1. ASSUME NEW l \in 1 .. Len(script)
        PROVE  Cardinality(SUBSET Script!Before(l, {"bad"})) \in Nat
    <3>1. RunsOf(stack, ran, l) \in Nat
      <4>1. Cardinality(ToCome(stack, l)) \in Nat
        BY <1>6, <1>7, FinitelyManyToCome
      <4>2. Cardinality(RunsIn(ran, l)) \in Nat
        BY <1>6, <1>7, FinitelyManyToCome
      <4>. QED
        BY <4>1, <4>2 DEF RunsOf
    <3>. QED
      BY <1>12, <3>1
  <2>. QED
    BY <1>12, <2>1 DEF Doubled
<1>. QED
  BY <1>7, <1>10, <1>11, <1>13 DEF ScriptInv

LEMMA ScriptStep == ScriptInv /\ [Script!Next]_scriptVars => ScriptInv'
<1> SUFFICES ASSUME ScriptInv, [Script!Next]_scriptVars PROVE ScriptInv'
  OBVIOUS
<1>1. /\ ScriptTypeOK /\ Faithful(stack) /\ RanFaithfully(ran) /\ Doubled(stack, ran)
      /\ stack \in Seq(Interpreters) /\ ran \in Seq(Commands) /\ Len(script) \in Nat
  BY DEF ScriptInv, ScriptTypeOK
<1>2. CASE UNCHANGED scriptVars
  <2>1. PICK t : t = stack' /\ t = stack
    BY <1>2 DEF scriptVars
  <2>2. PICK w : w = ran' /\ w = ran
    BY <1>2 DEF scriptVars
  <2>3. UNCHANGED script
    BY <1>2 DEF scriptVars
  <2>. QED
    BY <1>1, <2>1, <2>2, <2>3, ScriptStays
<1>3. CASE stack # <<>> /\ Script!evaluate
  <2>1. PICK u : /\ u = SubSeq(stack, 1, Len(stack) - 1)
                 /\ u \in Seq(Interpreters) /\ GoesAway(stack, u)
    BY <1>1, <1>3, TopOff
  <2>2. PICK top : top = stack[Len(stack)] /\ top \in Interpreters
    BY <1>1, <1>3, TopOff
  <2>3. PICK p : p = top.lineNumber /\ p \in Nat \ {0} /\ RunsAt(stack, p)
    BY <1>3, <2>2 DEF Interpreters, RunsAt
  <2>4. Script!Top = top /\ Script!Pop = u
    BY <2>1, <2>2 DEF Script!Top, Script!Pop
  <2>5. \A kind : Script!At(kind) => p \in 1 .. Len(script) /\ script[p] = kind
    BY <1>1, <2>3, <2>4 DEF Script!At
  <2>6. top.value \in Nat /\ top = [lineNumber |-> p, value |-> top.value]
    BY <2>2, <2>3 DEF Interpreters
  <2>7. \A m \in Nat : /\ [lineNumber |-> p + 1, value |-> m] \in Interpreters
                       /\ [lineNumber |-> p + 1, value |-> m].lineNumber = p + 1
                       /\ [lineNumber |-> p + 1, value |-> m].value = m
    BY <2>3 DEF Interpreters
  <2>8. Script!NextLine = [lineNumber |-> p + 1, value |-> top.value]
    BY <2>4, <2>6 DEF Script!NextLine
  <2>9. \A m : [Script!NextLine EXCEPT !.value = m] = [lineNumber |-> p + 1, value |-> m]
    BY <2>8
  <2>10. Len(stack) \in Nat /\ top.value = Script!ValueAt(p)
    BY <1>1, <2>2, <2>3 DEF Faithful, RunsAt
  \* The interpreter alone goes on, with the value that the line leaves.
  <2>11. ASSUME NEW t \in Seq(Interpreters), NEW m \in Nat,
                t = Append(u, [lineNumber |-> p + 1, value |-> m]),
                p \in 1 .. Len(script), script[p] # "blank", m = Script!ValueAt(p + 1)
         PROVE  GoesOn(stack, t) /\ Faithful(t)
    <3>1. PICK y : y = [lineNumber |-> p + 1, value |-> m]
      OBVIOUS
    <3>2. y \in Interpreters /\ y.lineNumber = p + 1 /\ y.value = m
      BY <2>7, <3>1
    <3>3. t = Append(u, y) /\ y.lineNumber = stack[Len(stack)].lineNumber + 1
      BY <2>2, <2>3, <2>11, <3>1, <3>2
    <3>4. GoesOn(stack, t) /\ t[Len(stack)] = y
      BY <1>1, <1>3, <2>1, <3>3, <3>2, TopOn
    <3>5. \A q \in 1 .. Len(t) : q \in 1 .. Len(stack) - 1 \/ q = Len(stack)
      BY <2>10, <3>4 DEF GoesOn
    <3>6. \A q \in 1 .. Len(stack) - 1 : t[q] = stack[q]
      BY <3>4 DEF GoesOn
    <3>7. t[Len(stack)].lineNumber = p + 1 /\ t[Len(stack)].value = Script!ValueAt(p + 1)
      BY <2>11, <3>2, <3>4
    <3>8. \A q \in 1 .. Len(t) : \/ q \in 1 .. Len(stack) - 1
                                 \/ /\ t[q].lineNumber = p + 1
                                    /\ t[q].value = Script!ValueAt(p + 1)
      BY ONLY <3>5, <3>7
    <3>9. script[p] # "blank" /\ p \in 1 .. Len(script)
      BY <2>11
    <3>10. Faithful(t)
      BY <1>1, <2>3, <3>6, <3>8, <3>9, StaysFaithful
    <3>. QED
      BY <3>4, <3>10
  <2>12. \A m \in Nat : Append(u, [lineNumber |-> p + 1, value |-> m]) \in Seq(Interpreters)
    BY <2>1, <2>7
  <2>13. ASSUME p \in 1 .. Len(script)
         PROVE  Script!ValueAt(p + 1) = IF script[p] = "set" THEN p
                                        ELSE IF script[p] = "unset" THEN 0 ELSE top.value
    BY <1>1, <2>10, <2>13, OneLineMore
  \* What the command finds.
  <2>14. PICK x : x = [line |-> p, value |-> top.value]
    OBVIOUS
  <2>15. x \in Commands /\ x.line = p /\ x.value = top.value
    BY <2>3, <2>6, <2>14 DEF Commands
  <2>16. Script!Command => ran' = Append(ran, x)
    BY <2>3, <2>4, <2>14 DEF Script!Command
  <2>17. Append(ran, x) \in Seq(Commands)
    BY <1>1, <2>15
  <2>18. p \in 1 .. Len(script) /\ Runnable(p) => RanFaithfully(Append(ran, x))
    BY <1>1, <2>2, <2>3, <2>15, StaysRanFaithfully
  <2>19. CASE Script!addVariable
    <3>1. PICK m \in Nat : /\ stack' = Append(u, [lineNumber |-> p + 1, value |-> m])
                           /\ p \in 1 .. Len(script) /\ script[p] \in {"set", "unset"}
                           /\ m = IF script[p] = "set" THEN p ELSE 0
      BY <2>3, <2>4, <2>5, <2>9, <2>19 DEF Script!addVariable
    <3>2. PICK t : t = stack' /\ t \in Seq(Interpreters)
      BY <2>12, <3>1
    <3>3. GoesOn(stack, t) /\ Faithful(t)
      BY <2>11, <2>13, <3>1, <3>2
    <3>4. Doubled(t, ran)
      BY <1>1, <2>3, <3>1, <3>2, <3>3, PassedWithoutRun DEF Runnable
    <3>5. UNCHANGED <<script, ran>>
      BY <2>19 DEF Script!addVariable
    <3>. QED
      BY <1>1, <3>2, <3>3, <3>4, <3>5, ScriptStays
  <2>20. CASE Script!TooLong
    <3>1. /\ stack' = Append(u, [lineNumber |-> p + 1, value |-> top.value])
          /\ p \in 1 .. Len(script) /\ script[p] = "long"
      BY <2>4, <2>5, <2>8, <2>20 DEF Script!TooLong
    <3>2. PICK t : t = stack' /\ t \in Seq(Interpreters)
      BY <2>6, <2>12, <3>1
    <3>3. GoesOn(stack, t) /\ Faithful(t)
      BY <2>6, <2>11, <2>13, <3>1, <3>2
    <3>4. Doubled(t, ran)
      BY <1>1, <2>3, <3>1, <3>2, <3>3, PassedWithoutRun DEF Runnable
    <3>5. UNCHANGED <<script, ran>>
      BY <2>20 DEF Script!TooLong
    <3>. QED
      BY <1>1, <3>2, <3>3, <3>4, <3>5, ScriptStays
  <2>21. CASE Script!Run
    <3>1. /\ p \in 1 .. Len(script) /\ script[p] \in {"run", "fail", "full"}
          /\ ran' = Append(ran, x) /\ UNCHANGED script
      BY <2>5, <2>16, <2>21 DEF Script!Run
    <3>2. \/ stack' = Append(u, [lineNumber |-> p + 1, value |-> top.value])
          \/ script[p] = "full" /\ stack' = u
      BY <2>4, <2>5, <2>8, <2>21 DEF Script!Run
    <3>3. PICK t : t = stack' /\ t \in Seq(Interpreters)
      BY <2>1, <2>6, <2>12, <3>2
    <3>4. PICK w : w = ran' /\ w \in Seq(Commands) /\ w = Append(ran, x)
      BY <2>17, <3>1
    <3>5. Runnable(p) /\ script[p] # "blank"
      BY <3>1 DEF Runnable
    <3>6. /\ GoesOn(stack, t) \/ (script[p] = "full" /\ GoesAway(stack, t))
          /\ Faithful(t)
      <4>1. CASE stack' = Append(u, [lineNumber |-> p + 1, value |-> top.value])
        BY <2>6, <2>11, <2>13, <3>1, <3>3, <4>1
      <4>2. CASE script[p] = "full" /\ stack' = u
        <5>1. Faithful(u)
          BY <1>1, <2>1, LeavesFaithful
        <5>. QED
          BY <2>1, <3>3, <4>2, <5>1
      <4>. QED
        BY <3>2, <4>1, <4>2
    <3>7. Doubled(t, w)
      BY <1>1, <2>3, <2>15, <3>1, <3>3, <3>4, <3>6, PassedWithRun
    <3>8. RanFaithfully(w)
      BY <2>18, <3>1, <3>4, <3>5
    <3>. QED
      BY <1>1, <3>1, <3>3, <3>4, <3>6, <3>7, <3>8, ScriptStays
  <2>22. CASE Script!RunBad
    <3>1. /\ p \in 1 .. Len(script) /\ script[p] = "bad"
          /\ ran' = Append(ran, x) /\ UNCHANGED script
      BY <2>5, <2>16, <2>22 DEF Script!RunBad
    <3>2. PICK y : y = [lineNumber |-> p + 1, value |-> top.value]
      OBVIOUS
    <3>3. y \in Interpreters /\ y.lineNumber = p + 1 /\ y.value = top.value
      BY <2>6, <2>7, <3>2
    <3>4. stack' = Append(Append(u, y), y)
      BY <2>4, <2>8, <2>22, <3>2 DEF Script!RunBad
    <3>5. PICK v : v = Append(u, y) /\ v \in Seq(Interpreters)
      BY <2>6, <2>12, <3>2
    <3>6. y.lineNumber = stack[Len(stack)].lineNumber + 1
      BY <2>2, <2>3, <3>3
    <3>7. GoesOn(stack, v) /\ v[Len(stack)] = y
      <4>1. PICK s : s = stack /\ s \in Seq(Interpreters) /\ s # <<>>
        BY <1>1, <1>3
      <4>2. GoesAway(s, u) /\ u \in Seq(Interpreters)
        BY <2>1, <4>1
      <4>3. y \in Interpreters /\ y.lineNumber = s[Len(s)].lineNumber + 1
        BY <3>3, <3>6, <4>1
      <4>4. GoesOn(s, Append(u, y)) /\ Append(u, y)[Len(s)] = y
        BY <4>1, <4>2, <4>3, TopOn
      <4>. QED
        BY <3>5, <4>1, <4>4
    <3>8. PICK t : t = stack' /\ t = Append(v, y)
      BY <3>4, <3>5
    <3>9. /\ t = stack' /\ t \in Seq(Interpreters)
          /\ GoTwoOn(stack, t) /\ t[Len(stack)] = y /\ t[Len(stack) + 1] = y
      <4>1. PICK s : s = stack /\ s \in Seq(Interpreters) /\ s # <<>>
        BY <1>1, <1>3
      <4>2. GoesOn(s, v) /\ v \in Seq(Interpreters) /\ v[Len(s)] = y
        BY <3>5, <3>7, <4>1
      <4>3. y \in Interpreters /\ y.lineNumber = s[Len(s)].lineNumber + 1
        BY <3>3, <3>6, <4>1
      <4>4. /\ Append(v, y) \in Seq(Interpreters) /\ GoTwoOn(s, Append(v, y))
            /\ Append(v, y)[Len(s)] = y /\ Append(v, y)[Len(s) + 1] = y
        BY <4>1, <4>2, <4>3, TopTwice
      <4>. QED
        BY <3>8, <4>1, <4>4
    <3>10. \A q \in 1 .. Len(t) : \/ q \in 1 .. Len(stack) - 1
                                 \/ q = Len(stack) \/ q = Len(stack) + 1
      BY <2>10, <3>9 DEF GoTwoOn
    <3>11. y.value = Script!ValueAt(p + 1)
      BY <2>13, <3>1, <3>3
    <3>12. Faithful(t)
      BY <1>1, <2>3, <3>1, <3>3, <3>9, <3>10, <3>11, StaysFaithful DEF GoTwoOn
    <3>13. PICK w : w = ran' /\ w \in Seq(Commands) /\ w = Append(ran, x)
      BY <2>17, <3>1
    <3>14. Doubled(t, w)
      BY <1>1, <2>3, <2>15, <3>1, <3>9, <3>13, PassedWithRun
    <3>15. RanFaithfully(w)
      BY <2>18, <3>1, <3>13 DEF Runnable
    <3>. QED
      BY <1>1, <3>1, <3>9, <3>12, <3>13, <3>14, <3>15, ScriptStays
  <2>23. CASE Script!End
    <3>1. /\ p > Len(script) \/ script[p] = "blank"
          /\ stack' = u /\ UNCHANGED <<script, ran>>
      BY <2>3, <2>4, <2>5, <2>23 DEF Script!End
    <3>2. PICK t : t = stack' /\ t = u
      BY <3>1
    <3>3. Faithful(t)
      BY <1>1, <2>1, <3>2, LeavesFaithful
    <3>4. Doubled(t, ran)
      BY <1>1, <2>1, <2>3, <3>1, <3>2, EndedOrCrashed
    <3>. QED
      BY <1>1, <2>1, <3>1, <3>2, <3>3, <3>4, ScriptStays
  <2>. QED
    BY <1>3, <2>19, <2>20, <2>21, <2>22, <2>23 DEF Script!evaluate
<1>4. Script!evaluate => stack # <<>>
  BY DEF Script!evaluate, Script!addVariable, Script!Run, Script!RunBad, Script!TooLong,
         Script!End, Script!At
<1>5. Script!Next => Script!evaluate \/ UNCHANGED scriptVars
  BY DEF Script!Next, Script!vars, scriptVars
<1>. QED
  BY <1>2, <1>3, <1>4, <1>5

LEMMA SameSize == \A S : Script!Cardinality(S) = Cardinality(S)
BY DEF Script!Cardinality, Cardinality

\* Without interpreters nothing is to come, and what was run is all.
LEMMA AllRun == ScriptInv => Script!LinesRunDoubled
<1> SUFFICES ASSUME ScriptInv, stack = <<>>, NEW l \in 1 .. Len(script)
             PROVE  LET runs == {m \in 1 .. Len(ran) : ran[m].line = l}
                    IN /\ Script!Cardinality(runs) <= Script!Times(l)
                       /\ Script!Before(l, {"blank", "full"}) = {}
                             => Script!Cardinality(runs) = Script!Times(l)
                       /\ Script!Before(l, {"blank"}) # {} => runs = {}
                       /\ \A m \in runs : ran[m].value = Script!ValueAt(l)
  BY DEF Script!LinesRunDoubled, Script!Runs
<1>1. /\ ScriptTypeOK /\ RanFaithfully(ran) /\ Doubled(stack, ran)
      /\ stack \in Seq(Interpreters) /\ ran \in Seq(Commands) /\ Len(script) \in Nat
  BY DEF ScriptInv, ScriptTypeOK
<1>2. PICK runs : runs = {m \in 1 .. Len(ran) : ran[m].line = l} /\ runs = RunsIn(ran, l)
  BY DEF RunsIn
<1>3. ASSUME NEW m \in runs
      PROVE  /\ Runnable(l) /\ ran[m].value = Script!ValueAt(l)
             /\ Script!Before(l, {"blank"}) = {}
  BY <1>1, <1>2 DEF RanFaithfully
<1>4. CASE ~ Runnable(l)
  <2>1. runs = {} /\ Cardinality(runs) = 0
    BY <1>3, <1>4, FS_EmptySet
  <2>2. Script!Times(l) = 0
    BY <1>4 DEF Runnable, Script!Times, Script!Commands
  <2>. QED
    BY <1>2, <2>1, <2>2, SameSize
<1>5. CASE Runnable(l)
  <2>1. PICK T : T = Script!Before(l, {"bad"})
    OBVIOUS
  <2>2. IsFiniteSet(T)
    <3>1. T \subseteq 1 .. Len(script) /\ Len(script) \in Int
      BY <1>1, <2>1 DEF Script!Before
    <3>2. IsFiniteSet(1 .. Len(script))
      BY <3>1, FS_Interval
    <3>. QED
      BY <3>1, <3>2, FS_Subset
  <2>3. Cardinality(SUBSET T) = 2 ^ Cardinality(T)
    BY <2>2, FS_SUBSET
  <2>4. Script!Times(l) = Cardinality(SUBSET T)
    BY <1>5, <2>1, <2>3, SameSize DEF Runnable, Script!Times, Script!Commands
  <2>5. ToCome(stack, l) = {}
    BY DEF ToCome
  <2>6. Cardinality(ToCome(stack, l)) = 0 /\ Cardinality(runs) \in Nat
    BY <1>1, <1>2, <2>5, FS_EmptySet, FinitelyManyToCome
  <2>7. RunsOf(stack, ran, l) = Cardinality(runs)
    <3>1. Cardinality(RunsIn(ran, l)) = Cardinality(runs)
      BY <1>2
    <3>2. Cardinality(runs) + 0 = Cardinality(runs)
      BY ONLY <2>6
    <3>. QED
      BY <2>6, <3>1, <3>2 DEF RunsOf
  <2>8. /\ Cardinality(runs) <= Script!Times(l)
        /\ Script!Before(l, {"blank", "full"}) = {} => Cardinality(runs) = Script!Times(l)
    BY <1>1, <1>5, <2>1, <2>4, <2>7 DEF Doubled
  <2>. QED
    BY <1>2, <1>3, <2>8, SameSize
<1>. QED
  BY <1>4, <1>5

\* The commands that were run found the environment that their lines describe, and
\* a line that nothing before it doubles or drops was run once.
LEMMA RunWithEnvironment == ScriptInv => CommandsFindTheirEnvironment
<1> SUFFICES ASSUME ScriptInv PROVE CommandsFindTheirEnvironment
  OBVIOUS
<1>1. \A m \in 1 .. Len(ran) : ran[m].value = Script!ValueAt(ran[m].line)
  BY DEF ScriptInv, RanFaithfully
<1>2. ASSUME stack = <<>>, NEW l \in 1 .. Len(script), script[l] \in Script!Commands,
             Script!Before(l, {"fail", "full", "bad", "blank"}) = {}
      PROVE  Script!Cardinality(Script!Runs(l)) = 1
  <2>1. Script!Before(l, {"bad"}) = {} /\ Script!Before(l, {"blank", "full"}) = {}
    BY <1>2 DEF Script!Before
  <2>2. Script!Cardinality(Script!Runs(l)) = Script!Times(l)
    BY <1>2, <2>1, AllRun DEF Script!LinesRunDoubled
  <2>3. Script!Times(l) = 2 ^ Cardinality({})
    BY <1>2, <2>1, SameSize DEF Script!Times
  <2>4. Cardinality(SUBSET {}) = 2 ^ Cardinality({})
    BY FS_EmptySet, FS_SUBSET
  <2>5. SUBSET {} = {{}} /\ Cardinality({{}}) = 1
    BY FS_Singleton
  <2>. QED
    BY <2>2, <2>3, <2>4, <2>5
<1>. QED
  BY <1>1, <1>2 DEF CommandsFindTheirEnvironment, Script!CommandsFindTheirEnvironment

\* Whatever the script, each of its commands finds the environment that the lines
\* before it describe, and one that nothing has failed or crashed before is run once
\* (cw03/Zadanie3:7-31, cw03/zad2/main.c:32-126).
THEOREM ScriptKeepsEnvironment == Spec => []CommandsFindTheirEnvironment
<1>1. Init => ScriptInv
  BY ScriptInit DEF Init
<1>2. ScriptInv /\ [Next]_vars => ScriptInv'
  BY OneProgramRuns, ScriptStep
<1>3. ScriptInv => CommandsFindTheirEnvironment
  BY RunWithEnvironment
<1>. QED
  BY <1>1, <1>2, <1>3, PTL DEF Spec

\* What the code does against cw03/Zadanie3:31, which wants the interpreter ended by a
\* command that fails: whatever the script, each of its commands is run once for every
\* set of the commands before it that could not be executed, that many times exactly if
\* no interpreter crashes before it, at most that many times otherwise, and not at all
\* behind an empty line (cw03/zad2/main.c:91-100, 153-158).
THEOREM FailedLinesDouble == Spec => []Script!LinesRunDoubled
<1>1. Init => ScriptInv
  BY ScriptInit DEF Init
<1>2. ScriptInv /\ [Next]_vars => ScriptInv'
  BY OneProgramRuns, ScriptStep
<1>3. ScriptInv => Script!LinesRunDoubled
  BY AllRun
<1>. QED
  BY <1>1, <1>2, <1>3, PTL DEF Spec
=============================================================================
