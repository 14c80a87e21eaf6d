---------------------------- MODULE RecordLocks ----------------------------
(***************************************************************************)
(* cw02/zad3: several processes that lock single bytes of one file with     *)
(* fcntl, each at the commands of its user, and list the locks of the       *)
(* others.  The locks are advisory, so reading and writing the file does    *)
(* not depend on them; of its contents only the length matters.  The table  *)
(* of locks is the kernel's.                                                *)
(*                                                                          *)
(* printLocks asks for one byte after the other, and the others lock and    *)
(* unlock in between.  A command that changes nothing is no action: a lock  *)
(* that is refused, a read, a word that is not known.                       *)
(***************************************************************************)
EXTENDS Naturals, FiniteSets

CONSTANTS Process,
          Waiter,       \* those whose users wait for locks,
          Lister,       \* and those whose users list them
          MaxLength     \* the bytes that are locked or written

Position == 0 .. MaxLength - 1
Lock == [pos : Position, type : {"read", "write"}, owner : Process]

VARIABLES locks,        \* the locks that are held
          length,       \* of the file
          commandAt,    \* where each process is: "prompt", "wait", "scan"
          asked,        \* the lock each process waits for, as a set
          b, len,       \* of printLocks
          listed,       \* what the running printLocks has printed
          held          \* the locks of others that were there all the time since it began

vars == <<locks, length, commandAt, asked, b, len, listed, held>>
scanVars == <<b, len, listed>>

Init == /\ locks = {}
        /\ length = MaxLength - 1
        /\ commandAt = [p \in Process |-> "prompt"]
        /\ asked = [p \in Process |-> {}]
        /\ b = [p \in Lister |-> 0] /\ len = [p \in Lister |-> 0]
        /\ listed = [p \in Lister |-> {}]
        /\ held = [p \in Lister |-> {}]

Goto(p, from, to) == /\ commandAt[p] = from
                     /\ commandAt' = [commandAt EXCEPT ![p] = to]

-----------------------------------------------------------------------------
(* The table of locks. *)

\* What keeps a lock from being granted.
Conflicts(lock) == {l \in locks : /\ l.owner # lock.owner /\ l.pos = lock.pos
                                  /\ "write" \in {l.type, lock.type}}

\* A process has one lock on a byte: the new one replaces the old one.
Without(p, pos) == {l \in locks : l.owner # p \/ l.pos # pos}

Locks(new) == locks' = new /\ held' = [p \in Lister |-> held[p] \cap new]

Grant(lock) == Locks(Without(lock.owner, lock.pos) \cup {lock})

\* Processes that wait for each other if the lock is waited for too: fcntl fails.
Circle(lock) ==
    LET wanted == [p \in Process |-> IF p = lock.owner THEN {lock} ELSE asked[p]]
    IN \E S \in SUBSET Process :
          /\ lock.owner \in S
          /\ \A p \in S : \E l \in wanted[p] : \E k \in Conflicts(l) : k.owner \in S

-----------------------------------------------------------------------------
(* The commands. *)

\* lock read or write, single or wait, if it is granted at once.
lockRequest(lock) == /\ Goto(lock.owner, "prompt", "prompt")
                     /\ Conflicts(lock) = {}
                     /\ Grant(lock)
                     /\ UNCHANGED <<length, asked, scanVars>>

\* F_SETLKW
lockWait(lock) == /\ Goto(lock.owner, "prompt", "wait")
                  /\ lock.owner \in Waiter
                  /\ Conflicts(lock) # {} /\ ~Circle(lock)
                  /\ asked' = [asked EXCEPT ![lock.owner] = {lock}]
                  /\ UNCHANGED <<locks, length, scanVars, held>>

Granted(p) == /\ Goto(p, "wait", "prompt")
              /\ \E lock \in asked[p] : Conflicts(lock) = {} /\ Grant(lock)
              /\ asked' = [asked EXCEPT ![p] = {}]
              /\ UNCHANGED <<length, scanVars>>

unlock(p, pos) == /\ Goto(p, "prompt", "prompt")
                  /\ Locks(Without(p, pos))
                  /\ UNCHANGED <<length, asked, scanVars>>

\* A write past the end makes the file longer.
overwrite(p, pos) == /\ Goto(p, "prompt", "prompt")
                     /\ pos >= length
                     /\ length' = pos + 1
                     /\ UNCHANGED <<locks, asked, scanVars, held>>

\* quit, or the end of a process that waits: its locks go with it.  The next
\* process that is started takes its place.
quit(p) == /\ commandAt[p] \in {"prompt", "wait"}
           /\ Goto(p, commandAt[p], "prompt")
           /\ Locks({l \in locks : l.owner # p})
           /\ asked' = [asked EXCEPT ![p] = {}]
           /\ UNCHANGED <<length, scanVars>>

-----------------------------------------------------------------------------
(* printLocks. *)

FirstByte(p) == /\ Goto(p, "prompt", "scan")
                /\ b' = [b EXCEPT ![p] = 0] /\ len' = [len EXCEPT ![p] = length]
                /\ listed' = [listed EXCEPT ![p] = {}]
                /\ held' = [held EXCEPT ![p] = {l \in locks : l.owner # p}]
                /\ UNCHANGED <<locks, length, asked>>

\* Mutant: l_type is not set again after a lock has been found.
QueryOfLast(p) ==
    LET last == CHOOSE l \in listed[p] : \A k \in listed[p] : k.pos <= l.pos
    IN [pos |-> b[p], type |-> IF listed[p] = {} THEN "write" ELSE last.type, owner |-> p]

\* The lock that F_GETLK is asked about, set anew for each byte.
Query(p) == [pos |-> b[p], type |-> "write", owner |-> p]

\* Of several locks on the byte the kernel names one.
GetLock(p) == /\ Goto(p, "scan", "scan")
              /\ b[p] < len[p]
              /\ b' = [b EXCEPT ![p] = @ + 1]
              /\ IF Conflicts(Query(p)) = {} THEN UNCHANGED listed
                 ELSE \E l \in Conflicts(Query(p)) :
                         listed' = [listed EXCEPT ![p] = @ \cup {l}]
              /\ UNCHANGED <<locks, length, asked, len, held>>

LastByte(p) == /\ Goto(p, "scan", "prompt")
               /\ b[p] = len[p]
               /\ b' = [b EXCEPT ![p] = 0] /\ len' = [len EXCEPT ![p] = 0]
               /\ listed' = [listed EXCEPT ![p] = {}]
               /\ held' = [held EXCEPT ![p] = {}]
               /\ UNCHANGED <<locks, length, asked>>

printLocks(p) == FirstByte(p) \/ GetLock(p) \/ LastByte(p)

Next == \/ \E lock \in Lock : lockRequest(lock) \/ lockWait(lock)
        \/ \E p \in Process : Granted(p) \/ quit(p)
        \/ \E p \in Process, pos \in Position : unlock(p, pos) \/ overwrite(p, pos)
        \/ \E p \in Lister : printLocks(p)

Spec == Init /\ [][Next]_vars

-----------------------------------------------------------------------------
\* A list that is printed while others lock and unlock is no picture of one moment,
\* but no lock that another process held all the time is missing from the bytes it
\* has passed, or shown with the wrong type: a byte behind the end the file had at
\* the beginning is not passed.  A byte has one line, and the process's own locks
\* have none (main.c:76-104).
ListIsTrue ==
    \A p \in Lister : commandAt[p] = "scan" =>
        /\ \A k, l \in listed[p] : k.pos = l.pos => k = l /\ k.owner # p
        /\ \A l \in held[p] : l.pos < b[p] =>
              \E k \in listed[p] : /\ k.pos = l.pos /\ k.type = l.type
                                   /\ l.type = "write" => k = l
=============================================================================
