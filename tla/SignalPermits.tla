---------------------------- MODULE SignalPermits ----------------------------
(***************************************************************************)
(* cw04/zad2: a parent that waits until K of its children have asked for    *)
(* permission (SIGUSR1), then permits them all (SIGUSR2) and every later     *)
(* one at once.  The parent's handler runs between any two of its           *)
(* statements.  SIGUSR1 is a standard signal: while one is pending another  *)
(* is dropped, sigqueue or not.                                             *)
(*                                                                          *)
(* The model starts when all children have been forked: each of them sleeps *)
(* for at least two seconds before it does anything.  The real-time signal  *)
(* a child sends when it ends is only printed, but interrupts waitpid.      *)
(***************************************************************************)
EXTENDS Naturals

CONSTANTS N, K          \* the arguments: children, requests to wait for

Children == 0 .. N - 1
Nobody == N

VARIABLES parentAt,     \* where the parent is: "spin", "scan", "permit", "wait", "end"
          i,            \* its loop variable
          req, CReq, permAfter,
          pendingUsr1,  \* the child whose SIGUSR1 is pending, or Nobody
          pendingRt,    \* real-time signals queued for the parent
          childAt,      \* "work", "asked" (before the second sleep), "asleep",
                        \* "told", "gone"
          pendingUsr2,  \* children with SIGUSR2 pending
          handled,      \* children whose request the handler has seen
          permits       \* how often each child was sent SIGUSR2

vars == <<parentAt, i, req, CReq, permAfter, pendingUsr1, pendingRt, childAt,
          pendingUsr2, handled, permits>>

parentLocal == <<parentAt, i>>
childVars == <<childAt, pendingUsr1, pendingRt>>

Init == /\ parentAt = "spin"
        /\ i = 0
        /\ req = 0
        /\ CReq = [c \in Children |-> 0]
        /\ permAfter = 0
        /\ pendingUsr1 = Nobody
        /\ pendingRt = 0
        /\ childAt = [c \in Children |-> "work"]
        /\ pendingUsr2 = {}
        /\ handled = {}
        /\ permits = [c \in Children |-> 0]

\* kill(pid, SIGUSR2); a child that is gone gets nothing.
Permit(c) == /\ permits' = [permits EXCEPT ![c] = @ + 1]
             /\ pendingUsr2' = IF childAt[c] = "gone" THEN pendingUsr2
                               ELSE pendingUsr2 \cup {c}

-----------------------------------------------------------------------------
\* waitpid, if the parent is in it, returns with EINTR when a handler has run,
\* and the loop goes on to the next child.
Interrupted == i' \in IF parentAt = "wait" /\ i < N THEN {i, i + 1} ELSE {i}

\* Mutant: the handler always remembers the request.
HandleUsr1Always ==
    /\ pendingUsr1 # Nobody
    /\ parentAt # "end"
    /\ pendingUsr1' = Nobody
    /\ handled' = handled \cup {pendingUsr1}
    /\ CReq' = [CReq EXCEPT ![pendingUsr1] = 1]
    /\ Permit(pendingUsr1)
    /\ req' = req + 1
    /\ Interrupted
    /\ UNCHANGED <<parentAt, permAfter, childAt, pendingRt>>

\* handler, SIGUSR1, in the parent.
HandleUsr1 ==
    /\ pendingUsr1 # Nobody
    /\ parentAt # "end"
    /\ pendingUsr1' = Nobody
    /\ handled' = handled \cup {pendingUsr1}
    /\ IF permAfter = 1
       THEN Permit(pendingUsr1) /\ UNCHANGED CReq
       ELSE /\ CReq' = [CReq EXCEPT ![pendingUsr1] = 1]
            /\ UNCHANGED <<permits, pendingUsr2>>
    /\ req' = req + 1
    /\ Interrupted
    /\ UNCHANGED <<parentAt, permAfter, childAt, pendingRt>>

HandleRt == /\ pendingRt > 0
            /\ parentAt # "end"
            /\ pendingRt' = pendingRt - 1
            /\ Interrupted
            /\ UNCHANGED <<parentAt, req, CReq, permAfter, pendingUsr1, childAt,
                           pendingUsr2, handled, permits>>

\* while (req < K);
Enough == /\ parentAt = "spin" /\ req >= K
          /\ parentAt' = "scan"
          /\ UNCHANGED <<i, req, CReq, permAfter, childVars, pendingUsr2, handled, permits>>

Scan == /\ parentAt = "scan" /\ i < N
        /\ IF CReq[i] = 1 THEN Permit(i) ELSE UNCHANGED <<permits, pendingUsr2>>
        /\ i' = i + 1
        /\ UNCHANGED <<parentAt, req, CReq, permAfter, childVars, handled>>

Scanned == /\ parentAt = "scan" /\ i = N
           /\ parentAt' = "wait"
           /\ permAfter' = 1
           /\ i' = 0
           /\ UNCHANGED <<req, CReq, childVars, pendingUsr2, handled, permits>>

WaitPid == /\ parentAt = "wait" /\ i < N
           /\ childAt[i] = "gone"
           /\ i' = i + 1
           /\ UNCHANGED <<parentAt, req, CReq, permAfter, childVars, pendingUsr2,
                          handled, permits>>

End == /\ parentAt = "wait" /\ i = N
       /\ parentAt' = "end"
       /\ UNCHANGED <<i, req, CReq, permAfter, childVars, pendingUsr2, handled, permits>>

\* SIGINT: kill(SIGKILL, pid) has its arguments in the wrong order, the children
\* live on.  They have inherited the handler.
quit == /\ parentAt # "end"
        /\ parentAt' = "end"
        /\ UNCHANGED <<i, req, CReq, permAfter, childVars, pendingUsr2, handled, permits>>

Parent == HandleUsr1 \/ HandleRt \/ Enough \/ Scan \/ Scanned \/ WaitPid \/ End \/ quit

-----------------------------------------------------------------------------
ChildGoto(c, from, to) == /\ childAt[c] = from
                          /\ childAt' = [childAt EXCEPT ![c] = to]

parentVars == <<parentLocal, req, CReq, permAfter, handled, permits>>

\* sigqueue(parentPid, SIGUSR1, i)
Ask(c) == /\ ChildGoto(c, "work", "asked")
          /\ pendingUsr1' = IF pendingUsr1 = Nobody /\ parentAt # "end" THEN c
                            ELSE pendingUsr1
          /\ UNCHANGED <<parentVars, pendingRt, pendingUsr2>>

Doze(c) == /\ ChildGoto(c, "asked", "asleep")
           /\ UNCHANGED <<parentVars, pendingUsr1, pendingRt, pendingUsr2>>

\* The handler of SIGUSR2 only prints; it cuts the sleep short, if the child
\* has got that far.  sleep returns whole seconds: with less than one left it
\* returns 0, as if the time were up.
Told(c) == /\ c \in pendingUsr2
           /\ \/ childAt[c] = "asleep" /\ childAt' = [childAt EXCEPT ![c] = "told"]
              \/ UNCHANGED childAt
           /\ pendingUsr2' = pendingUsr2 \ {c}
           /\ UNCHANGED <<parentVars, pendingUsr1, pendingRt>>

\* sleep returns 0: the child gives up.
GiveUp(c) == /\ ChildGoto(c, "asleep", "gone")
             /\ pendingUsr2' = pendingUsr2 \ {c}
             /\ UNCHANGED <<parentVars, pendingUsr1, pendingRt>>

\* sleep returns what is left: the child sends a real-time signal and exits.
Leave(c) == /\ ChildGoto(c, "told", "gone")
            /\ pendingRt' = IF parentAt = "end" THEN pendingRt ELSE pendingRt + 1
            /\ pendingUsr2' = pendingUsr2 \ {c}
            /\ UNCHANGED <<parentVars, pendingUsr1>>

\* SIGINT in the child.
QuitChild(c) == /\ childAt[c] # "gone"
                /\ ChildGoto(c, childAt[c], "gone")
                /\ pendingUsr2' = pendingUsr2 \ {c}
                /\ UNCHANGED <<parentVars, pendingUsr1, pendingRt>>

Child(c) == Ask(c) \/ Doze(c) \/ Told(c) \/ GiveUp(c) \/ Leave(c) \/ QuitChild(c)

\* All is over, or requests have been dropped and the parent spins for ever.
Finished == /\ parentAt = "end" \/ (parentAt = "spin" /\ pendingUsr1 = Nobody /\ req < K)
            /\ \A c \in Children : childAt[c] = "gone"
            /\ UNCHANGED vars

Next == Parent \/ (\E c \in Children : Child(c)) \/ Finished

Spec == Init /\ [][Next]_vars

-----------------------------------------------------------------------------
\* Nobody is permitted without having asked, before K requests, or twice: a
\* request is answered by the scan or by the handler, never by both; and a
\* request that goes unanswered once the parent accepts at once is one whose
\* handler ran during the scan, after the scan had passed it, so it is in CReq
\* (main.c:20-29, 110-120).
PermitsFollowRequests ==
    /\ \A c \in Children :
          /\ permits[c] <= 1
          /\ permits[c] = 1 => c \in handled /\ req >= K
          /\ c \in handled /\ permits[c] = 0 => CReq[c] = 1
    /\ parentAt = "scan" => \A c \in Children : permits[c] = 1 => c < i /\ CReq[c] = 1
=============================================================================
