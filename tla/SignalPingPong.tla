--------------------------- MODULE SignalPingPong ---------------------------
(***************************************************************************)
(* cw04/zad3: a parent sends SIG1 to its child L times and then SIG2; the   *)
(* child sends every SIG1 back and ends on SIG2.  Type says how: 1 and 2    *)
(* use SIGUSR1 and SIGUSR2 (kill or sigqueue), of which one at most is      *)
(* pending; 3 uses two real-time signals, which queue.                      *)
(***************************************************************************)
EXTENDS Naturals

CONSTANT L              \* first argument

VARIABLES Type,         \* second argument
          pingAt,       \* where the parent is: "send", "count", "sig2", "wait", "over",
                        \* "quit"
          PScounter, PRcounter, CRcounter,
          pongAt,       \* where the child is: "spin", "handler" (CRcounter counted,
                        \* the answer not yet sent), "gone"
          toChild,      \* SIG1 pending for the child, or sent when it was gone,
          toParent,     \* and the same for the parent
          sig2          \* SIG2 is pending for the child

vars == <<Type, pingAt, PScounter, PRcounter, CRcounter, pongAt, toChild, toParent, sig2>>

counters == <<PScounter, PRcounter, CRcounter>>

Init == /\ Type \in 1 .. 3
        /\ pingAt = IF L > 0 THEN "send" ELSE "sig2"
        /\ PScounter = 0 /\ PRcounter = 0 /\ CRcounter = 0
        /\ pongAt = "spin"
        /\ toChild = 0 /\ toParent = 0
        /\ sig2 = FALSE

\* Mutant: real-time signals merge too.
PendingMerged(n) == 1

\* One more signal for a process that has n pending.
Pending(n) == IF Type = 3 THEN n + 1 ELSE 1

ParentLives == pingAt \notin {"over", "quit"}

-----------------------------------------------------------------------------
\* kill or sigqueue of SIG1; the sleep that follows ends early on an answer.
SendSig1 == /\ pingAt = "send"
            /\ pingAt' = "count"
            /\ toChild' = Pending(toChild)
            /\ UNCHANGED <<Type, counters, pongAt, toParent, sig2>>

Count == /\ pingAt = "count"
         /\ PScounter' = PScounter + 1
         /\ pingAt' = IF PScounter' < L THEN "send" ELSE "sig2"
         /\ UNCHANGED <<Type, PRcounter, CRcounter, pongAt, toChild, toParent, sig2>>

SendSig2 == /\ pingAt = "sig2"
            /\ pingAt' = "wait"
            /\ sig2' = TRUE
            /\ UNCHANGED <<Type, counters, pongAt, toChild, toParent>>

Wait == /\ pingAt = "wait" /\ pongAt = "gone"
        /\ pingAt' = "over"
        /\ UNCHANGED <<Type, counters, pongAt, toChild, toParent, sig2>>

\* handler, SIG1 from the child.  A wait it interrupts returns with EINTR.
ParentHandler ==
    /\ toParent > 0 /\ ParentLives
    /\ toParent' = toParent - 1
    /\ PRcounter' = PRcounter + 1
    /\ pingAt' \in IF pingAt = "wait" THEN {"wait", "over"} ELSE {pingAt}
    /\ UNCHANGED <<Type, PScounter, CRcounter, pongAt, toChild, sig2>>

-----------------------------------------------------------------------------
\* handler, SIG1 from the parent; SIG1 is blocked until it has returned.
ChildCounts == /\ toChild > 0 /\ pongAt = "spin"
               /\ toChild' = toChild - 1
               /\ CRcounter' = CRcounter + 1
               /\ pongAt' = "handler"
               /\ UNCHANGED <<Type, pingAt, PScounter, PRcounter, toParent, sig2>>

ChildAnswers == /\ pongAt = "handler"
                /\ pongAt' = "spin"
                /\ toParent' = Pending(toParent)
                /\ UNCHANGED <<Type, pingAt, counters, toChild, sig2>>

\* handler, SIG2: sa_mask is empty, so it may interrupt the handler of SIG1.
ChildExits == /\ sig2 /\ pongAt # "gone"
              /\ sig2' = FALSE
              /\ pongAt' = "gone"
              /\ UNCHANGED <<Type, pingAt, counters, toChild, toParent>>

\* SIGINT.  quit would kill the child, but CPid is never set: the child of a
\* parent that ends like this spins until it gets a SIGINT of its own.
quit == /\ ParentLives
        /\ pingAt' = "quit"
        /\ UNCHANGED <<Type, counters, pongAt, toChild, toParent, sig2>>

QuitChild == /\ pongAt # "gone"
             /\ pongAt' = "gone"
             /\ UNCHANGED <<Type, pingAt, counters, toChild, toParent, sig2>>

Over == ~ParentLives /\ UNCHANGED vars

Next == \/ SendSig1 \/ Count \/ SendSig2 \/ Wait \/ ParentHandler \/ quit
        \/ ChildCounts \/ ChildAnswers \/ ChildExits \/ QuitChild \/ Over

Spec == Init /\ [][Next]_vars

-----------------------------------------------------------------------------
\* Every SIG1 is somewhere: what was sent is counted by the child or pending,
\* what the child counted is counted by the parent, pending, or in a handler that
\* SIG2 or SIGINT may have cut short (one answer at most); a parent that SIGINT
\* has ended may not have counted its last.  With real-time signals these are
\* equations, with standard ones bounds, because signals merge (main.c:19-48,
\* 94-125).
SignalsAccountedFor ==
    LET uncounted == CASE pingAt = "count" -> {1}
                       [] pingAt = "quit" -> {0, 1}
                       [] OTHER -> {0}
        arrived == CRcounter + toChild
        due     == CRcounter - (IF pongAt = "handler" THEN 1 ELSE 0)
        back    == PRcounter + toParent
    IN  /\ \E u \in uncounted : /\ arrived <= PScounter + u
                                /\ (Type = 3 => arrived = PScounter + u)
        /\ back <= due
        /\ Type = 3 => back = due \/ (pongAt = "gone" /\ back + 1 = due)
=============================================================================
