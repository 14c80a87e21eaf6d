--------------------------- MODULE SignalAlphabet ---------------------------
(***************************************************************************)
(* cw04/zad1: a program that prints the alphabet, forwards or backwards.    *)
(* SIGTSTP turns it round; its handler runs between any two statements of   *)
(* the loop.  up is the only variable that both the loop and the handler    *)
(* use, so the loop has a step for each time it looks at up.                *)
(***************************************************************************)
EXTENDS Integers

CONSTANT MaxSignals     \* how often SIGTSTP is sent

VARIABLES symbol,       \* the character that is printed next
          up,           \* 1 forwards, -1 backwards
          loopAt,       \* where the loop is
          signalled     \* how many SIGTSTP have come

vars == <<symbol, up, loopAt, signalled>>

Letters == 65 .. 90

Init == /\ symbol = 65
        /\ up = 1
        /\ loopAt = "print"
        /\ signalled = 0

LoopGoto(from, to) == /\ loopAt = from
                      /\ loopAt' = to

\* usleep, which a signal only shortens, is part of the step.
PrintSymbol == /\ LoopGoto("print", "top")
               /\ UNCHANGED <<symbol, up, signalled>>

WrapTop == /\ LoopGoto("top", "bottom")
           /\ symbol' = IF up = 1 /\ symbol >= 90 THEN 64 ELSE symbol
           /\ UNCHANGED <<up, signalled>>

\* Mutant: the first letter itself does not wrap.
WrapBottomLate ==
    /\ LoopGoto("bottom", "step")
    /\ symbol' = IF up = -1 /\ symbol < 65 THEN 91 ELSE symbol
    /\ UNCHANGED <<up, signalled>>

WrapBottom == /\ LoopGoto("bottom", "step")
              /\ symbol' = IF up = -1 /\ symbol <= 65 THEN 91 ELSE symbol
              /\ UNCHANGED <<up, signalled>>

Step == /\ LoopGoto("step", "print")
        /\ symbol' = symbol + up
        /\ UNCHANGED <<up, signalled>>

doSIGTSTP == /\ signalled < MaxSignals /\ loopAt # "ended"
             /\ signalled' = signalled + 1
             /\ up' = IF up = 1 THEN -1 ELSE 1
             /\ UNCHANGED <<symbol, loopAt>>

doSIGINT == /\ loopAt # "ended"
            /\ loopAt' = "ended"
            /\ UNCHANGED <<symbol, up, signalled>>

Loop == PrintSymbol \/ WrapTop \/ WrapBottom \/ Step

Next == Loop \/ doSIGTSTP \/ doSIGINT \/ (loopAt = "ended" /\ UNCHANGED vars)

Spec == Init /\ [][Next]_vars

-----------------------------------------------------------------------------
\* A SIGTSTP between the two tests and the addition takes the symbol out of the
\* alphabet (up = 1 wraps to 64, then -1 gives 63), and each further pair of
\* signals that hits an iteration takes it one further.  However far it got, once
\* the signals stop the loop prints letters again, and letters only, because the
\* tests are for order and not for equality (main.c:45-55).
LettersReturn == <>[](loopAt = "print" => symbol \in Letters)
=============================================================================
