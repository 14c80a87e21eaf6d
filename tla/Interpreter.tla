----------------------------- MODULE Interpreter -----------------------------
(***************************************************************************)
(* cw03/zad1 and zad2: an interpreter that reads a script line by line and  *)
(* runs each command in a child.  When exec fails the child does not exit:  *)
(* it returns into the loop of main with the rest of the script in its copy *)
(* of the input buffer, and its parent waits for it.  So interpreters nest. *)
(*                                                                          *)
(* The script fits into one buffer of stdio.  One environment variable is   *)
(* enough; its value is the number of the line that set it.  Lines:         *)
(*   "set", "unset"  "#name value" and "#name"                              *)
(*   "run", "fail"   a command that can be executed, and ends with status 0 *)
(*                   or not: nothing depends on it                          *)
(*   "full"          one whose words fill the block of cmd: cmd[index]=NULL *)
(*                   then writes past its end and may crash the interpreter *)
(*   "bad"           one that cannot be executed                            *)
(*   "long"          one with too many arguments, which is skipped          *)
(*   "blank"         no word at all: strlen(NULL), the interpreter crashes  *)
(***************************************************************************)
EXTENDS Naturals, Sequences, FiniteSets

CONSTANT MaxLines

Line == 1 .. MaxLines
Kinds == {"set", "unset", "run", "fail", "full", "bad", "long", "blank"}

VARIABLES script,   \* the kind of each line
          stack,    \* the interpreters, the last one runs and the others wait
          ran       \* the commands run or tried, each with the value it found

vars == <<script, stack, ran>>

Init == /\ \E len \in Line : script \in [1 .. len -> Kinds]
        /\ stack = <<[lineNumber |-> 1, value |-> 0]>>
        /\ ran = <<>>

Top == stack[Len(stack)]
Pop == SubSeq(stack, 1, Len(stack) - 1)
NextLine == [Top EXCEPT !.lineNumber = @ + 1]

\* The line that getline gives to the interpreter that runs.
At(kind) == /\ stack # <<>>
            /\ Top.lineNumber <= Len(script)
            /\ script[Top.lineNumber] = kind

-----------------------------------------------------------------------------
\* Mutant: setenv does not overwrite.
addVariableOnce ==
    /\ At("set") \/ At("unset")
    /\ stack' = Append(Pop, [NextLine EXCEPT
                  !.value = IF At("unset") THEN 0
                            ELSE IF Top.value # 0 THEN Top.value ELSE Top.lineNumber])
    /\ UNCHANGED <<script, ran>>

\* setenv and unsetenv.
addVariable == /\ At("set") \/ At("unset")
               /\ stack' = Append(Pop, [NextLine EXCEPT
                             !.value = IF At("set") THEN Top.lineNumber ELSE 0])
               /\ UNCHANGED <<script, ran>>

\* The child has the environment of its parent.
Command == ran' = Append(ran, [line |-> Top.lineNumber, value |-> Top.value])

\* fork, exec and wait; in zad2 the child sets its own limits in between.  Of the
\* status only WIFEXITED is looked at, and only for a message.
Run == /\ At("run") \/ At("fail") \/ At("full")
       /\ Command
       /\ \/ stack' = Append(Pop, NextLine)
          \/ At("full") /\ stack' = Pop
       /\ UNCHANGED script

\* exec fails: the child is an interpreter of the rest of the script.
RunBad == /\ At("bad")
          /\ Command
          /\ stack' = Append(Append(Pop, NextLine), NextLine)
          /\ UNCHANGED script

TooLong == /\ At("long")
           /\ stack' = Append(Pop, NextLine)
           /\ UNCHANGED <<script, ran>>

\* The end of the script, or a crash; a parent only sees that its child is gone.
End == /\ stack # <<>>
       /\ Top.lineNumber > Len(script) \/ At("blank")
       /\ stack' = Pop
       /\ UNCHANGED <<script, ran>>

evaluate == addVariable \/ Run \/ RunBad \/ TooLong \/ End

Next == evaluate \/ (stack = <<>> /\ UNCHANGED vars)

Spec == Init /\ [][Next]_vars /\ WF_vars(evaluate)

-----------------------------------------------------------------------------
Before(l, kinds) == {m \in 1 .. l - 1 : script[m] \in kinds}

ValueAt(l) == LET sets == Before(l, {"set", "unset"})
                  last == CHOOSE m \in sets : \A k \in sets : k <= m
              IN IF sets = {} \/ script[last] = "unset" THEN 0 ELSE last

\* How often line l is run if nobody crashes before.
Commands == {"run", "fail", "full", "bad"}
Times(l) == IF script[l] \in Commands THEN 2 ^ Cardinality(Before(l, {"bad"})) ELSE 0

Runs(l) == {m \in 1 .. Len(ran) : ran[m].line = l}

\* What the code does with failures, none of which ends it as cw03/Zadanie3:31
\* demands: every interpreter that gets to a line runs it, and every command before
\* it that could not be executed has doubled their number.  Behind a line that
\* crashes the interpreters nothing is run (cw03/zad2/main.c:91-100, 153-158).
LinesRunDoubled ==
    stack = <<>> =>
        \A l \in 1 .. Len(script) :
            /\ Cardinality(Runs(l)) <= Times(l)
            /\ Before(l, {"blank", "full"}) = {} => Cardinality(Runs(l)) = Times(l)
            /\ Before(l, {"blank"}) # {} => Runs(l) = {}
            /\ \A m \in Runs(l) : ran[m].value = ValueAt(l)

\* Whichever interpreter runs a command, the child finds the environment that the
\* lines before the command describe (cw03/Zadanie3:7-19), although there is one
\* copy of it in each interpreter.  And a command that nothing before it has
\* failed or crashed is run exactly once by the time the script is through
\* (cw03/Zadanie3:31; cw03/zad2/main.c:32-126).
CommandsFindTheirEnvironment ==
    /\ \A m \in 1 .. Len(ran) : ran[m].value = ValueAt(ran[m].line)
    /\ stack = <<>> =>
          \A l \in 1 .. Len(script) :
              script[l] \in Commands /\ Before(l, {"fail", "full", "bad", "blank"}) = {} =>
                  Cardinality(Runs(l)) = 1

\* "W przeciwnym wypadku interpreter wyswietla komunikat o bledzie i konczy prace"
\* (cw03/Zadanie3:31, of a command that does not end with status 0: otherwise the
\* interpreter prints an error message and ends): such a command is the last one.
EndsAtFailure ==
    \A m \in 1 .. Len(ran) - 1 : script[ran[m].line] \notin {"fail", "bad"}
=============================================================================
