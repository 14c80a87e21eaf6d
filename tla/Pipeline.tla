------------------------------ MODULE Pipeline ------------------------------
(***************************************************************************)
(* cw05/zad1: a shell for one line of commands separated by "|".  It runs   *)
(* the commands one after the other, each between two pipes, and waits for  *)
(* each before it starts the next.  pipe returns the lowest free            *)
(* descriptors, and the shell moves and closes its own standard input, so   *)
(* the table of descriptors is modelled number by number.                   *)
(*                                                                          *)
(* A command reads its input to the end, or not at all, and then writes     *)
(* some units; a unit is the index of the command that wrote it.  A command *)
(* that cannot be executed writes its error message, one unit.              *)
(***************************************************************************)
EXTENDS Naturals, Sequences

CONSTANTS MAX_CMDS,
          Emits,        \* how many units a command may write
          PipeSize      \* how many units a pipe holds

Fd == 0 .. 7
Closed == <<0, "closed">>
Tty == <<0, "tty">>
ReadEnd(p) == <<p, "read">>
WriteEnd(p) == <<p, "write">>

VARIABLES commands,     \* what strtok finds in the line
          shellFds,     \* what each descriptor of the shell is open on
          shellAt, cmdNo, \* where the shell is and the index of its command
          fd, last,     \* the last pipe, and the input of the next command
          pipes,        \* the units in each pipe, in the order of their making
          childFds, childAt, got, left, \* descriptors and progress of the child
          terminal      \* the units that reached the terminal

vars == <<commands, shellFds, shellAt, cmdNo, fd, last, pipes, childFds, childAt, got,
          left, terminal>>

AllClosed == [f \in Fd |-> Closed]
AtStart == [f \in Fd |-> IF f <= 2 THEN Tty ELSE Closed]

Init == /\ \E len \in 1 .. MAX_CMDS :
              commands \in [1 .. len -> [reads : BOOLEAN, emits : Emits]]
        /\ shellFds = AtStart
        /\ shellAt = "first" /\ cmdNo = 1
        /\ fd = <<0, 0>> /\ last = 0
        /\ pipes = <<>>
        /\ childFds = AllClosed /\ childAt = "none" /\ got = <<>> /\ left = 0
        /\ terminal = <<>>

Dup2(fds, from, to) == [fds EXCEPT ![to] = fds[from]]
Close(fds, f) == [fds EXCEPT ![f] = Closed]

Lowest(S) == CHOOSE f \in S : \A g \in S : f <= g
Free(fds) == {f \in Fd : fds[f] = Closed}

\* pipe(fd).
MakePipe == LET r == Lowest(Free(shellFds))
                w == Lowest(Free(shellFds) \ {r})
                p == Len(pipes) + 1
            IN /\ fd' = <<r, w>>
               /\ pipes' = Append(pipes, <<>>)
               /\ shellFds' = [shellFds EXCEPT ![r] = ReadEnd(p), ![w] = WriteEnd(p)]

\* Mutant: the test looks at commands[i].
HasThis == cmdNo <= Len(commands)

\* commands[i+1]!=NULL
HasNext == cmdNo < Len(commands)

-----------------------------------------------------------------------------
\* The pipe that is made before the loop and never used.
FirstPipe == /\ shellAt = "first" /\ shellAt' = "loop"
             /\ MakePipe
             /\ UNCHANGED <<commands, cmdNo, last, childFds, childAt, got, left, terminal>>

\* pipe and fork: the child has the shell's descriptors.
Fork == /\ shellAt = "loop" /\ cmdNo <= Len(commands)
        /\ shellAt' = "parent"
        /\ MakePipe
        /\ childFds' = shellFds'
        /\ childAt' = "exec" /\ got' = <<>> /\ left' = commands[cmdNo].emits
        /\ UNCHANGED <<commands, cmdNo, last, terminal>>

\* dup2 and execvp in the child; the last command keeps the terminal.
Exec == /\ childAt = "exec"
        /\ childAt' = IF commands[cmdNo].reads THEN "read" ELSE "write"
        /\ LET in == Dup2(childFds, last, 0)
           IN childFds' = IF HasNext THEN Dup2(in, fd[2], 1) ELSE in
        /\ UNCHANGED <<commands, shellFds, shellAt, cmdNo, fd, last, pipes, got, left,
                       terminal>>

Parent == /\ shellAt = "parent" /\ shellAt' = "wait"
          /\ shellFds' = Dup2(Close(shellFds, fd[2]), fd[1], 0)
          /\ UNCHANGED <<commands, cmdNo, fd, last, pipes, childFds, childAt, got, left,
                         terminal>>

\* wait, close(in), and the rest of the loop: fd[1] is closed already, unless the
\* close of the input made it so.
Wait == /\ shellAt = "wait" /\ shellAt' = "loop"
        /\ childAt = "exited" /\ childAt' = "none"
        /\ shellFds' = Close(Close(shellFds, last), fd[2])
        /\ last' = fd[1]
        /\ cmdNo' = cmdNo + 1
        /\ UNCHANGED <<commands, fd, pipes, childFds, got, left, terminal>>

EndShell == /\ shellAt = "loop" /\ cmdNo > Len(commands)
            /\ shellAt' = "end"
            /\ shellFds' = AllClosed
            /\ UNCHANGED <<commands, cmdNo, fd, last, pipes, childFds, childAt, got, left,
                           terminal>>

-----------------------------------------------------------------------------
(* The command, as far as the shell depends on it. *)

IsOpen(end) == \E f \in Fd : shellFds[f] = end \/ childFds[f] = end
In == childFds[0]
Out == childFds[1]
Units(p) == IF p = 0 THEN <<>> ELSE pipes[p]    \* the terminal gives none

Read == /\ childAt = "read" /\ Units(In[1]) # <<>>
        /\ got' = Append(got, Head(pipes[In[1]]))
        /\ pipes' = [pipes EXCEPT ![In[1]] = Tail(@)]
        /\ UNCHANGED <<commands, shellFds, shellAt, cmdNo, fd, last, childFds, childAt, left,
                       terminal>>

ReadEOF == /\ childAt = "read" /\ Units(In[1]) = <<>> /\ ~IsOpen(WriteEnd(In[1]))
           /\ childAt' = "write"
           /\ UNCHANGED <<commands, shellFds, shellAt, cmdNo, fd, last, pipes, childFds, got,
                          left, terminal>>

\* A write to a full pipe waits; SIGPIPE cannot come, the shell itself has the
\* read end open.
Full == childAt = "write" /\ left > 0 /\ Out # Tty /\ Len(pipes[Out[1]]) = PipeSize

Write == /\ childAt = "write" /\ left > 0 /\ ~Full
         /\ left' = left - 1
         /\ IF Out = Tty THEN terminal' = Append(terminal, cmdNo) /\ UNCHANGED pipes
            ELSE /\ pipes' = [pipes EXCEPT ![Out[1]] = Append(@, cmdNo)]
                 /\ UNCHANGED terminal
         /\ UNCHANGED <<commands, shellFds, shellAt, cmdNo, fd, last, childFds, childAt, got>>

Exit == /\ childAt = "write" /\ left = 0
        /\ childAt' = "exited"
        /\ childFds' = AllClosed
        /\ UNCHANGED <<commands, shellFds, shellAt, cmdNo, fd, last, pipes, got, left,
                       terminal>>

Shell == FirstPipe \/ Fork \/ Parent \/ Wait \/ EndShell
Child == Exec \/ Read \/ ReadEOF \/ Write \/ Exit

\* The shell has ended, or waits for a command that waits for a reader.
Stopped == shellAt = "end" \/ (shellAt = "wait" /\ Full)

Next == Shell \/ Child \/ (Stopped /\ UNCHANGED vars)

Spec == Init /\ [][Next]_vars /\ WF_vars(Shell) /\ WF_vars(Child)

-----------------------------------------------------------------------------
Output(k) == [m \in 1 .. commands[k].emits |-> k]

\* Each command reads what the one before it wrote, all of it and nothing else,
\* and only the last one writes to the terminal, although the shell closes its
\* standard input and gets descriptor 0 back from pipe (main.c:42-54, 64-75).
ReadsItsPredecessor ==
    /\ childAt \in {"write", "exited"} /\ commands[cmdNo].reads =>
          got = IF cmdNo = 1 THEN <<>> ELSE Output(cmdNo - 1)
    /\ shellAt = "end" => terminal = Output(Len(commands))

\* Nobody reads while a command runs.
Fits == \A k \in 1 .. Len(commands) - 1 : commands[k].emits <= PipeSize

\* "interpreter powinien uruchomic wszystkie N polecen w osobnych procesach [...] oczekiwac
\* na zakonczenie wszystkich tych programow" (cw05/Zadanie5:8, the interpreter shall start
\* all the N commands in processes of their own and wait until all of them have
\* ended): every line comes to its end.
EveryLineEnds == <>(shellAt = "end")
=============================================================================
