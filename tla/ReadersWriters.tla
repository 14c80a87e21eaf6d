--------------------------- MODULE ReadersWriters ---------------------------
(***************************************************************************)
(* What cw09/Zadanie9 asks of its two programs: any number of readers may   *)
(* use the table together, a writer uses it alone.                          *)
(***************************************************************************)
CONSTANTS Readers, Writers

VARIABLES reading,   \* the readers that use the table
          writing    \* the writers that use the table

vars == <<reading, writing>>

Init == /\ reading = {}
        /\ writing = {}

StartRead(r) == /\ r \notin reading
                /\ writing = {}
                /\ reading' = reading \cup {r}
                /\ UNCHANGED writing

EndRead(r) == /\ r \in reading
              /\ reading' = reading \ {r}
              /\ UNCHANGED writing

StartWrite(w) == /\ reading = {}
                 /\ writing = {}
                 /\ writing' = {w}
                 /\ UNCHANGED reading

EndWrite(w) == /\ w \in writing
               /\ writing' = writing \ {w}
               /\ UNCHANGED reading

Next == \/ \E r \in Readers : StartRead(r) \/ EndRead(r)
        \/ \E w \in Writers : StartWrite(w) \/ EndWrite(w)

Spec == Init /\ [][Next]_vars
=============================================================================
