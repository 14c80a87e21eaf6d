\* A line of two commands, the first of which may write one unit more than a pipe
\* holds.
SPECIFICATION Spec
CONSTANTS
    MAX_CMDS = 2
    Emits = {0, 3}
    PipeSize = 2
PROPERTY EveryLineEnds
