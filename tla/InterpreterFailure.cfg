\* A script of three lines holds the failure and a line after it.
SPECIFICATION Spec
CONSTANT MaxLines = 3
INVARIANT EndsAtFailure
