\* SIGINT may arrive anywhere.  The system may stop: that is the question.
SPECIFICATION InterruptSpec
CONSTANTS
    Client = {c1, c2}
    NoPid = NoPid
    Chairs = 2
    CutsNumber = 1
    InterruptAt = {"test", "check", "lock", "stat", "wake1", "wake2", "sit",
                   "push", "unlock", "uncheck", "suspend"}
INVARIANT NoDeadlock
CHECK_DEADLOCK FALSE
