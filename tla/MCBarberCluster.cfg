\* The shop: three clients, two chairs; SIGINT may arrive at a client that holds no
\* semaphore, and at the barber anywhere.  The cluster: one client of each socket,
\* three starts in all, so that a descriptor is used again; one task, since tasks do
\* not meet, except in the order of the queues.
SPECIFICATION MCSpec
CONSTANTS
    Client = {c1, c2, c3}
    NoPid = NoPid
    Chairs = 2
    CutsNumber = 1
    InterruptAt = {"test", "check", "suspend"}
    Clients = {k1, k2}
    Local = {k1}
    ClosedFd = ClosedFd
    MAXCLIENTS = 3
    MaxStarts = 3
    MaxTasks = 1
INVARIANTS ListOK EachTaskInOnePlace
PROPERTY SurvivorsAreServed
