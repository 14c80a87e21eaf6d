\* The bounds of MCBarberCluster.cfg.
SPECIFICATION ClusterSpec
CONSTANTS
    Clients = {k1, k2}
    Local = {k1}
    ClosedFd = ClosedFd
    MAXCLIENTS = 3
    MaxStarts = 3
    MaxTasks = 1
INVARIANT AcceptedIsListed
