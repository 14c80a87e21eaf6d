\* The table of the code, and three clients: it is never full, so that no read
\* goes past its end.
SPECIFICATION Spec
CONSTANTS
    Client = {c1, c2, c3}
    MAX_CLIENTS = 4
    MAX_QUEUESIZE = 10
    Terminal = Terminal
    ServerQueue = ServerQueue
    Closed = Closed
INVARIANT LoggedInStaysConnected
CHECK_DEADLOCK FALSE
