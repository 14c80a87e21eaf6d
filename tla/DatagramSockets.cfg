\* One client of each socket.
SPECIFICATION Spec
CONSTANTS
    LocalClient = {l1}
    InetClient = {n1}
    QueueSize = 2
    MaxTasks = 1
PROPERTY BothSocketsServed
