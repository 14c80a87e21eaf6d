\* The ring: three processes and three chairs, so that it wraps with one, two and
\* three of its slots in use.  The table: three readers and three writers each.  The
\* queues: three clients, of which the third is denied.
SPECIFICATION MCSpec
CONSTANTS
    Client = {p1, p2, p3}
    NoPid = NoPid
    Chairs = 3
    Full = Full
    Empty = Empty
    Ok = Ok
    Readers = {r1, r2, r3}
    Writers = {w1, w2, w3}
    Nobody = Nobody
    Clients = {c1, c2, c3}
    NoClient = NoClient
    MAX_CLIENTS = 2
    Service = {"ServiceEcho", "ServiceUpper"}
INVARIANTS RingOK CountersOK NoLostWakeUp BatonOK WriterNotForgotten OrdersOK AnswersReachTheAsker
PROPERTIES QueueSpec WritersFirst TableSpec SomeWriterWrites SemTableSpec ReadersAreServed EveryOrderAnswered
