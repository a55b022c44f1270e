CONSTANTS
    c1 = c1
    Ctids = {c1}
    Conns = {k1, k2}
    Tuples = {k1, k2}
    CtidOf <- OneCtid
    TupleOf <- OwnTuple
    Packets = {p1}
    NoConn = NoConn
    MaxSessions = 2
    MaxEvents = 1
SPECIFICATION FairSpec
PROPERTY NoLeak
