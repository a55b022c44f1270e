CONSTANTS
    p1 = p1
    p2 = p2
    p3 = p3
    p4 = p4
    k1 = k1
    k2 = k2
    localMutex = localMutex
    NoPacket = NoPacket
    Packets = {p1, p2, p3, p4}
    Addrs = {k1, k2}
    KeyOf <- ServerOf
    Mutexes = {localMutex}
    MutexOf <- LocalMutex
SPECIFICATION CacheFairSpec
INVARIANTS
    AttachesFetched
PROPERTIES
    NeverReplaced
    AllServed
