CONSTANT MaxStarts = 3
SPECIFICATION ClassdFairSpec
CHECK_DEADLOCK FALSE
INVARIANTS
    ReconnectPending
PROPERTIES
    OneDaemon
    RestartedUnlessDropped
    SocketComesBack
