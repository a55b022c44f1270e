CONSTANTS
    q1 = q1
    Queues = {q1}
    Conntrack = conntrack
    Netlogger = netlogger
    classify = classify
    stats = stats
    Plugins = {classify, stats}
    Stats = stats
    p1 = p1
    NoPlay = NoPlay
    Plays = {p1}
    Ctids = {}
    MaxTroubles = 1
SPECIFICATION FairSpec
CHECK_DEADLOCK FALSE
INVARIANTS
    PluginsThereForCallbacks
    DeadThreadMeansShutdown
    RulesGoneAtExit
PROPERTIES
    Exits
