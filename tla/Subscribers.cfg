CONSTANTS
    reporter = reporter
    sni = sni
    Owners = {reporter, sni}
    Packets = {p1, p2}
    PriorityOf <- Priorities
    PriorityLimit = 3
SPECIFICATION SubscribersFairSpec
CHECK_DEADLOCK FALSE
INVARIANTS
    CalledInOrder
    AllAnswered
PROPERTIES
    BypassIffUnsubscribed
    VerdictSpec
    VerdictInTime
