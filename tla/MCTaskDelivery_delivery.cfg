SPECIFICATION FairSpec
CONSTANTS
    Tasks = {t1}
    Consumers = {c1, c2}
    Prefetch = 1
    Exclusive = FALSE
    MaxRetries = 2
    MaxPublishes = 1
    MaxDisconnects = 1
    MaxRefused = 2
    MaxRestarts = 1
    MaxRequeues = 1
    MaxPurges = 1
INVARIANTS
    NoTaskVanishes
    DeadLettersAreExhausted
PROPERTIES
    EventuallySettled
    DeliversAsPromised
CHECK_DEADLOCK FALSE
