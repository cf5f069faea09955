CONSTANTS
    App = App
    NoMsg = NoMsg
    NoDrain = NoDrain
    Host = Host
    Cron = Cron
    Manual = Manual
    Msgs = {m1, m2, m3}
    Writers <- MCWriters
    Drainers <- MCDrainers
    Categories = {c1, c2}
    MaxMessages = 1
    MaxAttempts = 2
    BatchSize = 1
    TTL = 3
    MaxWait = 1
    MaxFaults = 1
    RepeatAfter = 1
SPECIFICATION FairSpec
CHECK_DEADLOCK FALSE
INVARIANTS
    TypeOK
    QueueIsBounded
PROPERTIES
    DuplicatesAreExcused
    NoSilentLoss
    IncidentKeepsAlerting
