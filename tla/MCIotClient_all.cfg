CONSTANTS
    Topics = {t1}
    Msgs = {m1}
    Configs <- AllConfigs
    Ops <- AllOps
    FaultKinds <- AllFaults
    MaxPacketId = 3
    MaxFaults = 2
SPECIFICATION FairSpec
INVARIANTS
    TypeOK
    NotStuck
    ConnectFromScratch
    AckIsForThisCommand
    ResendOnlyQoS2
    PublishedOnce
PROPERTIES
    ImplementsSession
    CallsReturn
    Reconnects
