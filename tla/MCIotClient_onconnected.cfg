CONSTANTS
    Topics = {t1}
    Msgs = {m1}
    Configs <- PersistentQoS2
    Ops <- AllOps
    FaultKinds <- AllFaults
    MaxPacketId = 3
    MaxFaults = 2
SPECIFICATION Spec
PROPERTY OnConnectedMeansAccepted
