CONSTANTS
    Topics = {t1}
    Msgs = {m1}
    Configs <- PersistentQoS2
    Ops <- PublishLoop
    FaultKinds <- DropOnly
    MaxPacketId = 3
    MaxFaults = 2
SPECIFICATION Spec
INVARIANT QoS2AtMostOnce
