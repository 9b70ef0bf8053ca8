CONSTANTS
    Topics = {t1, t2}
    Msgs = {m1}
    Configs <- PersistentQoS1
    Ops <- NoUnsubscribe
    FaultKinds <- AllFaults
    MaxPacketId = 3
    MaxFaults = 2
SPECIFICATION Spec
INVARIANT SubscriptionsRestored
