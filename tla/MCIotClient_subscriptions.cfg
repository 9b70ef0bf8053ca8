CONSTANTS
    Topics = {t1, t2}
    Msgs = {m1}
    Configs <- AllConfigs
    Ops <- AllOps
    FaultKinds <- SessionKept
    MaxPacketId = 3
    MaxFaults = 2
SPECIFICATION Spec
SYMMETRY Symmetry
INVARIANTS
    SubscriptionsAgree
