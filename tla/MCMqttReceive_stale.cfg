CONSTANTS
    m1 = m1
    m2 = m2
    m3 = m3
    Topics = {}
    Msgs <- LastTwo
    QoS2Msgs = {m2, m3}
    Window = 1
    MAX_INCOMING_QOS2_MESSAGES = 2
    SessionKinds = {TRUE}
    CommandTimeouts = {"shorter"}
    FaultKinds <- AllFaults
    MaxFaults = 1
    MaxPacketId = 1
SPECIFICATION Spec
INVARIANT
    MessageArrives
