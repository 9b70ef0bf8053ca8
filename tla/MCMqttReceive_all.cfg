CONSTANTS
    m1 = m1
    m2 = m2
    m3 = m3
    Topics = {}
    Msgs <- Three
    QoS2Msgs = {m2, m3}
    Window = 2
    MAX_INCOMING_QOS2_MESSAGES = 2
    SessionKinds = {TRUE, FALSE}
    CommandTimeouts = {"shorter", "longer"}
    FaultKinds <- AllFaults
    MaxFaults = 2
    MaxPacketId = 2
SPECIFICATION FairSpec
INVARIANTS
    ReceiveTypeOK
    DeliveredOnce
    TableMatchesBroker
    AcknowledgedDelivered
    PingNotStale
PROPERTY
    Completed
