CONSTANTS
    Base = 2
    MAX_MQTT_PACKET_SIZE = 9
    Sizes <- EdgeSizes
    MaxPackets = 2
SPECIFICATION Spec
INVARIANT
    InStep
