\* Two entries compete for the network task; nobody uses MQTT.
SPECIFICATION Spec
CONSTANTS
    a = a
    p = p
    u = u
    v = v
    b = b
    Brokers = {b}
    None = None
    Ids = {a, p}
    Agents = {a}
    Publishers = {}
    Urls = {u, v}
    HostOf <- MCHostOf
    Entries <- MCEntries
    Edits <- MCEdits
    Handlers = {"web", "screen"}
    Modes = {"http", "mqtt"}
    MqttChoices <- MCOff
    Networks = {"offline", "lan"}
    MaxDevices = 2
    MaxDoublings = 1
    FreshTicks = 0
    MaxRetry = 1
    MaxInbox = 2
INVARIANTS
    TypeOK
    SamplesAtHome
PROPERTIES
    KeepsPolling
