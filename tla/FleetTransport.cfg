\* One device, reached over MQTT and HTTP.
SPECIFICATION Spec
CONSTANTS
    a = a
    p = p
    u = u
    v = v
    b = b
    Brokers = {b}
    None = None
    Ids = {a}
    Agents = {a}
    Publishers = {a}
    Urls = {u, v}
    HostOf <- MCHostOf
    Entries <- MCEntry
    Edits = {}
    Handlers = {"web"}
    Modes = {"auto", "mqtt"}
    MqttChoices <- MCSettings
    Networks = {"offline", "lan", "broker"}
    MaxDevices = 1
    MaxDoublings = 1
    FreshTicks = 1
    MaxRetry = 2
    MaxInbox = 2
INVARIANTS
    
    OfflineIsLastWord
PROPERTIES
    AutoNeverBlank
    DeadFades
    
