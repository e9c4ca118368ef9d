\* Two services of one type, one without GetItems, that come, go and finally stay.
CONSTANTS
    s1 = s1  s2 = s2  o1 = o1  o2 = o2  o3 = o3  v0 = v0  v1 = v1
    solarcharger = solarcharger  vebus = vebus  system = system
    inst = inst  power = power  serial = serial  tunnel = tunnel
    None = None  Absent = Absent  Null = Null  Unseen = Unseen
    Root = Root  SubtreeRoot = SubtreeRoot
    Services = {s1, s2}
    Owners = {o1, o2}
    Paths = {inst, power}
    Values = {v0, v1}
    FirstValue = v0
    Mortal = {s1}
    Fixed = {inst, power}
    Silent = {}
    Late = {}
    Subtree = {}
    Legacy = {s2}
    Unreliable = FALSE
    Serials = {1, 2, 3, 4}
    MaxInbox = 2
    Types = {solarcharger}
    ServiceType <- MCServiceType
    Instances = {0, 1, 2}
    DeviceInstance <- MCDeviceInstance
    InstancePath = inst
    NoInstance = 0
    RetainedTopics = {}
    BlockedTopics = {}
    ReadPaths = {}
    WritePaths = {}
    KeepAlives = {}
    MaxReads = 0
    MaxQueued = 0
SPECIFICATION FairSpec
INVARIANTS
    RegistryAgreement
    TopicLeadsBack
PROPERTIES
    Discovered
CHECK_DEADLOCK FALSE
