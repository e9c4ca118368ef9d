\* A read of an inner object under way while its service restarts.
CONSTANTS
    s1 = s1  s2 = s2  o1 = o1  o2 = o2  o3 = o3  v0 = v0  v1 = v1
    solarcharger = solarcharger  vebus = vebus  system = system
    inst = inst  power = power  serial = serial  tunnel = tunnel
    None = None  Absent = Absent  Null = Null  Unseen = Unseen
    Root = Root  SubtreeRoot = SubtreeRoot
    Services = {s1}
    Owners = {o1, o2}
    Paths = {inst, power}
    Values = {v0, v1}
    FirstValue = v0
    Mortal = {s1}
    Fixed = {inst, power}
    Silent = {}
    Late = {}
    Subtree = {power}
    Legacy = {}
    Unreliable = FALSE
    Serials = {1, 2, 3, 4}
    MaxInbox = 3
    Types = {solarcharger}
    ServiceType <- MCServiceType
    Instances = {0, 1}
    DeviceInstance <- MCDeviceInstance
    InstancePath = inst
    NoInstance = 0
    RetainedTopics = {}
    BlockedTopics = {}
    ReadPaths = {SubtreeRoot}
    WritePaths = {}
    KeepAlives = {}
    MaxReads = 1
    MaxQueued = 0
SPECIFICATION Spec
SYMMETRY OwnerSymmetry
INVARIANTS
    InstanceIsPublished
CHECK_DEADLOCK FALSE
