\* One service that stays, read and written by clients; calls may fail.
CONSTANTS
    s1 = s1  s2 = s2  o1 = o1  o2 = o2  o3 = o3  v0 = v0  v1 = v1
    solarcharger = solarcharger  vebus = vebus  system = system
    inst = inst  power = power  serial = serial  tunnel = tunnel
    None = None  Absent = Absent  Null = Null  Unseen = Unseen
    Root = Root  SubtreeRoot = SubtreeRoot
    Services = {s1}
    Owners = {o1}
    Paths = {inst, power, serial, tunnel}
    Values = {v0, v1}
    FirstValue = v0
    Mortal = {}
    Fixed = {inst}
    Silent = {tunnel}
    Late = {serial}
    Subtree = {power}
    Legacy = {s1}
    Unreliable = TRUE
    Serials = {1, 2, 3}
    MaxInbox = 3
    Types = {system}
    ServiceType <- MCServiceType
    Instances = {0, 1}
    DeviceInstance <- MCDeviceInstance
    InstancePath = inst
    NoInstance = 0
    RetainedTopics <- MCRetained
    BlockedTopics <- MCBlocked
    ReadPaths = {power, tunnel, SubtreeRoot}
    WritePaths = {power}
    KeepAlives = {TRUE}
    MaxReads = 1
    MaxQueued = 2
SPECIFICATION Spec
SYMMETRY OwnerSymmetry
INVARIANTS
    CacheFollowsService
