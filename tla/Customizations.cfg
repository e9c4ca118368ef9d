\* Two apps that are installed, updated, removed and linked again while they are
\* indexed.
CONSTANTS
    a1 = a1
    b1 = b1
    b2 = b2
    Apps = {a1, a2}
    Blobs = {b1, b2}
    Chunks <- MCChunks
    MaxTime = 2
    Restored <- MCRestored
    Asked <- MCAsked
    NoApps = NoApps
    NoFile = NoFile
    All = All
SPECIFICATION Spec
INVARIANTS
    TypeOK
    ListedIsCurrent
PROPERTIES
    ChunkAsListed
    CatchesUp
