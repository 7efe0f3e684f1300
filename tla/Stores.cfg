\* The stores of the plugin, each on its own, with failing operations and restarts.
SPECIFICATION MCSpec
CONSTANTS
    w1 = w1
    w2 = w2
    x1 = x1
    x2 = x2
    i1 = i1
    i2 = i2
    i3 = i3
    Threads <- Workers
    Ids <- Triple
    Names <- Pair
    None = none
    MaxFaults = 2
    MaxRestarts = 2
    Callers <- Workers
    Handler = "handler"
    Tags = {"tag"}
    Contents <- Pair
    RepoDigest <- MCRepoDigest
    MaxCalls = 2
    MaxImageFaults = 1
    MaxImageRestarts = 1
    Keys <- Workers
    MaxTime = 2
    MaxSnapshotFaults = 1
    MaxStepsBack = 1
    Tokens <- MCTokens
    maxInFlight = 2
    cacheTTL = 1
    MaxRequests = 3
    MaxStreamTime = 3
    Bytes <- MCBytes
    MaxInput = 6
    MaxLens = {0, 2, 3, 5}
    defaultBufSize = 3
    minReadBufferSize = 2
    Updaters <- Workers
    Limits = {"low", "high"}
    MaxUpdateFaults = 2
    CRIPaths <- MCCRIPaths
    VolumePaths <- MCVolumePaths
    SystemFiles <- MCSystemFiles
    DefaultMounts <- MCDefaultMounts
    MaxCRIMounts = 2
    RuntimeNames = {"runc", "untrusted", "default"}
    Configs <- MCConfigs
    MaxReconfigs = 1
    Volumes = {"v1", "v2"}
    MaxCreateFaults = 2
    MaxCreateRestarts = 2
    Containers = {"c1", "c2"}
    Sandboxes = {"s1", "s2"}
    SandboxOf <- MCSandboxOf
    LabelsOf <- MCLabelsOf
    IdsWithPrefix <- MCPrefixes
    Filters <- MCFilters
    MaxChanges = 2
SYMMETRY Symmetry
INVARIANTS NamesHeld BlockedOnlyByLeftover ImagesCatchUp SnapshotsSwept    RequestsKept LogRight ListsRight
\* The bounds on calls, time and restarts run out.
CHECK_DEADLOCK FALSE
