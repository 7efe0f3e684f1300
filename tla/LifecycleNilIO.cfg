\* The comment on Container.IO, with one failing operation and one restart.
SPECIFICATION Spec
CONSTANTS
    t1 = t1
    Threads = {t1}
    Loop = loop
    ExitChannelSize = 1
    MaxFaults = 1
    MaxCrashes = 1
    MaxOOMs = 0
INVARIANTS NilIOOnlyUnknown
