\* Stopping a container a restart left in UNKNOWN state, under fair scheduling.
SPECIFICATION FairSpec
CONSTANTS
    t1 = t1
    Threads = {t1}
    Loop = loop
    ExitChannelSize = 1
    MaxFaults = 2
    MaxCrashes = 1
    MaxOOMs = 1
PROPERTIES StopTerminates
