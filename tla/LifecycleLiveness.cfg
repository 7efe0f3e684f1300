\* Two concurrent calls, one failing operation, under fair scheduling.
SPECIFICATION FairSpec
CONSTANTS
    t1 = t1
    t2 = t2
    Threads = {t1, t2}
    Loop = loop
    ExitChannelSize = 1
    MaxFaults = 1
    MaxCrashes = 0
    MaxOOMs = 0
PROPERTIES StopTerminates ExitObserved
