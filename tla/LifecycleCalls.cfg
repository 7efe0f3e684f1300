\* Two concurrent calls, one failing operation, one restart.
SPECIFICATION Spec
CONSTANTS
    t1 = t1
    t2 = t2
    Threads = {t1, t2}
    Loop = loop
    ExitChannelSize = 1
    MaxFaults = 1
    MaxCrashes = 1
    MaxOOMs = 0
SYMMETRY Symmetry
INVARIANTS Inductive NoLostExit StartRemoveExclusion StopMeansDead
PROPERTIES ExitRecordedOnce
