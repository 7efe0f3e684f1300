\* The state in the store, across two failing operations, an expired context and two
\* restarts, under fair scheduling.
SPECIFICATION ShownSpec
CONSTANTS
    t1 = t1
    Threads = {t1}
    Loop = loop
    Containers = {}
    ExitChannelSize = 1
    MaxFaults = 2
    MaxTimeouts = 1
    MaxCrashes = 2
INVARIANTS NotReadyMeansDead NothingLeaks
PROPERTIES ImplementsSandboxStateMachine RemovalSucceeds
