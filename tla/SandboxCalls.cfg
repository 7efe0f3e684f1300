\* Two concurrent calls, a container created and started meanwhile, one failing operation,
\* one restart.
SPECIFICATION Spec
CONSTANTS
    t1 = t1
    t2 = t2
    c1 = c1
    Threads = {t1, t2}
    Loop = loop
    Containers = {c1}
    ExitChannelSize = 1
    MaxFaults = 1
    MaxTimeouts = 0
    MaxCrashes = 1
SYMMETRY Symmetry
INVARIANTS ExitNeverLost StopMeansStopped RemovedSandboxRunsNothing
