\* The state machine exactly as the comment in status.go draws it.
SPECIFICATION ReportedSpec
CONSTANTS
    t1 = t1
    Threads = {t1}
    Loop = loop
    ExitChannelSize = 1
    MaxFaults = 1
    MaxCrashes = 0
    MaxOOMs = 0
PROPERTIES StateMachineAsDrawn
