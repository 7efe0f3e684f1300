\* One call at a time, two failing operations, two restarts, an OOM notification.
SPECIFICATION ReportedSpec
CONSTANTS
    t1 = t1
    Threads = {t1}
    Loop = loop
    ExitChannelSize = 1
    MaxFaults = 2
    MaxCrashes = 2
    MaxOOMs = 1
INVARIANTS ExitedIsDead RemovedLeavesNothing NilIOOnlyUnread
PROPERTIES NoSpuriousExit ExitDurable ImplementsStateMachine
