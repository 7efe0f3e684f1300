\* The goroutines of the plugin, each on its own, under fair scheduling.
SPECIFICATION MCSpec
CONSTANTS
    a1 = a1
    Objects = {"a", "b"}
    MaxReports = 3
    ExitChannelSize = 1
    MinDuration = 1
    MaxDuration = 3
    MaxHandleFaults = 3
    MaxVersion = 3
    MaxConfFaults = 1
    Accepted = {1, 2}
    MaxForwardFaults = 1
    Sessions <- MCSessions
    MaxSessionFaults = 1
INVARIANTS ConfLoaded PairsMatch ExecRight
PROPERTIES ImplementsEventQueue EventsHandled RunReturns PairsReleased ExecEnds OutputServed
