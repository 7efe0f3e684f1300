\* One update of the resources while the container starts; see NoStartRace.
SPECIFICATION LimitSpec
CONSTANTS
    Updaters = {u1}
    Limits = {"low"}
    MaxUpdateFaults = 0
INVARIANT NoStartRace
CHECK_DEADLOCK FALSE
