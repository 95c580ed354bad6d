SPECIFICATION Spec
CONSTANTS
    SolverModes = {"GEOOPT"}
    MaxRuns = 3
    MaxTime = 2
    NumberOfSteps = 2
    Thermostats = {"NO_CONTROL"}
    Folders = {"."}
    MaxUpdates = 2
    NumberOfImages = 2
    Modes = {"ION"}
    MaxCycle = 0
    MaxStep = 2
    MaxLaterStep = 0
    Verbosities = {1}
    Solvers = {"BFGS", "LBFGS"}
INVARIANT LoadsOwnCheckpoint
CHECK_DEADLOCK FALSE
