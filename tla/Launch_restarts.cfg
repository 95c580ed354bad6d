SPECIFICATION Spec
CONSTANTS
    SolverModes = {"MD", "NEB", "GEOOPT"}
    MaxRuns = 3
    MaxTime = 4
    NumberOfSteps = 5
    Thermostats = {"NO_CONTROL", "NOSE_HOVER_CHAINS"}
    Folders = {".", "restartFolder"}
    MaxUpdates = 3
    NumberOfImages = 2
    Modes = {"CELL", "IONCELL"}
    MaxCycle = 1
    MaxStep = 2
    MaxLaterStep = 0
    Verbosities = {1}
    Solvers = {"BFGS", "CGPRP"}
INVARIANTS TypeOK MDTriedIsNear NEBRecordsLeadBack GEORecordedStepIsIntact
PROPERTIES MDKeepsWhatIsSaved NEBLosesOneStep GEOLosesOneStep GEOSearchEnds
CHECK_DEADLOCK FALSE
