CONSTANTS
    MAX_DATA = 3
    Sizes <- SomeSizes
    Request <- SomeRequests
    Faults <- AllFaults
SPECIFICATION LiveSpec
INVARIANTS
    ZeroMeansServed
    ZeroMeansHandled
    FailureIsUnserved
    DataAreWhole
    CoreSurvives
    ZeroMeansWhole
PROPERTIES
    CallReturns
    ThreadEnds
