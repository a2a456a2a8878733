CONSTANTS
    a = a
    b = b
    c = c
    d = d
    implicit = implicit
    Command = {a, b, c, d}
    Implicit = implicit
    N = 4
    Concurrency = 2
    Pipelines <- FourSteps
SPECIFICATION FairSpec
CHECK_DEADLOCK FALSE
INVARIANTS TypeOK DependenciesFirst SkipsAreJustified ConcurrencyBound WorkConserving OkMeansAllCompleted
PROPERTIES RunConcludes
