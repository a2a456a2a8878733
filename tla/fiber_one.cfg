CONSTANTS
    parent = parent
    child = child
    h1 = h1
    h2 = h2
    h3 = h3
    o1 = o1
    Fiber = {parent, child}
    Handler = {h1, h2, h3}
    Op = {o1}
    Caller = {c1}
    HandlerOf <- Owners
    HandlerId <- OwnIds
    OpOf <- OpOwners
    OpId <- OwnOpIds
    Kids <- Tree
    DisposeFrom <- ActiveOrDraining
SPECIFICATION FairSpec
CHECK_DEADLOCK FALSE
INVARIANTS UnwindIsWhole DrainedMeansQuiet
PROPERTIES UnwindsLastFirst DisposeReturns
