\* The code's own timeouts, answers of up to two addresses.
SPECIFICATION Spec
CONSTANT
    MaxAddrs = 2
CHECK_DEADLOCK FALSE
INVARIANTS
    ResolversFit
    FailureIsReported
