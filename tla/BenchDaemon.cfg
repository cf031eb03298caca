\* Two connections, three jobs, two submissions.
SPECIFICATION Spec
CONSTANTS
    Conns = {c1, c2}
    MaxJobs = 3
    MaxSubmits = 2
CHECK_DEADLOCK FALSE
INVARIANTS
    SubmitsAccounted
    VerdictsLagOneJob
