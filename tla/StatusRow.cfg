\* A throttle of two seconds.
SPECIFICATION FairSpec
CONSTANT
    Interval = 2
PROPERTY
    StaleRowGoes
