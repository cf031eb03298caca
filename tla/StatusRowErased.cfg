\* Does a log line always erase the row that is no longer true?
SPECIFICATION Spec
CONSTANT
    Interval = 2
INVARIANT
    SuppressedRowIsGone
