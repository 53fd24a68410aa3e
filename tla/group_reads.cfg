\* A group on the screen and another, written by others meanwhile.
SPECIFICATION Spec
CONSTANTS
    Here = g
    Elsewhere = h
    MaxWrites = 2
    MaxKnowns = 1
INVARIANTS VersionsAreTrue ScreenIsTrue
\* The writes are bounded: all may be made and read.
CHECK_DEADLOCK FALSE
