SPECIFICATION Spec
CONSTANTS
    k1 = k1
    k2 = k2
    Keys <- MCKeys
    Limit <- MCLimit
    Window = 3
    MaxTime = 8
PROPERTY Implements
CHECK_DEADLOCK TRUE
