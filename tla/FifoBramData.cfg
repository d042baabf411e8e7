SPECIFICATION Spec
CONSTANTS
    w0 = w0
    w1 = w1
    none = none
    Data <- MCData
    Zero <- w0
    Unset <- none
    depth = 4
INVARIANT DataValidWhenNotEmpty
