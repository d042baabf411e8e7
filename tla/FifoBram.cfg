SPECIFICATION FairSpec
CONSTANTS
    w0 = w0
    w1 = w1
    none = none
    Data <- MCData
    Zero <- w0
    Unset <- none
    depth = 4
INVARIANTS TypeOK StateTellsTheLimits
PROPERTIES ImplementsFifo ShowsTheOldestWord FirstWordOffered
