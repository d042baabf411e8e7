SPECIFICATION Spec
CONSTANTS
    XLEN = 16
    BYTE = 4
    EXP = 6
    MAN = 9
    Programs <- MCInterrupted
INVARIANT NothingIllegalIsWritten
