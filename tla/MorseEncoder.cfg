SPECIFICATION EncoderSpec
CONSTANTS
    Data <- MCData
    Zero = 32
    Unset = 0
    depth = 4
    unitCountDivide = 2
INVARIANT SendsTheOldest
PROPERTIES CharacterIsHeld WaitingIsSent
