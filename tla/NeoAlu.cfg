SPECIFICATION Spec
CONSTANTS
    XLEN = 16
    BYTE = 4
    EXP = 6
    MAN = 9
    Programs <- MCPrograms
INVARIANTS TypeOK AnswersAreAwaited IllegalIsMasked OneUnitAtATime BitmanipLikeEmulated BaseOperations
    SumsLikeEmulated ComparisonsLikeEmulated ConversionsLikeEmulated FloatFlags
PROPERTIES ShifterKeepsContract BitmanipKeepsContract FpuKeepsContract EveryOperationEnds
