SPECIFICATION Spec
CONSTANTS
    w = 3
    Register <- MCRegister
    Word <- Words
    ZeroWord = 0
    SpadAddress <- MCSpadAddress
    SpadDirect <- MCSpad
    SpadIndexed <- MCSpad
    AluResult <- aluOut
    AluCarry <- cOut
    addressBitNb = 5
    stackPointerBitNb = 1
    Programs <- ArithmeticPrograms
    PowerUpScratchpads <- MCPowerUpScratchpads
    PowerUpStacks <- MCPowerUpStacks
INVARIANTS SumsAndDifferences ShiftedNumbers Products
