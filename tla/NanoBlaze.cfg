SPECIFICATION CallsSpec
CONSTANTS
    Register <- MCRegister
    Word <- MCWord
    ZeroWord = 0
    SpadAddress <- MCSpadAddress
    SpadDirect <- MCSpad
    SpadIndexed <- MCSpad
    AluResult <- MCAluResult
    AluCarry <- MCAluCarry
    addressBitNb = 2
    stackPointerBitNb = 1
    Programs <- MCPrograms
    PowerUpScratchpads <- MCPowerUpScratchpads
    PowerUpStacks <- MCPowerUpStacks
INVARIANTS TypeOK Pipeline CallersOnStack
PROPERTIES ImplementsIsa OneSlotPerBranch ReturnsToCaller
