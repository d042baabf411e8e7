SPECIFICATION Spec
CONSTANTS
    dataBitNb = 4
    stopBitNb = 1
    rxDivide = 12
    TxDivides <- MCTxDivides
INVARIANTS TypeOK DeliversWhatWasSent
PROPERTIES EveryWordArrives EveryFrameEnds
