CONSTANTS
    W <- MCW
    MemBound <- MCMemBound
    P <- MCParams
    Gt <- MCGt
    InitGas <- MCInitGas
    MemSizes <- MCMemSizes
    StackArgs <- MCStackArgs
    CallGasTemps <- MCCallGasTemps
    MaxSteps = 2
SPECIFICATION Spec
INVARIANT TypeOK
INVARIANT StepGasSound
INVARIANT MemoryCostTracksSize
