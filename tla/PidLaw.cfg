SPECIFICATION Spec
CONSTANTS
    MaxPower = 2
    Fp = 3
    PScale = 2
    IScale = 1
    Q = 4
    Pole = 3
    DNum = 5
    DDen = 2
    GainMax = 2
    IntMax = 28
    TempMin <- MCTempMin
    TempMax = 1
    Gains <- MCGains
    Temps <- MCTemps
INVARIANTS
    TypeOK
    OutputExplained
PROPERTIES
    VelocityForm
    BumplessRetune
    NoHiddenBias
    DerivativeDecays
    NoOverflow
