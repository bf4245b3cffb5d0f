SPECIFICATION Spec
CONSTANTS
    Period = 20
    Margin = 2
    MaxGap = 60
PROPERTIES
    SingleMissIsFault
