CONSTANTS
    Formats <- WholeUnits
    Stored <- StoredHalf
    Keys = {"7"}
    MaxLength = 2

SPECIFICATION Spec

PROPERTY StoredAmountSurvives

CHECK_DEADLOCK FALSE
