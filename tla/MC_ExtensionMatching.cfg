CONSTANTS
    Eq = Eq
    AdtKinds <- MC_AdtKinds
    CheckTypes <- MC_CheckTypes
    Extensions <- MC_Extensions
    CheckBounds <- MC_CheckBounds
    ExtBounds <- MC_ExtBounds
    Impl <- MC_Impl

SPECIFICATION Spec
CHECK_DEADLOCK FALSE
INVARIANT MatchExactWithoutRebinding
