CONSTANTS
    N <- MC_N
    Names <- MC_Names
    Programs <- MC_Programs
SPECIFICATION Spec
INVARIANT TypeOK
INVARIANT ReportsOnlyMissing
 
