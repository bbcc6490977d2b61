\* The first root refers to b, the second to a (tenured), which refers to b;
\* the old generation is full, so the promotion of a fails.
CONSTANTS
    a = a
    b = b
    c = c
    e = e
    r = r
    s = s
    g = g
    x = x
    y = y
    l = l
    Nil = Nil
    Young <- S_Young
    OldSeq <- MC_OldSeq
    LargeSeq <- MC_LargeSeq
    Field <- S_Field
    Roots <- F_Roots
    Size <- S_Size
    Tenured <- F_Tenured
    ArrayRef <- NoArrays
    ARRAY_HEADER = 2
    OldAddr <- MC_OldAddr
    OldStart = 1
    InitOldTop = 5
    InitOldLimit = 5
    OldMax = 5
    GrowStep = 2
    YoungStart = 20
    YoungLimit = 30
    CARD_SIZE = 2
    CLAB_SIZE = 2
    CLAB_OBJECT_SIZE = 2
    LOCAL_MAXIMUM = 2
    DEFENSIVE_PERIOD = 1
    DEFENSIVE_MIN = 1
    NW = 2

SPECIFICATION Spec
INVARIANT FailureConsistent
