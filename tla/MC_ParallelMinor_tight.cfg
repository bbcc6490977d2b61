\* Young space for one Lab only and an old generation that can grow once:
\* tasks fall back to promotion, grow the old generation, and fail.
CONSTANTS
    a = a
    b = b
    c = c
    e = e
    r = r
    s = s
    g = g
    x = x
    y = y
    l = l
    Nil = Nil
    Young <- MC_Young
    OldSeq <- MC_OldSeq
    LargeSeq <- MC_LargeSeq
    Field <- MC_Field
    Roots <- MC_Roots
    Size <- MC_Size
    Tenured <- MC_Tenured
    ArrayRef <- NoArrays
    ARRAY_HEADER = 2
    OldAddr <- MC_OldAddr
    OldStart = 1
    InitOldTop = 5
    InitOldLimit = 5
    OldMax = 7
    GrowStep = 2
    YoungStart = 20
    YoungLimit = 23
    CARD_SIZE = 2
    CLAB_SIZE = 2
    CLAB_OBJECT_SIZE = 2
    LOCAL_MAXIMUM = 2
    DEFENSIVE_PERIOD = 1
    DEFENSIVE_MIN = 1
    NW = 2

SPECIFICATION Spec
INVARIANT TypeOK
INVARIANT CopyRefsCurrent
INVARIANT TerminationSafe
PROPERTY GrayDrained
PROPERTY RefinesForwarding
