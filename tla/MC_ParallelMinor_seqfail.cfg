\* b is tenured and the old generation is full when the scans run: the
\* sequential promotion fails, later sequential copies keep the original,
\* and three tasks race on c while one of them fails to promote b.
CONSTANTS
    a = a
    b = b
    c = c
    e = e
    r = r
    s = s
    g = g
    x = x
    y = y
    l = l
    Nil = Nil
    Young <- Q_Young
    OldSeq <- MC_OldSeq
    LargeSeq <- MC_LargeSeq
    Field <- Q_Field
    Roots <- Q_Roots
    Size <- Q_Size
    Tenured <- MC_Tenured
    ArrayRef <- NoArrays
    ARRAY_HEADER = 2
    OldAddr <- MC_OldAddr
    OldStart = 1
    InitOldTop = 5
    InitOldLimit = 5
    OldMax = 5
    GrowStep = 2
    YoungStart = 20
    YoungLimit = 26
    CARD_SIZE = 2
    CLAB_SIZE = 2
    CLAB_OBJECT_SIZE = 2
    LOCAL_MAXIMUM = 2
    DEFENSIVE_PERIOD = 1
    DEFENSIVE_MIN = 1
    NW = 3

SPECIFICATION Spec
INVARIANT TypeOK
INVARIANT CopyRefsCurrent
INVARIANT TerminationSafe
PROPERTY GrayDrained
