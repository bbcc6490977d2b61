\* Two tasks race to copy the medium object c; the loser undoes its
\* allocation in its Lab although c was allocated outside the Lab.
CONSTANTS
    a = a
    b = b
    c = c
    e = e
    r = r
    s = s
    g = g
    x = x
    y = y
    l = l
    Nil = Nil
    Young <- U_Young
    OldSeq <- MC_OldSeq
    LargeSeq <- MC_LargeSeq
    Field <- U_Field
    Roots <- MC_Roots
    Size <- U_Size
    Tenured <- NoTenured
    ArrayRef <- NoArrays
    ARRAY_HEADER = 2
    OldAddr <- MC_OldAddr
    OldStart = 1
    InitOldTop = 5
    InitOldLimit = 7
    OldMax = 7
    GrowStep = 2
    YoungStart = 20
    YoungLimit = 30
    CARD_SIZE = 2
    CLAB_SIZE = 2
    CLAB_OBJECT_SIZE = 2
    LOCAL_MAXIMUM = 2
    DEFENSIVE_PERIOD = 1
    DEFENSIVE_MIN = 1
    NW = 2

SPECIFICATION Spec
INVARIANT CopiesDisjoint
