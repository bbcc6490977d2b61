CONSTANTS
    a = a
    b = b
    c = c
    e = e
    r = r
    s = s
    g = g
    x = x
    y = y
    l = l
    Nil = Nil
    Young <- M_Young
    OldSeq <- MC_OldSeq
    LargeSeq <- MC_LargeSeq
    Field <- M_Field
    Roots <- M_Roots
    Size <- M_Size
    Tenured <- M_Tenured
    ArrayRef <- M_Arrays
    ARRAY_HEADER = 2
    OldAddr <- MC_OldAddr
    OldStart = 1
    InitOldTop = 5
    InitOldLimit = 11
    OldMax = 13
    GrowStep = 2
    YoungStart = 20
    YoungLimit = 26
    CARD_SIZE = 2
    CLAB_SIZE = 2
    CLAB_OBJECT_SIZE = 2
    LOCAL_MAXIMUM = 2
    DEFENSIVE_PERIOD = 1
    DEFENSIVE_MIN = 1
    NW = 2

SPECIFICATION Spec
INVARIANT TypeOK
INVARIANT CopyRefsCurrent
INVARIANT Evacuated
INVARIANT CardsSound
INVARIANT ArrayCardsSound
INVARIANT TerminationSafe
INVARIANT PromotedAccounted
PROPERTY GrayDrained
PROPERTY RefinesForwarding
