SPECIFICATION Spec
CONSTANTS
    None = None
    Handle = {h1, h2, h3}
    MaxFd = 6
    Resource = {r1, r2, r3, r4}
    Handler = {s1, s2, s3}
    Unit = {u1, u2}
    W = 4
    Deltas = {1}
    Limits = {3}
    MaxOnline = 3
    Storage = {t1, t2, t3}
    Block = {b1, b2, b3}
    MaxObjects = 4
    Exception = {e1, e2}
    Held = {v1}
    Object = {o1, o2}
    Thread = {p1, p2}
    Id = {i1, i2}
    Spelling = {"canonical", "capital"}
    Base = 4
    Type <- MCTypes
    Values <- MCIntegers
    MaxSize = 5
    List = {l1, l2, l3}
    Element = {x1, x2}
    MaxLevels = {2, 3}
    Count = {c1, c2}
    Guard = {g1, g2, g3}
    Originals = {0, 1}
    Owner = {w1, w2, w3}
    Piece = {m1, m2, m3}
    Allocator = {a1, a2}
    Sizes = {1, 2}
    Alignment = 2
INVARIANTS
    HandlesOwnOnce
    EntryIffHandler
    DestroyedExactlyOnce
    ExceptionsDelivered
    NeverEnds
    TextsRight
    IntegersSurvive
    ValuesFreedOnce
    SharesCounted
    BlocksReturned
CHECK_DEADLOCK FALSE
