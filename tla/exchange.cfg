CONSTANTS
    d1 = d1  d2 = d2
    none = none
    w1 = w1  w2 = w2
    j1 = j1  j2 = j2  j3 = j3
    s1 = s1  s2 = s2  s3 = s3
    p1 = p1  p2 = p2  c1 = c1  c2 = c2
SPECIFICATION Suite
CHECK_DEADLOCK FALSE
INVARIANTS
    OneOwner
    PoolRight
    NothingForgotten
    StreamsRight
    DigestRight
PROPERTIES
    OrderKept
    Current
