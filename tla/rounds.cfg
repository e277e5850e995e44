CONSTANTS
    a = a  d = d  dx = dx  exe = exe  srv = srv
    fs = fs  fs1 = fs1  fs2 = fs2  fss = fss
    v1 = v1  v2 = v2  w1 = w1  w2 = w2  t1 = t1  t2 = t2  u1 = u1  u2 = u2
    NoToken = NoToken
    Empty = Empty
    Dir = Dir
    Absent = Absent
    Root = Root
    c1 = c1  c2 = c2
SPECIFICATION FairSpec
CHECK_DEADLOCK FALSE
INVARIANTS
    UpToDate
    TreeKept
PROPERTIES
    NothingEverDeleted
    Converges
