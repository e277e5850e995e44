CONSTANTS
    c1 = c1  c2 = c2  ip1 = ip1  ip2 = ip2
    a = a  b = b  exe = exe  srv = srv
    v1 = v1  v2 = v2  t1 = t1  t2 = t2  absent = absent
    Path <- PathSet
    Content = {v1, v2}
    Token = {t1, t2}
    FirstToken <- Distinct
    Absent = absent
    Client = {c1, c2}
    Ip = {ip1, ip2}
    IpOf <- OwnIps
    ClientExe = exe
    ServerExe = srv
    Hole = Hole
    MaxConnections = 1
    ServerDisks <- FullServer
    ClientDisks <- BothLack
SPECIFICATION FairSpec
CHECK_DEADLOCK FALSE
PROPERTIES
    ConnectionEnds
