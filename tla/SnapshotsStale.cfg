SPECIFICATION Spec
CONSTANTS
    host = host
    a1 = a1
    p1 = p1
    p2 = p2
    c1 = c1
    c2 = c2
    n1 = n1
    x1 = x1
    NoAgent = NoAgent
    NoPod = NoPod
    Agents = {a1}
    Pods = {p1}
    Containers = {c1}
    Names = {n1}
    Placeholders = {x1}
    Requests = {r1, r2}
    HostOf <- MCHostOf
    PodOf <- MCPodOf
    NameOf <- MCNameOf
    PlaceholderOf <- MCPlaceholderOf
    Offered <- StatsOnly
    AllowSnapshotFallback = FALSE
SYMMETRY RequestSymmetry
INVARIANTS NoStaleStats
