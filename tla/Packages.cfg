SPECIFICATION PackagesSpec
CONSTANTS
    p1 = p1
    p2 = p2
    Callers = {p1, p2}
    Jobs = {j1}
    NoCaller = NoCaller
    NoLease = NoLease
    MaxLosses = 1
    w1 = w1
    w2 = w2
    Workers = {w1, w2}
    Packages = {1, 2}
    g1 = g1
    g2 = g2
    Graphs = {g1, g2}
    Manifest <- TwoOrders
    Nobody = Nobody
    NoGraph = NoGraph
    MaxMeddling = 1
    c1 = c1
    c2 = c2
    Checkers = {c1, c2}
    Dependencies = {d1}
    NoChecker = NoChecker
    MaxSaves = 2
    MaxDeaths = 1
    o1 = o1
    o2 = o2
    Adopters = {o1, o2}
    EditsMeanwhile = FALSE
    MaxRuns = 2
    MaxMishaps = 1
    Inits = {i1}
    Metadata = ".gitignore"
    Lakefile = "lakefile.toml"
    Toolchain = "lean-toolchain"
    Entries <- SomeEntries
    MaxUpsets = 2
    e1 = e1
    e2 = e2
    a1 = a1
    Projects = {e1, e2}
    GitPackages = {a1}
    Root = Root
    NoName = NoName
    Serves <- OnePackage
    Whole <- FirstWhole
    k1 = k1
    k2 = k2
    Keepers = {k1, k2}
    NoKeeper = NoKeeper
    MaxChanges = 1
    d1 = d1
    r1 = r1
    r2 = r2
    Resolvers = {r1, r2}
    Direct <- OneTag
    Floating = {f1}
    MaxMoves = 1
    MaxFaults = 1
CHECK_DEADLOCK FALSE
SYMMETRY Swaps
INVARIANTS WorkersApart TreesAsRecorded
PROPERTY TreesKept
