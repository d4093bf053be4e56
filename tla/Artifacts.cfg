SPECIFICATION ArtifactsSpec
CONSTANTS
    s1 = s1
    s2 = s2
    Searches = {s1, s2}
    Candidates = {1, 2, 3}
    MaxCandidates = 2
    MaxAcquisitions = 1
    MaxPassed = 1
    Scenes <- SomeScenes
    NoSearch = NoSearch
    u1 = u1
    u2 = u2
    Publishers = {u1, u2}
    Clients = {k1}
    Platforms = {linux, macos}
    Verifying = TRUE
    MaxOutages = 1
    h1 = h1
    h2 = h2
    Locks = {l1}
    Shards = {shard1, shard2}
    Readers = {h1, h2}
    NoReader = NoReader
    MaxEditions = 2
    MaxFailures = 1
    i1 = i1
    i2 = i2
    Exporters = {x1}
    Importers = {i1, i2}
    NoImporter = NoImporter
    Collector = Collector
    Capsules = {"k1"}
    MaxBreaks = 1
    t1 = t1
    t2 = t2
    Makers = {t1, t2}
    NoMaker = NoMaker
    MaxEnds = 1
    a1 = a1
    a2 = a2
    m1 = m1
    m2 = m2
    Openers = {a1, a2}
    NoOpener = NoOpener
    Modules = {m1, m2}
    Offered <- TwoLibraries
    MaxCleans = 1
    MaxTroubles = 1
    Verifiers = {v1}
    Library = Library
    NoExtender = NoExtender
    Parts = {m1, m2}
    MaxHarms = 1
CHECK_DEADLOCK FALSE
SYMMETRY Swaps
INVARIANTS AnswersTrue ArtifactsComplete
PROPERTY NothingLost
