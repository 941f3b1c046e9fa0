SPECIFICATION PgxSpec
CHECK_DEADLOCK FALSE
CONSTANTS
    a = a
    b = b
    u = u
    v = v
    p = p
    q = q
    r = r
    Procs = {p, q}
    Runs = {r}
    Names <- TheNames
    NoName = NoName
    Urls <- TheUrls
    NoUrl = NoUrl
    Sections <- TheSections
    NoSections <- Bare
    Garbled = Garbled
    FirstConfigs <- TheConfigs
    Lines <- TheLines
    Cases <- TheCases
    MaxCommands = 2
INVARIANT DefaultNamed
INVARIANT RunsAsTold
PROPERTY ActsAsRegistry
PROPERTY ConnectsAsTold
