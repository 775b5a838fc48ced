CONSTANTS
    Words = {"a", "b", "", "--force", "--json", "--config", "--config=", "--config=c", "-x", "c"}
    MaxWords = 3
    Files <- MCFiles
    Unreadable = Unreadable
    NoCall = NoCall
    Parts = {"", ".", "..", "~", "~user", "x"}
    MaxParts = 3
    Homes <- MCHomes
    Cwds <- MCCwds
    Error = Error
    Keys = {"PATH", "HTTP_PROXY", "no_proxy", "CODEX_HOME"}
    Values = {"", "shell"}
    Proxies = {"", "socks5"}
    Home = "home"
    Data = "data"
    Bare = Bare
    MaxEntries = 3
    Strings <- MCStrings
    Variables <- MCVariables
    MaxArgs = 3
    MaxPad = 2
    Flag = 9
    Rejected = Rejected
SPECIFICATION Spec
INVARIANTS
    CallIsMeant
    RootIsNormal
    DefaultsAgree
    ProxyOnlyFromProfile
    HomeIsProfiles
    ArgvExact
PROPERTIES
    RootIsStable
