CONSTANTS
    None = None
    secure = secure
    plain = plain
    Calls <- AllCalls
    MaxReadAttempts = 3
    Origins = {secure, storage, plain, clear}
    Https = {secure, storage}
    Upgrades <- SomeUpgrades
    Bindings <- SomeBindings
SPECIFICATION FairSpec
INVARIANTS
    TypeOK
    AppliedAtMostOnce
    WriteErrorsTruthful
    CredentialsStayHome
PROPERTIES
    PlainHttpContained
    CallReturns
