\* Two runs at once on an oauth profile and an api key, with revocations.
SPECIFICATION FairSpec
CONSTANTS
    Profiles = {"oauth", "key"}
    NoProfile = "no profile"
    Providers <- MCProviders
    ProviderOf <- MCProviderOf
    Priority <- MCPriority
    Cooldown <- MCFewCooldowns
    Margin = 1
    MaxTime = 3
    MaxFaults = 0
    Runs = {"r1", "r2"}
    Chain <- MCChain
    Logins = {}
    Issued = {}
    Callbacks = {}
    Refreshers = {}
    NoLogin = "no login"
    PendingLife = 1
    MaxRestarts = 0
CHECK_DEADLOCK FALSE
PROPERTIES OnlyDisabledPassedOver DisabledStands RunsEnd
