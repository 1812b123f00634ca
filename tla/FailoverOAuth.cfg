\* One run with three profiles, then on another provider, while logins come and go.
SPECIFICATION Spec
CONSTANTS
    Profiles = {"oauth", "key", "new1", "new2"}
    NoProfile = "no profile"
    Providers <- MCProviders
    ProviderOf <- MCProviderOf
    Priority <- MCPriority
    Cooldown <- MCCooldown
    Margin = 1
    MaxTime = 2
    MaxFaults = 1
    Runs = {"r1"}
    Chain <- MCOtherChain
    Logins = {"s"}
    Issued = {"new1", "new2"}
    Callbacks = {"c1", "c2"}
    Refreshers = {"f"}
    NoLogin = "no login"
    PendingLife = 0
    MaxRestarts = 1
CHECK_DEADLOCK FALSE
INVARIANT OneProfilePerLogin
PROPERTIES NoLateReturn
