SPECIFICATION Spec
CONSTANTS
    None = None
    alice = alice
    bob = bob
    carol = carol
    bot = bot
    app = app
    Accounts = {alice, bob, carol}
    Enrolled = {alice}
    Grants = {bot, app}
    AppGrants = {app}
    AppAccount <- AppOfAlice
    Replicas = {p1, p2}
    Requests <- AliceAndBot
    Skew = 1
    Ahead = 1
    Levels = {2}
    MaxLife = 2
    MaxAccounts = 2
    MaxNonces = 2
    MaxGrants = 1
    OwnerNonceReserve = 32
    MaxTime = 2
    MaxEpoch = 1
    MaxFaults = 1
SYMMETRY Symmetry
INVARIANTS
    AdmittedOnce
    LimitsHold
PROPERTIES
    ClaimedUnderAuthority
