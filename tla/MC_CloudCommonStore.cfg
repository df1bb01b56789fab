CONSTANTS
    vm1 = vm1
    vm2 = vm2
    vm3 = vm3
    n1 = n1
    n2 = n2
    c1 = c1
    c2 = c2
    Accounts = {acct1}
    Selectors = {sel1}
    Threads = {t1, t2}
    Credentials <- MC_RaceCredentials
    Vnets <- MC_RaceVnets
    VMs <- MC_RaceVMs
    VmVnet <- MC_VmVnet
    VmSub <- MC_VmSub
    MaxConfigs = 2
    AccountCredentialsDefault = AccountCredentialsDefault
    BadSecret = BadSecret
    MatchAll = MatchAll
    NoMatch = NoMatch
    NoConfig = NoConfig
    NoSnapshot = NoSnapshot
    NoThread = NoThread

SPECIFICATION Spec

PROPERTY StoreRefinement
