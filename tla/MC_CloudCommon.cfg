CONSTANTS
    vm1 = vm1
    vm2 = vm2
    vm3 = vm3
    n1 = n1
    n2 = n2
    c1 = c1
    c2 = c2
    Accounts = {acct1}
    Selectors = {sel1, sel2}
    Threads = {t1, t2}
    Credentials <- MC_Credentials
    Vnets <- MC_Vnets
    VMs <- MC_VMs
    VmVnet <- MC_VmVnet
    VmSub <- MC_VmSub
    MaxConfigs = 1
    AccountCredentialsDefault = AccountCredentialsDefault
    BadSecret = BadSecret
    MatchAll = MatchAll
    NoMatch = NoMatch
    NoConfig = NoConfig
    NoSnapshot = NoSnapshot
    NoThread = NoThread

SPECIFICATION Spec

INVARIANT TypeOK
INVARIANT FiltersFollowSelectors
PROPERTY PollSurfacesSelected
PROPERTY VpcInventoryFromOneSnapshot
