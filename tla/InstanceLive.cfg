CONSTANTS
    i1 = i1
    i2 = i2
    ns = ns
    cm = cm
    crd = crd
    cr = cr
    full = full
    part = part
    Keys = {i1}
    Workers = {w1}
    NoKey = NoKey
    MaxRetries = 1
    ChanCap = 1
    None = None
    Objects = {ns, cm}
    Contents = {full, part}
    Install <- InstallNs
    Uninstall <- UninstallNs
    Container <- Contained
    Custom = {}
    Manifest <- AllPart
    MaxRv = 3
    Budgets <- LiveBudgets
SPECIFICATION FairSpec
CHECK_DEADLOCK FALSE
PROPERTIES
    DeletionCompletes
    InstallConverges
