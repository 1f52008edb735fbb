CONSTANTS
    i1 = i1
    i2 = i2
    ns = ns
    cm = cm
    crd = crd
    cr = cr
    full = full
    part = part
    Keys = {i1}
    Workers = {w1}
    NoKey = NoKey
    MaxRetries = 1
    ChanCap = 1
    None = None
    Objects = {crd, cr}
    Contents = {full}
    Install <- InstallCrd
    Uninstall <- InstallCrd
    Container <- Contained
    Custom = {cr}
    Manifest <- AllFull
    MaxRv = 2
    Budgets <- Undisturbed
SPECIFICATION FairSpec
CHECK_DEADLOCK FALSE
PROPERTIES
    DeletionCompletes
