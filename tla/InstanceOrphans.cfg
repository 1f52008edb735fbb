CONSTANTS
    i1 = i1
    i2 = i2
    ns = ns
    cm = cm
    crd = crd
    cr = cr
    full = full
    part = part
    Keys = {i1}
    Workers = {w1}
    NoKey = NoKey
    MaxRetries = 1
    ChanCap = 1
    None = None
    Objects = {cm, ns}
    Contents = {full, part}
    Install <- InstallPlain
    Uninstall <- UninstallPlain
    Container <- Uncontained
    Custom = {}
    Manifest <- AllFull
    MaxRv = 2
    Budgets <- EditOnce
SPECIFICATION Spec
CHECK_DEADLOCK FALSE
INVARIANTS
    CreatedObjectsDeleted
