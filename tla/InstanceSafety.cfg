CONSTANTS
    i1 = i1
    i2 = i2
    ns = ns
    cm = cm
    crd = crd
    cr = cr
    full = full
    part = part
    Keys = {i1}
    Workers = {w1, w2}
    NoKey = NoKey
    MaxRetries = 1
    ChanCap = 1
    None = None
    Objects = {ns, cm}
    Contents = {full}
    Install <- InstallPlain
    Uninstall <- UninstallPlain
    Container <- Contained
    Custom = {}
    Manifest <- AllFull
    MaxRv = 3
    Budgets <- FaultBudgets
SPECIFICATION Spec
CHECK_DEADLOCK FALSE
SYMMETRY Symmetry
INVARIANTS
    TypeOK
    NoOrphans
PROPERTIES
    ImplementsLifecycle
