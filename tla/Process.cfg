CONSTANTS
    core = core
    crd = crd
    coreGroup = coreGroup
    crdGroup = crdGroup
    w1 = w1
    AllKinds = {core, crd}
    GroupOf <- TwoGroups
    Legacy = {coreGroup}
    Core = {core}
    Workers = {w1}
    Unset = Unset
    MaxChanges = 2
    MaxFailures = 1
    Servable <- WithAndWithout
SPECIFICATION ProcessSpec
INVARIANTS
    ProcessTypeOK
    DelegateIsCache
PROPERTIES
    KnownKindsKept
    ControllersStart
    SignalEndsProcess
    EndsOnlyWhenTold
    MapperConverges
CHECK_DEADLOCK FALSE
