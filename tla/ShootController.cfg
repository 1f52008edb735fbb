CONSTANTS
    s1 = s1
    web = web
    dns = dns
    sWeb = sWeb
    sDns = sDns
    Keys = {s1}
    Workers = {w1}
    NoKey = NoKey
    MaxRetries = 1
    ChanCap = 1
    None = None
    Broken = Broken
    Addons = {web, dns}
    Annotations <- SomeAnnotations
    Manifests <- SomeManifests
    Initial <- AtFirst
    Names = {sWeb, sDns}
    InstanceName <- OneName
    Budget <- ThreeDisturbances
SPECIFICATION FairSpec
CHECK_DEADLOCK FALSE
INVARIANTS
    TypeOK
    AllOrNothing
PROPERTIES
    NoDowngrade
    AddonsEnsured
