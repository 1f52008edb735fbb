SPECIFICATION Spec
CONSTANTS
  Kinds <- SomeKinds
  KindRank <- Alphabetical
  Names = {1, 2}
  MaxObjects = 4
  garden = garden
  team = team
  Namespaces = {garden, team}
  Bases = {"nginx", "istio"}
  Numbers = {0, 1}
  None = None
  Manifests <- SomeManifests
  MaxManifests = 3
  s1 = s1
  s2 = s2
  Seeds = {s1, s2}
  NoSeed = NoSeed
  MaxShoots = 3
  k1 = k1
  k2 = k2
  w1 = w1
  w2 = w2
  Keys = {k1, k2}
  Workers = {w1, w2}
  NoKey = NoKey
  MaxRetries = 2
  ChanCap = 2
SYMMETRY Symmetry
INVARIANTS
  LookupTypeOK
  LatestChosen
  RefIdentifiesManifest
  SorterTypeOK
  SortedWhenTame
  CopyReadsAlike
  TargetOfShoot
  LoopTypeOK
  QueueInv
  OneWorkerPerKey
  RetryBound
  NoRetryLost
  DrainedBeforeExit
PROPERTY SourceUntouched
CHECK_DEADLOCK FALSE
