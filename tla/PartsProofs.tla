----------------------------- MODULE PartsProofs -----------------------------
(***************************************************************************)
(* Proofs about two small parts.  A copy of any object reads like it and   *)
(* shares nothing with it once DeepCopy has returned, whatever of it is    *)
(* nil or empty and in whatever order its parts are copied.  And no sync   *)
(* gets clients for the cluster of a Shoot that was gone before it began,  *)
(* for any seeds and any number of Shoots that follow each other.          *)
(***************************************************************************)
EXTENDS DeepCopy, TargetAccess, TLAPS

-----------------------------------------------------------------------------
(* Deep copies.                                                            *)

\* What DeepCopyInto has still to copy is all that is shared; nothing is when it
\* returns.  What reads alike goes on doing so until the caller changes it.
Contents == {"nil", "empty", "data", "changed"}
CopyIInv ==
    /\ type \in DOMAIN Parts
    /\ source \in [Parts[type] -> Contents] /\ copy \in [Parts[type] -> Contents]
    /\ todo \subseteq Parts[type] /\ shared \subseteq todo
    /\ phase \in {"call", "copying", "returned", "used"}
    /\ phase # "copying" => todo = {}
    /\ phase \in {"copying", "returned"} =>
         \A p \in Parts[type] : Reads(copy[p]) = Reads(source[p])

\* The methods leave no map and no slice of a type out.
LEMMA CopiesComplete ==
    ASSUME NEW t \in DOMAIN Parts
    PROVE  Copies[t] = Parts[t]
<1>1. ManifestCopies = ManifestParts
  BY DEF ManifestCopies, ManifestParts, ManifestSpecCopies, CopiesOfJSON, JSON
<1>2. InstanceCopies = InstanceParts
  BY DEF InstanceCopies, InstanceParts, InstanceSpecCopies, InstanceStatusCopies,
     CopiesOfJSON, JSON
<1>3. ManifestListCopies = ListParts(ManifestParts) /\ InstanceListCopies = ListParts(InstanceParts)
  BY <1>1, <1>2 DEF ManifestListCopies, InstanceListCopies, ListParts
<1> QED BY <1>1, <1>2, <1>3 DEF Copies, Parts

\* Any object may be copied.
LEMMA CopyStart == CopyInit => CopyIInv
BY DEF CopyInit, CopyIInv, Contents

\* Every step of a copy and of its caller keeps the invariant, and none changes
\* the original.
LEMMA CopyStep ==
    ASSUME CopyIInv, [CopyNext]_copyVars
    PROVE  CopyIInv' /\ source' = source
<1> USE DEF CopyIInv, Contents
<1>1. CASE CallDeepCopy
  <2>1. /\ phase' = "copying" /\ UNCHANGED <<type, source>> /\ copy' = source
        /\ shared' \subseteq Parts[type]
    BY <1>1 DEF CallDeepCopy
  <2>2. todo' = Parts[type]
    BY <1>1, CopiesComplete DEF CallDeepCopy
  <2> QED BY <2>1, <2>2
<1>2. ASSUME NEW p \in Parts[type], CopyPart(p)
      PROVE  CopyIInv' /\ source' = source
  <2>1. /\ phase = "copying" /\ UNCHANGED <<type, source, phase>>
        /\ todo' = todo \ {p} /\ shared' = shared \ {p}
    BY <1>2 DEF CopyPart
  <2>2. PICK c \in Contents : copy' = [copy EXCEPT ![p] = c] /\ Reads(c) = Reads(source[p])
    BY <1>2 DEF CopyPart, Reads
  <2> QED BY <2>1, <2>2
<1>3. CASE ReturnCopy
  BY <1>3 DEF ReturnCopy
<1>4. ASSUME NEW p \in Parts[type], ChangeCopy(p)
      PROVE  CopyIInv' /\ source' = source
  <2>1. phase' = "used" /\ UNCHANGED <<type, shared, todo>> /\ todo = {}
    BY <1>4 DEF ChangeCopy
  <2>2. source' = source /\ copy' = [copy EXCEPT ![p] = "changed"]
    BY <1>4, <2>1 DEF ChangeCopy
  <2> QED BY <2>1, <2>2
<1>5. CASE UNCHANGED copyVars
  BY <1>5 DEF copyVars
<1> QED BY <1>1, <1>2, <1>3, <1>4, <1>5 DEF CopyNext

\* The invariant holds of every copy.
THEOREM CopyInvariant == CopySpec => []CopyIInv
<1>1. CopyIInv /\ [CopyNext]_copyVars => CopyIInv'
  BY CopyStep
<1> QED BY CopyStart, <1>1, PTL DEF CopySpec

\* What DeepCopy returns reads like the original: neither the methods generated
\* for the types nor those of types.go lose a part of it.
THEOREM CopyCorrect == CopySpec => []CopyReadsAlike
<1>1. CopyIInv => CopyReadsAlike
  BY DEF CopyIInv, CopyReadsAlike
<1> QED BY CopyInvariant, <1>1, PTL

\* Who changes a copy never changes what the informers share.
THEOREM CopyIndependent == CopySpec => SourceUntouched
<1>1. CopyIInv /\ [CopyNext]_copyVars => [source' = source]_copyVars
  BY CopyStep
<1> QED BY CopyInvariant, <1>1, PTL DEF CopySpec, SourceUntouched

-----------------------------------------------------------------------------
(* The target cluster.                                                     *)

\* A Shoot that is there was there during the sync; its kubeconfig, and no
\* other, can be in the seed it runs on; the sync asks for it in a seed, and
\* what it finds is of a Shoot that was there.
KubeconfigsOfShoot == \A s \in Seeds : kubeconfigs[s] # 0 => s = shoot.seed
ShootNoticed == step # "idle" /\ shoot.number # 0 => shoot.number \in during
SeedRead == step \in {"seed", "seedSecret", "shootSecret"} => read.seed \in Seeds
TargetNoticed == step \in {"discovery", "done"} => target \in during \cup {Local}

TargetIInv ==
    /\ TargetTypeOK
    /\ KubeconfigsOfShoot /\ ShootNoticed /\ SeedRead /\ TargetNoticed

\* Before anything has happened.
LEMMA InitTarget == TargetInit => TargetIInv
BY TargetAssumption DEF TargetInit, TargetIInv, TargetTypeOK, KubeconfigsOfShoot,
   ShootNoticed, SeedRead, TargetNoticed, ShootState, NoShoot, Steps, Local

\* What Gardener does keeps the invariant.
LEMMA GardenKeeps ==
    ASSUME TargetIInv,
           \/ NewShoot \/ PublishKubeconfig \/ WithdrawKubeconfig \/ ShootGone
           \/ \E s \in Seeds : ScheduleShoot(s) \/ SeedGone(s)
    PROVE  TargetIInv'
<1> USE TargetAssumption DEF TargetIInv, TargetTypeOK, KubeconfigsOfShoot,
        ShootNoticed, SeedRead, TargetNoticed, ShootState, NoShoot, syncVars
<1>1. CASE NewShoot
  <2>1. shoot' = [number |-> shoots + 1, seed |-> NoSeed] /\ shoots' = shoots + 1
        /\ shoots + 1 \in 1..MaxShoots /\ \A s \in Seeds : kubeconfigs[s] = 0
    BY <1>1 DEF NewShoot
  <2>2. kubeconfigs' \in [Seeds -> {0, shoot'.number}]
    BY <1>1, <2>1 DEF NewShoot
  <2> QED BY <1>1, <2>1, <2>2 DEF NewShoot
<1>2. CASE PublishKubeconfig
  BY <1>2 DEF PublishKubeconfig
<1>3. CASE WithdrawKubeconfig
  BY <1>3 DEF WithdrawKubeconfig
<1>4. CASE ShootGone
  <2>1. \A s \in Seeds : kubeconfigs[s] = 0
    BY <1>4 DEF ShootGone
  <2> QED BY <1>4, <2>1 DEF ShootGone
<1>5. ASSUME NEW s \in Seeds, ScheduleShoot(s)
      PROVE  TargetIInv'
  <2>1. shoot' = [number |-> shoot.number, seed |-> s] /\ \A t \in Seeds : kubeconfigs[t] = 0
    BY <1>5 DEF ScheduleShoot
  <2> QED BY <1>5, <2>1 DEF ScheduleShoot
<1>6. ASSUME NEW s \in Seeds, SeedGone(s)
      PROVE  TargetIInv'
  BY <1>6 DEF SeedGone
<1> QED BY <1>1, <1>2, <1>3, <1>4, <1>5, <1>6

\* Each step of a sync keeps it.
LEMMA SyncKeeps ==
    ASSUME TargetIInv,
           \/ \E local \in BOOLEAN : TargetFromInstance(local)
           \/ GetShoot \/ GetSeed \/ SeedClient \/ GetKubeconfig \/ Discover
           \/ GiveUp \/ EndSync
    PROVE  TargetIInv'
<1> USE TargetAssumption DEF TargetIInv, TargetTypeOK, KubeconfigsOfShoot,
        ShootNoticed, SeedRead, TargetNoticed, ShootState, NoShoot, Stay,
        gardenVars, Steps
<1>1. ASSUME NEW local \in BOOLEAN, TargetFromInstance(local)
      PROVE  TargetIInv'
  <2>1. during' \subseteq 1..MaxShoots
    BY <1>1 DEF TargetFromInstance
  <2> QED BY <1>1, <2>1 DEF TargetFromInstance, Local
<1>2. CASE GetShoot
  BY <1>2 DEF GetShoot
<1>3. CASE GetSeed
  BY <1>3 DEF GetSeed
<1>4. CASE SeedClient
  BY <1>4 DEF SeedClient
<1>5. CASE GetKubeconfig
  <2>1. read.seed \in Seeds /\ kubeconfigs[read.seed] = shoot.number /\ shoot.number # 0
    BY <1>5 DEF GetKubeconfig
  <2>2. target' \in during /\ target' \in 1..MaxShoots
    BY <1>5, <2>1 DEF GetKubeconfig
  <2> QED BY <1>5, <2>2 DEF GetKubeconfig, Local
<1>6. CASE Discover
  <2>1. target # 0
    BY <1>6 DEF Discover, Local
  <2> QED BY <1>6, <2>1 DEF Discover
<1>7. CASE GiveUp
  BY <1>7 DEF GiveUp, Local
<1>8. CASE EndSync
  BY <1>8 DEF EndSync
<1> QED BY <1>1, <1>2, <1>3, <1>4, <1>5, <1>6, <1>7, <1>8

\* The invariant holds in every state of a sync and of the garden.
THEOREM TargetInvariant == TargetSpec => []TargetIInv
<1>1. TargetIInv /\ [TargetNext]_targetVars => TargetIInv'
  <2>1. ASSUME TargetIInv, TargetNext PROVE TargetIInv'
    BY <2>1, GardenKeeps, SyncKeeps DEF TargetNext
  <2>2. ASSUME TargetIInv, UNCHANGED targetVars PROVE TargetIInv'
    BY <2>2 DEF targetVars, gardenVars, syncVars, TargetIInv, TargetTypeOK,
       KubeconfigsOfShoot, ShootNoticed, SeedRead, TargetNoticed
  <2> QED BY <2>1, <2>2
<1> QED BY InitTarget, <1>1, PTL DEF TargetSpec

\* Whatever happens to the Shoot between the requests of targetFromInstance and
\* client.go, a sync works on the local cluster or on that of a Shoot that was
\* there while it ran.
THEOREM TargetCorrect == TargetSpec => []TargetOfShoot
<1>1. TargetIInv => TargetOfShoot
  BY DEF TargetIInv, TargetNoticed, TargetOfShoot
<1> QED BY TargetInvariant, <1>1, PTL
=============================================================================
