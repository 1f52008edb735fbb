---------------------------- MODULE TargetAccess ----------------------------
(***************************************************************************)
(* How a sync gets to the cluster its instance is for (targetFromInstance  *)
(* and client.go).  Without a shoot it is the local one.  Else it takes    *)
(* one request after the other: the Shoot, the Seed its status names, the  *)
(* Secret with the kubeconfig of the seed, the Secret with that of the     *)
(* shoot in the shoot's namespace in the seed, and discovery in the shoot. *)
(* Any of them can fail, and between two of them the Shoot can be deleted, *)
(* created again, and scheduled to another seed.                           *)
(*                                                                         *)
(* Shoots of one name follow each other; the cluster of each is told by    *)
(* its number.  Gardener writes a shoot's kubeconfig into its seed and     *)
(* takes it away before the Shoot goes.                                    *)
(***************************************************************************)
EXTENDS Naturals

CONSTANTS Seeds,
          NoSeed,     \* the empty Status.Seed
          MaxShoots   \* bound on the Shoots that follow each other

ASSUME TargetAssumption == NoSeed \notin Seeds /\ MaxShoots \in Nat

Local == MaxShoots + 1

VARIABLES shoot,       \* the Shoot: its number, 0 if there is none, and seed
          shoots,      \* how many there were
          seeds,       \* the Seeds that exist
          kubeconfigs, \* in each seed: the shoot whose kubeconfig is there, or 0
          step,        \* the request the sync is at
          read,        \* the Shoot it has read
          target,      \* the cluster its clients are for, 0 for none
          during       \* history: the Shoots there were since it began

gardenVars == <<shoot, shoots, seeds, kubeconfigs>>
syncVars == <<step, read, target>>
targetVars == <<gardenVars, syncVars, during>>

Steps == {"idle", "shoot", "seed", "seedSecret", "shootSecret", "discovery", "done"}
ShootState == [number : 0..MaxShoots, seed : Seeds \cup {NoSeed}]
NoShoot == [number |-> 0, seed |-> NoSeed]

TargetTypeOK ==
    /\ shoot \in ShootState /\ read \in ShootState
    /\ shoots \in shoot.number..MaxShoots
    /\ seeds \subseteq Seeds
    /\ kubeconfigs \in [Seeds -> {0, shoot.number}]
    /\ step \in Steps
    /\ target \in 0..Local /\ step = "done" => target # 0
    /\ during \subseteq 1..MaxShoots

TargetInit ==
    /\ shoot = NoShoot /\ shoots = 0 /\ seeds = Seeds
    /\ kubeconfigs = [s \in Seeds |-> 0]
    /\ step = "idle" /\ read = NoShoot /\ target = 0
    /\ during = {}

-----------------------------------------------------------------------------
(* The garden.                                                             *)

NewShoot ==
    /\ shoot.number = 0 /\ shoots < MaxShoots
    /\ shoots' = shoots + 1
    /\ shoot' = [number |-> shoots + 1, seed |-> NoSeed]
    /\ during' = during \cup {shoots + 1}
    /\ UNCHANGED <<seeds, kubeconfigs, syncVars>>

ScheduleShoot(s) ==
    /\ shoot.number # 0 /\ shoot.seed = NoSeed /\ s \in seeds
    /\ shoot' = [shoot EXCEPT !.seed = s]
    /\ UNCHANGED <<shoots, seeds, kubeconfigs, syncVars, during>>

PublishKubeconfig ==
    /\ shoot.seed # NoSeed
    /\ kubeconfigs' = [kubeconfigs EXCEPT ![shoot.seed] = shoot.number]
    /\ UNCHANGED <<shoot, shoots, seeds, syncVars, during>>

WithdrawKubeconfig ==
    /\ shoot.seed # NoSeed
    /\ kubeconfigs' = [kubeconfigs EXCEPT ![shoot.seed] = 0]
    /\ UNCHANGED <<shoot, shoots, seeds, syncVars, during>>

ShootGone ==
    /\ shoot.number # 0
    /\ shoot.seed # NoSeed => kubeconfigs[shoot.seed] = 0
    /\ shoot' = NoShoot
    /\ UNCHANGED <<shoots, seeds, kubeconfigs, syncVars, during>>

SeedGone(s) ==
    /\ s \in seeds /\ shoot.seed # s
    /\ seeds' = seeds \ {s}
    /\ UNCHANGED <<shoot, shoots, kubeconfigs, syncVars, during>>

-----------------------------------------------------------------------------
(* The sync.                                                               *)

Stay == UNCHANGED <<gardenVars, during>>

\* Any request fails: the sync ends, and what it built is dropped.
GiveUp ==
    /\ step \in Steps \ {"idle", "done"}
    /\ step' = "idle" /\ read' = NoShoot /\ target' = 0
    /\ Stay

\* Mutant: clients that were built before are used again.
TargetFromInstanceCached(local) ==
    /\ step = "idle"
    /\ IF local THEN step' = "done" /\ target' = Local
       ELSE /\ step' = IF target \in 1..MaxShoots THEN "done" ELSE "shoot"
            /\ UNCHANGED target
    /\ read' = NoShoot
    /\ during' = IF shoot.number = 0 THEN {} ELSE {shoot.number}
    /\ UNCHANGED gardenVars

\* targetFromInstance: the clients of main, or a chain of requests.
TargetFromInstance(local) ==
    /\ step = "idle"
    /\ IF local THEN step' = "done" /\ target' = Local
                ELSE step' = "shoot" /\ target' = 0
    /\ read' = NoShoot
    /\ during' = IF shoot.number = 0 THEN {} ELSE {shoot.number}
    /\ UNCHANGED gardenVars

\* targetFromShoot: a Shoot without a seed is an error.
GetShoot ==
    /\ step = "shoot" /\ shoot.seed # NoSeed
    /\ read' = shoot /\ step' = "seed"
    /\ Stay /\ UNCHANGED target

\* shootRestConfig.
GetSeed ==
    /\ step = "seed" /\ read.seed \in seeds
    /\ step' = "seedSecret"
    /\ Stay /\ UNCHANGED <<read, target>>

\* seedClient, seedRESTConfig: the seed's Secret may outlive the Seed.
SeedClient ==
    /\ step = "seedSecret"
    /\ step' = "shootSecret"
    /\ Stay /\ UNCHANGED <<read, target>>

\* The shoot's namespace in the seed is that of its name, whichever Shoot of
\* this name is there by now.
GetKubeconfig ==
    /\ step = "shootSecret" /\ kubeconfigs[read.seed] # 0
    /\ target' = kubeconfigs[read.seed]
    /\ step' = "discovery"
    /\ Stay /\ UNCHANGED read

\* GetAPIGroupResources of the shoot.
Discover ==
    /\ step = "discovery" /\ step' = "done"
    /\ Stay /\ UNCHANGED <<read, target>>

\* The sync is over; target still tells which cluster its clients were for.
EndSync ==
    /\ step = "done" /\ step' = "idle"
    /\ Stay /\ UNCHANGED <<read, target>>

TargetNext ==
    \/ NewShoot \/ PublishKubeconfig \/ WithdrawKubeconfig \/ ShootGone
    \/ \E s \in Seeds : ScheduleShoot(s) \/ SeedGone(s)
    \/ \E local \in BOOLEAN : TargetFromInstance(local)
    \/ GetShoot \/ GetSeed \/ SeedClient \/ GetKubeconfig \/ Discover
    \/ GiveUp \/ EndSync

TargetSpec == TargetInit /\ [][TargetNext]_targetVars

-----------------------------------------------------------------------------
(* Properties.                                                             *)

\* However old what it has read is by then, a sync gets clients for the local
\* cluster, or for that of a Shoot that was there while it ran; never for the
\* cluster of one that was gone before.
TargetOfShoot == step = "done" => target \in during \cup {Local}
=============================================================================
