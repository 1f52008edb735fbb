------------------------------ MODULE Process -------------------------------
(***************************************************************************)
(* How the program starts and ends: main builds its clients, fills the     *)
(* discovery cache, creates two informer factories and lets both           *)
(* controllers request their informers from them, starts the factories and *)
(* the controllers, and returns when both Runs have.  A first signal       *)
(* closes stopCh, a second one ends the process; it may come at any time,  *)
(* and there may be informers that never sync, of a resource the API       *)
(* server does not have.                                                   *)
(*                                                                         *)
(* The workers of the instance controller share the RESTMapper that a      *)
(* goroutine of main resets; what else they do is InstanceController.      *)
(***************************************************************************)
EXTENDS DiscoveryMapper

CONSTANT Servable   \* the sets of resources the API server may have

Controllers == {"instance", "shoot"}
Types == {"Shoot", "AddonInstance", "AddonManifest"}
FactoryOf(t) == IF t = "Shoot" THEN "garden" ELSE "bouquet"

ASSUME ServableAssumption == Servable \subseteq SUBSET Types /\ Servable # {}

VARIABLES main,       \* where main is
          signals,    \* the signals received; the first closes stopCh
          servable,   \* the resources that can be listed
          made,       \* how many informers were created
          informers,  \* factories: the informer of each type, 0 for none
          started,    \* factories: startedInformers
          unstarted,  \* the factories whose Start is still to run
          running,    \* the informers that run
          synced,     \* the informers that have synced
          holds,      \* the informer each controller has for each type
          run         \* the Run of each controller

factoryVars == <<made, informers, started, unstarted>>
informerVars == <<running, synced>>
processVars == <<main, signals, servable, factoryVars, informerVars, holds, run, mapperVars>>

Exits == {"done", "fatal"}
Alive == main \notin Exits
stopped == signals > 0

ProcessTypeOK ==
    /\ MapperTypeOK
    /\ main \in {"clients", "reset", "instance", "shoot", "go", "wait"} \cup Exits
    /\ signals \in 0..2
    /\ servable \in Servable
    /\ made \in 0..Cardinality(Types)
    /\ informers \in [Types -> 0..made]
    /\ started \subseteq Types /\ \A t \in started : informers[t] \in running
    /\ unstarted \subseteq {"bouquet", "garden"}
    /\ running \subseteq 1..made /\ synced \subseteq running
    /\ holds \in [Controllers -> [Types -> 0..made]]
    /\ run \in [Controllers -> {"none", "waiting", "working", "returned"}]

ProcessInit ==
    /\ MapperInit
    /\ main = "clients" /\ signals = 0
    /\ servable \in Servable
    /\ made = 0 /\ informers = [t \in Types |-> 0]
    /\ started = {} /\ unstarted = {}
    /\ running = {} /\ synced = {}
    /\ holds = [c \in Controllers |-> [t \in Types |-> 0]]
    /\ run = [c \in Controllers |-> "none"]

-----------------------------------------------------------------------------
(* main.                                                                   *)

\* The clients are built, or the process ends.
BuildClients ==
    /\ main = "clients"
    /\ main' \in {"reset", "fatal"}
    /\ UNCHANGED <<signals, servable, factoryVars, informerVars, holds, run, mapperVars>>

\* main waits for its first reset of the mapper.
FirstReset ==
    /\ main = "reset" /\ ResetStep
    /\ main' = IF reset'.step = "idle" THEN "instance" ELSE "reset"
    /\ UNCHANGED <<signals, servable, factoryVars, informerVars, holds, run>>

\* The goroutine with the ticker.
TickerReset ==
    /\ Alive /\ main \notin {"clients", "reset"} /\ ResetStep
    /\ UNCHANGED <<main, signals, servable, factoryVars, informerVars, holds, run>>

Wants(c) == {"AddonManifest", IF c = "instance" THEN "AddonInstance" ELSE "Shoot"}

\* Mutant: InformerFor does not look whether there is one.
InformerForNew(T) ==
    /\ made' = made + Cardinality(T)
    /\ \E new \in [T -> (made + 1) .. made'] :
         /\ \A t, u \in T : new[t] = new[u] => t = u
         /\ informers' = [t \in Types |-> IF t \in T THEN new[t] ELSE informers[t]]

\* InformerFor: the informer of each type is made when it is first requested.
InformerFor(T) ==
    LET missing == {t \in T : informers[t] = 0} IN
    /\ made' = made + Cardinality(missing)
    /\ \E new \in [missing -> (made + 1) .. made'] :
         /\ \A t, u \in missing : new[t] = new[u] => t = u
         /\ informers' = [t \in Types |-> IF t \in missing THEN new[t] ELSE informers[t]]

\* NewController of either controller takes the HasSynced and the lister of the
\* informers it needs.
NewController(c) ==
    /\ main = c
    /\ InformerFor(Wants(c))
    /\ holds' = [holds EXCEPT ![c] = [t \in Types |-> IF t \in Wants(c) THEN informers'[t] ELSE 0]]
    /\ main' = IF c = "instance" THEN "shoot" ELSE "go"
    /\ UNCHANGED <<signals, servable, started, unstarted, informerVars, run, mapperVars>>

\* Mutant: one of the factories is never started.
GoWithoutGarden ==
    /\ main = "go"
    /\ unstarted' = {"bouquet"}
    /\ run' = [c \in Controllers |-> "waiting"]
    /\ main' = "wait"
    /\ UNCHANGED <<signals, servable, made, informers, started, informerVars, holds, mapperVars>>

\* The goroutines: a Start for each factory, a Run for each controller.
GoAll ==
    /\ main = "go"
    /\ unstarted' = {"bouquet", "garden"}
    /\ run' = [c \in Controllers |-> "waiting"]
    /\ main' = "wait"
    /\ UNCHANGED <<signals, servable, made, informers, started, informerVars, holds, mapperVars>>

\* Both Runs have returned; main returns, and with it the process ends.
MainReturns ==
    /\ main = "wait" /\ \A c \in Controllers : run[c] = "returned"
    /\ main' = "done"
    /\ UNCHANGED <<signals, servable, factoryVars, informerVars, holds, run, mapperVars>>

\* SIGINT or SIGTERM.
Signal ==
    /\ Alive /\ signals < 2
    /\ signals' = signals + 1
    /\ main' = IF signals = 1 THEN "fatal" ELSE main
    /\ UNCHANGED <<servable, factoryVars, informerVars, holds, run, mapperVars>>

-----------------------------------------------------------------------------
(* The factories, the informers and the controllers.                       *)

\* Start runs the informers that were requested and do not run yet.
Start(f) ==
    /\ Alive /\ f \in unstarted
    /\ LET new == {t \in Types : FactoryOf(t) = f /\ informers[t] # 0 /\ t \notin started}
       IN running' = running \cup {informers[t] : t \in new} /\ started' = started \cup new
    /\ unstarted' = unstarted \ {f}
    /\ UNCHANGED <<main, signals, servable, made, informers, synced, holds, run, mapperVars>>

\* The first list of an informer has come through (SharedInformer).  An informer
\* that is told to stop before may have done so or not.
CacheSynced(t) ==
    /\ Alive /\ t \in servable
    /\ informers[t] \in running \ synced
    /\ synced' = synced \cup {informers[t]}
    /\ UNCHANGED <<main, signals, servable, factoryVars, running, holds, run, mapperVars>>

\* Mutant: the wait for the caches is not ended by stopCh.
WaitForCacheSyncOnly(c) ==
    /\ \A t \in Wants(c) : holds[c][t] \in synced
    /\ run' = [run EXCEPT ![c] = "working"]

\* Mutant: the wait for the caches times out.
WaitForCacheSyncOrGiveUp(c) ==
    \/ /\ \A t \in Wants(c) : holds[c][t] \in synced
       /\ run' = [run EXCEPT ![c] = "working"]
    \/ run' = [run EXCEPT ![c] = "returned"]

\* WaitForCacheSync polls HasSynced; a closed stopCh makes it return false, but
\* may be noticed after the caches have synced.
WaitForCacheSync(c) ==
    \/ /\ \A t \in Wants(c) : holds[c][t] \in synced
       /\ run' = [run EXCEPT ![c] = "working"]
    \/ stopped /\ run' = [run EXCEPT ![c] = "returned"]

\* Run starts its workers when the caches have synced.
StartWorking(c) ==
    /\ Alive /\ run[c] = "waiting"
    /\ WaitForCacheSync(c)
    /\ UNCHANGED <<main, signals, servable, factoryVars, informerVars, holds, mapperVars>>

\* Run returns when stopCh is closed; it does not wait for the workers.
ReturnFromRun(c) ==
    /\ Alive /\ run[c] = "working" /\ stopped
    /\ run' = [run EXCEPT ![c] = "returned"]
    /\ UNCHANGED <<main, signals, servable, factoryVars, informerVars, holds, mapperVars>>

\* A worker of the instance controller begins a sync that needs the mapper.
SyncBegins(w) ==
    /\ Alive /\ run["instance"] = "working" /\ mapper[w] = Unset
    /\ GetDelegate(w)
    /\ UNCHANGED <<main, signals, servable, factoryVars, informerVars, holds, run>>

\* The sync is over, maybe after the Run.
SyncEnds(w) ==
    /\ Alive /\ mapper[w] # Unset
    /\ DropDelegate(w)
    /\ UNCHANGED <<main, signals, servable, factoryVars, informerVars, holds, run>>

\* A CRD comes or goes in the local cluster.
KindsChange ==
    /\ Alive
    /\ \E k \in AllKinds : ChangeKinds(k)
    /\ UNCHANGED <<main, signals, servable, factoryVars, informerVars, holds, run>>

ProcessNext ==
    \/ BuildClients \/ FirstReset \/ TickerReset
    \/ \E c \in Controllers : NewController(c) \/ StartWorking(c) \/ ReturnFromRun(c)
    \/ GoAll \/ MainReturns \/ Signal
    \/ \E f \in {"bouquet", "garden"} : Start(f)
    \/ \E t \in Types : CacheSynced(t)
    \/ \E w \in Workers : SyncBegins(w) \/ SyncEnds(w)
    \/ KindsChange

\* Every goroutine runs on, requests are answered, informers of resources that
\* can be listed sync, and syncs end.  Nothing forces a signal or a change.
ProcessFairness ==
    /\ WF_processVars(BuildClients) /\ WF_processVars(FirstReset) /\ WF_processVars(TickerReset)
    /\ WF_processVars(GoAll) /\ WF_processVars(MainReturns)
    /\ \A f \in {"bouquet", "garden"} : WF_processVars(Start(f))
    /\ \A t \in Types : WF_processVars(CacheSynced(t))
    /\ \A c \in Controllers :
         WF_processVars(NewController(c)) /\ WF_processVars(StartWorking(c)) /\ WF_processVars(ReturnFromRun(c))
    /\ \A w \in Workers : WF_processVars(SyncEnds(w))

ProcessSpec == ProcessInit /\ [][ProcessNext]_processVars /\ ProcessFairness

-----------------------------------------------------------------------------
(* Properties.                                                             *)

\* Each controller gets to work when the resources it needs can be listed,
\* whatever becomes of the other one, unless the process is told to stop: the
\* informers it waits for are the ones the factories have started, and both
\* controllers wait for the one AddonManifest informer there is.
ControllersStart ==
    \A c \in Controllers :
       (main = "wait" /\ Wants(c) \subseteq servable) ~> (run[c] # "waiting" \/ stopped)

\* signal.go: "A stop channel is returned which is closed on one of these
\* signals".  The process then ends, also when a cache never syncs.
SignalEndsProcess == stopped ~> ~Alive

\* And nothing else ends it once the clients are built: a controller that cannot
\* start does not take the other one down.
EndsOnlyWhenTold == [][main # "clients" /\ main' \in Exits => signals' > 0]_processVars

\* When CRDs have ceased to come and go, and requests to fail, every sync gets
\* a mapper that knows exactly the kinds there are.
MapperConverges ==
    <>[](Alive => Cached = served /\ \A w \in Workers : mapper[w] \in {Unset, served})
=============================================================================
