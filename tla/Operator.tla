------------------------------ MODULE Operator ------------------------------
(* The Kubernetes operator: BuildClusterReconciler (controllers/) over the      *)
(* reconciler of pkg/resources/buildcluster.  An object of the cluster is told  *)
(* apart by its name and by what of it depends on the BuildCluster: the images  *)
(* it runs, or the storage configuration.  The API server, the informers and    *)
(* ReconcileResource (operator-tools) are external.                             *)
EXTENDS Integers, Sequences, SequencesExt, FiniteSets

CONSTANTS Specs,        \* BuildCluster specs a user may apply
          OpImages,     \* the images the operator itself is deployed from, in order
          None,         \* an optional field that is not set; an object that is absent
          MaxEdits,     \* bound: specs applied after the first
          MaxFaults     \* bound: objects tampered with and API requests that fail

\* Toolchains and the operator's images are lists; the operator has some image.
ASSUME SpecsAssumption ==
    /\ OpImages \in Seq(Range(OpImages)) /\ OpImages # <<>>
    /\ \A s \in Specs : s.toolchains \in Seq(Range(s.toolchains))

VARIABLES cluster,   \* the BuildCluster in the API server: its spec and its status
          cached,    \* the informer's copy of it, which the client's Get reads
          opImage,   \* image of the kubecc-operator deployment
          objects,   \* the cluster's other objects, by name
          queued,    \* the work queue holds a request for the BuildCluster
          seen,      \* the copy this Reconcile works from
          items,     \* resources this Reconcile has still to bring about
          edits, faults

events == <<edits, faults>>
operatorVars == <<cluster, cached, opImage, objects, queued, seen, items, events>>

Tampered == <<"tampered">>
Toolchains(spec) == Range(spec.toolchains)

----------------------------------------------------------------------------
(* The resources of a BuildCluster. *)

Present(name, content) == [name |-> name, state |-> "present", content |-> content]
Created(name, content) == [name |-> name, state |-> "created", content |-> content]
Absent(name) == [name |-> name, state |-> "absent", content |-> None]
PresentIf(cond, name, content) == IF cond THEN Present(name, content) ELSE Absent(name)

\* The image configureDefaultImage wants for a spec, and the one kubeccImage uses.
WantedImage(spec) == IF spec.image # None THEN spec.image ELSE opImage
kubeccImage(bc) == IF bc.spec.image # None THEN bc.spec.image ELSE bc.status

priorityClasses == <<Present(<<"high-priority">>, <<"1000">>), Present(<<"low-priority">>, <<"500">>)>>
configMap(bc) == <<Present(<<"config">>, <<bc.spec.storage>>)>>
WithService(name, deployment) == <<Created(<<name, "svc">>, <<"9090">>), deployment>>
monitor(bc) == WithService("monitor", Present(<<"monitor">>, <<kubeccImage(bc)>>))
scheduler(bc) == WithService("scheduler", Present(<<"scheduler">>, <<kubeccImage(bc)>>))
\* mutant of cacheSrv
KeepCache(bc) == WithService("cache", Present(<<"cache">>, <<kubeccImage(bc)>>))
cacheSrv(bc) ==
    WithService("cache", PresentIf(bc.spec.cache, <<"cache">>, <<kubeccImage(bc)>>))
toolbox(bc) == <<PresentIf(bc.spec.toolbox, <<"toolbox">>, <<kubeccImage(bc)>>)>>

Supported(tc) == tc.kind = "gcc" \/ (tc.kind = "custom" /\ tc.image # None)
CompilerImage(tc) ==
    CASE tc.image = None   -> <<"docker.io/gcc", tc.version>>
      [] tc.kind = "gcc"   -> <<tc.image>>
      [] OTHER             -> <<tc.image, tc.version>>
AgentName(tc) == IF tc.name = None THEN <<"agent", tc.kind, tc.version>> ELSE <<"agent", tc.name>>
toolchain(bc, tc) == Present(AgentName(tc), CompilerImage(tc) \o <<kubeccImage(bc)>>)

\* Reconcile: one unsupported toolchain and nothing at all is built.
Builds(bc) == kubeccImage(bc) # None /\ \A tc \in Toolchains(bc.spec) : Supported(tc)
Resources(bc) ==
    priorityClasses \o configMap(bc) \o monitor(bc) \o scheduler(bc) \o cacheSrv(bc) \o toolbox(bc)
    \o [i \in DOMAIN bc.spec.toolchains |-> toolchain(bc, bc.spec.toolchains[i])]

Names(bc) == {r.name : r \in Range(Resources(bc))}
AllNames == UNION {Names([spec |-> s, status |-> None]) : s \in Specs}
Contents == {c \in UNION {{r.content : r \in Range(Resources([spec |-> s, status |-> i]))} :
                s \in Specs, i \in Range(OpImages)} : c # None}

OperatorTypeOK ==
    /\ {cluster, cached, seen} \subseteq [spec : Specs, status : Range(OpImages) \cup {None} \cup {s.image : s \in Specs}]
    /\ opImage \in Range(OpImages) /\ queued \in BOOLEAN
    /\ objects \in [AllNames -> Contents \cup {Tampered, None}]
    /\ \A r \in Range(items) : r.state = "absent" <=> r.content = None
    /\ edits \in 0 .. MaxEdits /\ faults \in 0 .. MaxFaults

\* A BuildCluster has just been created; the operator has seen it and is idle.
OperatorInit ==
    /\ \E s \in Specs : cluster = [spec |-> s, status |-> None]
    /\ opImage = Head(OpImages)
    /\ cached = cluster /\ seen = cluster /\ queued = TRUE /\ items = <<>>
    /\ objects = [n \in AllNames |-> None]
    /\ edits = 0 /\ faults = 0

----------------------------------------------------------------------------
(* What happens to the operator. *)

\* A user applies another spec.
Edit ==
    /\ edits < MaxEdits /\ edits' = edits + 1
    /\ \E s \in Specs \ {cluster.spec} : cluster' = [cluster EXCEPT !.spec = s]
    /\ UNCHANGED <<cached, opImage, objects, queued, seen, items, faults>>

\* The operator is deployed from another image: its pod is replaced, in the
\* middle of a Reconcile or not, and the new one lists the BuildClusters.
Upgrade ==
    /\ \E i \in 2 .. Len(OpImages) : opImage = OpImages[i - 1] /\ opImage' = OpImages[i]
    /\ cached' = cluster /\ queued' = TRUE /\ items' = <<>>
    /\ UNCHANGED <<cluster, objects, seen, edits, faults>>

\* Someone deletes or changes an object the BuildCluster owns.
Drift ==
    /\ faults < MaxFaults /\ faults' = faults + 1
    /\ \E n \in AllNames, c \in {None, Tampered} :
          /\ objects[n] # None /\ objects' = [objects EXCEPT ![n] = c]
    /\ queued' = TRUE
    /\ UNCHANGED <<cluster, cached, opImage, seen, items, edits>>

----------------------------------------------------------------------------
(* The controller. *)

\* The informer hears of a new version of the BuildCluster.
WatchEvent ==
    /\ cached # cluster /\ cached' = cluster /\ queued' = TRUE
    /\ UNCHANGED <<cluster, opImage, objects, seen, items, events>>

\* Reconcile up to the list of resources: configureDefaultImage, then the builders.
\* The status is updated with the image wanted for the spec first read, in the copy the
\* last retry gets from the informer, and not at all when that one is still stale.
\* An error or Requeue puts the request back; so does a changed status.
StatusChanged(bc) == bc.status # WantedImage(bc.spec)
Reconcile ==
    /\ queued /\ items = <<>> /\ seen' = cached
    /\ IF StatusChanged(cached)
       THEN \E last \in {cached, cluster} :
            /\ cached' = last
            /\ cluster' = IF last = cluster
                          THEN [cluster EXCEPT !.status = WantedImage(cached.spec)] ELSE cluster
            /\ UNCHANGED <<items, queued>>
       ELSE /\ items' = IF Builds(cached) THEN Resources(cached) ELSE <<>>
            /\ queued' = ~Builds(cached)
            /\ UNCHANGED <<cluster, cached>>
    /\ UNCHANGED <<opImage, objects, events>>

\* ReconcileResource: what it makes of an object, by the state asked for.
Reconciled(r) ==
    CASE r.state = "present" -> r.content
      [] r.state = "created" -> IF objects[r.name] = None THEN r.content ELSE objects[r.name]
      [] r.state = "absent"  -> None

\* The next resource; a change to an object the BuildCluster owns is an event.
ReconcileResource ==
    /\ items # <<>> /\ items' = Tail(items)
    /\ LET r == Head(items) IN
          /\ objects' = [objects EXCEPT ![r.name] = Reconciled(r)]
          /\ queued' = (queued \/ objects'[r.name] # objects[r.name])
    /\ UNCHANGED <<cluster, cached, opImage, seen, events>>

\* A request to the API server fails: Reconcile returns the error.
NotRequeued == queued /\ items # <<>>                    \* mutant of Requeued
Requeued == TRUE
ReconcileFails ==
    /\ (items # <<>> \/ queued) /\ faults < MaxFaults /\ faults' = faults + 1
    /\ items' = <<>> /\ queued' = Requeued
    /\ UNCHANGED <<cluster, cached, opImage, objects, seen, edits>>

OperatorStep == Reconcile \/ ReconcileResource \/ ReconcileFails
OperatorNext == OperatorStep \/ WatchEvent \/ Edit \/ Upgrade \/ Drift
OperatorSpec ==
    /\ OperatorInit /\ [][OperatorNext]_operatorVars
    /\ WF_operatorVars(OperatorStep) /\ WF_operatorVars(WatchEvent)

----------------------------------------------------------------------------
(* Properties. *)

\* Every object a Reconcile is about to write runs the image wanted for the spec it
\* read, and never the default of an earlier operator: the status is brought up to
\* date, and the request put back, before any resource is built
\* (buildcluster.go:50-55, util.go:92-100).
RunsWantedImage ==
    \A r \in Range(items) : r.name \in {<<"monitor">>, <<"scheduler">>, <<"cache">>, <<"toolbox">>}
        => r.content \in {None, <<WantedImage(seen.spec)>>}

\* All but the services are as the spec asks; a service only has to exist.
Settled(bc) ==
    \A r \in Range(Resources(bc)) :
        IF r.state = "created" THEN objects[r.name] # None ELSE objects[r.name] = r.content
Distinct(spec) == \A i, j \in DOMAIN spec.toolchains :
    AgentName(spec.toolchains[i]) = AgentName(spec.toolchains[j]) => i = j

\* Whatever edits, upgrades, drift and failing requests happened, and however stale
\* the informer was, the cluster ends up as the last spec asks, and stays so, when
\* each of its toolchains is supported and names a DaemonSet of its own.  (Two that
\* share a name overwrite each other's DaemonSet in every Reconcile, for ever.)
ClusterSettled ==
    Builds([cluster EXCEPT !.status = opImage]) /\ Distinct(cluster.spec) => Settled(cluster)

\* A Deployment the spec turns off is gone once the operator has nothing left to do,
\* however often it was turned on and off before (components.go:273-277,
\* toolbox.go:87-94).  The DaemonSets of toolchains no longer listed stay.
TurnedOffIsGone ==
    items = <<>> /\ ~queued /\ cached = cluster =>
        /\ objects[<<"cache">>] # None => cluster.spec.cache
        /\ objects[<<"toolbox">>] # None => cluster.spec.toolbox

\* The cluster is the one its spec asks for: what the operator writes runs the wanted
\* image, and what the spec turns off goes (buildcluster.go:46, components.go:273).
ClusterSound == RunsWantedImage /\ TurnedOffIsGone
=============================================================================
