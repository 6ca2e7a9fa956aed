---------------------------- MODULE OperatorProofs --------------------------
(***************************************************************************)
(* The operator, for any BuildCluster specs and images and any number of   *)
(* edits, upgrades and faults: what it is about to write runs the image    *)
(* wanted for the spec it read, and what the spec turns off is gone once   *)
(* it has nothing left to do.  ClusterInv is the inductive invariant.      *)
(***************************************************************************)
EXTENDS Operator, SequenceTheorems, TLAPS

\* The resources of a BuildCluster as a set, and what a Reconcile is known to be at.
ResourceSet(bc) ==
    {Present(<<"high-priority">>, <<"1000">>), Present(<<"low-priority">>, <<"500">>),
     Present(<<"config">>, <<bc.spec.storage>>),
     Created(<<"monitor", "svc">>, <<"9090">>), Present(<<"monitor">>, <<kubeccImage(bc)>>),
     Created(<<"scheduler", "svc">>, <<"9090">>), Present(<<"scheduler">>, <<kubeccImage(bc)>>),
     Created(<<"cache", "svc">>, <<"9090">>), PresentIf(bc.spec.cache, <<"cache">>, <<kubeccImage(bc)>>),
     PresentIf(bc.spec.toolbox, <<"toolbox">>, <<kubeccImage(bc)>>)}
    \cup {toolchain(bc, tc) : tc \in Toolchains(bc.spec)}

BuildClusters == [spec : Specs, status : Range(OpImages) \cup {None} \cup {s.image : s \in Specs}]
StillToRemove(n) == Absent(n) \in Range(items)
ClusterInv ==
    /\ cluster \in BuildClusters /\ cached \in BuildClusters /\ seen \in BuildClusters
    /\ opImage \in Range(OpImages) /\ queued \in BOOLEAN /\ DOMAIN objects = AllNames
    /\ items \in Seq(ResourceSet(seen))
    /\ items # <<>> => seen.status = WantedImage(seen.spec)
    /\ ~queued => /\ seen = cached
                  /\ objects[<<"cache">>] # None => seen.spec.cache \/ StillToRemove(<<"cache">>)
                  /\ objects[<<"toolbox">>] # None => seen.spec.toolbox \/ StillToRemove(<<"toolbox">>)

\* Resources lists exactly the members of ResourceSet.
LEMMA PairRange ==
    ASSUME NEW S, NEW a \in S, NEW b \in S
    PROVE  /\ <<a>> \in Seq(S) /\ Range(<<a>>) = {a}
           /\ <<a, b>> \in Seq(S) /\ Range(<<a, b>>) = {a, b}
<1>1. <<a>> \in Seq(S) /\ <<a, b>> \in Seq(S)  OBVIOUS
<1>2. Range(<<a>>) = {a}
  <2>1. DOMAIN <<a>> = {1}  OBVIOUS
  <2> QED  BY <2>1 DEF Range
<1>3. Range(<<a, b>>) = {a, b}
  <2>1. DOMAIN <<a, b>> = {1, 2} /\ <<a, b>>[1] = a /\ <<a, b>>[2] = b  OBVIOUS
  <2> QED  BY <2>1 DEF Range
<1> QED  BY <1>1, <1>2, <1>3

LEMMA Joined ==
    ASSUME NEW S, NEW a \in Seq(S), NEW b \in Seq(S)
    PROVE  a \o b \in Seq(S) /\ Range(a \o b) = Range(a) \cup Range(b)
BY ConcatProperties, RangeConcatenation

LEMMA ResourcesListed ==
    ASSUME NEW bc \in BuildClusters
    PROVE  Resources(bc) \in Seq(ResourceSet(bc)) /\ Range(Resources(bc)) = ResourceSet(bc)
<1> DEFINE S == ResourceSet(bc)
           tcs == bc.spec.toolchains
           agents == [i \in DOMAIN tcs |-> toolchain(bc, tcs[i])]
           h == Present(<<"high-priority">>, <<"1000">>)
           l == Present(<<"low-priority">>, <<"500">>)
           c == Present(<<"config">>, <<bc.spec.storage>>)
           ms == Created(<<"monitor", "svc">>, <<"9090">>)
           m == Present(<<"monitor">>, <<kubeccImage(bc)>>)
           ss == Created(<<"scheduler", "svc">>, <<"9090">>)
           s == Present(<<"scheduler">>, <<kubeccImage(bc)>>)
           ks == Created(<<"cache", "svc">>, <<"9090">>)
           k == PresentIf(bc.spec.cache, <<"cache">>, <<kubeccImage(bc)>>)
           t == PresentIf(bc.spec.toolbox, <<"toolbox">>, <<kubeccImage(bc)>>)
           s1 == <<h, l>>
           q2 == <<c>>
           s2 == s1 \o q2
           q3 == <<ms, m>>
           s3 == s2 \o q3
           q4 == <<ss, s>>
           s4 == s3 \o q4
           q5 == <<ks, k>>
           s5 == s4 \o q5
           q6 == <<t>>
           s6 == s5 \o q6
<1>1. tcs \in Seq(Range(tcs))  BY SpecsAssumption DEF BuildClusters
<1>2. S = {h, l, c, ms, m, ss, s, ks, k, t} \cup {toolchain(bc, tc) : tc \in Range(tcs)}
  BY DEF ResourceSet, Toolchains
<1>3. agents \in Seq(S) /\ Range(agents) = {toolchain(bc, tc) : tc \in Range(tcs)}
  <2>1. DOMAIN tcs = 1 .. Len(tcs) /\ Len(tcs) \in Nat  BY <1>1
  <2>2. \A i \in DOMAIN tcs : tcs[i] \in Range(tcs)  BY DEF Range
  <2>3. \A i \in DOMAIN tcs : agents[i] \in S  BY <1>2, <2>2
  <2>4. agents \in Seq(S)
    <3>1. agents \in [1 .. Len(tcs) -> S]  BY <2>1, <2>3
    <3> HIDE DEF agents
    <3> QED  BY <3>1, <2>1, SeqDef
  <2>5. Range(agents) = {toolchain(bc, tc) : tc \in Range(tcs)}  BY DEF Range
  <2> QED  BY <2>4, <2>5
<1>4. Resources(bc) = s6 \o agents
  BY DEF Resources, priorityClasses, configMap, monitor, scheduler, cacheSrv, toolbox, WithService
<1> HIDE DEF S, agents, h, l, c, ms, m, ss, s, ks, k, t
<1>5. /\ h \in S /\ l \in S /\ c \in S /\ ms \in S /\ m \in S
      /\ ss \in S /\ s \in S /\ ks \in S /\ k \in S /\ t \in S
  BY <1>2
<1>6. s1 \in Seq(S) /\ Range(s1) = {h, l}  BY <1>5, PairRange, ZenonT(30)
<1>7. s2 \in Seq(S) /\ Range(s2) = {h, l, c}
  <2>1. q2 \in Seq(S) /\ Range(q2) = {c}  BY <1>5, PairRange, ZenonT(30)
  <2> HIDE DEF s1, q2
  <2>2. s1 \o q2 \in Seq(S) /\ Range(s1 \o q2) = Range(s1) \cup Range(q2)
    BY <2>1, <1>6, Joined
  <2> QED  BY <2>1, <2>2, <1>6
<1>8. s3 \in Seq(S) /\ Range(s3) = {h, l, c, ms, m}
  <2>1. q3 \in Seq(S) /\ Range(q3) = {ms, m}  BY <1>5, PairRange, ZenonT(30)
  <2> HIDE DEF s2, q3
  <2>2. s2 \o q3 \in Seq(S) /\ Range(s2 \o q3) = Range(s2) \cup Range(q3)
    BY <2>1, <1>7, Joined
  <2> QED  BY <2>1, <2>2, <1>7
<1>9. s4 \in Seq(S) /\ Range(s4) = {h, l, c, ms, m, ss, s}
  <2>1. q4 \in Seq(S) /\ Range(q4) = {ss, s}  BY <1>5, PairRange, ZenonT(30)
  <2> HIDE DEF s3, q4
  <2>2. s3 \o q4 \in Seq(S) /\ Range(s3 \o q4) = Range(s3) \cup Range(q4)
    BY <2>1, <1>8, Joined
  <2> QED  BY <2>1, <2>2, <1>8
<1>10. s5 \in Seq(S) /\ Range(s5) = {h, l, c, ms, m, ss, s, ks, k}
  <2>1. q5 \in Seq(S) /\ Range(q5) = {ks, k}  BY <1>5, PairRange, ZenonT(30)
  <2> HIDE DEF s4, q5
  <2>2. s4 \o q5 \in Seq(S) /\ Range(s4 \o q5) = Range(s4) \cup Range(q5)
    BY <2>1, <1>9, Joined
  <2> QED  BY <2>1, <2>2, <1>9
<1>11. s6 \in Seq(S) /\ Range(s6) = {h, l, c, ms, m, ss, s, ks, k, t}
  <2>1. q6 \in Seq(S) /\ Range(q6) = {t}  BY <1>5, PairRange, ZenonT(30)
  <2> HIDE DEF s5, q6
  <2>2. s5 \o q6 \in Seq(S) /\ Range(s5 \o q6) = Range(s5) \cup Range(q6)
    BY <2>1, <1>10, Joined
  <2> QED  BY <2>1, <2>2, <1>10
<1> HIDE DEF s6
<1>12. s6 \o agents \in Seq(S) /\ Range(s6 \o agents) = Range(s6) \cup Range(agents)
  BY <1>3, <1>11, Joined
<1>13. Range(s6) \cup Range(agents) = S  BY <1>2, <1>3, <1>11
<1> QED  BY <1>4, <1>12, <1>13 DEF S

\* The head of the list is the one element the tail may lack.
LEMMA TailRange ==
    ASSUME NEW S, NEW s \in Seq(S), s # <<>>
    PROVE  /\ Head(s) \in S /\ Tail(s) \in Seq(S)
           /\ \A x \in Range(s) : x = Head(s) \/ x \in Range(Tail(s))
<1>1. Head(s) \in S /\ Tail(s) \in Seq(S) /\ Len(Tail(s)) = Len(s) - 1
      /\ \A i \in 1 .. Len(Tail(s)) : Tail(s)[i] = s[i + 1]
  BY HeadTailProperties
<1>2. ASSUME NEW x \in Range(s), x # Head(s) PROVE x \in Range(Tail(s))
  <2>1. PICK i \in 1 .. Len(s) : s[i] = x  BY RangeEquality
  <2>2. i # 1  BY <2>1, <1>2
  <2>3. i - 1 \in 1 .. Len(Tail(s)) /\ Tail(s)[i - 1] = x  BY <1>1, <2>1, <2>2
  <2> QED  BY <2>3, <1>1, RangeEquality
<1> QED  BY <1>1, <1>2

\* cache and toolbox are names of every BuildCluster.
LEMMA NamesOfParts ==
    ASSUME NEW bc \in BuildClusters
    PROVE  <<"cache">> \in AllNames /\ <<"toolbox">> \in AllNames
<1> DEFINE b == [spec |-> bc.spec, status |-> None]
<1>1. b \in BuildClusters /\ bc.spec \in Specs  BY DEF BuildClusters
<1>2. PresentIf(b.spec.cache, <<"cache">>, <<kubeccImage(b)>>) \in Range(Resources(b))
  BY <1>1, ResourcesListed DEF ResourceSet
<1>3. PresentIf(b.spec.toolbox, <<"toolbox">>, <<kubeccImage(b)>>) \in Range(Resources(b))
  BY <1>1, ResourcesListed DEF ResourceSet
<1>4. \A cond, n, x : PresentIf(cond, n, x).name = n  BY DEF PresentIf, Present, Absent
<1> HIDE DEF b
<1>5. \A r \in Range(Resources(b)) : r.name \in Names(b)  BY Zenon DEF Names
<1>6. <<"cache">> \in Names(b) /\ <<"toolbox">> \in Names(b)  BY <1>2, <1>3, <1>4, <1>5, Zenon
<1> USE DEF b
<1> QED  BY <1>1, <1>6 DEF AllNames

LEMMA ClusterInvInitially ==
    ASSUME OperatorInit
    PROVE  ClusterInv
<1>1. PICK s \in Specs : cluster = [spec |-> s, status |-> None]  BY DEF OperatorInit
<1>2. cluster \in BuildClusters  BY <1>1 DEF BuildClusters
<1>3. opImage \in Range(OpImages)
  <2>1. Head(OpImages) = OpImages[1] /\ 1 \in DOMAIN OpImages  BY SpecsAssumption
  <2> QED  BY <2>1 DEF OperatorInit, Range
<1> QED  BY <1>2, <1>3 DEF OperatorInit, ClusterInv

LEMMA WantedIsStatus ==
    ASSUME ClusterInv, NEW s \in Specs
    PROVE  WantedImage(s) \in Range(OpImages) \cup {None} \cup {t.image : t \in Specs}
BY DEF ClusterInv, WantedImage

LEMMA ReconcileKeeps ==
    ASSUME ClusterInv, Reconcile
    PROVE  ClusterInv'
<1>1. /\ seen' = cached /\ items = <<>> /\ queued /\ UNCHANGED <<opImage, objects>>
      /\ cluster \in BuildClusters /\ cached \in BuildClusters
  BY DEF Reconcile, ClusterInv
<1>2. CASE StatusChanged(cached)
  <2>1. PICK last \in {cached, cluster} :
           /\ cached' = last
           /\ cluster' = IF last = cluster THEN [cluster EXCEPT !.status = WantedImage(cached.spec)] ELSE cluster
           /\ UNCHANGED <<items, queued>>
    BY <1>2 DEF Reconcile
  <2>2. cached' \in BuildClusters  BY <1>1, <2>1
  <2>3. cluster' \in BuildClusters
    <3>1. cached.spec \in Specs  BY <1>1 DEF BuildClusters
    <3>2. WantedImage(cached.spec) \in Range(OpImages) \cup {None} \cup {t.image : t \in Specs}
      BY <3>1, WantedIsStatus
    <3> QED  BY <1>1, <2>1, <3>2 DEF BuildClusters
  <2>4. items' \in Seq(ResourceSet(seen)') /\ items' = <<>>  BY <1>1, <2>1
  <2> QED  BY <1>1, <2>1, <2>2, <2>3, <2>4, Zenon DEF ClusterInv
<1>3. CASE ~StatusChanged(cached)
  <2>1. /\ items' = IF Builds(cached) THEN Resources(cached) ELSE <<>>
        /\ queued' = ~Builds(cached) /\ UNCHANGED <<cluster, cached>>
    BY <1>3 DEF Reconcile
  <2>2. ResourceSet(seen)' = ResourceSet(cached)
    BY <1>1
  <2>3. items' \in Seq(ResourceSet(cached)) /\ (~queued' => Range(items') = ResourceSet(cached))
    <3>1. Resources(cached) \in Seq(ResourceSet(cached)) /\ Range(Resources(cached)) = ResourceSet(cached)
      BY <1>1, ResourcesListed
    <3>2. <<>> \in Seq(ResourceSet(cached))  OBVIOUS
    <3> QED  BY <3>1, <3>2, <2>1, Zenon
  <2>4. seen'.status = WantedImage(seen.spec)'  BY <1>1, <1>3, Zenon DEF StatusChanged, WantedImage
  <2>5. ~queued' => seen'.spec.cache \/ StillToRemove(<<"cache">>)'
    <3>1. PresentIf(cached.spec.cache, <<"cache">>, <<kubeccImage(cached)>>) \in ResourceSet(cached)
      BY DEF ResourceSet
    <3> QED  BY <3>1, <1>1, <2>3, Zenon DEF StillToRemove, PresentIf, Absent
  <2>6. ~queued' => seen'.spec.toolbox \/ StillToRemove(<<"toolbox">>)'
    <3>1. PresentIf(cached.spec.toolbox, <<"toolbox">>, <<kubeccImage(cached)>>) \in ResourceSet(cached)
      BY DEF ResourceSet
    <3> QED  BY <3>1, <1>1, <2>3, Zenon DEF StillToRemove, PresentIf, Absent
  <2>7. queued' \in BOOLEAN  BY <2>1
  <2> QED  BY <1>1, <2>1, <2>2, <2>3, <2>4, <2>5, <2>6, <2>7, Zenon DEF ClusterInv
<1> QED  BY <1>2, <1>3

\* The next resource: when nothing changes, only the removal of what is there was left.
LEMMA ReconcileResourceKeeps ==
    ASSUME ClusterInv, ReconcileResource
    PROVE  ClusterInv'
<1> DEFINE r == Head(items)
<1>1. /\ items # <<>> /\ items' = Tail(items) /\ UNCHANGED <<cluster, cached, opImage, seen>>
      /\ objects' = [objects EXCEPT ![r.name] = Reconciled(r)]
      /\ queued' = (queued \/ objects'[r.name] # objects[r.name]) /\ items \in Seq(ResourceSet(seen))
  BY DEF ReconcileResource, ClusterInv
<1>2. /\ Tail(items) \in Seq(ResourceSet(seen))
      /\ \A x \in Range(items) : x = r \/ x \in Range(Tail(items))
  BY <1>1, TailRange
<1>3. ResourceSet(seen)' = ResourceSet(seen)
  BY <1>1
<1>4. ASSUME NEW n \in AllNames, ~queued', objects'[n] # None
      PROVE  objects[n] # None /\ (StillToRemove(n) => StillToRemove(n)')
  <2>1. DOMAIN objects = AllNames  BY DEF ClusterInv
  <2>2. n = r.name => objects'[n] = Reconciled(r) /\ objects'[n] = objects[n]  BY <1>1, <1>4, <2>1
  <2>3. n # r.name => objects'[n] = objects[n]  BY <1>1, <2>1
  <2>4. r # Absent(n)
    <3> SUFFICES ASSUME r = Absent(n) PROVE FALSE  OBVIOUS
    <3>1. r.name = n /\ r.state = "absent"  BY DEF Absent
    <3>2. Reconciled(r) = None  BY <3>1 DEF Reconciled
    <3> QED  BY <3>1, <3>2, <2>2, <1>4
  <2> QED  BY <2>2, <2>3, <2>4, <1>1, <1>2, <1>4, Zenon DEF StillToRemove
<1>5. <<"cache">> \in AllNames /\ <<"toolbox">> \in AllNames  BY NamesOfParts DEF ClusterInv
<1>6. ~queued' => /\ seen' = cached'
                  /\ objects'[<<"cache">>] # None => seen'.spec.cache \/ StillToRemove(<<"cache">>)'
                  /\ objects'[<<"toolbox">>] # None => seen'.spec.toolbox \/ StillToRemove(<<"toolbox">>)'
  BY <1>1, <1>4, <1>5, Zenon DEF ClusterInv
<1>7. DOMAIN objects' = AllNames /\ queued' \in BOOLEAN  BY <1>1 DEF ClusterInv
<1>8. seen'.status = WantedImage(seen.spec)'  BY <1>1, Zenon DEF ClusterInv, WantedImage
<1> QED  BY <1>1, <1>2, <1>3, <1>6, <1>7, <1>8, Zenon DEF ClusterInv

LEMMA ClusterInvStep ==
    ASSUME ClusterInv, OperatorNext
    PROVE  ClusterInv'
<1>1. CASE Reconcile  BY <1>1, ReconcileKeeps
<1>2. CASE ReconcileResource  BY <1>2, ReconcileResourceKeeps
<1>3. seen' = seen => ResourceSet(seen)' = ResourceSet(seen)
  OBVIOUS
<1>4. opImage' = opImage /\ seen' = seen => WantedImage(seen.spec)' = WantedImage(seen.spec)
  BY Zenon DEF WantedImage
<1>5. <<>> \in Seq(ResourceSet(seen))  OBVIOUS
<1>6. CASE ReconcileFails
  <2>1. /\ items' = <<>> /\ queued' = TRUE /\ UNCHANGED <<cluster, cached, opImage, objects, seen>>
    BY <1>6 DEF ReconcileFails, Requeued
  <2> QED  BY <2>1, <1>3, <1>5, Zenon DEF ClusterInv
<1>7. CASE WatchEvent
  <2>1. cached' = cluster /\ queued' = TRUE /\ UNCHANGED <<cluster, opImage, objects, seen, items>>
    BY <1>7 DEF WatchEvent
  <2> QED  BY <2>1, <1>3, <1>4, Zenon DEF ClusterInv
<1>8. CASE Edit
  <2>1. PICK s \in Specs : cluster' = [cluster EXCEPT !.spec = s]  BY <1>8 DEF Edit
  <2>2. UNCHANGED <<cached, opImage, objects, queued, seen, items>>  BY <1>8 DEF Edit
  <2>3. cluster' \in BuildClusters  BY <2>1 DEF ClusterInv, BuildClusters
  <2> QED  BY <2>2, <2>3, <1>3, <1>4, Zenon DEF ClusterInv, StillToRemove
<1>9. CASE Upgrade
  <2>1. PICK i \in 2 .. Len(OpImages) : opImage' = OpImages[i]  BY <1>9 DEF Upgrade
  <2>2. opImage' \in Range(OpImages)
    <3>1. i \in DOMAIN OpImages  BY <2>1, SpecsAssumption
    <3> QED  BY <2>1, <3>1 DEF Range
  <2>3. cached' = cluster /\ queued' = TRUE /\ items' = <<>> /\ UNCHANGED <<cluster, objects, seen>>
    BY <1>9 DEF Upgrade
  <2> QED  BY <2>2, <2>3, <1>3, <1>5, Zenon DEF ClusterInv
<1>10. CASE Drift
  <2>1. PICK n \in AllNames, c \in {None, Tampered} : objects' = [objects EXCEPT ![n] = c]  BY <1>10 DEF Drift
  <2>2. queued' = TRUE /\ UNCHANGED <<cluster, cached, opImage, seen, items>>  BY <1>10 DEF Drift
  <2>3. DOMAIN objects' = AllNames  BY <2>1 DEF ClusterInv
  <2> QED  BY <2>2, <2>3, <1>3, <1>4, Zenon DEF ClusterInv
<1> QED  BY <1>1, <1>2, <1>6, <1>7, <1>8, <1>9, <1>10, Zenon DEF OperatorNext, OperatorStep

LEMMA ClusterInvSound ==
    ASSUME ClusterInv
    PROVE  ClusterSound
<1>1. RunsWantedImage
  <2> SUFFICES ASSUME NEW r \in Range(items),
                      r.name \in {<<"monitor">>, <<"scheduler">>, <<"cache">>, <<"toolbox">>}
               PROVE  r.content \in {None, <<WantedImage(seen.spec)>>}
    BY DEF RunsWantedImage
  <2>1. items \in Seq(ResourceSet(seen))  BY DEF ClusterInv
  <2>2. r \in ResourceSet(seen)  BY <2>1, RangeOfSeq
  <2>3. items # <<>>  BY <2>1, RangeEquality
  <2>4. kubeccImage(seen) = WantedImage(seen.spec)  BY <2>3 DEF ClusterInv, kubeccImage, WantedImage
  <2>5. \A tc : toolchain(seen, tc).name \notin {<<"monitor">>, <<"scheduler">>, <<"cache">>, <<"toolbox">>}
    BY DEF toolchain, Present, AgentName
  <2>6. r \notin {toolchain(seen, tc) : tc \in Toolchains(seen.spec)}  BY <2>5
  <2>7. r.content \in {None, <<kubeccImage(seen)>>}
    BY <2>2, <2>6 DEF ResourceSet, Present, Created, Absent, PresentIf
  <2> QED  BY <2>4, <2>7
<1>2. TurnedOffIsGone
  <2> SUFFICES ASSUME items = <<>>, ~queued, cached = cluster
               PROVE  /\ objects[<<"cache">>] # None => cluster.spec.cache
                      /\ objects[<<"toolbox">>] # None => cluster.spec.toolbox
    BY DEF TurnedOffIsGone
  <2>1. Range(items) = {}  BY DEF Range
  <2> QED  BY <2>1 DEF ClusterInv, StillToRemove
<1> QED  BY <1>1, <1>2 DEF ClusterSound

\* What the operator is about to write runs the wanted image, and what the spec turns
\* off is gone once the operator is idle (buildcluster.go:46, components.go:273), for any
\* specs and images, any edits, upgrades, drift and failing requests.
THEOREM ClusterSoundAlways == OperatorSpec => []ClusterSound
<1>1. OperatorInit => ClusterInv  BY ClusterInvInitially
<1>2. ClusterInv /\ [OperatorNext]_operatorVars => ClusterInv'
  <2> SUFFICES ASSUME ClusterInv, [OperatorNext]_operatorVars PROVE ClusterInv'  OBVIOUS
  <2>1. CASE UNCHANGED operatorVars
    <3>1. UNCHANGED <<cluster, cached, opImage, objects, queued, seen, items>>  BY <2>1, Zenon DEF operatorVars
    <3>2. WantedImage(seen.spec)' = WantedImage(seen.spec)  BY <3>1, Zenon DEF WantedImage
    <3> QED  BY <3>1, <3>2, Zenon DEF ClusterInv, StillToRemove
  <2> QED  BY <2>1, ClusterInvStep
<1> QED  BY <1>1, <1>2, ClusterInvSound, PTL DEF OperatorSpec
=============================================================================
