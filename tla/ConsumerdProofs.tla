--------------------------- MODULE ConsumerdProofs --------------------------
(***************************************************************************)
(* The split queue of the consumerd, for any number of workers and of      *)
(* requests and any sequence of resizes: neither pool ever runs more than  *)
(* it was last told to, a request is in one place at a time and what waits *)
(* there may run there, and the counters are those of the requests.        *)
(***************************************************************************)
EXTENDS Consumerd, FiniteSetTheorems, FunctionTheorems, TLAPS

WorkerSteps == {"none", "idle", "accepted", "running", "exiting"}

\* The part of the pools' types that NeverOverTarget is about.
SizesOK ==
  /\ worker \in [Pools -> [Slots -> WorkerSteps]]
  /\ stops \in [Pools -> Nat] /\ target \in [Pools -> Nat]

PoolInv == SizesOK /\ NeverOverTarget

-----------------------------------------------------------------------------
\* A finite set has a subset of every smaller size: what Resize's choice of new
\* workers relies on.
LEMMA SubsetOfSize ==
  ASSUME NEW S, IsFiniteSet(S), NEW k \in Nat, k <= Cardinality(S)
  PROVE  \E T \in SUBSET S : Cardinality(T) = k
<1> DEFINE m == Cardinality(S)
<1>1. m \in Nat /\ ExistsBijection(1 .. m, S)
  BY FS_CardinalityType, Zenon
<1>2. PICK f : f \in Bijection(1 .. m, S)
  BY <1>1, Zenon DEF ExistsBijection
<1> DEFINE T == {f[j] : j \in 1 .. k}
           g == [j \in 1 .. k |-> f[j]]
<1>3. 1 .. k \subseteq 1 .. m
  BY <1>1
<1>4. f \in [1 .. m -> S] /\ \A a, b \in 1 .. m : f[a] = f[b] => a = b
  BY <1>2, Fun_BijectionProperties, Zenon
<1>5. T \in SUBSET S
  BY <1>3, <1>4, Zenon
<1>6. g \in Bijection(1 .. k, T)
  <2>1. g \in [1 .. k -> T] /\ \A a, b \in 1 .. k : g[a] = g[b] => a = b
    BY <1>3, <1>4, Zenon
  <2>2. \A t \in T : \E j \in 1 .. k : g[j] = t
    BY Zenon
  <2> QED
    BY <2>1, <2>2, Fun_IsBij, Zenon
<1>7. Cardinality(T) = k
  BY <1>6, FS_CountingElements, Zenon DEF ExistsBijection
<1> QED
  BY <1>5, <1>7, Zenon

\* The workers at given steps are finitely many.
LEMMA WorkersFinite ==
  ASSUME NEW p, NEW Q
  PROVE  IsFiniteSet(In(p, Q)) /\ Cardinality(In(p, Q)) \in Nat
<1>1. In(p, Q) \subseteq Slots
  BY Zenon DEF In
<1> QED
  BY <1>1, FS_Subset, FS_CardinalityType, PoolAssumption, Zenon

\* A step concerns one pool; the other keeps its workers and its target.
LEMMA OnePool ==
  ASSUME PoolInv, SizesOK', NEW p \in Pools,
         \A q \in Pools \ {p} :
            worker'[q] = worker[q] /\ stops'[q] = stops[q] /\ target'[q] = target[q],
         Cardinality(Live(p)') <= target'[p] + stops'[p]
  PROVE  PoolInv'
<1>1. \A q \in Pools \ {p} : Live(q)' = Live(q)
  BY Zenon DEF Live, In
<1>2. \A q \in Pools : Cardinality(Live(q)') <= target'[q] + stops'[q]
  BY <1>1, Zenon DEF PoolInv, NeverOverTarget
<1> QED
  BY <1>2, Zenon DEF PoolInv, NeverOverTarget

\* A worker that stays able to run tasks, or unable to, changes nothing.
LEMMA WorkerMoves ==
  ASSUME PoolInv, NEW p \in Pools, NEW w \in Slots, NEW b \in WorkerSteps,
         worker' = [worker EXCEPT ![p][w] = b], UNCHANGED <<stops, target>>,
         worker[p][w] \in {"idle", "accepted", "running"} <=> b \in {"idle", "accepted", "running"}
  PROVE  PoolInv'
<1>1. /\ worker' \in [Pools -> [Slots -> WorkerSteps]]
      /\ worker'[p][w] = b /\ \A v \in Slots \ {w} : worker'[p][v] = worker[p][v]
      /\ \A q \in Pools \ {p} : worker'[q] = worker[q]
  BY Zenon DEF PoolInv, SizesOK
<1>2. SizesOK'
  BY <1>1, Zenon DEF PoolInv, SizesOK
<1>3. Live(p)' = Live(p)
  BY <1>1, Zenon DEF Live, In
<1>4. Cardinality(Live(p)') <= target'[p] + stops'[p]
  BY <1>3, Zenon DEF PoolInv, NeverOverTarget
<1> QED
  BY <1>1, <1>2, <1>4, OnePool, Zenon

\* A worker that takes a stop message is one less of both sides.
LEMMA StopKeeps ==
  ASSUME PoolInv, NEW p \in Pools, NEW w \in Slots, Stop(p, w)
  PROVE  PoolInv'
<1>1. /\ worker \in [Pools -> [Slots -> WorkerSteps]]
      /\ stops \in [Pools -> Nat] /\ target \in [Pools -> Nat]
  BY Zenon DEF PoolInv, SizesOK
<1>2. /\ worker' \in [Pools -> [Slots -> WorkerSteps]]
      /\ worker'[p][w] = "exiting" /\ \A v \in Slots \ {w} : worker'[p][v] = worker[p][v]
      /\ \A q \in Pools \ {p} : worker'[q] = worker[q]
  BY <1>1, Zenon DEF Stop, WorkerSteps
<1>3. /\ stops' \in [Pools -> Nat] /\ stops'[p] = stops[p] - 1 /\ target' = target
      /\ \A q \in Pools \ {p} : stops'[q] = stops[q]
  BY <1>1 DEF Stop
<1>4. Live(p)' = Live(p) \ {w} /\ w \in Live(p)
  BY <1>2, Zenon DEF Live, In, Stop
<1>5. Cardinality(Live(p)') = Cardinality(Live(p)) - 1 /\ Cardinality(Live(p)) \in Nat
  BY <1>4, WorkersFinite, FS_RemoveElement DEF Live
<1>6. Cardinality(Live(p)') <= target'[p] + stops'[p]
  BY <1>1, <1>3, <1>5 DEF PoolInv, NeverOverTarget
<1>7. SizesOK'
  BY <1>1, <1>2, <1>3, Zenon DEF SizesOK
<1> QED
  BY <1>2, <1>3, <1>6, <1>7, OnePool, Zenon

\* How many workers a pool has, and the ones Resize adds.
LEMMA WorkersCounted ==
  ASSUME NEW p \in Pools
  PROVE  LET none == In(p, {"none"})
             num == Cardinality(Workers(p))
         IN  /\ IsFiniteSet(none) /\ Cardinality(none) \in Nat /\ IsFiniteSet(Workers(p))
             /\ num \in Nat /\ Cardinality(Slots) \in Nat
             /\ num = Cardinality(Slots) - Cardinality(none)
<1> DEFINE none == In(p, {"none"})
<1>0. IsFiniteSet(Slots) /\ Cardinality(Slots) \in Nat
  BY PoolAssumption, FS_CardinalityType, Zenon
<1>1. IsFiniteSet(none) /\ Cardinality(none) \in Nat /\ Slots \cap none = none
  BY WorkersFinite, Zenon DEF In
<1>2. IsFiniteSet(Slots \ none) /\ Cardinality(Slots \ none) = Cardinality(Slots) - Cardinality(none)
  BY <1>0, <1>1, FS_Difference, Zenon
<1>3. Cardinality(Slots \ none) \in Nat
  BY <1>2, FS_CardinalityType, Zenon
<1> QED
  BY <1>0, <1>1, <1>2, <1>3, Zenon DEF Workers

LEMMA ResizeChoice ==
  ASSUME NEW p \in Pools, NEW n \in 0 .. Cardinality(Slots), Resize(p, n)
  PROVE  LET num == Cardinality(Workers(p))
         IN  \E new \in SUBSET In(p, {"none"}) :
               /\ Cardinality(new) = IF n > num THEN n - num ELSE 0
               /\ worker' = [worker EXCEPT ![p] =
                               [w \in Slots |-> IF w \in new THEN "idle" ELSE worker[p][w]]]
<1> DEFINE none == In(p, {"none"})
           num == Cardinality(Workers(p))
           d == IF n > num THEN n - num ELSE 0
           new == CHOOSE S \in SUBSET none : Cardinality(S) = d
<1>1. /\ IsFiniteSet(none) /\ d \in Nat /\ d <= Cardinality(none)
  BY WorkersCounted
<1>2. worker' = [worker EXCEPT ![p] =
                   [w \in Slots |-> IF w \in new THEN "idle" ELSE worker[p][w]]]
  BY Zenon DEF Resize
<1> HIDE DEF d, num
<1>3. new \in SUBSET none /\ Cardinality(new) = d
  <2>1. \E S \in SUBSET none : Cardinality(S) = d
    BY <1>1, SubsetOfSize, Zenon
  <2> QED
    BY <2>1, Zenon
<1> QED
  BY <1>2, <1>3, Zenon DEF d, num

\* Resize starts as many workers as are missing, or asks as many to stop as are
\* too many.
LEMMA ResizeKeeps ==
  ASSUME PoolInv, NEW p \in Pools, NEW n \in 0 .. Cardinality(Slots), Resize(p, n)
  PROVE  PoolInv'
<1> DEFINE none == In(p, {"none"})
           num == Cardinality(Workers(p))
           d == IF n > num THEN n - num ELSE 0
<1>1. /\ worker \in [Pools -> [Slots -> WorkerSteps]]
      /\ stops \in [Pools -> Nat] /\ target \in [Pools -> Nat]
  BY Zenon DEF PoolInv, SizesOK
<1>2. IsFiniteSet(none) /\ IsFiniteSet(Workers(p)) /\ num \in Nat
  BY WorkersCounted, Zenon
<1>3. d \in Nat
  BY <1>2
<1>4. /\ stops[p] = 0
      /\ target' = [target EXCEPT ![p] = n]
      /\ stops' = [stops EXCEPT ![p] = IF n < num THEN num - n ELSE 0]
  BY <1>1, Zenon DEF Resize
<1>5. PICK new \in SUBSET none :
        /\ Cardinality(new) = d
        /\ worker' = [worker EXCEPT ![p] =
                        [w \in Slots |-> IF w \in new THEN "idle" ELSE worker[p][w]]]
  BY ResizeChoice, Zenon
<1> HIDE DEF d, num, none
<1>6. /\ worker' \in [Pools -> [Slots -> WorkerSteps]]
      /\ \A w \in Slots : worker'[p][w] = IF w \in new THEN "idle" ELSE worker[p][w]
      /\ \A q \in Pools \ {p} : worker'[q] = worker[q]
  BY <1>1, <1>5, Zenon DEF WorkerSteps
<1>7. /\ stops' \in [Pools -> Nat] /\ target' \in [Pools -> Nat]
      /\ stops'[p] = (IF n < num THEN num - n ELSE 0) /\ target'[p] = n
      /\ \A q \in Pools \ {p} : stops'[q] = stops[q] /\ target'[q] = target[q]
  BY <1>1, <1>2, <1>4
<1>8. Live(p)' = Live(p) \cup new /\ Live(p) \cap new = {}
  BY <1>5, <1>6, Zenon DEF Live, In, none
<1>9. Cardinality(Live(p)) <= num /\ Cardinality(Live(p)) \in Nat /\ IsFiniteSet(Live(p))
  <2>1. Live(p) \subseteq Workers(p)
    BY Zenon DEF Live, In, Workers
  <2> QED
    BY <1>2, <2>1, FS_Subset, FS_CardinalityType, Zenon DEF num
<1>10. Cardinality(Live(p)') = Cardinality(Live(p)) + d
  <2>1. IsFiniteSet(new)
    BY <1>2, <1>5, FS_Subset, Zenon
  <2>2. Cardinality(Live(p) \cup new)
          = Cardinality(Live(p)) + Cardinality(new) - Cardinality(Live(p) \cap new)
    BY <1>9, <2>1, FS_Union, Zenon
  <2>3. Cardinality(Live(p) \cap new) = 0
    BY <1>8, FS_EmptySet, Zenon
  <2>4. Cardinality(Live(p) \cup new) = Cardinality(Live(p)) + d
    BY <1>3, <1>5, <1>9, <2>2, <2>3
  <2> QED
    BY <1>8, <2>4, Zenon
<1>11. Cardinality(Live(p)') <= target'[p] + stops'[p]
  BY <1>1, <1>2, <1>7, <1>9, <1>10 DEF d
<1>12. SizesOK'
  BY <1>6, <1>7, Zenon DEF SizesOK
<1> QED
  BY <1>6, <1>7, <1>11, <1>12, OnePool, Zenon

LEMMA InitPoolInv == ConsumerdInit => PoolInv
<1> SUFFICES ASSUME ConsumerdInit PROVE PoolInv
  BY Zenon
<1>1. /\ worker = [p \in Pools |-> [w \in Slots |-> "none"]]
      /\ stops = [p \in Pools |-> 0] /\ target = [p \in Pools |-> 0]
  BY Zenon DEF ConsumerdInit, PoolInit
<1>2. \A p \in Pools : Live(p) = {}
  BY <1>1, Zenon DEF Live, In
<1>3. NeverOverTarget
  BY <1>1, <1>2, FS_EmptySet DEF NeverOverTarget
<1> QED
  BY <1>1, <1>3, Zenon DEF PoolInv, SizesOK, WorkerSteps

\* A step of neither the workers nor a resize.
LEMMA PoolsKeep ==
  ASSUME PoolInv, UNCHANGED <<worker, stops, target>>
  PROVE  PoolInv'
<1>1. \A p \in Pools : Live(p)' = Live(p)
  BY Zenon DEF Live, In
<1> QED
  BY <1>1, Zenon DEF PoolInv, SizesOK, NeverOverTarget

LEMMA StepPoolInv == PoolInv /\ [ConsumerdNext]_consumerdVars => PoolInv'
<1> SUFFICES ASSUME PoolInv, [ConsumerdNext]_consumerdVars PROVE PoolInv'
  BY Zenon
<1>1. /\ "local" \in Pools /\ "remote" \in Pools
      /\ LocalLimit \in 0 .. Cardinality(Slots) /\ 0 \in 0 .. Cardinality(Slots)
      /\ RemoteLimits \subseteq 0 .. Cardinality(Slots)
  BY ConsumerdAssumption, PoolAssumption, FS_CardinalityType
<1>2. ASSUME NEW t \in Tasks, Exec(t) \/ Send(t) PROVE PoolInv'
  BY <1>2, PoolsKeep, Zenon DEF Exec, Send, poolVars
<1>3. ASSUME NEW p \in Pools, PoolAct(p) PROVE PoolInv'
  <2>1. CASE CheckPaused(p)
    BY <2>1, PoolsKeep, Zenon DEF CheckPaused
  <2>2. ASSUME NEW w \in Slots, Accept(p, w) PROVE PoolInv'
    BY <2>2, WorkerMoves, Zenon DEF Accept, WorkerSteps
  <2>3. ASSUME NEW w \in Slots, Exit(p, w) PROVE PoolInv'
    BY <2>3, WorkerMoves, Zenon DEF Exit, WorkerSteps
  <2>4. ASSUME NEW w \in Slots, Stop(p, w) PROVE PoolInv'
    BY <2>4, StopKeeps, Zenon
  <2> QED
    BY <1>3, <2>1, <2>2, <2>3, <2>4, Zenon DEF PoolAct, PoolStep
<1>4. ASSUME NEW p \in Pools, NEW q \in Queues, Select(p, q) PROVE PoolInv'
  BY <1>4, PoolsKeep, Zenon DEF Select, Fill
<1>5. ASSUME NEW p \in Pools, NEW w \in Slots, Runner(p, w) PROVE PoolInv'
  BY <1>5, WorkerMoves, Zenon DEF Runner, Start, WorkerSteps
<1>6. ASSUME NEW p \in Pools, NEW w \in Slots, NEW out, Return(p, w, out) PROVE PoolInv'
  BY <1>6, WorkerMoves, Zenon DEF Return, Finish, WorkerSteps
<1>7. CASE RemoteAvailable \/ NoteOutage \/ RemoteUnavailable
  BY <1>7, PoolsKeep, Zenon DEF RemoteAvailable, NoteOutage, RemoteUnavailable, Resume, Pause, poolVars
<1>8. CASE ManageLocal
  BY <1>1, <1>8, ResizeKeeps, Zenon DEF ManageLocal
<1>9. ASSUME NEW s \in Schedulers, RemoteLimitGone(s) PROVE PoolInv'
  BY <1>1, <1>9, ResizeKeeps, Zenon DEF RemoteLimitGone
<1>10. ASSUME NEW s \in Schedulers, OnComponentAvailable(s) \/ OnComponentLost(s) PROVE PoolInv'
  BY <1>10, PoolsKeep, Zenon DEF OnComponentAvailable, OnComponentLost, poolVars
<1>11. ASSUME NEW n \in RemoteLimits, RemoteLimitChanged(n) PROVE PoolInv'
  BY <1>1, <1>11, ResizeKeeps, Zenon DEF RemoteLimitChanged
<1>12. CASE UNCHANGED consumerdVars
  BY <1>12, PoolsKeep, Zenon DEF consumerdVars, poolVars
<1> QED
  BY <1>2, <1>3, <1>4, <1>5, <1>6, <1>7, <1>8, <1>9, <1>10, <1>11, <1>12, Zenon
     DEF ConsumerdNext, Work, Environment

\* WorkerPool.Resize: however the scheduler's limits follow each other, a pool
\* never has more workers able to run a task than it was last resized to, but
\* for those it is still waiting to stop.
THEOREM NeverOverTargetAlways == ConsumerdSpec => []NeverOverTarget
<1>1. PoolInv => NeverOverTarget
  BY Zenon DEF PoolInv
<1> QED
  BY <1>1, InitPoolInv, StepPoolInv, PTL DEF ConsumerdSpec

-----------------------------------------------------------------------------
(* The split queue: where each SplitTask is. *)

\* Only a worker that waits on its future, or runs, has a task; the latter does.
HandInv ==
  \A p \in Pools, w \in Slots :
     /\ worker[p][w] \notin {"accepted", "running"} => hand[p][w] = NoTask
     /\ worker[p][w] = "running" => hand[p][w] # NoTask

\* A task is at one position of one channel or with one worker, and Run waits
\* for it there.
QueuesApart ==
  \A q, r \in Queues : \A i \in 1 .. Len(queue[q]), j \in 1 .. Len(queue[r]) :
     queue[q][i] = queue[r][j] => q = r /\ i = j
QueuedUnheld ==
  \A q \in Queues, p \in Pools, w \in Slots : \A i \in 1 .. Len(queue[q]) :
     queue[q][i] # hand[p][w]
HandsApart ==
  \A p, q \in Pools, v, w \in Slots :
     hand[p][v] = hand[q][w] /\ hand[p][v] # NoTask => p = q /\ v = w
QueuedWait == \A q \in Queues : \A i \in 1 .. Len(queue[q]) : run[queue[q][i]] = "waiting"
HeldWait == \A p \in Pools, w \in Slots : hand[p][w] # NoTask => run[hand[p][w]] = "waiting"
PlaceInv == QueuesApart /\ QueuedUnheld /\ HandsApart /\ QueuedWait /\ HeldWait

\* What a remote worker has or may be given next is not a local-only task.
RemoteAny == \A w \in Slots : hand["remote"][w] # NoTask => excl[hand["remote"][w]] = "any"
SharedAny == \A i \in 1 .. Len(queue["shared"]) : excl[queue["shared"][i]] = "any"
LocalInv == RemoteAny /\ SharedAny /\ queue["remote"] = <<>>

\* ConsumerdTypeOK without the counters, whose lower bound needs CountInv.
TypesInv ==
  /\ PoolTypeOK
  /\ run \in [Tasks -> {"new", "sending", "waiting", "ok", "error"}]
  /\ excl \in [Tasks -> {"local", "any"}]
  /\ retries \in [Tasks -> 0 .. MaxRetries]
  /\ queue \in [Queues -> Seq(Tasks)] /\ \A q \in Queues : Len(queue[q]) <= Capacity
  /\ sched \in [Schedulers -> {"unknown", "up", "leaving", "gone"}]
  /\ limits \in 0 .. MaxLimits
  /\ status \in BOOLEAN /\ managed \in BOOLEAN
  /\ avail \in {"ensure", "wait", "lost"}

SplitInv == TypesInv /\ HandInv /\ FutureHasOneTaker /\ PlaceInv /\ LocalInv

LEMMA Appended ==
  ASSUME NEW s \in Seq(Tasks), NEW t \in Tasks
  PROVE  /\ Append(s, t) \in Seq(Tasks) /\ Len(s) \in Nat
         /\ Len(Append(s, t)) = Len(s) + 1 /\ Append(s, t)[Len(s) + 1] = t
         /\ \A i \in 1 .. Len(s) : Append(s, t)[i] = s[i]
  OBVIOUS

LEMMA Taken ==
  ASSUME NEW s \in Seq(Tasks), s # <<>>
  PROVE  /\ Rest(s) \in Seq(Tasks) /\ Len(s) \in Nat \ {0}
         /\ Len(Rest(s)) = Len(s) - 1 /\ Head(s) = s[1] /\ s[1] \in Tasks
         /\ \A i \in 1 .. Len(s) - 1 : Rest(s)[i] = s[i + 1]
  BY DEF Rest

\* A resize adds idle workers in free slots and changes nothing else of a pool
\* but the messages it has to send.
LEMMA ResizeEffect ==
  ASSUME PoolTypeOK, NEW p \in Pools, NEW n \in 0 .. Cardinality(Slots), Resize(p, n)
  PROVE  /\ PoolTypeOK' /\ UNCHANGED <<paused, mgr, offer, hand>>
         /\ \A q \in Pools, w \in Slots :
               worker'[q][w] # worker[q][w] => worker[q][w] = "none" /\ worker'[q][w] = "idle"
<1> DEFINE num == Cardinality(Workers(p))
<1>1. /\ worker \in [Pools -> [Slots -> WorkerSteps]]
      /\ stops \in [Pools -> 0 .. Cardinality(Slots)] /\ target \in [Pools -> 0 .. Cardinality(Slots)]
  BY Zenon DEF PoolTypeOK, WorkerSteps
<1>2. UNCHANGED <<paused, mgr, offer, hand>> /\ target' = [target EXCEPT ![p] = n]
      /\ stops' = [stops EXCEPT ![p] = IF n < num THEN num - n ELSE 0]
  BY Zenon DEF Resize
<1>3. num \in Nat /\ Cardinality(Slots) \in Nat /\ num <= Cardinality(Slots)
  BY WorkersCounted
<1> HIDE DEF num
<1>4. (IF n < num THEN num - n ELSE 0) \in 0 .. Cardinality(Slots)
  BY <1>3
<1>5. /\ stops' \in [Pools -> 0 .. Cardinality(Slots)]
      /\ target' \in [Pools -> 0 .. Cardinality(Slots)]
  BY <1>1, <1>2, <1>4, Zenon
<1>6. PICK new \in SUBSET In(p, {"none"}) :
        worker' = [worker EXCEPT ![p] =
                     [w \in Slots |-> IF w \in new THEN "idle" ELSE worker[p][w]]]
  BY ResizeChoice, Zenon
<1>7. /\ worker' \in [Pools -> [Slots -> WorkerSteps]]
      /\ \A w \in Slots : worker'[p][w] = IF w \in new THEN "idle" ELSE worker[p][w]
      /\ \A q \in Pools \ {p} : worker'[q] = worker[q]
  BY <1>1, <1>6, Zenon DEF WorkerSteps
<1>8. \A w \in new : worker[p][w] = "none"
  BY <1>6, Zenon DEF In
<1> QED
  BY <1>2, <1>5, <1>7, <1>8, Zenon DEF PoolTypeOK, WorkerSteps

\* Steps of a pool keep its types.
LEMMA PoolTypes ==
  ASSUME PoolTypeOK, NEW p \in Pools
  PROVE  /\ \A w \in Slots : Accept(p, w) \/ Exit(p, w) \/ Start(p, w) \/ Finish(p, w) => PoolTypeOK'
         /\ \A w \in Slots : Stop(p, w) => PoolTypeOK'
         /\ CheckPaused(p) \/ Pause(p) \/ Resume(p) => PoolTypeOK'
         /\ \A t \in Tasks : Fill(p, t) => PoolTypeOK'
<1>1. ASSUME NEW w \in Slots, Accept(p, w) \/ Exit(p, w) \/ Start(p, w) \/ Finish(p, w)
      PROVE  PoolTypeOK'
  <2>1. CASE Accept(p, w)
    BY <2>1, Zenon DEF PoolTypeOK, Accept
  <2>2. CASE Exit(p, w)
    BY <2>2, Zenon DEF PoolTypeOK, Exit
  <2>3. CASE Start(p, w)
    BY <2>3, Zenon DEF PoolTypeOK, Start
  <2>4. CASE Finish(p, w)
    BY <2>4, Zenon DEF PoolTypeOK, Finish
  <2> QED BY <1>1, <2>1, <2>2, <2>3, <2>4, Zenon
<1>2. ASSUME NEW w \in Slots, Stop(p, w) PROVE PoolTypeOK'
  <2>1. stops[p] - 1 \in 0 .. Cardinality(Slots)
    BY <1>2, WorkersCounted DEF PoolTypeOK, Stop
  <2>2. /\ stops' \in [Pools -> 0 .. Cardinality(Slots)]
        /\ offer' \in [Pools -> Slots \cup {Gone}]
    BY <1>2, <2>1, Zenon DEF Stop, PoolTypeOK
  <2> QED BY <1>2, <2>2, Zenon DEF Stop, PoolTypeOK
<1>3. CASE CheckPaused(p) \/ Pause(p) \/ Resume(p)
  BY <1>3, Zenon DEF PoolTypeOK, CheckPaused, Pause, Resume
<1>4. ASSUME NEW t \in Tasks, Fill(p, t) PROVE PoolTypeOK'
  <2>1. hand' \in [Pools -> [Slots -> Tasks \cup {NoTask}]]
    BY <1>4, Zenon DEF Fill, PoolTypeOK
  <2> QED BY <1>4, <2>1, Zenon DEF Fill, PoolTypeOK
<1> QED BY <1>1, <1>2, <1>3, <1>4, Zenon

\* Every step keeps the types.
LEMMA TypesStep ==
  ASSUME TypesInv, [ConsumerdNext]_consumerdVars
  PROVE  TypesInv'
<1>0. /\ "local" \in Pools /\ "remote" \in Pools
      /\ LocalLimit \in 0 .. Cardinality(Slots) /\ 0 \in 0 .. Cardinality(Slots)
      /\ RemoteLimits \subseteq 0 .. Cardinality(Slots)
      /\ MaxLimits \in Nat /\ MaxRetries \in Nat /\ Capacity \in Nat
  BY ConsumerdAssumption, PoolAssumption, FS_CardinalityType
<1>1. PoolTypeOK
  BY Zenon DEF TypesInv
<1>2. ASSUME UNCHANGED <<run, excl, retries, queue, sched, limits, status, avail, managed>>,
             PoolTypeOK'
      PROVE  TypesInv'
  BY <1>2, Zenon DEF TypesInv
<1>3. UNCHANGED poolVars => PoolTypeOK'
  BY <1>1, Zenon DEF PoolTypeOK, poolVars
<1>4. ASSUME NEW t \in Tasks, Exec(t) PROVE TypesInv'
  BY <1>3, <1>4, Zenon DEF Exec, TypesInv
<1>5. ASSUME NEW t \in Tasks, Send(t) PROVE TypesInv'
  <2> DEFINE q == QueueFor(t)
  <2>1. q \in Queues /\ queue[q] \in Seq(Tasks) /\ Len(queue[q]) < Capacity
    BY <1>5, Zenon DEF Send, QueueFor, Queues, HasRoom, TypesInv
  <2>2. Append(queue[q], t) \in Seq(Tasks) /\ Len(Append(queue[q], t)) <= Capacity
    BY <1>0, <2>1, Appended
  <2>3. queue' = [queue EXCEPT ![q] = Append(queue[q], t)]
    BY <1>5, <2>1, Zenon DEF Send, TypesInv
  <2>4. queue' \in [Queues -> Seq(Tasks)] /\ \A r \in Queues : Len(queue'[r]) <= Capacity
    BY <2>1, <2>2, <2>3, Zenon DEF TypesInv
  <2>5. run' \in [Tasks -> {"new", "sending", "waiting", "ok", "error"}]
    BY <1>5, Zenon DEF Send, TypesInv
  <2> QED BY <1>3, <1>5, <2>4, <2>5, Zenon DEF Send, TypesInv
<1>6. ASSUME NEW p \in Pools, PoolAct(p) PROVE TypesInv'
  <2>1. PoolTypeOK'
    BY <1>1, <1>6, PoolTypes, Zenon DEF PoolAct, PoolStep
  <2> QED BY <1>2, <1>6, <2>1, Zenon DEF PoolAct, cdVars
<1>7. ASSUME NEW p \in Pools, NEW q \in Queues, Select(p, q) PROVE TypesInv'
  <2>1. queue[q] \in Seq(Tasks) /\ queue[q] # <<>> /\ Len(queue[q]) <= Capacity
    BY <1>7, Zenon DEF Select, TypesInv
  <2>2. /\ Rest(queue[q]) \in Seq(Tasks) /\ Len(Rest(queue[q])) <= Capacity
        /\ Head(queue[q]) \in Tasks
    BY <1>0, <2>1, Taken
  <2>3. queue' = [queue EXCEPT ![q] = Rest(queue[q])] /\ Fill(p, Head(queue[q]))
    BY <1>7, Zenon DEF Select, TypesInv
  <2>4. queue' \in [Queues -> Seq(Tasks)] /\ \A r \in Queues : Len(queue'[r]) <= Capacity
    BY <2>2, <2>3, Zenon DEF TypesInv
  <2>5. PoolTypeOK'
    BY <1>1, <2>2, <2>3, PoolTypes, Zenon
  <2> QED BY <1>7, <2>4, <2>5, Zenon DEF Select, TypesInv
<1>8. ASSUME NEW p \in Pools, NEW w \in Slots, Runner(p, w) PROVE TypesInv'
  BY <1>1, <1>2, <1>8, PoolTypes, Zenon DEF Runner
<1>9. ASSUME NEW p \in Pools, NEW w \in Slots, NEW out \in Outcomes(p), Return(p, w, out)
      PROVE  TypesInv'
  <2> DEFINE t == hand[p][w]
  <2>1. PoolTypeOK'
    BY <1>1, <1>9, PoolTypes, Zenon DEF Return
  <2>2. out \in {"ok", "error", "retry", "runLocal"}
    BY <1>9, Zenon DEF Outcomes
  <2>3. run' \in [Tasks -> {"new", "sending", "waiting", "ok", "error"}]
    <3>1. /\ run' = [run EXCEPT ![t] = IF out \in {"retry", "runLocal"} THEN "new" ELSE out]
          /\ run \in [Tasks -> {"new", "sending", "waiting", "ok", "error"}]
      BY <1>9, Zenon DEF Return, TypesInv
    <3> QED BY <2>2, <3>1, Zenon
  <2>4. excl' \in [Tasks -> {"local", "any"}]
    BY <1>9, Zenon DEF Return, TypesInv
  <2>5. retries' \in [Tasks -> 0 .. MaxRetries]
    <3>1. retries \in [Tasks -> 0 .. MaxRetries]
      BY Zenon DEF TypesInv
    <3>2. \/ retries' = retries
          \/ retries' = [retries EXCEPT ![t] = @ + 1] /\ retries[t] < MaxRetries
      BY <1>9, Zenon DEF Return
    <3> HIDE DEF t
    <3> QED BY <1>0, <3>1, <3>2
  <2>6. UNCHANGED <<queue, sched, limits, status, avail, managed>>
    BY <1>9, Zenon DEF Return
  <2> QED BY <2>1, <2>3, <2>4, <2>5, <2>6, Zenon DEF TypesInv
<1>10. CASE RemoteAvailable \/ NoteOutage \/ RemoteUnavailable
  <2>1. PoolTypeOK'
    BY <1>0, <1>1, <1>3, <1>10, PoolTypes, Zenon DEF RemoteAvailable, NoteOutage, RemoteUnavailable
  <2> QED BY <1>10, <2>1, Zenon DEF RemoteAvailable, NoteOutage, RemoteUnavailable, TypesInv
<1>11. CASE ManageLocal
  <2>1. PoolTypeOK'
    BY <1>0, <1>1, <1>11, ResizeEffect, Zenon DEF ManageLocal
  <2> QED BY <1>11, <2>1, Zenon DEF ManageLocal, TypesInv
<1>12. ASSUME NEW s \in Schedulers, RemoteLimitGone(s) PROVE TypesInv'
  <2>1. PoolTypeOK'
    BY <1>0, <1>1, <1>12, ResizeEffect, Zenon DEF RemoteLimitGone
  <2> QED BY <1>12, <2>1, Zenon DEF RemoteLimitGone, TypesInv
<1>13. ASSUME NEW n \in RemoteLimits, RemoteLimitChanged(n) PROVE TypesInv'
  <2>1. PoolTypeOK'
    BY <1>0, <1>1, <1>13, ResizeEffect, Zenon DEF RemoteLimitChanged
  <2>2. limits' \in 0 .. MaxLimits
    BY <1>0, <1>13 DEF RemoteLimitChanged, TypesInv
  <2> QED BY <1>13, <2>1, <2>2, Zenon DEF RemoteLimitChanged, TypesInv
<1>14. ASSUME NEW s \in Schedulers, OnComponentAvailable(s) \/ OnComponentLost(s) PROVE TypesInv'
  BY <1>3, <1>14, Zenon DEF OnComponentAvailable, OnComponentLost, TypesInv
<1>15. CASE UNCHANGED consumerdVars
  BY <1>2, <1>3, <1>15, Zenon DEF consumerdVars, cdVars
<1> QED
  BY <1>4, <1>5, <1>6, <1>7, <1>8, <1>9, <1>10, <1>11, <1>12, <1>13, <1>14, <1>15, Zenon
     DEF ConsumerdNext, Work, Environment

-----------------------------------------------------------------------------
\* The future of pool p, and what HandInv says of pool p.
HandOf(p) ==
  \A w \in Slots :
     /\ worker[p][w] \notin {"accepted", "running"} => hand[p][w] = NoTask
     /\ worker[p][w] = "running" => hand[p][w] # NoTask
TakerOf(p) ==
  {w \in In(p, {"accepted"}) : hand[p][w] = NoTask}
     = IF mgr[p] = "select" THEN {offer[p]} \ {Gone} ELSE {}
FutureInv == HandInv /\ FutureHasOneTaker

LEMMA FutureOf ==
  /\ FutureInv <=> \A p \in Pools : HandOf(p) /\ TakerOf(p)
  BY Zenon DEF FutureInv, HandInv, FutureHasOneTaker, HandOf, TakerOf

\* A step concerns the future of one pool.
LEMMA OneFuture ==
  ASSUME FutureInv, NEW p \in Pools, HandOf(p)', TakerOf(p)',
         \A q \in Pools \ {p} : worker'[q] = worker[q] /\ hand'[q] = hand[q]
                                /\ mgr'[q] = mgr[q] /\ offer'[q] = offer[q]
  PROVE  FutureInv'
<1>0. \A q \in Pools : HandOf(q) /\ TakerOf(q)
  BY FutureOf, Zenon
<1>1. \A q \in Pools \ {p} : HandOf(q)'
  BY <1>0 DEF HandOf
<1>2. ASSUME NEW q \in Pools \ {p} PROVE TakerOf(q)'
  <2>1. /\ worker'[q] = worker[q] /\ hand'[q] = hand[q] /\ mgr'[q] = mgr[q] /\ offer'[q] = offer[q]
        /\ TakerOf(q)
    BY <1>0, Zenon
  <2> QED BY <2>1 DEF TakerOf, In
<1>3. \A q \in Pools : HandOf(q)' /\ TakerOf(q)'
  BY <1>1, <1>2, Zenon
<1> QED BY <1>3, Zenon DEF FutureInv, HandInv, FutureHasOneTaker, HandOf, TakerOf

\* The manager's and the workers' steps keep the future protocol.
LEMMA FuturePool ==
  ASSUME PoolTypeOK, FutureInv, NEW p \in Pools,
         CheckPaused(p) \/ \E w \in Slots : Accept(p, w) \/ Exit(p, w) \/ Stop(p, w)
                                            \/ Start(p, w) \/ Finish(p, w)
  PROVE  FutureInv'
<1>1. /\ mgr \in [Pools -> {"check", "send", "select"}] /\ offer \in [Pools -> Slots \cup {Gone}]
      /\ worker \in [Pools -> [Slots -> WorkerSteps]]
      /\ hand \in [Pools -> [Slots -> Tasks \cup {NoTask}]] /\ Gone \notin Slots
      /\ HandOf(p) /\ TakerOf(p)
  BY FutureOf, PoolAssumption, Zenon DEF PoolTypeOK, WorkerSteps
<1>2. CASE CheckPaused(p)
  <2>1. /\ worker'[p] = worker[p] /\ hand'[p] = hand[p] /\ mgr[p] = "check" /\ mgr'[p] = "send"
        /\ \A q \in Pools \ {p} : worker'[q] = worker[q] /\ hand'[q] = hand[q]
                                  /\ mgr'[q] = mgr[q] /\ offer'[q] = offer[q]
    BY <1>1, <1>2, Zenon DEF CheckPaused
  <2>2. HandOf(p)'
    BY <1>1, <2>1, Zenon DEF HandOf
  <2>3. TakerOf(p)'
    BY <1>1, <2>1, Zenon DEF TakerOf, In
  <2> QED BY <2>1, <2>2, <2>3, OneFuture, Zenon
<1>3. ASSUME NEW w \in Slots, Accept(p, w) PROVE FutureInv'
  <2>1. /\ hand'[p] = hand[p] /\ mgr[p] = "send" /\ mgr'[p] = "select" /\ offer'[p] = w
        /\ worker[p][w] = "idle" /\ worker'[p][w] = "accepted"
        /\ \A v \in Slots \ {w} : worker'[p][v] = worker[p][v]
        /\ \A q \in Pools \ {p} : worker'[q] = worker[q] /\ hand'[q] = hand[q]
                                  /\ mgr'[q] = mgr[q] /\ offer'[q] = offer[q]
    BY <1>1, <1>3, Zenon DEF Accept
  <2>2. HandOf(p)'
    BY <1>1, <2>1 DEF HandOf
  <2>3. TakerOf(p)'
    BY <1>1, <2>1 DEF TakerOf, In, HandOf
  <2> QED BY <2>1, <2>2, <2>3, OneFuture, Zenon
<1>4. ASSUME NEW w \in Slots, Exit(p, w) \/ Start(p, w) PROVE FutureInv'
  <2>1. /\ hand'[p] = hand[p] /\ mgr'[p] = mgr[p] /\ offer'[p] = offer[p]
        /\ \/ worker[p][w] = "exiting" /\ worker'[p][w] = "none"
           \/ worker[p][w] = "accepted" /\ worker'[p][w] = "running" /\ hand[p][w] # NoTask
        /\ \A v \in Slots \ {w} : worker'[p][v] = worker[p][v]
        /\ \A q \in Pools \ {p} : worker'[q] = worker[q] /\ hand'[q] = hand[q]
                                  /\ mgr'[q] = mgr[q] /\ offer'[q] = offer[q]
    <3>1. CASE Exit(p, w)
      BY <1>1, <3>1, Zenon DEF Exit
    <3>2. CASE Start(p, w)
      BY <1>1, <3>2, Zenon DEF Start
    <3> QED BY <1>4, <3>1, <3>2, Zenon
  <2>2. HandOf(p)'
    BY <1>1, <2>1 DEF HandOf
  <2>3. TakerOf(p)'
    <3>1. {v \in In(p, {"accepted"})' : hand'[p][v] = NoTask}
            = {v \in In(p, {"accepted"}) : hand[p][v] = NoTask}
      BY <2>1, Zenon DEF In
    <3> QED BY <1>1, <2>1, <3>1, Zenon DEF TakerOf
  <2> QED BY <2>1, <2>2, <2>3, OneFuture, Zenon
<1>5. ASSUME NEW w \in Slots, Stop(p, w) \/ Finish(p, w) PROVE FutureInv'
  <2>1. /\ mgr'[p] = mgr[p] /\ hand'[p][w] = NoTask
        /\ \A v \in Slots \ {w} : worker'[p][v] = worker[p][v] /\ hand'[p][v] = hand[p][v]
        /\ \A q \in Pools \ {p} : worker'[q] = worker[q] /\ hand'[q] = hand[q] /\ mgr'[q] = mgr[q]
    <3>1. CASE Stop(p, w)
      BY <1>1, <3>1, Zenon DEF Stop
    <3>2. CASE Finish(p, w)
      BY <1>1, <3>2 DEF Finish
    <3> QED BY <1>5, <3>1, <3>2, Zenon
  <2>2. /\ \/ worker[p][w] = "running" /\ worker'[p][w] = "idle" /\ offer'[p] = offer[p]
           \/ /\ worker[p][w] \in {"idle", "accepted"} /\ worker'[p][w] = "exiting"
              /\ offer'[p] = IF offer[p] = w THEN Gone ELSE offer[p]
        /\ \A q \in Pools \ {p} : offer'[q] = offer[q]
    <3>1. CASE Stop(p, w)
      BY <1>1, <3>1, Zenon DEF Stop
    <3>2. CASE Finish(p, w)
      BY <1>1, <3>2, Zenon DEF Finish
    <3> QED BY <1>5, <3>1, <3>2, Zenon
  <2>3. HandOf(p)'
    BY <1>1, <2>1, <2>2 DEF HandOf
  <2>4. TakerOf(p)'
    BY <1>1, <2>1, <2>2 DEF TakerOf, In
  <2> QED BY <2>1, <2>2, <2>3, <2>4, OneFuture, Zenon
<1> QED BY <1>2, <1>3, <1>4, <1>5, Zenon

\* So does the write of a task to the future, whose worker had none.
LEMMA FutureFill ==
  ASSUME PoolTypeOK, FutureInv, NEW p \in Pools, NEW t \in Tasks, Fill(p, t)
  PROVE  /\ FutureInv'
         /\ \/ hand' = hand
            \/ /\ offer[p] \in Slots /\ hand[p][offer[p]] = NoTask
               /\ hand' = [hand EXCEPT ![p][offer[p]] = t]
<1>1. /\ mgr \in [Pools -> {"check", "send", "select"}] /\ offer \in [Pools -> Slots \cup {Gone}]
      /\ hand \in [Pools -> [Slots -> Tasks \cup {NoTask}]] /\ Gone \notin Slots
      /\ HandOf(p) /\ TakerOf(p) /\ t # NoTask
  BY FutureOf, PoolAssumption, Zenon DEF PoolTypeOK
<1>2. /\ mgr[p] = "select" /\ mgr'[p] = "check" /\ worker' = worker
      /\ hand' = IF offer[p] = Gone THEN hand ELSE [hand EXCEPT ![p][offer[p]] = t]
      /\ \A q \in Pools \ {p} : mgr'[q] = mgr[q] /\ offer'[q] = offer[q]
  BY <1>1, Zenon DEF Fill
<1>3. {w \in In(p, {"accepted"}) : hand[p][w] = NoTask} = {offer[p]} \ {Gone}
  BY <1>1, <1>2, Zenon DEF TakerOf
<1>4. \/ offer[p] = Gone
      \/ /\ offer[p] \in Slots /\ worker[p][offer[p]] = "accepted" /\ hand[p][offer[p]] = NoTask
  BY <1>3 DEF In
<1>5. \A q \in Pools \ {p} : hand'[q] = hand[q]
  BY <1>1, <1>2, Zenon
<1>6. HandOf(p)' /\ TakerOf(p)'
  <2>1. CASE offer[p] = Gone
    BY <1>1, <1>2, <1>3, <2>1, Zenon DEF HandOf, TakerOf, In
  <2>2. CASE offer[p] # Gone
    <3>1. /\ hand'[p][offer[p]] = t
          /\ \A v \in Slots \ {offer[p]} : hand'[p][v] = hand[p][v]
      BY <1>1, <1>2, <1>4, <2>2, Zenon
    <3> QED BY <1>1, <1>2, <1>3, <1>4, <2>2, <3>1 DEF HandOf, TakerOf, In
  <2> QED BY <2>1, <2>2, Zenon
<1> QED BY <1>2, <1>4, <1>5, <1>6, OneFuture, Zenon

\* And a resize.
LEMMA FutureResize ==
  ASSUME PoolTypeOK, FutureInv, NEW p \in Pools, NEW n \in 0 .. Cardinality(Slots), Resize(p, n)
  PROVE  FutureInv'
<1>1. /\ UNCHANGED <<mgr, offer, hand>>
      /\ \A q \in Pools, w \in Slots :
            worker'[q][w] # worker[q][w] => worker[q][w] = "none" /\ worker'[q][w] = "idle"
  BY ResizeEffect, Zenon
<1>2. HandInv'
  BY <1>1 DEF FutureInv, HandInv
<1>3. ASSUME NEW q \in Pools PROVE TakerOf(q)'
  <2>1. TakerOf(q)
    BY FutureOf, Zenon
  <2> QED BY <1>1, <2>1, Zenon DEF TakerOf, In
<1> QED BY <1>2, <1>3, Zenon DEF FutureInv, FutureHasOneTaker, TakerOf

-----------------------------------------------------------------------------
\* A task that nobody has: it is neither in a channel nor with a worker.
Nowhere(t) ==
  /\ \A q \in Queues : \A i \in 1 .. Len(queue[q]) : queue[q][i] # t
  /\ \A p \in Pools, w \in Slots : hand[p][w] # t

\* Workers may lose their tasks, and a task that is nowhere may be waited for no
\* more, or be made local.
LEMMA PlaceKeeps ==
  ASSUME TypesInv, PlaceInv, LocalInv, queue' = queue,
         \A p \in Pools, w \in Slots : hand'[p][w] \in {hand[p][w], NoTask},
         \A t \in Tasks : (run[t] = "waiting" /\ run'[t] # "waiting") \/ excl'[t] # excl[t]
                             => Nowhere(t)'
  PROVE  PlaceInv' /\ LocalInv'
<1>0. /\ QueuesApart /\ QueuedUnheld /\ HandsApart /\ QueuedWait /\ HeldWait
      /\ RemoteAny /\ SharedAny /\ queue["remote"] = <<>>
  BY Zenon DEF PlaceInv, LocalInv
<1>1. /\ \A q \in Queues : \A i \in 1 .. Len(queue[q]) : queue[q][i] \in Tasks
      /\ \A p \in Pools, w \in Slots : hand[p][w] \in Tasks \cup {NoTask}
      /\ "remote" \in Pools /\ "shared" \in Queues /\ NoTask \notin Tasks
  <2>1. \A q \in Queues : queue[q] \in Seq(Tasks)
    BY Zenon DEF TypesInv
  <2>2. \A q \in Queues : \A i \in 1 .. Len(queue[q]) : queue[q][i] \in Tasks
    BY <2>1
  <2>3. \A p \in Pools, w \in Slots : hand[p][w] \in Tasks \cup {NoTask}
    BY DEF TypesInv, PoolTypeOK
  <2> QED BY <2>2, <2>3, ConsumerdAssumption, PoolAssumption, Zenon DEF Queues
<1>2. ASSUME NEW q \in Queues, NEW i \in 1 .. Len(queue[q])
      PROVE  run'[queue[q][i]] = "waiting" /\ excl'[queue[q][i]] = excl[queue[q][i]]
  <2>1. ~Nowhere(queue[q][i])'
    BY Zenon DEF Nowhere
  <2>2. queue[q][i] \in Tasks /\ run[queue[q][i]] = "waiting"
    BY <1>0, <1>1, Zenon DEF QueuedWait
  <2> QED BY <2>1, <2>2, Zenon
<1>3. ASSUME NEW p \in Pools, NEW w \in Slots, hand'[p][w] # NoTask
      PROVE  /\ hand'[p][w] = hand[p][w]
             /\ run'[hand[p][w]] = "waiting" /\ excl'[hand[p][w]] = excl[hand[p][w]]
  <2>1. hand'[p][w] = hand[p][w] /\ hand[p][w] \in Tasks
    BY <1>1, <1>3, Zenon
  <2>2. run[hand[p][w]] = "waiting"
    BY <1>0, <1>3, <2>1, Zenon DEF HeldWait
  <2>3. \A t \in Tasks : Nowhere(t)' => t # hand[p][w]
    BY <2>1, Zenon DEF Nowhere
  <2> QED BY <2>1, <2>2, <2>3, Zenon
<1>4. QueuesApart' /\ QueuedWait'
  BY <1>0, <1>2 DEF QueuesApart, QueuedWait
<1>5. QueuedUnheld'
  BY <1>0, <1>1 DEF QueuedUnheld
<1>6. HandsApart'
  BY <1>0, <1>3 DEF HandsApart
<1>7. HeldWait'
  BY <1>3 DEF HeldWait
<1>8. RemoteAny' /\ SharedAny'
  BY <1>0, <1>1, <1>2, <1>3 DEF RemoteAny, SharedAny
<1> QED BY <1>0, <1>4, <1>5, <1>6, <1>7, <1>8, Zenon DEF PlaceInv, LocalInv

\* Exec sends a task that was nowhere to the channel for its Exclusivity.
LEMMA PlaceSend ==
  ASSUME TypesInv, PlaceInv, LocalInv, NEW t \in Tasks, Send(t)
  PROVE  PlaceInv' /\ LocalInv'
<1> DEFINE c == QueueFor(t)
           n == Len(queue[c]) + 1
<1>0. /\ QueuesApart /\ QueuedUnheld /\ HandsApart /\ QueuedWait /\ HeldWait
      /\ RemoteAny /\ SharedAny /\ queue["remote"] = <<>>
  BY Zenon DEF PlaceInv, LocalInv
<1>1. /\ c \in Queues /\ queue[c] \in Seq(Tasks) /\ t # NoTask
      /\ \A q \in Queues : queue[q] \in Seq(Tasks) /\ Len(queue[q]) \in Nat
  <2>1. c \in Queues /\ \A q \in Queues : queue[q] \in Seq(Tasks)
    BY Zenon DEF QueueFor, Queues, TypesInv
  <2> QED BY <2>1, PoolAssumption
<1>2. /\ run[t] = "sending" /\ queue' = [queue EXCEPT ![c] = Append(queue[c], t)]
      /\ run' = [run EXCEPT ![t] = "waiting"] /\ excl' = excl /\ hand' = hand
  BY <1>1, Zenon DEF Send, TypesInv, poolVars
<1>3. /\ queue'[c] = Append(queue[c], t) /\ \A q \in Queues \ {c} : queue'[q] = queue[q]
      /\ run'[t] = "waiting" /\ \A u \in Tasks \ {t} : run'[u] = run[u]
  BY <1>1, <1>2, Zenon DEF TypesInv
<1>4. \A q \in Queues : \A i \in 1 .. Len(queue'[q]) :
        \/ q = c /\ i = n /\ queue'[q][i] = t
        \/ i \in 1 .. Len(queue[q]) /\ queue'[q][i] = queue[q][i]
  <2>1. ASSUME NEW i \in 1 .. Len(queue'[c])
        PROVE  \/ i = n /\ queue'[c][i] = t
               \/ i \in 1 .. Len(queue[c]) /\ queue'[c][i] = queue[c][i]
    <3>1. Len(queue'[c]) = n /\ queue'[c][n] = t
      BY <1>1, <1>3, Appended
    <3>2. i = n \/ i \in 1 .. Len(queue[c])
      BY <1>1, <3>1
    <3> QED BY <1>1, <1>3, <3>1, <3>2, Appended
  <2> QED BY <1>3, <2>1, Zenon
<1>5. /\ \A q \in Queues : \A i \in 1 .. Len(queue[q]) : queue[q][i] # t
      /\ \A p \in Pools, w \in Slots : hand[p][w] # t
  BY <1>0, <1>1, <1>2, Zenon DEF QueuedWait, HeldWait
<1>6. \A u \in Tasks : run[u] = "waiting" => run'[u] = "waiting"
  BY <1>3, Zenon
<1> HIDE DEF c, n
<1>7. QueuesApart' /\ QueuedUnheld'
  <2>1. QueuesApart'
    <3> SUFFICES ASSUME NEW q \in Queues, NEW r \in Queues, NEW i \in 1 .. Len(queue'[q]),
                        NEW j \in 1 .. Len(queue'[r]), queue'[q][i] = queue'[r][j]
                 PROVE  q = r /\ i = j
      BY Zenon DEF QueuesApart
    <3>1. \/ q = c /\ i = n /\ queue'[q][i] = t
          \/ i \in 1 .. Len(queue[q]) /\ queue'[q][i] = queue[q][i]
      BY <1>4, Zenon
    <3>2. \/ r = c /\ j = n /\ queue'[r][j] = t
          \/ j \in 1 .. Len(queue[r]) /\ queue'[r][j] = queue[r][j]
      BY <1>4, Zenon
    <3>3. /\ i \in 1 .. Len(queue[q]) => queue[q][i] # t
          /\ j \in 1 .. Len(queue[r]) => queue[r][j] # t
      BY <1>5, Zenon
    <3>4. /\ i \in 1 .. Len(queue[q]) /\ j \in 1 .. Len(queue[r]) /\ queue[q][i] = queue[r][j]
            => q = r /\ i = j
      BY <1>0 DEF QueuesApart
    <3> QED BY <3>1, <3>2, <3>3, <3>4, Zenon
  <2>2. QueuedUnheld'
    BY <1>0, <1>2, <1>4, <1>5 DEF QueuedUnheld
  <2> QED BY <2>1, <2>2, Zenon
<1>8. HandsApart'
  BY <1>0, <1>2 DEF HandsApart
<1>9. QueuedWait'
  <2>1. \A q \in Queues : \A i \in 1 .. Len(queue[q]) : queue[q][i] \in Tasks
    BY <1>1
  <2> QED BY <1>0, <1>3, <1>4, <1>6, <2>1 DEF QueuedWait
<1>10. HeldWait'
  <2>1. \A p \in Pools, w \in Slots : hand[p][w] \in Tasks \cup {NoTask}
    BY ZenonT(30) DEF TypesInv, PoolTypeOK
  <2> QED BY <1>0, <1>2, <1>6, <2>1, Zenon DEF HeldWait
<1>11. c = (IF excl[t] = "local" THEN "local" ELSE "shared")
  BY Zenon DEF c, QueueFor
<1>12. "shared" \in Queues /\ "remote" \in Queues \ {c}
  BY <1>11, Zenon DEF Queues
<1>13. SharedAny'
  <2>1. excl[t] \in {"local", "any"}
    BY Zenon DEF TypesInv
  <2>2. c = "shared" => excl[t] = "any"
    BY <1>11, <2>1, Zenon
  <2> QED BY <1>0, <1>2, <1>4, <1>12, <2>2 DEF SharedAny
<1>14. RemoteAny' /\ queue'["remote"] = <<>>
  BY <1>0, <1>2, <1>3, <1>12, Zenon DEF RemoteAny
<1> QED BY <1>7, <1>8, <1>9, <1>10, <1>13, <1>14, Zenon DEF PlaceInv, LocalInv

\* duoQueue.Select moves the head of a channel to the worker of the future.
LEMMA PlaceSelect ==
  ASSUME TypesInv, FutureInv, PlaceInv, LocalInv, NEW p \in Pools, NEW c \in Queues, Select(p, c)
  PROVE  PlaceInv' /\ LocalInv'
<1> DEFINE t == Head(queue[c])
           w == offer[p]
<1>0. /\ QueuesApart /\ QueuedUnheld /\ HandsApart /\ QueuedWait /\ HeldWait
      /\ RemoteAny /\ SharedAny /\ queue["remote"] = <<>>
  BY Zenon DEF PlaceInv, LocalInv
<1>1. /\ queue[c] # <<>> /\ Fill(p, t) /\ c \in Upstream(p)
      /\ queue' = [queue EXCEPT ![c] = Rest(queue[c])] /\ run' = run /\ excl' = excl
  BY Zenon DEF Select, TypesInv
<1>2. /\ \A q \in Queues : queue[q] \in Seq(Tasks)
      /\ hand \in [Pools -> [Slots -> Tasks \cup {NoTask}]]
      /\ NoTask \notin Tasks /\ PoolTypeOK /\ "remote" \in Pools
  BY PoolAssumption, ConsumerdAssumption, Zenon DEF TypesInv, PoolTypeOK
<1>3. /\ Len(queue[c]) \in Nat \ {0} /\ t = queue[c][1] /\ t \in Tasks
      /\ Len(Rest(queue[c])) = Len(queue[c]) - 1
      /\ \A i \in 1 .. Len(queue[c]) - 1 : Rest(queue[c])[i] = queue[c][i + 1]
  BY <1>1, <1>2, Taken, Zenon
<1>4. queue'[c] = Rest(queue[c]) /\ \A q \in Queues \ {c} : queue'[q] = queue[q]
  BY <1>1, Zenon DEF TypesInv
<1> HIDE DEF t
<1>5. \/ hand' = hand
      \/ w \in Slots /\ hand[p][w] = NoTask /\ hand' = [hand EXCEPT ![p][w] = t]
  BY <1>1, <1>2, <1>3, FutureFill, Zenon
<1> HIDE DEF w
<1>6. \A q \in Pools, v \in Slots :
        hand'[q][v] = hand[q][v] \/ (q = p /\ v = w /\ hand'[q][v] = t)
  BY <1>2, <1>5
<1> DEFINE was(q, i) == IF q = c THEN i + 1 ELSE i
<1>7. \A q \in Queues : \A i \in 1 .. Len(queue'[q]) :
        /\ was(q, i) \in 1 .. Len(queue[q]) /\ queue'[q][i] = queue[q][was(q, i)]
        /\ q = c => was(q, i) # 1
  <2>1. ASSUME NEW i \in 1 .. Len(queue'[c])
        PROVE  i + 1 \in 1 .. Len(queue[c]) /\ queue'[c][i] = queue[c][i + 1] /\ i + 1 # 1
    BY <1>3, <1>4
  <2> QED BY <1>4, <2>1, Zenon
<1>8. \A q \in Queues : \A i, j \in 1 .. Len(queue'[q]) : was(q, i) = was(q, j) => i = j
  <2>1. \A m \in Nat : \A i, j \in 1 .. m : i + 1 = j + 1 => i = j
    OBVIOUS
  <2>2. \A q \in Queues : Len(queue'[q]) \in Nat
    BY <1>2, <1>3, <1>4
  <2> QED BY <2>1, <2>2, Zenon
<1> HIDE DEF was
<1>9. 1 \in 1 .. Len(queue[c])
  BY <1>3
<1>10. \A q \in Queues : \A i \in 1 .. Len(queue'[q]) : queue'[q][i] # t
  <2> SUFFICES ASSUME NEW q \in Queues, NEW i \in 1 .. Len(queue'[q]), queue'[q][i] = t
               PROVE  FALSE
    BY Zenon
  <2>1. /\ was(q, i) \in 1 .. Len(queue[q]) /\ queue[q][was(q, i)] = queue[c][1]
        /\ q = c => was(q, i) # 1
    BY <1>3, <1>7, Zenon
  <2> QED BY <1>0, <1>9, <2>1 DEF QueuesApart
<1>11. \A q \in Pools, v \in Slots : hand[q][v] # t
  BY <1>0, <1>3, <1>9 DEF QueuedUnheld
<1>12. run[t] = "waiting"
  BY <1>0, <1>3, <1>9, Zenon DEF QueuedWait
<1>13. QueuesApart'
  <2> SUFFICES ASSUME NEW q \in Queues, NEW r \in Queues, NEW i \in 1 .. Len(queue'[q]),
                      NEW j \in 1 .. Len(queue'[r]), queue'[q][i] = queue'[r][j]
               PROVE  q = r /\ i = j
    BY Zenon DEF QueuesApart
  <2>1. q = r /\ was(q, i) = was(r, j)
    <3>1. /\ was(q, i) \in 1 .. Len(queue[q]) /\ was(r, j) \in 1 .. Len(queue[r])
          /\ queue[q][was(q, i)] = queue[r][was(r, j)]
      BY <1>7, Zenon
    <3> QED BY <1>0, <3>1 DEF QueuesApart
  <2> QED BY <1>8, <2>1, Zenon
<1>14. QueuedUnheld'
  BY <1>0, <1>6, <1>7, <1>10 DEF QueuedUnheld
<1>15. HandsApart'
  BY <1>0, <1>6, <1>11 DEF HandsApart
<1>16. QueuedWait'
  BY <1>0, <1>1, <1>7 DEF QueuedWait
<1>17. HeldWait'
  BY <1>0, <1>1, <1>6, <1>12, ZenonT(30) DEF HeldWait
<1>18. c # "remote" /\ "shared" \in Queues /\ "remote" \in Queues
  BY <1>0, <1>1, Zenon DEF Queues
<1>19. RemoteAny'
  <2>1. p = "remote" => c = "shared"
    BY <1>1, <1>18, Zenon DEF Upstream
  <2>2. p = "remote" => excl[t] = "any"
    BY <1>0, <1>3, <1>9, <2>1, Zenon DEF SharedAny
  <2> QED BY <1>0, <1>1, <1>2, <1>6, <2>2, Zenon DEF RemoteAny
<1>20. SharedAny' /\ queue'["remote"] = <<>>
  BY <1>0, <1>1, <1>4, <1>7, <1>18, SMTT(30) DEF SharedAny
<1> QED BY <1>13, <1>14, <1>15, <1>16, <1>17, <1>19, <1>20, Zenon DEF PlaceInv, LocalInv

-----------------------------------------------------------------------------
\* Every step keeps the split queue in order.
LEMMA SplitStep ==
  ASSUME SplitInv, [ConsumerdNext]_consumerdVars
  PROVE  SplitInv'
<1>0. /\ TypesInv /\ FutureInv /\ PlaceInv /\ LocalInv /\ PoolTypeOK
      /\ "local" \in Pools /\ "remote" \in Pools
      /\ LocalLimit \in 0 .. Cardinality(Slots) /\ 0 \in 0 .. Cardinality(Slots)
      /\ RemoteLimits \subseteq 0 .. Cardinality(Slots)
  <2>1. TypesInv /\ FutureInv /\ PlaceInv /\ LocalInv /\ PoolTypeOK
    BY Zenon DEF SplitInv, FutureInv, TypesInv
  <2> QED BY <2>1, ConsumerdAssumption, PoolAssumption, FS_CardinalityType
<1> DEFINE Kept == FutureInv' /\ PlaceInv' /\ LocalInv'
<1> SUFFICES Kept
  BY <1>0, TypesStep, Zenon DEF SplitInv, FutureInv
<1>1. ASSUME UNCHANGED <<mgr, offer, worker, hand>> PROVE FutureInv'
  BY <1>0, <1>1, ZenonT(30) DEF FutureInv, HandInv, FutureHasOneTaker, In
<1>2. ASSUME UNCHANGED <<queue, run, excl>>,
             \A p \in Pools, w \in Slots : hand'[p][w] \in {hand[p][w], NoTask}
      PROVE  PlaceInv' /\ LocalInv'
  BY <1>0, <1>2, PlaceKeeps, Zenon
<1> DEFINE Untouched == UNCHANGED <<mgr, offer, worker, hand, queue, run, excl>>
<1>u. ASSUME Untouched PROVE Kept
  <2>1. UNCHANGED <<mgr, offer, worker, hand>> /\ UNCHANGED <<queue, run, excl>> /\ hand' = hand
    BY <1>u, Zenon
  <2>2. \A p \in Pools, w \in Slots : hand'[p][w] \in {hand[p][w], NoTask}
    BY <2>1, Zenon
  <2> QED BY <1>1, <1>2, <2>1, <2>2, Zenon
<1>3. ASSUME NEW t \in Tasks, Exec(t) PROVE Kept
  <2>1. /\ UNCHANGED <<mgr, offer, worker, hand, queue, excl>>
        /\ run[t] = "new" /\ run' = [run EXCEPT ![t] = "sending"]
    BY <1>3, Zenon DEF Exec, poolVars
  <2>2. \A u \in Tasks : run[u] = "waiting" => run'[u] = "waiting"
    BY <1>0, <2>1, Zenon DEF TypesInv
  <2> QED BY <1>0, <1>1, <2>1, <2>2, PlaceKeeps, Zenon
<1>4. ASSUME NEW t \in Tasks, Send(t) PROVE Kept
  BY <1>0, <1>1, <1>4, PlaceSend, Zenon DEF Send, poolVars
<1>5. ASSUME NEW p \in Pools, PoolAct(p) PROVE Kept
  <2>1. FutureInv'
    BY <1>0, <1>5, FuturePool, Zenon DEF PoolAct, PoolStep
  <2>2. UNCHANGED <<queue, run, excl>>
    BY <1>5, Zenon DEF PoolAct, cdVars
  <2>3. \A q \in Pools, w \in Slots : hand'[q][w] \in {hand[q][w], NoTask}
    <3>1. hand \in [Pools -> [Slots -> Tasks \cup {NoTask}]]
      BY <1>0, Zenon DEF PoolTypeOK
    <3>2. hand' = hand \/ \E w \in Slots : hand' = [hand EXCEPT ![p][w] = NoTask]
      BY <1>5, Zenon DEF PoolAct, PoolStep, CheckPaused, Accept, Exit, Stop
    <3> QED BY <3>1, <3>2, Zenon
  <2> QED BY <1>2, <2>1, <2>2, <2>3, Zenon
<1>6. ASSUME NEW p \in Pools, NEW q \in Queues, Select(p, q) PROVE Kept
  <2>1. Head(queue[q]) \in Tasks
    <3>1. queue[q] \in Seq(Tasks) /\ queue[q] # <<>>
      BY <1>0, <1>6, Zenon DEF Select, TypesInv
    <3> QED BY <3>1, Taken, Zenon
  <2> QED BY <1>0, <1>6, <2>1, PlaceSelect, FutureFill, Zenon DEF Select
<1>7. ASSUME NEW p \in Pools, NEW w \in Slots, Runner(p, w) PROVE Kept
  <2>1. FutureInv'
    BY <1>0, <1>7, FuturePool, Zenon DEF Runner
  <2> QED BY <1>2, <1>7, <2>1, Zenon DEF Runner, Start
<1>8. ASSUME NEW p \in Pools, NEW w \in Slots, NEW out \in Outcomes(p), Return(p, w, out)
      PROVE  Kept
  <2>1. FutureInv'
    BY <1>0, <1>8, FuturePool, Zenon DEF Return
  <2>t. PICK t : t = hand[p][w]
    BY Zenon
  <2>2. /\ queue' = queue /\ worker[p][w] = "running" /\ hand' = [hand EXCEPT ![p][w] = NoTask]
        /\ \A u \in Tasks \ {t} : run'[u] = run[u] /\ excl'[u] = excl[u]
    BY <1>0, <1>8, <2>t, Zenon DEF Return, Finish, TypesInv
  <2>3. /\ hand \in [Pools -> [Slots -> Tasks \cup {NoTask}]] /\ t # NoTask
        /\ QueuedUnheld /\ HandsApart
    BY <1>0, <2>2, <2>t, Zenon DEF PoolTypeOK, FutureInv, HandInv, PlaceInv
  <2>4. /\ hand'[p][w] = NoTask
        /\ \A q \in Pools, v \in Slots : q # p \/ v # w => hand'[q][v] = hand[q][v]
    BY <2>2, <2>3, Zenon
  <2>5. Nowhere(t)'
    <3>1. \A q \in Queues : \A i \in 1 .. Len(queue[q]) : queue[q][i] # t
      BY <2>3, <2>t, Zenon DEF QueuedUnheld
    <3>2. \A q \in Pools, v \in Slots : hand'[q][v] # t
      BY <2>3, <2>4, <2>t DEF HandsApart
    <3> QED BY <2>2, <3>1, <3>2, Zenon DEF Nowhere
  <2>6. \A q \in Pools, v \in Slots : hand'[q][v] \in {hand[q][v], NoTask}
    BY <2>4, Zenon
  <2>7. \A u \in Tasks : (run[u] = "waiting" /\ run'[u] # "waiting") \/ excl'[u] # excl[u]
                            => Nowhere(u)'
    BY <2>2, <2>5, Zenon
  <2> QED BY <1>0, <2>1, <2>2, <2>6, <2>7, PlaceKeeps, Zenon
<1>9. CASE RemoteAvailable \/ NoteOutage \/ RemoteUnavailable
  BY <1>u, <1>9, Zenon DEF RemoteAvailable, NoteOutage, RemoteUnavailable, Resume, Pause, poolVars
<1>10. ASSUME NEW p \in Pools, NEW n \in 0 .. Cardinality(Slots), Resize(p, n),
              UNCHANGED <<queue, run, excl>>
       PROVE  Kept
  <2>1. FutureInv' /\ hand' = hand
    BY <1>0, <1>10, FutureResize, ResizeEffect, Zenon
  <2>2. \A q \in Pools, w \in Slots : hand'[q][w] \in {hand[q][w], NoTask}
    BY <2>1, Zenon
  <2> QED BY <1>2, <1>10, <2>1, <2>2, Zenon
<1>11. CASE ManageLocal
  BY <1>0, <1>10, <1>11, Zenon DEF ManageLocal
<1>12. ASSUME NEW s \in Schedulers, RemoteLimitGone(s) PROVE Kept
  BY <1>0, <1>10, <1>12, Zenon DEF RemoteLimitGone
<1>13. ASSUME NEW n \in RemoteLimits, RemoteLimitChanged(n) PROVE Kept
  BY <1>0, <1>10, <1>13, Zenon DEF RemoteLimitChanged
<1>14. CASE UNCHANGED consumerdVars
            \/ \E s \in Schedulers : OnComponentAvailable(s) \/ OnComponentLost(s)
  <2>1. CASE UNCHANGED consumerdVars
    BY <1>u, <2>1, Zenon DEF consumerdVars, poolVars, cdVars
  <2>2. CASE \E s \in Schedulers : OnComponentAvailable(s) \/ OnComponentLost(s)
    BY <1>u, <2>2, Zenon DEF OnComponentAvailable, OnComponentLost, poolVars
  <2> QED BY <1>14, <2>1, <2>2, Zenon
<1> QED
  BY <1>3, <1>4, <1>5, <1>6, <1>7, <1>8, <1>9, <1>11, <1>12, <1>13, <1>14, Zenon
     DEF ConsumerdNext, Work, Environment

LEMMA SplitInit == ConsumerdInit => SplitInv
<1> SUFFICES ASSUME ConsumerdInit PROVE SplitInv
  BY Zenon
<1>1. /\ MaxRetries \in Nat /\ MaxLimits \in Nat /\ Capacity \in Nat /\ Cardinality(Slots) \in Nat
      /\ "remote" \in Pools
  BY ConsumerdAssumption, PoolAssumption, FS_CardinalityType, Zenon
<1>2. PoolTypeOK
  <2>1. 0 \in 0 .. Cardinality(Slots)
    BY <1>1
  <2> QED BY <2>1 DEF ConsumerdInit, PoolInit, PoolTypeOK
<1>3. queue = [q \in Queues |-> <<>>] /\ hand = [p \in Pools |-> [w \in Slots |-> NoTask]]
  BY Zenon DEF ConsumerdInit, PoolInit
<1>4. TypesInv
  <2>1. queue \in [Queues -> Seq(Tasks)] /\ \A q \in Queues : Len(queue[q]) <= Capacity
    BY <1>1, <1>3
  <2>2. retries \in [Tasks -> 0 .. MaxRetries] /\ limits \in 0 .. MaxLimits
    BY <1>1 DEF ConsumerdInit
  <2> QED BY <1>2, <2>1, <2>2, Zenon DEF ConsumerdInit, TypesInv
<1>5. HandInv
  BY <1>3 DEF HandInv, ConsumerdInit, PoolInit
<1>6. FutureHasOneTaker
  BY Zenon DEF FutureHasOneTaker, In, ConsumerdInit, PoolInit
<1>7. \A q \in Queues : Len(queue[q]) = 0 /\ queue[q] = <<>>
  BY <1>3, Zenon
<1>8. \A p \in Pools, w \in Slots : hand[p][w] = NoTask
  BY <1>3, Zenon
<1>9. PlaceInv
  <2>1. QueuesApart /\ QueuedUnheld /\ QueuedWait
    BY <1>7 DEF QueuesApart, QueuedUnheld, QueuedWait
  <2>2. HandsApart /\ HeldWait
    BY <1>8, Zenon DEF HandsApart, HeldWait
  <2> QED BY <2>1, <2>2, Zenon DEF PlaceInv
<1>10. LocalInv
  BY <1>1, <1>7, <1>8 DEF LocalInv, RemoteAny, SharedAny, Queues
<1> QED BY <1>4, <1>5, <1>6, <1>9, <1>10, Zenon DEF SplitInv

-----------------------------------------------------------------------------
(* The counters of telemetry.go. *)

Busy(p) == In(p, {"running"})
Executing == {t \in Tasks : run[t] \in {"sending", "waiting"}}

\* The requests being executed that no runner has started.
Queued ==
  {t \in Executing : \A p \in Pools, w \in Slots : worker[p][w] = "running" => hand[p][w] # t}

\* The counters are those numbers, and the busy workers are on different requests.
TallyInv ==
  /\ count \in [Counters -> Nat]
  /\ count["running"] = Cardinality(Busy("local"))
  /\ count["delegated"] = Cardinality(Busy("remote"))
  /\ IsFiniteSet(Executing) /\ IsFiniteSet(Queued)
  /\ count["queued"] = Cardinality(Queued)
  /\ Cardinality(Executing)
       = Cardinality(Queued) + Cardinality(Busy("local")) + Cardinality(Busy("remote"))

LEMMA TallyInit == ConsumerdInit => TallyInv
<1> SUFFICES ASSUME ConsumerdInit PROVE TallyInv
  BY Zenon
<1>1. /\ Busy("local") = {} /\ Busy("remote") = {}
  BY ConsumerdAssumption, Zenon DEF Busy, In, ConsumerdInit, PoolInit
<1>2. Executing = {} /\ Queued = {}
  BY Zenon DEF Executing, Queued, ConsumerdInit
<1>3. count \in [Counters -> Nat] /\ \A c \in Counters : count[c] = 0
  BY Zenon DEF ConsumerdInit
<1> QED BY <1>1, <1>2, <1>3, FS_EmptySet DEF TallyInv, Counters

LEMMA TallyTypes ==
  ASSUME TallyInv
  PROVE  /\ \A c \in Counters : count[c] \in Nat
         /\ Cardinality(Executing) \in Nat /\ Cardinality(Queued) \in Nat
         /\ \A p \in Pools : IsFiniteSet(Busy(p)) /\ Cardinality(Busy(p)) \in Nat
<1>1. \A p \in Pools : IsFiniteSet(Busy(p)) /\ Cardinality(Busy(p)) \in Nat
  BY WorkersFinite, Zenon DEF Busy
<1>2. Cardinality(Executing) \in Nat /\ Cardinality(Queued) \in Nat
  BY FS_CardinalityType, Zenon DEF TallyInv
<1> QED BY <1>1, <1>2, Zenon DEF TallyInv

\* A step that starts and ends no run and no execution.
LEMMA TallyFrame ==
  ASSUME TallyInv, count' = count,
         \A t \in Tasks : run'[t] \in {"sending", "waiting"} <=> run[t] \in {"sending", "waiting"},
         \A p \in Pools, w \in Slots :
            /\ worker'[p][w] = "running" <=> worker[p][w] = "running"
            /\ worker[p][w] = "running" => hand'[p][w] = hand[p][w]
  PROVE  TallyInv'
<1>1. Executing' = Executing
  BY Zenon DEF Executing
<1>2. Queued' = Queued
  BY <1>1 DEF Queued
<1>3. Busy("local")' = Busy("local") /\ Busy("remote")' = Busy("remote")
  BY ConsumerdAssumption DEF Busy, In
<1> QED BY <1>1, <1>2, <1>3, Zenon DEF TallyInv

\* Exec counts the request before it sends the task.
LEMMA TallyExec ==
  ASSUME TypesInv, HeldWait, TallyInv, NEW t \in Tasks, Exec(t)
  PROVE  TallyInv'
<1>1. /\ run[t] = "new" /\ run' = [run EXCEPT ![t] = "sending"] /\ Bump({"queued"}, {})
      /\ worker' = worker /\ hand' = hand
      /\ run \in [Tasks -> {"new", "sending", "waiting", "ok", "error"}]
      /\ t # NoTask
  BY PoolAssumption, Zenon DEF Exec, poolVars, TypesInv
<1>2. Executing' = Executing \cup {t} /\ t \notin Executing
  BY <1>1, Zenon DEF Executing
<1>3. \A p \in Pools, w \in Slots : hand[p][w] # t
  BY <1>1, Zenon DEF HeldWait
<1>4. Queued' = Queued \cup {t} /\ t \notin Queued
  BY <1>1, <1>2, <1>3 DEF Queued
<1>5. Busy("local")' = Busy("local") /\ Busy("remote")' = Busy("remote")
  BY <1>1, Zenon DEF Busy, In
<1>6. /\ IsFiniteSet(Executing') /\ Cardinality(Executing') = Cardinality(Executing) + 1
      /\ IsFiniteSet(Queued') /\ Cardinality(Queued') = Cardinality(Queued) + 1
  BY <1>2, <1>4, FS_AddElement, Zenon DEF TallyInv
<1>7. /\ count' \in [Counters -> Nat] /\ count'["queued"] = count["queued"] + 1
      /\ count'["running"] = count["running"] /\ count'["delegated"] = count["delegated"]
  BY <1>1, TallyTypes DEF Bump, Counters
<1>8. /\ "local" \in Pools /\ "remote" \in Pools
  BY ConsumerdAssumption, Zenon
<1> QED BY <1>5, <1>6, <1>7, <1>8, TallyTypes DEF TallyInv

\* localRunner and remoteRunner start a task that was counted as queued.
LEMMA TallyRunner ==
  ASSUME TypesInv, FutureInv, PlaceInv, TallyInv, NEW p \in Pools, NEW w \in Slots, Runner(p, w)
  PROVE  TallyInv'
<1>0. /\ HandsApart /\ HeldWait /\ HandInv /\ p \in {"local", "remote"}
      /\ "local" \in Pools /\ "remote" \in Pools
  BY ConsumerdAssumption, Zenon DEF PlaceInv, FutureInv
<1>1. /\ worker[p][w] = "accepted" /\ hand[p][w] # NoTask /\ hand' = hand /\ run' = run
      /\ worker' = [worker EXCEPT ![p][w] = "running"]
      /\ Bump({RunCounter(p)}, {"queued"})
      /\ worker \in [Pools -> [Slots -> WorkerSteps]]
      /\ hand \in [Pools -> [Slots -> Tasks \cup {NoTask}]]
  BY Zenon DEF Runner, Start, TypesInv, PoolTypeOK, WorkerSteps
<1>2. PICK t \in Tasks : t = hand[p][w]
  BY <1>1, Zenon
<1>3. /\ worker'[p][w] = "running"
      /\ \A q \in Pools, v \in Slots : q # p \/ v # w => worker'[q][v] = worker[q][v]
  BY <1>1, Zenon
<1>4. \A q \in Pools, v \in Slots : hand[q][v] = t => q = p /\ v = w
  BY <1>0, <1>1, <1>2 DEF HandsApart
<1>5. Executing' = Executing /\ t \in Executing
  BY <1>0, <1>1, <1>2, Zenon DEF Executing, HeldWait
<1>6. t \in Queued
  BY <1>1, <1>4, <1>5, Zenon DEF Queued
<1>7. Queued' = Queued \ {t}
  <2>1. ASSUME NEW u \in Executing
        PROVE  (\A q \in Pools, v \in Slots : worker'[q][v] = "running" => hand[q][v] # u)
               <=> /\ \A q \in Pools, v \in Slots : worker[q][v] = "running" => hand[q][v] # u
                   /\ u # t
    BY <1>1, <1>2, <1>3, <1>4
  <2> QED BY <1>1, <1>5, <2>1 DEF Queued
<1>8. IsFiniteSet(Queued') /\ Cardinality(Queued') = Cardinality(Queued) - 1
  BY <1>6, <1>7, FS_RemoveElement, Zenon DEF TallyInv
<1>9. Busy(p)' = Busy(p) \cup {w} /\ w \notin Busy(p) /\ \A q \in Pools \ {p} : Busy(q)' = Busy(q)
  BY <1>1, <1>3, Zenon DEF Busy, In
<1>10. Cardinality(Busy(p)') = Cardinality(Busy(p)) + 1
  BY <1>9, TallyTypes, FS_AddElement, Zenon
<1>11. count["queued"] > 0
  BY <1>8, TallyTypes, FS_CardinalityType DEF TallyInv
<1>12. /\ count' \in [Counters -> Nat] /\ count'["queued"] = count["queued"] - 1
       /\ count'["running"] = count["running"] + (IF p = "local" THEN 1 ELSE 0)
       /\ count'["delegated"] = count["delegated"] + (IF p = "remote" THEN 1 ELSE 0)
  BY <1>0, <1>1, <1>11, TallyTypes DEF Bump, Counters, RunCounter
<1>13. \A q \in Pools : Cardinality(Busy(q)') = Cardinality(Busy(q)) + (IF p = q THEN 1 ELSE 0)
  BY <1>9, <1>10, TallyTypes
<1>14. IsFiniteSet(Executing') /\ Cardinality(Executing') = Cardinality(Executing)
  BY <1>5, Zenon DEF TallyInv
<1>15. /\ count'["running"] = Cardinality(Busy("local")')
       /\ count'["delegated"] = Cardinality(Busy("remote")')
  BY <1>0, <1>12, <1>13, TallyTypes, Zenon DEF TallyInv
<1>16. Cardinality(Executing') = Cardinality(Queued') + Cardinality(Busy("local")')
                                   + Cardinality(Busy("remote")')
  <2>1. /\ Cardinality(Executing) \in Nat /\ Cardinality(Queued) \in Nat
        /\ Cardinality(Busy("local")) \in Nat /\ Cardinality(Busy("remote")) \in Nat
    BY <1>0, TallyTypes, FS_CardinalityType, Zenon DEF TallyInv
  <2>2. Cardinality(Executing) = Cardinality(Queued) + Cardinality(Busy("local")) + Cardinality(Busy("remote"))
    BY Zenon DEF TallyInv
  <2>3. /\ Cardinality(Busy("local")') = Cardinality(Busy("local")) + (IF p = "local" THEN 1 ELSE 0)
        /\ Cardinality(Busy("remote")') = Cardinality(Busy("remote")) + (IF p = "remote" THEN 1 ELSE 0)
    BY <1>0, <1>13, Zenon
  <2> QED BY <1>0, <1>8, <1>14, <2>1, <2>2, <2>3, SMTT(30)
<1>17. count'["queued"] = Cardinality(Queued')
  BY <1>8, <1>12, <1>14, TallyTypes, Zenon DEF TallyInv
<1> QED BY <1>8, <1>12, <1>14, <1>15, <1>16, <1>17, Zenon DEF TallyInv

\* The deferred counters of a runner, when its response reaches Run.
LEMMA TallyReturn ==
  ASSUME TypesInv, FutureInv, PlaceInv, TallyInv, NEW p \in Pools, NEW w \in Slots,
         NEW out \in Outcomes(p), Return(p, w, out)
  PROVE  TallyInv'
<1>0. /\ HandsApart /\ HeldWait /\ HandInv /\ p \in {"local", "remote"}
      /\ "local" \in Pools /\ "remote" \in Pools
  BY ConsumerdAssumption, Zenon DEF PlaceInv, FutureInv
<1>1. /\ worker[p][w] = "running" /\ worker' = [worker EXCEPT ![p][w] = "idle"]
      /\ hand' = [hand EXCEPT ![p][w] = NoTask]
      /\ run' = [run EXCEPT ![hand[p][w]] = IF out \in {"retry", "runLocal"} THEN "new" ELSE out]
      /\ Bump(IF p = "local" THEN {"doneLocal"} ELSE {"doneRemote"},
              IF p = "local" THEN {"running"} ELSE {"delegated"})
      /\ worker \in [Pools -> [Slots -> WorkerSteps]]
      /\ hand \in [Pools -> [Slots -> Tasks \cup {NoTask}]]
      /\ run \in [Tasks -> {"new", "sending", "waiting", "ok", "error"}]
  BY Zenon DEF Return, Finish, TypesInv, PoolTypeOK, WorkerSteps
<1>2. PICK t \in Tasks : t = hand[p][w]
  <2>1. hand[p][w] \in Tasks \cup {NoTask} /\ hand[p][w] # NoTask
    BY <1>0, <1>1, Zenon DEF HandInv
  <2> QED BY <2>1, Zenon
<1>3. /\ worker'[p][w] = "idle"
      /\ \A q \in Pools, v \in Slots :
            q # p \/ v # w => worker'[q][v] = worker[q][v] /\ hand'[q][v] = hand[q][v]
  BY <1>1, Zenon
<1>4. \A q \in Pools, v \in Slots : hand[q][v] = t => q = p /\ v = w
  BY <1>0, <1>2, PoolAssumption DEF HandsApart
<1>5. run'[t] \notin {"sending", "waiting"} /\ \A u \in Tasks \ {t} : run'[u] = run[u]
  <2>1. out \in {"ok", "error", "retry", "runLocal"}
    BY Zenon DEF Outcomes
  <2>2. run'[t] = (IF out \in {"retry", "runLocal"} THEN "new" ELSE out)
        /\ \A u \in Tasks \ {t} : run'[u] = run[u]
    BY <1>1, <1>2, Zenon
  <2> QED BY <2>1, <2>2, Zenon
<1>6. Executing' = Executing \ {t} /\ t \in Executing
  <2>1. run[t] = "waiting"
    BY <1>0, <1>2, PoolAssumption, Zenon DEF HeldWait
  <2> QED BY <1>5, <2>1, SMTT(30) DEF Executing
<1>7. Queued' = Queued
  <2>1. t \notin Queued
    BY <1>1, <1>2, Zenon DEF Queued
  <2>2. ASSUME NEW u \in Executing \ {t}
        PROVE  (\A q \in Pools, v \in Slots : worker'[q][v] = "running" => hand'[q][v] # u)
               <=> \A q \in Pools, v \in Slots : worker[q][v] = "running" => hand[q][v] # u
    BY <1>2, <1>3
  <2> QED BY <1>6, <2>1, <2>2, Zenon DEF Queued
<1>8. IsFiniteSet(Executing') /\ Cardinality(Executing') = Cardinality(Executing) - 1
  BY <1>6, FS_RemoveElement, Zenon DEF TallyInv
<1>9. Busy(p)' = Busy(p) \ {w} /\ w \in Busy(p) /\ \A q \in Pools \ {p} : Busy(q)' = Busy(q)
  BY <1>1, <1>3 DEF Busy, In
<1>10. Cardinality(Busy(p)') = Cardinality(Busy(p)) - 1 /\ IsFiniteSet(Busy(p)')
  <2>1. IsFiniteSet(Busy(p)) /\ w \in Busy(p)
    BY <1>9, TallyTypes, Zenon
  <2>2. IsFiniteSet(Busy(p) \ {w}) /\ Cardinality(Busy(p) \ {w}) = Cardinality(Busy(p)) - 1
    BY <2>1, FS_RemoveElement, Zenon
  <2> QED BY <1>9, <2>2, Zenon
<1>11. Cardinality(Busy(p)) > 0
  BY <1>10, TallyTypes, FS_CardinalityType
<1>12. /\ count' \in [Counters -> Nat] /\ count'["queued"] = count["queued"]
       /\ count'["running"] = count["running"] - (IF p = "local" THEN 1 ELSE 0)
       /\ count'["delegated"] = count["delegated"] - (IF p = "remote" THEN 1 ELSE 0)
  <2>1. count[IF p = "local" THEN "running" ELSE "delegated"] > 0
    BY <1>0, <1>11, Zenon DEF TallyInv
  <2> QED BY <1>0, <1>1, <2>1, TallyTypes DEF Bump, Counters
<1>13. \A q \in Pools : Cardinality(Busy(q)') = Cardinality(Busy(q)) - (IF p = q THEN 1 ELSE 0)
  BY <1>9, <1>10, TallyTypes
<1>14. IsFiniteSet(Queued') /\ Cardinality(Queued') = Cardinality(Queued)
  BY <1>7, Zenon DEF TallyInv
<1>15. /\ count'["running"] = Cardinality(Busy("local")')
       /\ count'["delegated"] = Cardinality(Busy("remote")')
  BY <1>0, <1>12, <1>13, TallyTypes, Zenon DEF TallyInv
<1>16. Cardinality(Executing') = Cardinality(Queued') + Cardinality(Busy("local")')
                                   + Cardinality(Busy("remote")')
  <2>1. /\ Cardinality(Executing) \in Nat /\ Cardinality(Queued) \in Nat
        /\ Cardinality(Busy("local")) \in Nat /\ Cardinality(Busy("remote")) \in Nat
    BY <1>0, TallyTypes, FS_CardinalityType, Zenon DEF TallyInv
  <2>2. Cardinality(Executing) = Cardinality(Queued) + Cardinality(Busy("local")) + Cardinality(Busy("remote"))
    BY Zenon DEF TallyInv
  <2>3. /\ Cardinality(Busy("local")') = Cardinality(Busy("local")) - (IF p = "local" THEN 1 ELSE 0)
        /\ Cardinality(Busy("remote")') = Cardinality(Busy("remote")) - (IF p = "remote" THEN 1 ELSE 0)
    BY <1>0, <1>13, Zenon
  <2> QED BY <1>0, <1>8, <1>14, <2>1, <2>2, <2>3, SMTT(30)
<1>17. count'["queued"] = Cardinality(Queued')
  BY <1>8, <1>12, <1>14, TallyTypes, Zenon DEF TallyInv
<1> QED BY <1>8, <1>12, <1>14, <1>15, <1>16, <1>17, Zenon DEF TallyInv

LEMMA TallyStep ==
  ASSUME SplitInv, TallyInv, [ConsumerdNext]_consumerdVars
  PROVE  TallyInv'
<1>0. /\ TypesInv /\ FutureInv /\ PlaceInv /\ PoolTypeOK /\ HeldWait
      /\ "local" \in Pools /\ "remote" \in Pools
      /\ LocalLimit \in 0 .. Cardinality(Slots) /\ 0 \in 0 .. Cardinality(Slots)
      /\ RemoteLimits \subseteq 0 .. Cardinality(Slots)
  <2>1. TypesInv /\ FutureInv /\ PlaceInv /\ PoolTypeOK /\ HeldWait
    BY Zenon DEF SplitInv, FutureInv, TypesInv, PlaceInv
  <2> QED BY <2>1, ConsumerdAssumption, PoolAssumption, FS_CardinalityType
<1>1. /\ worker \in [Pools -> [Slots -> WorkerSteps]]
      /\ hand \in [Pools -> [Slots -> Tasks \cup {NoTask}]]
  BY <1>0, Zenon DEF PoolTypeOK, WorkerSteps
<1>2. ASSUME UNCHANGED <<count, run, worker, hand>> PROVE TallyInv'
  BY <1>2, TallyFrame, Zenon
<1>3. ASSUME NEW t \in Tasks, Send(t) PROVE TallyInv'
  <2>1. /\ UNCHANGED <<count, worker, hand>>
        /\ run[t] = "sending" /\ run' = [run EXCEPT ![t] = "waiting"]
    BY <1>3, Zenon DEF Send, poolVars
  <2>2. \A u \in Tasks : run'[u] \in {"sending", "waiting"} <=> run[u] \in {"sending", "waiting"}
    BY <1>0, <2>1, Zenon DEF TypesInv
  <2> QED BY <2>1, <2>2, TallyFrame, Zenon
<1>4. ASSUME UNCHANGED <<count, run>>, NEW p \in Pools, NEW w \in Slots,
             Accept(p, w) \/ Exit(p, w) \/ Stop(p, w)
      PROVE  TallyInv'
  <2>1. PICK b \in {"accepted", "none", "exiting"} : worker' = [worker EXCEPT ![p][w] = b]
    BY <1>4, Zenon DEF Accept, Exit, Stop
  <2>2. worker[p][w] # "running" /\ (hand' = hand \/ hand' = [hand EXCEPT ![p][w] = NoTask])
    BY <1>4, Zenon DEF Accept, Exit, Stop
  <2>3. ASSUME NEW q \in Pools, NEW v \in Slots
        PROVE  /\ worker'[q][v] = "running" <=> worker[q][v] = "running"
               /\ worker[q][v] = "running" => hand'[q][v] = hand[q][v]
    BY <1>1, <2>1, <2>2
  <2> QED BY <1>4, <2>3, TallyFrame, Zenon
<1>5. ASSUME NEW p \in Pools, PoolAct(p) PROVE TallyInv'
  <2>1. UNCHANGED <<count, run>>
    BY <1>5, Zenon DEF PoolAct, cdVars
  <2>2. CASE CheckPaused(p)
    BY <1>2, <2>1, <2>2, Zenon DEF CheckPaused
  <2> QED BY <1>4, <1>5, <2>1, <2>2, Zenon DEF PoolAct, PoolStep
<1>6. ASSUME NEW p \in Pools, NEW q \in Queues, Select(p, q) PROVE TallyInv'
  <2>1. Head(queue[q]) \in Tasks
    <3>1. queue[q] \in Seq(Tasks) /\ queue[q] # <<>>
      BY <1>0, <1>6, Zenon DEF Select, TypesInv
    <3> QED BY <3>1, Taken, Zenon
  <2>2. UNCHANGED <<count, run, worker>>
    BY <1>6, Zenon DEF Select, Fill
  <2>3. \/ hand' = hand
        \/ \E v \in Slots : hand[p][v] = NoTask /\ hand' = [hand EXCEPT ![p][v] = Head(queue[q])]
    BY <1>0, <1>6, <2>1, FutureFill, Zenon DEF Select
  <2>4. \A o \in Pools, v \in Slots : worker[o][v] = "running" => hand[o][v] # NoTask
    BY <1>0, Zenon DEF FutureInv, HandInv
  <2>5. \A o \in Pools, v \in Slots : worker[o][v] = "running" => hand'[o][v] = hand[o][v]
    BY <1>1, <2>3, <2>4
  <2> QED BY <2>2, <2>5, TallyFrame, Zenon
<1>7. ASSUME NEW p \in Pools, NEW n \in 0 .. Cardinality(Slots), Resize(p, n),
             UNCHANGED <<count, run>>
      PROVE  TallyInv'
  <2>1. /\ hand' = hand
        /\ \A q \in Pools, v \in Slots :
              worker'[q][v] # worker[q][v] => worker[q][v] = "none" /\ worker'[q][v] = "idle"
    BY <1>0, <1>7, ResizeEffect, Zenon
  <2>2. \A q \in Pools, v \in Slots : worker'[q][v] = "running" <=> worker[q][v] = "running"
    BY <2>1, Zenon
  <2> QED BY <1>7, <2>1, <2>2, TallyFrame, Zenon
<1>8. CASE ManageLocal \/ \E s \in Schedulers : RemoteLimitGone(s)
  BY <1>0, <1>7, <1>8, Zenon DEF ManageLocal, RemoteLimitGone
<1>9. ASSUME NEW n \in RemoteLimits, RemoteLimitChanged(n) PROVE TallyInv'
  BY <1>0, <1>7, <1>9, Zenon DEF RemoteLimitChanged
<1>10. CASE RemoteAvailable \/ NoteOutage \/ RemoteUnavailable
  BY <1>2, <1>10, Zenon DEF RemoteAvailable, NoteOutage, RemoteUnavailable, Resume, Pause, poolVars
<1>11. CASE \E s \in Schedulers : OnComponentAvailable(s) \/ OnComponentLost(s)
  BY <1>2, <1>11, Zenon DEF OnComponentAvailable, OnComponentLost, poolVars
<1>12. CASE UNCHANGED consumerdVars
  BY <1>2, <1>12, Zenon DEF consumerdVars, poolVars, cdVars
<1>13. ASSUME NEW t \in Tasks, Exec(t) PROVE TallyInv'
  BY <1>0, <1>13, TallyExec, Zenon
<1>14. ASSUME NEW p \in Pools, NEW w \in Slots, Runner(p, w) PROVE TallyInv'
  BY <1>0, <1>14, TallyRunner, Zenon
<1>15. ASSUME NEW p \in Pools, NEW w \in Slots, NEW out \in Outcomes(p), Return(p, w, out)
       PROVE  TallyInv'
  BY <1>0, <1>15, TallyReturn, Zenon
<1> QED
  BY <1>3, <1>5, <1>6, <1>8, <1>9, <1>10, <1>11, <1>12, <1>13, <1>14, <1>15, Zenon
     DEF ConsumerdNext, Work, Environment

-----------------------------------------------------------------------------
LEMMA ConsumerdInvariant == ConsumerdSpec => [](SplitInv /\ TallyInv)
<1>1. ConsumerdInit => SplitInv /\ TallyInv
  BY SplitInit, TallyInit, Zenon
<1>2. SplitInv /\ TallyInv /\ [ConsumerdNext]_consumerdVars => (SplitInv /\ TallyInv)'
  BY SplitStep, TallyStep, Zenon
<1> QED BY <1>1, <1>2, PTL DEF ConsumerdSpec

\* "Only one of these will end up running" (Run): a SplitTask is never in two
\* channels or with two workers, whatever is paused, resized or retried.
LEMMA OnePlace ==
  ASSUME TypesInv, PlaceInv
  PROVE  OneOfThemRuns
<1> SUFFICES ASSUME NEW t \in Tasks
             PROVE  Cardinality(Places(t)) <= (IF run[t] = "waiting" THEN 1 ELSE 0)
  BY Zenon DEF OneOfThemRuns
<1> DEFINE InQueue == {x \in Queues \X (1 .. Capacity) :
                         x[2] <= Len(queue[x[1]]) /\ queue[x[1]][x[2]] = t}
           InHand == {x \in Pools \X Slots : hand[x[1]][x[2]] = t}
<1>0. /\ QueuesApart /\ QueuedUnheld /\ HandsApart /\ QueuedWait /\ HeldWait
      /\ t # NoTask /\ Capacity \in Nat
  BY PoolAssumption, ConsumerdAssumption, Zenon DEF PlaceInv
<1>1. \A q \in Queues : Len(queue[q]) \in Nat
  BY DEF TypesInv
<1>2. ASSUME NEW x \in InQueue
      PROVE  /\ x[1] \in Queues /\ x[2] \in 1 .. Len(queue[x[1]]) /\ queue[x[1]][x[2]] = t
             /\ x = <<x[1], x[2]>>
  BY <1>0, <1>1, <1>2
<1>3. ASSUME NEW x \in InHand
      PROVE  x[1] \in Pools /\ x[2] \in Slots /\ hand[x[1]][x[2]] = t /\ x = <<x[1], x[2]>>
  BY <1>3
<1> HIDE DEF InQueue, InHand
<1>4. ASSUME NEW x \in InQueue, NEW y \in InQueue PROVE x = y
  <2>1. x[1] = y[1] /\ x[2] = y[2]
    BY <1>0, <1>2 DEF QueuesApart
  <2> QED BY <1>2, <2>1, Zenon
<1>5. ASSUME NEW x \in InHand, NEW y \in InHand PROVE x = y
  <2>1. x[1] = y[1] /\ x[2] = y[2]
    BY <1>0, <1>3 DEF HandsApart
  <2> QED BY <1>3, <2>1, Zenon
<1>6. ASSUME NEW x \in InQueue, NEW y \in InHand PROVE FALSE
  BY <1>0, <1>2, <1>3 DEF QueuedUnheld
<1>7. Places(t) = InQueue \cup InHand
  BY Zenon DEF Places, InQueue, InHand
<1>8. ASSUME NEW x \in Places(t) PROVE Places(t) = {x} /\ run[t] = "waiting"
  <2>1. Places(t) = {x}
    BY <1>4, <1>5, <1>6, <1>7, <1>8, Zenon
  <2>2. x \in InQueue => run[t] = "waiting"
    BY <1>0, <1>2 DEF QueuedWait
  <2>3. x \in InHand => run[t] = "waiting"
    BY <1>0, <1>3 DEF HeldWait
  <2> QED BY <1>7, <1>8, <2>1, <2>2, <2>3, Zenon
<1>9. CASE Places(t) = {}
  BY <1>9, FS_EmptySet
<1>10. CASE Places(t) # {}
  BY <1>8, <1>10, FS_Singleton
<1> QED BY <1>9, <1>10, Zenon

\* The split queue and the futures agree, for any number of requests, of workers
\* and of schedulers (queue.go, workerpool.go): types and capacities, the future
\* protocol, one place per SplitTask, and no local-only task with a remote worker.
THEOREM QueueSoundAlways == ConsumerdSpec => []QueueSound
<1>1. ASSUME SplitInv, TallyInv PROVE QueueSound
  <2>1. /\ TypesInv /\ FutureHasOneTaker /\ PlaceInv /\ RemoteAny /\ count \in [Counters -> Nat]
    BY <1>1, Zenon DEF SplitInv, TallyInv, LocalInv
  <2>2. ConsumerdTypeOK
    BY <2>1, Zenon DEF TypesInv, ConsumerdTypeOK
  <2>3. LocalStaysLocal
    BY <2>1, PoolAssumption, Zenon DEF RemoteAny, LocalStaysLocal
  <2> QED BY <2>1, <2>2, <2>3, OnePlace, Zenon DEF QueueSound
<1> QED BY <1>1, ConsumerdInvariant, PTL

\* telemetry.go: queued, running and delegated are exact in every state, for any
\* number of requests and workers; a task lost with a future stays counted.
THEOREM CountersMatchTasksAlways == ConsumerdSpec => []CountersMatchTasks
<1>1. ASSUME TallyInv PROVE CountersMatchTasks
  <2>1. "local" \in Pools /\ "remote" \in Pools
    BY ConsumerdAssumption, Zenon
  <2>2. Cardinality(Queued)
          = Cardinality(Executing) - Cardinality(Busy("local")) - Cardinality(Busy("remote"))
    BY <1>1, <2>1, TallyTypes DEF TallyInv
  <2> QED BY <1>1, <2>2, Zenon DEF TallyInv, CountersMatchTasks, Executing, Busy
<1> QED BY <1>1, ConsumerdInvariant, PTL
=============================================================================
