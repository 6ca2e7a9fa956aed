----------------------------- MODULE WorkerPool -----------------------------
(* run.WorkerPool (pkg/run/workerpool.go) and the PauseController it embeds   *)
(* (pkg/util/pause.go).  A manager goroutine offers an empty future task to a *)
(* worker over an unbuffered channel, and only then takes a task from the     *)
(* upstream queue and writes it to the future (a channel of capacity 1).      *)
(* The upstream queue belongs to the owner of the pool, who supplies the task *)
(* of Fill and conjoins the queue's own step.  Upstream queues are never      *)
(* closed in this program, so the manager never returns.                      *)
EXTENDS Naturals, FiniteSets

CONSTANTS Pools,   \* the pools of the process
          Slots,   \* identities for a pool's workers, reused once removed
          Tasks, NoTask,
          Gone     \* a future whose worker has returned

ASSUME PoolAssumption == IsFiniteSet(Slots) /\ Gone \notin Slots /\ NoTask \notin Tasks

VARIABLES paused,  \* PauseController.paused
          mgr,     \* where manageQueue is: "check", "send" or "select"
          offer,   \* the worker that accepted the future the manager will fill
          worker,  \* goroutine of each slot; all but "none" are in wp.workers
          hand,    \* task in the worker's future, or being run
          stops,   \* stop messages Resize has yet to send (holds workerLock)
          target   \* argument of the last Resize

poolVars == <<paused, mgr, offer, worker, hand, stops, target>>

PoolTypeOK ==
    /\ paused \in [Pools -> BOOLEAN]
    /\ mgr \in [Pools -> {"check", "send", "select"}]
    /\ offer \in [Pools -> Slots \cup {Gone}]
    /\ worker \in [Pools -> [Slots ->
                     {"none", "idle", "accepted", "running", "exiting"}]]
    /\ hand \in [Pools -> [Slots -> Tasks \cup {NoTask}]]
    /\ stops \in [Pools -> 0 .. Cardinality(Slots)]
    /\ target \in [Pools -> 0 .. Cardinality(Slots)]

\* NewWorkerPool; P is the set of pools created with DefaultPaused.
PoolInit(P) ==
    /\ paused = [p \in Pools |-> p \in P]
    /\ mgr = [p \in Pools |-> "check"]
    /\ offer = [p \in Pools |-> Gone]
    /\ worker = [p \in Pools |-> [w \in Slots |-> "none"]]
    /\ hand = [p \in Pools |-> [w \in Slots |-> NoTask]]
    /\ stops = [p \in Pools |-> 0]
    /\ target = [p \in Pools |-> 0]

In(p, S) == {w \in Slots : worker[p][w] \in S}
IdleWorkers(p) == In(p, {"idle", "accepted", "exiting"}) \* mutant of Workers
Workers(p) == Slots \ In(p, {"none"})                    \* wp.workers
Live(p) == In(p, {"idle", "accepted", "running"})

----------------------------------------------------------------------------
Pause(p) ==
    /\ paused' = [paused EXCEPT ![p] = TRUE]
    /\ UNCHANGED <<mgr, offer, worker, hand, stops, target>>

Resume(p) ==
    /\ paused' = [paused EXCEPT ![p] = FALSE]
    /\ UNCHANGED <<mgr, offer, worker, hand, stops, target>>

\* The manager passes CheckPaused and takes an empty future.
CheckPaused(p) ==
    /\ mgr[p] = "check" /\ ~paused[p]
    /\ mgr' = [mgr EXCEPT ![p] = "send"]
    /\ UNCHANGED <<paused, offer, worker, hand, stops, target>>

\* wp.taskQueue <- ft meets the select of an idle worker.
Accept(p, w) ==
    /\ mgr[p] = "send" /\ worker[p][w] = "idle"
    /\ mgr' = [mgr EXCEPT ![p] = "select"]
    /\ offer' = [offer EXCEPT ![p] = w]
    /\ worker' = [worker EXCEPT ![p][w] = "accepted"]
    /\ UNCHANGED <<paused, hand, stops, target>>

\* Upstream returned t: it goes to the future, whether or not a worker still
\* waits on it, and the manager starts over.
Fill(p, t) ==
    /\ mgr[p] = "select"
    /\ mgr' = [mgr EXCEPT ![p] = "check"]
    /\ hand' = IF offer[p] = Gone THEN hand ELSE [hand EXCEPT ![p][offer[p]] = t]
    /\ offer' = [offer EXCEPT ![p] = Gone]
    /\ UNCHANGED <<paused, worker, stops, target>>

\* The worker receives the task from its future and calls the runner.
Start(p, w) ==
    /\ worker[p][w] = "accepted" /\ hand[p][w] # NoTask
    /\ worker' = [worker EXCEPT ![p][w] = "running"]
    /\ UNCHANGED <<paused, mgr, offer, hand, stops, target>>

\* The runner returns.
Finish(p, w) ==
    /\ worker[p][w] = "running"
    /\ worker' = [worker EXCEPT ![p][w] = "idle"]
    /\ hand' = [hand EXCEPT ![p][w] = NoTask]
    /\ UNCHANGED <<paused, mgr, offer, stops, target>>

\* Either select of worker.Run receives a stop message; a future it had
\* accepted is dropped, with the task in it if there is one.
Stop(p, w) ==
    /\ stops[p] > 0 /\ worker[p][w] \in {"idle", "accepted"}
    /\ stops' = [stops EXCEPT ![p] = @ - 1]
    /\ worker' = [worker EXCEPT ![p][w] = "exiting"]
    /\ hand' = [hand EXCEPT ![p][w] = NoTask]
    /\ offer' = IF offer[p] = w THEN [offer EXCEPT ![p] = Gone] ELSE offer
    /\ UNCHANGED <<paused, mgr, target>>

\* wp.workers.Remove(w), after worker.Run has returned.
Exit(p, w) ==
    /\ worker[p][w] = "exiting"
    /\ worker' = [worker EXCEPT ![p][w] = "none"]
    /\ UNCHANGED <<paused, mgr, offer, hand, stops, target>>

\* Under workerLock: grow at once, or send one stop message per surplus worker
\* and keep the lock until the last one is taken.  A worker that was told to
\* stop but has not been removed yet is counted as if it still worked.
Resize(p, n) ==
    LET num == Cardinality(Workers(p))
        new == CHOOSE S \in SUBSET In(p, {"none"}) :
                  Cardinality(S) = IF n > num THEN n - num ELSE 0 IN
    /\ stops[p] = 0
    /\ target' = [target EXCEPT ![p] = n]
    /\ worker' = [worker EXCEPT ![p] =
                    [w \in Slots |-> IF w \in new THEN "idle" ELSE @[w]]]
    /\ stops' = [stops EXCEPT ![p] = IF n < num THEN num - n ELSE 0]
    /\ UNCHANGED <<paused, mgr, offer, hand>>

\* What a worker and the manager do by themselves.
PoolStep(p) == CheckPaused(p) \/ \E w \in Slots : Accept(p, w) \/ Exit(p, w)

----------------------------------------------------------------------------
\* Resize's promise on concurrency: the pool never has more workers able to
\* run a task than the last Resize asked for, not counting those it is still
\* waiting to stop, whatever else happens to the workers meanwhile.
NeverOverTarget ==
    \A p \in Pools : Cardinality(Live(p)) <= target[p] + stops[p]

\* The future protocol of manageQueue: the manager waits on the upstream queue
\* on behalf of the one worker that accepted its future and has no task yet.
FutureHasOneTaker ==
    \A p \in Pools :
        {w \in In(p, {"accepted"}) : hand[p][w] = NoTask}
           = IF mgr[p] = "select" THEN {offer[p]} \ {Gone} ELSE {}
=============================================================================
