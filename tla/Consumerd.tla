----------------------------- MODULE Consumerd ------------------------------
(* The consumer daemon: the retry loop of consumerdServer.Run                 *)
(* (pkg/consumerd/server.go), the SplitQueue with its local and remote worker *)
(* pools and its counters (queue.go, telemetry.go), the AvailabilityChecker   *)
(* that pauses the remote pool (pkg/clients/availability.go) and the          *)
(* RemoteUsageManager that resizes it (pkg/clients/scheduler.go).             *)
(* A request is one call of Run that has passed its argument checks; its      *)
(* current SplitTask goes by the request's name.                              *)
EXTENDS WorkerPool, Sequences

CONSTANTS LocalOnly,     \* requests whose arguments rule out a remote run
          LocalLimit,    \* argument of FixedUsageLimits / AutoUsageLimits
          RemoteLimits,  \* limits the scheduler publishes
          Capacity,      \* bufferSize of the three queues
          Schedulers,    \* scheduler instances; one that left never returns
          MaxRetries,    \* bound: times a request may be told to try again
          MaxLimits      \* bound: PreferredUsageLimits messages

ASSUME ConsumerdAssumption ==
    /\ Pools = {"local", "remote"} /\ LocalOnly \subseteq Tasks
    /\ Capacity \in Nat \ {0} /\ MaxRetries \in Nat /\ MaxLimits \in Nat
    /\ LocalLimit \in 1 .. Cardinality(Slots)
    /\ RemoteLimits \subseteq 1 .. Cardinality(Slots)

VARIABLES run,      \* where each call of Run is
          excl,     \* Exclusivity of its SplitTask: "local" or "any"
          retries,  \* retries so far
          queue,    \* channels "shared", "local", "remote"
          count,    \* the Telemetry counters
          sched,    \* "unknown", "up" (OnComponentAvailable blocks on its
                    \* context), "leaving" (RemoteUsageManager is about to
                    \* Resize(0)) or "gone"
          limits,   \* PreferredUsageLimits messages received
          status,   \* AvailabilityChecker.status = Available
          avail,    \* handleAvailabilityChanged: "ensure", "wait" or "lost"
          managed   \* the local Manage call has resized its pool

cdVars == <<run, excl, retries, queue, count, sched, limits, status, avail, managed>>
consumerdVars == <<poolVars, cdVars>>

Queues == {"shared", "local", "remote"}
Upstream(p) == {"shared", p}                             \* duoQueue{queue, p}
Counters == {"queued", "running", "delegated", "doneLocal", "doneRemote"}
Bump(c, d) == count' = [k \in Counters |-> count[k]
                 + (IF k \in c THEN 1 ELSE 0) - (IF k \in d THEN 1 ELSE 0)]

ConsumerdTypeOK ==
    /\ PoolTypeOK
    /\ run \in [Tasks -> {"new", "sending", "waiting", "ok", "error"}]
    /\ excl \in [Tasks -> {"local", "any"}]
    /\ retries \in [Tasks -> 0 .. MaxRetries]
    /\ \A q \in Queues : queue[q] \in Seq(Tasks) /\ Len(queue[q]) <= Capacity
    /\ count \in [Counters -> Nat]
    /\ sched \in [Schedulers -> {"unknown", "up", "leaving", "gone"}]
    /\ limits \in 0 .. MaxLimits
    /\ status \in BOOLEAN /\ managed \in BOOLEAN
    /\ avail \in {"ensure", "wait", "lost"}

\* NewSplitQueue: only the remote pool starts paused.
ConsumerdInit ==
    /\ PoolInit({"remote"})
    /\ run = [t \in Tasks |-> "new"]
    /\ excl = [t \in Tasks |-> IF t \in LocalOnly THEN "local" ELSE "any"]
    /\ retries = [t \in Tasks |-> 0]
    /\ queue = [q \in Queues |-> <<>>]
    /\ count = [c \in Counters |-> 0]
    /\ sched = [s \in Schedulers |-> "unknown"] /\ limits = 0
    /\ status = FALSE /\ avail = "ensure" /\ managed = FALSE

----------------------------------------------------------------------------
(* Run and Exec. *)

\* Run builds a SplitTask and calls Exec, which counts it as queued first.
Exec(t) ==
    /\ run[t] = "new"
    /\ run' = [run EXCEPT ![t] = "sending"]
    /\ Bump({"queued"}, {})
    /\ UNCHANGED <<poolVars, excl, retries, queue, sched, limits, status, avail, managed>>

\* The queue Exec chooses; Run never asks for a remote-only task.
QueueFor(t) == IF excl[t] = "local" THEN "local" ELSE "shared"

OneSlotLess(q) == Len(queue[q]) < Capacity - 1           \* mutant of HasRoom
HasRoom(q) == Len(queue[q]) < Capacity

\* The send on the buffered channel succeeds, and Run waits in SplitTask.Wait.
Send(t) ==
    LET q == QueueFor(t) IN
    /\ run[t] = "sending" /\ HasRoom(q)
    /\ queue' = [queue EXCEPT ![q] = Append(@, t)]
    /\ run' = [run EXCEPT ![t] = "waiting"]
    /\ UNCHANGED <<poolVars, excl, retries, count, sched, limits, status, avail, managed>>

\* duoQueue.Select: the manager of pool p takes the head of either channel.
KeepHead(q) == q                                         \* mutant of Rest
Rest(q) == Tail(q)
Select(p, q) ==
    /\ q \in Upstream(p) /\ queue[q] # <<>>
    /\ Fill(p, Head(queue[q]))
    /\ queue' = [queue EXCEPT ![q] = Rest(@)]
    /\ UNCHANGED <<run, excl, retries, count, sched, limits, status, avail, managed>>

LocalCounter(p) == "running"                             \* mutant of RunCounter
RunCounter(p) == IF p = "local" THEN "running" ELSE "delegated"

\* localRunner and remoteRunner, up to the call of Local.Run or Remote.Run.
Runner(p, w) ==
    /\ Start(p, w)
    /\ Bump({RunCounter(p)}, {"queued"})
    /\ UNCHANGED <<run, excl, retries, queue, sched, limits, status, avail, managed>>

\* The response reaches Wait and the deferred counters run.  A remote run may
\* end in ErrNoAgentsRetry or ErrNoAgentsRunLocal: Run then builds a new
\* SplitTask, in the second case one that only the local pool takes.
Return(p, w, out) ==
    LET t == hand[p][w]
        again == out \in {"retry", "runLocal"} IN
    /\ Finish(p, w)
    /\ again => p = "remote" /\ retries[t] < MaxRetries
    /\ Bump(IF p = "local" THEN {"doneLocal"} ELSE {"doneRemote"},
            IF p = "local" THEN {"running"} ELSE {"delegated"})
    /\ run' = [run EXCEPT ![t] = IF again THEN "new" ELSE out]
    /\ excl' = IF out = "runLocal" THEN [excl EXCEPT ![t] = "local"] ELSE excl
    /\ retries' = IF again THEN [retries EXCEPT ![t] = @ + 1] ELSE retries
    /\ UNCHANGED <<queue, sched, limits, status, avail, managed>>

PoolAct(p) ==
    /\ PoolStep(p) \/ \E w \in Slots : Stop(p, w)
    /\ UNCHANGED cdVars

----------------------------------------------------------------------------
(* Availability and usage limits. *)

\* The monitor announces a scheduler (and Whois succeeds: the callback returns
\* at once otherwise).
OnComponentAvailable(s) ==
    /\ sched[s] = "unknown"
    /\ sched' = [sched EXCEPT ![s] = "up"]
    /\ status' = TRUE
    /\ UNCHANGED <<poolVars, run, excl, retries, queue, count, limits, avail, managed>>

\* Its context ends: one flag stands for every scheduler the filter admits.
OnComponentLost(s) ==
    /\ sched[s] = "up"
    /\ sched' = [sched EXCEPT ![s] = "leaving"]
    /\ status' = FALSE
    /\ UNCHANGED <<poolVars, run, excl, retries, queue, count, limits, avail, managed>>

\* EnsureAvailable returns a context and Resume runs.
RemoteAvailable ==
    /\ avail = "ensure" /\ status
    /\ avail' = "wait"
    /\ Resume("remote")
    /\ UNCHANGED <<run, excl, retries, queue, count, sched, limits, status, managed>>

\* The goroutine EnsureAvailable left behind sees that status has changed; an
\* outage that is over by the time it looks goes unnoticed.
MissesOutage == FALSE                                    \* mutant of OutageSeen
OutageSeen == ~status
NoteOutage ==
    /\ avail = "wait" /\ OutageSeen
    /\ avail' = "lost"
    /\ UNCHANGED <<poolVars, run, excl, retries, queue, count, sched, limits, status, managed>>

RemoteUnavailable ==
    /\ avail = "lost"
    /\ avail' = "ensure"
    /\ Pause("remote")
    /\ UNCHANGED <<run, excl, retries, queue, count, sched, limits, status, managed>>

\* FixedUsageLimits.Manage, in a goroutine of its own.
ManageLocal ==
    /\ ~managed
    /\ managed' = TRUE
    /\ Resize("local", LocalLimit)
    /\ UNCHANGED <<run, excl, retries, queue, count, sched, limits, status, avail>>

\* RemoteUsageManager: a new PreferredUsageLimits, or the scheduler's context
\* is done.
RemoteLimitChanged(n) ==
    /\ "up" \in {sched[s] : s \in Schedulers} /\ limits < MaxLimits
    /\ limits' = limits + 1
    /\ Resize("remote", n)
    /\ UNCHANGED <<run, excl, retries, queue, count, sched, status, avail, managed>>

RemoteLimitGone(s) ==
    /\ sched[s] = "leaving"
    /\ sched' = [sched EXCEPT ![s] = "gone"]
    /\ Resize("remote", 0)
    /\ UNCHANGED <<run, excl, retries, queue, count, limits, status, avail, managed>>

----------------------------------------------------------------------------
Outcomes(p) == {"ok", "error"} \cup IF p = "remote" THEN {"retry", "runLocal"} ELSE {}

Work ==
    \/ \E t \in Tasks : Exec(t) \/ Send(t)
    \/ \E p \in Pools : PoolAct(p) \/ \E q \in Queues : Select(p, q)
    \/ \E p \in Pools, w \in Slots :
          Runner(p, w) \/ \E out \in Outcomes(p) : Return(p, w, out)
    \/ RemoteAvailable \/ NoteOutage \/ RemoteUnavailable \/ ManageLocal
    \/ \E s \in Schedulers : RemoteLimitGone(s)

Environment ==
    \/ \E s \in Schedulers : OnComponentAvailable(s) \/ OnComponentLost(s)
    \/ \E n \in RemoteLimits : RemoteLimitChanged(n)

ConsumerdNext == Work \/ Environment

\* A goroutine that can run eventually does, a compiler and the scheduler
\* eventually answer.  Within the bounds no behaviour works forever, so weak
\* fairness of Work as a whole says just that.
ConsumerdSpec ==
    ConsumerdInit /\ [][ConsumerdNext]_consumerdVars /\ WF_consumerdVars(Work)

----------------------------------------------------------------------------
(* Properties. *)

Places(t) ==
    {x \in Queues \X (1 .. Capacity) : x[2] <= Len(queue[x[1]]) /\ queue[x[1]][x[2]] = t}
        \cup {x \in Pools \X Slots : hand[x[1]][x[2]] = t}

\* A task that no queue and no worker has although Run waits for it.
InLimbo(t) == run[t] = "waiting" /\ Places(t) = {}

\* "Only one of these will end up running, so they can both use the same arg
\* parser" (Run): a SplitTask is in one channel or with one worker of one
\* pool, never in two places, and nowhere once Run has its response.
OneOfThemRuns ==
    \A t \in Tasks : Cardinality(Places(t)) <= (IF run[t] = "waiting" THEN 1 ELSE 0)

\* After ErrNoAgentsRunLocal, and when the arguments ask for it, no remote
\* worker ever gets the request again, whichever retries and outages happen.
LocalStaysLocal ==
    \A t \in Tasks, w \in Slots : hand["remote"][w] = t => excl[t] = "any"

\* The split queue and the futures of the pools agree: a request is in one place,
\* a local one never with a remote worker, and the manager of a pool waits for one
\* worker, in states that have their types (no channel holds more than it can).
QueueSound == ConsumerdTypeOK /\ FutureHasOneTaker /\ OneOfThemRuns /\ LocalStaysLocal

\* The telemetry counters: whatever happens to the pools, a request being
\* executed is counted once, as queued until a runner starts it and then by the
\* pool that runs it; a dropped task stays counted as queued.
CountersMatchTasks ==
    LET busy(p) == Cardinality(In(p, {"running"})) IN
    /\ count["running"] = busy("local") /\ count["delegated"] = busy("remote")
    /\ count["queued"] = Cardinality({t \in Tasks : run[t] \in {"sending", "waiting"}})
                            - busy("local") - busy("remote")

\* A call of Run returns, unless its task was lost with a future: full queues,
\* pauses, resizes and retries only delay it.
EveryRunReturns ==
    \A t \in Tasks : (run[t] # "new") ~> (run[t] \in {"ok", "error"} \/ InLimbo(t))

\* handleAvailabilityChanged: schedulers come and go finitely often, and then the
\* remote pool ends up paused exactly if the checker's status is Unavailable, also
\* when an outage was too short to be noticed.
PauseFollowsStatus == <>[](paused["remote"] = ~status)
=============================================================================
