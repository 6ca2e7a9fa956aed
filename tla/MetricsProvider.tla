-------------------------- MODULE MetricsProvider ---------------------------
(* The StatusController of a component (pkg/metrics/status.go), the provider   *)
(* that posts its health and its metrics to the monitor                        *)
(* (pkg/clients/monitor.go), and the stream manager of that provider, which    *)
(* itself applies a status condition while the monitor is away.                *)
EXTENDS StreamManager, Sequences

CONSTANTS QueueCap,   \* capacity of postQueue
          MaxChanges  \* bound: conditions applied and metrics posted by others

VARIABLES on,        \* conditions of others whose context is not canceled
          entries,   \* entries of sm.conditions, by kind
          streamer,  \* StreamHealthUpdates: "top", "send" (it holds statusLock),
                     \* "wait" (on the condition variable) or "done"
          offered,   \* the health it is sending
          watcher,   \* watchStatus: "recv", "post" (in Post) or "done"
          held,      \* the health it is posting
          queue,     \* postQueue
          returned,  \* HandleStream has returned
          shown,     \* the component's health in the monitor's bucket
          changes

mpVars == <<on, entries, streamer, offered, watcher, held, queue, returned, shown, changes>>
providerVars == <<smVars, mpVars>>

Conds == {"pending", "monitor", "other"}
Healths == {"none", "Initializing", "Ready", "Degraded", "Unavailable"}
Metrics == Healths \cup {"metric"}

ProviderTypeOK ==
    /\ SMTypeOK
    /\ on \subseteq Conds \ {"monitor"} /\ entries \in [Conds -> 0 .. MaxGen + MaxChanges + 1]
    /\ streamer \in {"top", "send", "wait", "done"} /\ watcher \in {"recv", "post", "done"}
    /\ {offered, held, shown} \subseteq Healths
    /\ queue \in Seq(Metrics) /\ Len(queue) <= QueueCap
    /\ returned \in BOOLEAN /\ changes \in 0 .. MaxChanges

\* BeginInitialize, NewMetricsProvider, and the first applyCondition of Run.
ProviderInit ==
    /\ SMInit
    /\ on = {"pending"} /\ entries = [c \in Conds |-> IF c = "other" THEN 0 ELSE 1]
    /\ streamer = "top" /\ offered = "none" /\ watcher = "recv" /\ held = "none"
    /\ queue = <<>> /\ returned = FALSE /\ shown = "none" /\ changes = 0

----------------------------------------------------------------------------
(* StatusController. *)

LockFree == streamer # "send"
Broadcast == streamer' = IF streamer = "wait" THEN "top" ELSE streamer

\* health(): pending wins, then the server's context, then the worst condition.
\* The monitor is Required, the other component Optional.
Health ==
    CASE entries["pending"] > 0 -> "Initializing"
      [] entries["pending"] = 0 /\ (ctxDone \/ entries["monitor"] > 0) -> "Unavailable"
      [] OTHER -> IF entries["other"] > 0 THEN "Degraded" ELSE "Ready"

\* ApplyCondition, up to and with its Broadcast.
ApplyCondition(c) ==
    /\ LockFree /\ Broadcast
    /\ entries' = [entries EXCEPT ![c] = @ + 1]

\* The goroutine ApplyCondition starts, once its context, or the server's, is
\* done.
Live(c) == IF c = "monitor" THEN cond ELSE c \in on
WakeUp == Broadcast
ClearCondition(c) ==
    /\ LockFree /\ WakeUp
    /\ entries[c] > (IF Live(c) /\ ~ctxDone THEN 1 ELSE 0)
    /\ entries' = [entries EXCEPT ![c] = @ - 1]
    /\ UNCHANGED <<smVars, on, offered, watcher, held, queue, returned, shown, changes>>

EndInitialize ==
    /\ "pending" \in on
    /\ on' = on \ {"pending"}
    /\ UNCHANGED <<smVars, entries, streamer, offered, watcher, held, queue, returned, shown, changes>>

\* StreamHealthUpdates: the lock is taken for health() and kept for the send.
StreamHealthUpdates ==
    /\ streamer = "top"
    /\ streamer' = IF ctxDone THEN "done" ELSE "send"
    /\ offered' = Health
    /\ UNCHANGED <<smVars, on, entries, watcher, held, queue, returned, shown, changes>>

\* Another stream manager of the component loses its remote, or finds it.
OtherCondition ==
    /\ changes < MaxChanges /\ changes' = changes + 1
    /\ IF "other" \in on THEN on' = on \ {"other"} /\ UNCHANGED <<entries, streamer>>
                         ELSE on' = on \cup {"other"} /\ ApplyCondition("other")
    /\ UNCHANGED <<smVars, offered, watcher, held, queue, returned, shown>>

----------------------------------------------------------------------------
(* The provider. *)

\* watchStatus: it receives a health, then posts it, or the channel is closed
\* or the context done.
WatchRecv ==
    /\ watcher = "recv" /\ streamer = "send"
    /\ watcher' = "post" /\ held' = offered /\ streamer' = "wait"
    /\ UNCHANGED <<smVars, on, entries, offered, queue, returned, shown, changes>>

WatchEnds ==
    /\ watcher = "recv" /\ ctxDone
    /\ watcher' = "done"
    /\ UNCHANGED <<smVars, on, entries, streamer, offered, held, queue, returned, shown, changes>>

PostRoom == Len(queue) < QueueCap

\* Post: queueStrategy is never stored, so every provider blocks while its
\* queue is full.
Post(m) == PostRoom /\ queue' = Append(queue, m)

WatchPost ==
    /\ watcher = "post" /\ Post(held)
    /\ watcher' = "recv"
    /\ UNCHANGED <<smVars, on, entries, streamer, offered, held, returned, shown, changes>>

PostMetric ==
    /\ changes < MaxChanges /\ changes' = changes + 1
    /\ Post("metric")
    /\ UNCHANGED <<smVars, on, entries, streamer, offered, watcher, held, returned, shown>>

\* HandleStream: a metric is taken from the queue and sent; when the Send fails
\* the metric is lost and HandleStream returns.
HandleStream ==
    /\ sm = "load" /\ sm' = "handle"
    /\ shown' = "none" /\ returned' = FALSE
    /\ UNCHANGED <<cond, gen, alive, remote, outages, ctxDone,
                   on, entries, streamer, offered, watcher, held, queue, changes>>

SendMetric ==
    /\ sm = "handle" /\ ~returned /\ queue # <<>>
    /\ queue' = Tail(queue)
    /\ returned' = ~alive
    /\ shown' = IF alive /\ Head(queue) # "metric" THEN Head(queue) ELSE shown
    /\ UNCHANGED <<smVars, on, entries, streamer, offered, watcher, held, changes>>

HandleStreamReturns ==
    /\ sm = "handle" /\ ~returned /\ (~alive \/ ctxDone)
    /\ returned' = TRUE
    /\ UNCHANGED <<smVars, on, entries, streamer, offered, watcher, held, queue, shown, changes>>

\* The stream manager: Run applies its condition again, which takes the lock,
\* before it backs off.
ProviderRun ==
    \/ /\ TryConnectFails \/ TryConnect \/ WaitBackoff
       /\ UNCHANGED mpVars
    \/ /\ returned /\ HandleStreamEnds /\ ApplyCondition("monitor")
       /\ UNCHANGED <<on, offered, watcher, held, queue, returned, shown, changes>>

----------------------------------------------------------------------------
ProviderStep ==
    \/ \E c \in Conds : ClearCondition(c)
    \/ EndInitialize \/ StreamHealthUpdates \/ WatchRecv \/ WatchEnds \/ WatchPost
    \/ HandleStream \/ SendMetric \/ HandleStreamReturns \/ ProviderRun

ProviderNext ==
    \/ ProviderStep \/ OtherCondition \/ PostMetric
    \/ SMEnvironment /\ UNCHANGED mpVars

ProviderSpec == ProviderInit /\ [][ProviderNext]_providerVars /\ WF_providerVars(ProviderStep)

----------------------------------------------------------------------------
\* StreamHealthUpdates waits, with statusLock held, for watchStatus, which waits
\* for room in the queue, which only HandleStream makes, which Run calls only
\* after it has taken statusLock.
Stuck ==
    /\ streamer = "send" /\ watcher = "post" /\ Len(queue) = QueueCap
    /\ sm = "handle" /\ returned

\* While the monitor stays reachable and the process runs, the provider gets a
\* stream, unless its queue was full when the last stream was lost: the chain of
\* waits above is the only way in which Run is held up (stream.go:202).  And health
\* posted late, lost with a stream or overtaken by a change is made up for: while a
\* stream lasts, the monitor ends up with the component's health (status.go:156).
Connected == sm = "handle" /\ alive /\ ~ctxDone
HealthSettled ==
    /\ Connected \/ ~remote \/ ctxDone \/ Stuck \/ gen = MaxGen
    /\ Connected => shown = Health
=============================================================================
