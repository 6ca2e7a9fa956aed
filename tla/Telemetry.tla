---------------------------- MODULE Telemetry -----------------------------
(* The samples the consumerd's queue keeps of its counters, and the queries  *)
(* on them (consumerd/telemetry.go).  The counters are those of tasks that   *)
(* are queued, run here or are delegated, and end (queue.go:210-235).        *)
(*                                                                           *)
(* Recording starts when the queue is made.  A sample is two steps, for its  *)
(* value is loaded before the lock is taken and the time of it after.        *)
EXTENDS Integers, Sequences, SequencesExt

CONSTANTS Tasks,
          MaxTicks,  \* bound: times the ticker fires
          MaxNow     \* bound: the clock

VARIABLES clock, recording, tickCancelled, history,
          sampler,   \* the goroutine: next value to load, the entry it holds
          ticks,     \* how often the ticker has fired
          task       \* where each task is

telemetryVars == <<clock, recording, tickCancelled, history, sampler, ticks, task>>

\* In the order recordValues takes them.
EntryKinds == <<"completedLocal", "completedRemote", "delegated", "running", "queued">>

ZeroTime == 0
Idle == [next |-> 0, entry |-> <<>>]
Ended == [next |-> -1, entry |-> <<>>]

\* A counter is the number of tasks that are where it counts.
CounterOf(k) == Len(SelectSeq(SetToSeq(Tasks), LAMBDA t : task[t] = k))

(***************************************************************************)
(* Queries.                                                                *)
(***************************************************************************)
\* sort.Search: the first of the indices 1..n that are in holds, by bisection, or
\* n + 1.
Search(n, holds) ==
    LET f[i \in 1..(n + 1), j \in 1..(n + 1)] ==
            IF i >= j THEN i
            ELSE LET h == (i + j) \div 2
                 IN  IF h \in holds THEN f[i, h] ELSE f[h + 1, j]
    IN  f[1, n + 1]

\* Entries.Filter with the predicate by which entries of one kind are chosen.
Filter(e, kind) == SelectSeq(e, LAMBDA i : i.kind = kind)

\* Mutant: the entry that has exactly the time is left out.
OnlyAfter(x, time) == x > time

NotBefore(x, time) == x > time \/ x = time

TimeRange(e, begin, end) ==
    LET from == IF begin = ZeroTime THEN 1
                ELSE Search(Len(e), {i \in DOMAIN e : NotBefore(e[i].x, begin)})
        to == IF end = ZeroTime THEN Len(e)
              ELSE Search(Len(e), {i \in DOMAIN e : NotBefore(e[i].x, end)})
    IN  SubSeq(e, from, to - 1)

Deltas(e) ==
    [i \in DOMAIN e |-> [x |-> e[i].x, y |-> IF i = 1 THEN 0 ELSE e[i].y - e[i - 1].y]]

(***************************************************************************)
(* Recording.                                                              *)
(***************************************************************************)
\* The ticker fires and the goroutine begins its round.
TickerFires ==
    /\ sampler = Idle /\ ticks < MaxTicks
    /\ sampler' = [Idle EXCEPT !.next = 1]
    /\ ticks' = ticks + 1
    /\ UNCHANGED <<clock, recording, tickCancelled, history, task>>

\* recordValues: the argument of RecordEntry is built, and RecordEntry returns
\* at once unless recording.
recordValues ==
    /\ sampler.next \in DOMAIN EntryKinds /\ sampler.entry = <<>>
    /\ LET k == EntryKinds[sampler.next]
           after == IF sampler.next = Len(EntryKinds) THEN 0 ELSE sampler.next + 1
       IN  sampler' = IF recording
                      THEN [next |-> sampler.next, entry |-> <<[kind |-> k, y |-> CounterOf(k)]>>]
                      ELSE [next |-> after, entry |-> <<>>]
    /\ UNCHANGED <<clock, recording, tickCancelled, history, ticks, task>>

\* RecordEntry under the lock: the time is taken there.
RecordEntry ==
    /\ sampler.entry # <<>>
    /\ LET i == sampler.entry[1]
           after == IF sampler.next = Len(EntryKinds) THEN 0 ELSE sampler.next + 1
       IN  /\ history' = Append(history, [x |-> clock, kind |-> i.kind, y |-> i.y])
           /\ sampler' = [next |-> after, entry |-> <<>>]
    /\ UNCHANGED <<clock, recording, tickCancelled, ticks, task>>

StopRecording ==
    /\ ~tickCancelled
    /\ recording' = FALSE /\ tickCancelled' = TRUE
    /\ UNCHANGED <<clock, history, sampler, ticks, task>>

\* The goroutine sees the context's end between two rounds.
SamplerReturns ==
    /\ sampler = Idle /\ tickCancelled
    /\ sampler' = Ended
    /\ UNCHANGED <<clock, recording, tickCancelled, history, ticks, task>>

ClearHistory ==
    /\ history # <<>>
    /\ history' = <<>>
    /\ UNCHANGED <<clock, recording, tickCancelled, sampler, ticks, task>>

\* The runner of a task, one atomic counter at a time: between two of them the
\* task is counted nowhere.
localRunner ==
    {<<"queued", "taken">>, <<"taken", "running">>, <<"running", "ran">>, <<"ran", "completedLocal">>}

remoteRunner ==
    {<<"queued", "sent">>, <<"sent", "delegated">>, <<"delegated", "answered">>,
     <<"answered", "completedRemote">>}

TaskMoves(t) ==
    /\ \E to \in {move[2] : move \in {m \in localRunner \cup remoteRunner : m[1] = task[t]}} :
           task' = [task EXCEPT ![t] = to]
    /\ UNCHANGED <<clock, recording, tickCancelled, history, sampler, ticks>>

TimePasses ==
    /\ clock < MaxNow
    /\ clock' = clock + 1
    /\ UNCHANGED <<recording, tickCancelled, history, sampler, ticks, task>>

TelemetryInit ==
    /\ clock = 1 /\ recording = TRUE /\ tickCancelled = FALSE
    /\ history = <<>> /\ sampler = Idle /\ ticks = 0
    /\ task = [t \in Tasks |-> "queued"]

TelemetryNext ==
    \/ TickerFires \/ recordValues \/ RecordEntry \/ SamplerReturns
    \/ StopRecording \/ ClearHistory \/ TimePasses
    \/ \E t \in Tasks : TaskMoves(t)

\* TimeRange finds by bisection exactly the entries with begin <= time < end,
\* whatever was recorded, cleared or stopped in between: the history is sorted,
\* because the time of an entry is taken under the lock that appends it
\* (telemetry.go:66, telemetry.go:197).
RangeIsExact ==
    \A begin \in 0..MaxNow, end \in 1..(MaxNow + 1) :
        begin <= end =>
            TimeRange(history, begin, end)
                = SelectSeq(history, LAMBDA i : begin <= i.x /\ i.x < end)

\* The series of completed tasks never falls, so the differences the queries
\* compute are counts of tasks, although an entry may be older than the time it
\* carries (telemetry.go:123, telemetry.go:254).
SeriesNeverFalls ==
    \A k \in {"completedLocal", "completedRemote"} :
        LET d == Deltas(Filter(history, k))
        IN  \A i \in DOMAIN d : d[i].y >= 0

\* The history answers queries rightly: a range by time is exact, and the series whose
\* differences are shown never falls (telemetry.go:197, 254).
HistorySound == RangeIsExact /\ SeriesNeverFalls
=============================================================================
