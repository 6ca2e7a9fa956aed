------------------------------- MODULE Monitor ------------------------------
(* The monitor (pkg/monitor/server.go, store.go) and the clients that listen   *)
(* to it (pkg/clients/monitor.go, pkg/monitor/prometheus.go).  Providers       *)
(* connect under their UUID and post values to the bucket of that name; the    *)
(* meta bucket holds the set of providers.  One client follows the meta bucket *)
(* with OnProviderAdded and watches one key of every provider it is told of.   *)
EXTENDS Naturals, Sequences, FiniteSets

CONSTANTS Providers,   \* UUIDs
          Values, NoValue,
          Abort,       \* the status a Listen call ends with
          MaxStreams,  \* bound: times a provider connects
          MaxPosts,    \* bound: values posted
          MaxCrashes   \* bound: times the monitor crashes and is restarted

VARIABLES session,   \* Stream calls: "none", "recv", "broken" (the client has left
                    \* it, Recv has not returned yet), "closed", "refused"
          bucket,   \* number of the Stream call that made the bucket, or 0
          val,      \* the bucket's value for the key, or NoValue
          leaked,   \* a Stream call has returned with providerMutex locked
          meta,     \* the listener of the meta bucket
          watch,    \* watchers: one for each time a provider was added
          adds, posts, crashes

monitorVars == <<session, bucket, val, leaked, meta, watch, adds, posts, crashes>>

Streams == 1 .. MaxStreams
Watches == 1 .. (MaxStreams + MaxCrashes)
Present == {p \in Providers : bucket[p] # 0}              \* m.providers.Items

MonitorTypeOK ==
    /\ session \in [Providers -> [Streams -> {"none", "recv", "broken", "closed", "refused"}]]
    /\ bucket \in [Providers -> 0 .. MaxStreams] /\ val \in [Providers -> Values \cup {NoValue}]
    /\ \A p \in Providers : val[p] # NoValue => bucket[p] # 0
    /\ leaked \in BOOLEAN /\ posts \in 0 .. MaxPosts /\ crashes \in 0 .. MaxCrashes
    /\ meta.st \in {"connect", "join", "open"} /\ meta.rx \in Seq(SUBSET Providers)
    /\ {meta.snap, meta.known} \subseteq SUBSET Providers
    /\ adds \in [Providers -> {0} \cup Watches]
    /\ \A p \in Providers, i \in Watches :
          /\ watch[p][i].st \in {"none", "whois", "connect", "join", "open", "done"}
          /\ watch[p][i].rx \in Seq(Values \cup {Abort})
          /\ {watch[p][i].snap, watch[p][i].seen} \subseteq Values \cup {NoValue}

NoWatch == [st |-> "none", of |-> 0, snap |-> NoValue, rx |-> <<>>, seen |-> NoValue, raced |-> FALSE]

\* NewMonitorServer and NewMetricsListener.
MonitorInit ==
    /\ session = [p \in Providers |-> [g \in Streams |-> "none"]]
    /\ bucket = [p \in Providers |-> 0] /\ val = [p \in Providers |-> NoValue]
    /\ leaked = FALSE /\ posts = 0 /\ crashes = 0
    /\ meta = [st |-> "connect", snap |-> {}, rx |-> <<>>, known |-> {}]
    /\ watch = [p \in Providers |-> [i \in Watches |-> NoWatch]]
    /\ adds = [p \in Providers |-> 0]

----------------------------------------------------------------------------
(* The server.  A Listen call in state "join" holds providerMutex for reading. *)

ReadLock == ~leaked
Joining == meta.st = "join" \/ \E p \in Providers, i \in Watches : watch[p][i].st = "join"
WriteLock == ~leaked /\ ~Joining

\* providersUpdated: post to the meta bucket and notify its listener.
ProvidersUpdated(ps) ==
    meta' = IF meta.st \in {"join", "open"} THEN [meta EXCEPT !.rx = Append(@, ps)] ELSE meta

\* Stream takes the write lock: a bucket of that name makes it return at once,
\* with the lock; otherwise a new, empty bucket.
StreamStarts(p, g) ==
    /\ WriteLock
    /\ session[p][g] = "none" /\ \A h \in Streams : session[p][h] # "recv"
    /\ \A h \in 1 .. g - 1 : session[p][h] # "none"
    /\ IF bucket[p] # 0
       THEN /\ leaked' = TRUE
            /\ session' = [session EXCEPT ![p][g] = "refused"]
            /\ UNCHANGED <<bucket, val, meta>>
       ELSE /\ session' = [session EXCEPT ![p][g] = "recv"]
            /\ bucket' = [bucket EXCEPT ![p] = g] /\ val' = [val EXCEPT ![p] = NoValue]
            /\ ProvidersUpdated(Present \cup {p})
            /\ UNCHANGED leaked
    /\ UNCHANGED <<watch, adds, posts, crashes>>

\* store.CAS: only a new or different value is stored and sent on.
CAS(p, v) == val[p] # v

\* post, in the read lock: the listeners of the key, a joining one included,
\* get the value.
Notify(w, v) ==
    IF w.st = "join" THEN [w EXCEPT !.rx = Append(@, v), !.raced = TRUE]
    ELSE IF w.st = "open" THEN [w EXCEPT !.rx = Append(@, v)] ELSE w
StreamPost(p, v) ==
    /\ ReadLock
    /\ posts < MaxPosts /\ \E g \in Streams : session[p][g] = "recv"
    /\ posts' = posts + 1
    /\ IF CAS(p, v)
       THEN /\ val' = [val EXCEPT ![p] = v]
            /\ watch' = [watch EXCEPT ![p] = [i \in Watches |-> Notify(@[i], v)]]
       ELSE UNCHANGED <<val, watch>>
    /\ UNCHANGED <<session, bucket, leaked, meta, adds, crashes>>

ValuesKept(p) == val                                     \* mutant of DeleteValues
DeleteValues(p) == [val EXCEPT ![p] = NoValue]

\* Recv fails: the bucket goes, its context is canceled so that the Listen calls
\* on it return Aborted, and the providers are updated, all in one write lock.
BucketCancel(p) ==
    [i \in Watches |-> LET w == watch[p][i] IN
        IF w.st = "open" /\ w.of = bucket[p] THEN [w EXCEPT !.rx = Append(@, Abort)] ELSE w]
StreamEnds(p, g) ==
    /\ WriteLock /\ session[p][g] = "broken"
    /\ session' = [session EXCEPT ![p][g] = "closed"]
    /\ bucket' = [bucket EXCEPT ![p] = 0] /\ val' = DeleteValues(p)
    /\ watch' = [watch EXCEPT ![p] = BucketCancel(p)]
    /\ ProvidersUpdated(Present \ {p})
    /\ UNCHANGED <<leaked, adds, posts, crashes>>

\* Listen on the meta bucket: register, read for the late join, then send.
MetaJoin ==
    /\ ReadLock /\ meta.st = "connect"
    /\ meta' = [meta EXCEPT !.st = "join", !.snap = Present]
    /\ UNCHANGED <<session, bucket, val, leaked, watch, adds, posts, crashes>>
MetaJoinSend ==
    /\ meta.st = "join"
    /\ meta' = [meta EXCEPT !.st = "open", !.rx = Append(@, meta.snap)]
    /\ UNCHANGED <<session, bucket, val, leaked, watch, adds, posts, crashes>>

\* Listen on a provider's key; without the bucket it fails and is retried.
ListenJoin(p, i) ==
    /\ ReadLock /\ watch[p][i].st = "connect" /\ bucket[p] # 0
    /\ watch' = [watch EXCEPT ![p][i].st = "join", ![p][i].of = bucket[p],
                              ![p][i].snap = val[p]]
    /\ UNCHANGED <<session, bucket, val, leaked, meta, adds, posts, crashes>>
ListenJoinSend(p, i) ==
    /\ watch[p][i].st = "join"
    /\ watch' = [watch EXCEPT ![p][i].st = "open", ![p][i].rx =
                    IF watch[p][i].snap = NoValue THEN @ ELSE Append(@, watch[p][i].snap)]
    /\ UNCHANGED <<session, bucket, val, leaked, meta, adds, posts, crashes>>

----------------------------------------------------------------------------
(* The clients. *)

\* doUpdate of OnProviderAdded: a handler is started for every new provider.
StartHandlers(new) ==
    /\ adds' = [p \in Providers |-> IF p \in new THEN adds[p] + 1 ELSE adds[p]]
    /\ watch' = [p \in Providers |->
          IF p \in new THEN [watch[p] EXCEPT ![adds[p] + 1].st = "whois"] ELSE watch[p]]
DoUpdate ==
    /\ meta.rx # <<>>
    /\ meta' = [meta EXCEPT !.rx = Tail(@), !.known = Head(meta.rx)]
    /\ StartHandlers(Head(meta.rx) \ meta.known)
    /\ UNCHANGED <<session, bucket, val, leaked, posts, crashes>>

\* The handler asks Whois: it watches the provider, or returns because the
\* provider has left already.
Whois(p, i) ==
    /\ ReadLock /\ watch[p][i].st = "whois"
    /\ watch' = [watch EXCEPT ![p][i].st = IF p \in Present THEN "connect" ELSE "done"]
    /\ UNCHANGED <<session, bucket, val, leaked, meta, adds, posts, crashes>>

\* changeListener.HandleStream: a value is handed over; Aborted ends a watcher
\* that has no expiredHandler.
ListenRecv(p, i) ==
    LET w == watch[p][i] IN
    /\ w.rx # <<>> /\ w.st \in {"join", "open"}
    /\ watch' = [watch EXCEPT ![p][i] =
          IF Head(w.rx) = Abort THEN [w EXCEPT !.st = "done", !.rx = <<>>]
                                ELSE [w EXCEPT !.seen = Head(w.rx), !.rx = Tail(w.rx)]]
    /\ UNCHANGED <<session, bucket, val, leaked, meta, adds, posts, crashes>>

\* A provider's connection breaks.
StreamBreaks(p, g) ==
    /\ session[p][g] = "recv"
    /\ session' = [session EXCEPT ![p][g] = "broken"]
    /\ UNCHANGED <<bucket, val, leaked, meta, watch, adds, posts, crashes>>

\* The monitor crashes and is restarted, empty.  It may do so by itself: the
\* Prometheus exporter dereferences the answer of a Whois that failed.  Every
\* session ends with Unavailable: the meta listener's expiredHandler drops all
\* providers and retries, the watchers end.
MonitorCrash ==
    /\ crashes < MaxCrashes /\ crashes' = crashes + 1
    /\ session' = [p \in Providers |-> [g \in Streams |->
          IF session[p][g] \in {"recv", "broken"} THEN "closed" ELSE session[p][g]]]
    /\ bucket' = [p \in Providers |-> 0] /\ val' = [p \in Providers |-> NoValue]
    /\ leaked' = FALSE
    /\ meta' = [st |-> "connect", snap |-> {}, rx |-> <<>>, known |-> {}]
    /\ watch' = [p \in Providers |-> [i \in Watches |->
          IF watch[p][i].st \in {"join", "open"}
          THEN [watch[p][i] EXCEPT !.st = "done", !.rx = <<>>] ELSE watch[p][i]]]
    /\ UNCHANGED <<adds, posts>>

----------------------------------------------------------------------------
MonitorStep ==
    \/ \E p \in Providers, g \in Streams : StreamEnds(p, g)
    \/ MetaJoin \/ MetaJoinSend \/ DoUpdate
    \/ \E p \in Providers, i \in Watches :
          ListenJoin(p, i) \/ ListenJoinSend(p, i) \/ Whois(p, i) \/ ListenRecv(p, i)

MonitorNext ==
    \/ MonitorStep \/ MonitorCrash
    \/ \E p \in Providers, g \in Streams : StreamStarts(p, g) \/ StreamBreaks(p, g)
    \/ \E p \in Providers, v \in Values : StreamPost(p, v)

MonitorSpec == MonitorInit /\ [][MonitorNext]_monitorVars /\ WF_monitorVars(MonitorStep)

----------------------------------------------------------------------------
\* OnProviderAdded: the client knows exactly the providers the monitor has.
KnownCaughtUp == meta.known = Present

\* A watcher has the provider's latest value, except that a value posted while
\* Listen is between its late-join read and its send may be followed by the older
\* one.
WatchersCaughtUp ==
    \A p \in Providers, i \in Watches :
        LET w == watch[p][i] IN w.st = "open" /\ w.of = bucket[p] /\ ~w.raced => w.seen = val[p]

\* "listeners stay alive while a provider is being deleted, so that they can be
\* properly notified" (Listen): no watcher of a bucket that is gone is still open.
DeletionSeen ==
    \A p \in Providers, i \in Watches : watch[p][i].st = "open" => bucket[p] = watch[p][i].of

\* Through connects, disconnects and crashes the clients of the monitor end up with
\* what it has: no post is lost or overtaken but by the late join, and no deletion
\* goes unnoticed, unless the monitor's lock was leaked (server.go:292, 455-458).
MonitorSettled == leaked \/ (KnownCaughtUp /\ WatchersCaughtUp /\ DeletionSeen)
=============================================================================
