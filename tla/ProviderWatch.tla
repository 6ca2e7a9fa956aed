--------------------------- MODULE ProviderWatch ---------------------------
(* What follows the providers of the monitor (clients/monitor.go, OnProviderAdded *)
(* and OnValueChanged): the tables of the status display (pkg/ui/sources.go,      *)
(* table.go), the scheduler's cache optimizer (scheduler/optimizer.go) and the    *)
(* Prometheus exporter (monitor/prometheus.go).  Each has its own listener, so    *)
(* that a provider two of them follow is two providers here.  The monitor's side  *)
(* is the model Monitor's; here it is a list and a value.                         *)
EXTENDS Integers, FiniteSets

CONSTANTS Agents, Consumerds, Schedulers, Monitors, Caches, Optimized, Exported,
                        \* the providers that each of them follows
          Readings,     \* what they post, positive numbers
          MaxHandlers,  \* bound: sessions of providers, each handled once
          MaxReadings   \* bound: values posted

\* A reading is told apart from an empty value and from a row that is gone.
ASSUME ReadingsAssumption == Readings \subseteq Nat \ {0}

VARIABLES online,   \* providers the monitor has
          posted,   \* the value each last posted
          known,    \* knownProviders: the handler that watches each, or 0
          hnd,      \* the handlers
          listen,   \* the goroutine of each handler's OnValueChanged
          entry,    \* each provider's row or gauge; Gone: there is none
          screen,   \* what the table of each provider last drew of it
          died, twice, late, stale, numPosts, sessions

pwVars == <<online, posted, known, hnd, listen, entry, screen, died, twice, late, stale,
            numPosts, sessions>>

----------------------------------------------------------------------------
(* The data sources.  Agents and consumerds have a row each, which goes with its *)
(* provider, and each of its values is zeroed when the stream of that value      *)
(* expires.  The others show the values of the one component of their kind,      *)
(* which are reset when it goes and kept when a stream expires.  The exporter's  *)
(* gauges, with the provider's address as their label, are never reset.          *)

agentDataSource == [of |-> Agents, onDone |-> "delete", onExpired |-> "zero"]
consumerdDataSource == [of |-> Consumerds, onDone |-> "delete", onExpired |-> "zero"]
schedulerDataSource == [of |-> Schedulers, onDone |-> "reset", onExpired |-> "keep"]
monitorDataSource == [of |-> Monitors, onDone |-> "reset", onExpired |-> "keep"]
cacheDataSource == [of |-> Caches, onDone |-> "reset", onExpired |-> "keep"]
runCacheOptimizer == [of |-> Optimized, onDone |-> "reset", onExpired |-> "keep"]
servePrometheusMetrics == [of |-> Exported, onDone |-> "keep", onExpired |-> "keep"]

Sources == {agentDataSource, consumerdDataSource, schedulerDataSource, monitorDataSource,
            cacheDataSource, runCacheOptimizer, servePrometheusMetrics}
SourceOf(p) == CHOOSE s \in Sources : p \in s.of
Watched == UNION {s.of : s \in Sources}
Listed == {p \in Watched : SourceOf(p).onDone = "delete"}
Gauges == Watched \ Listed
Handlers == 1 .. MaxHandlers
Gone == -1
Zero == 0
Rows == Readings \cup {Gone, Zero}
Table(p) == SourceOf(p).of
Snapshots == UNION {[Table(p) -> Rows] : p \in Watched}
NoRows == [p \in {} |-> Zero]

PWTypeOK ==
    /\ online \subseteq Watched /\ posted \in [Watched -> Readings \cup {Zero}]
    /\ known \in [Watched -> {0} \cup Handlers]
    /\ \A h \in Handlers :
          /\ hnd[h].pc \in {"none", "whois", "waiting", "rows", "over"}
          /\ hnd[h].done \in BOOLEAN /\ hnd[h].rows \in Snapshots \cup {NoRows}
          /\ listen[h].pc \in {"none", "recv", "rows", "over"}
          /\ listen[h].last \in Readings \cup {Zero} /\ listen[h].rows \in Snapshots \cup {NoRows}
    /\ entry \in [Watched -> Rows] /\ screen \in [Watched -> Rows]
    /\ \A p \in Gauges : entry[p] # Gone
    /\ died \in BOOLEAN /\ twice \in BOOLEAN /\ late \subseteq Watched /\ stale \subseteq Watched
    /\ numPosts \in 0 .. MaxReadings /\ sessions \in 0 .. MaxHandlers

PWInit ==
    /\ online = {} /\ posted = [p \in Watched |-> Zero] /\ known = [p \in Watched |-> 0]
    /\ hnd = [h \in Handlers |-> [of |-> Zero, pc |-> "none", done |-> FALSE, rows |-> NoRows]]
    /\ listen = [h \in Handlers |-> [pc |-> "none", last |-> Zero, ended |-> FALSE, rows |-> NoRows]]
    /\ entry = [p \in Watched |-> IF p \in Listed THEN Gone ELSE Zero] /\ screen = entry
    /\ died = FALSE /\ twice = FALSE /\ late = {} /\ stale = {} /\ numPosts = 0 /\ sessions = 0

----------------------------------------------------------------------------
(* The monitor. *)

Connect(p) ==
    /\ p \notin online /\ online' = online \cup {p}
    /\ sessions < MaxHandlers /\ sessions' = sessions + 1
    /\ UNCHANGED <<posted, known, hnd, listen, entry, screen, died, twice, late, stale, numPosts>>
PostValue(p) ==
    /\ p \in online /\ numPosts < MaxReadings /\ numPosts' = numPosts + 1
    /\ posted' \in {[posted EXCEPT ![p] = v] : v \in Readings \ {posted[p]}}
    /\ UNCHANGED <<online, known, hnd, listen, entry, screen, died, twice, late, stale, sessions>>

\* Providers leave, and the streams that listen to their values end: one of them, or
\* all when the connection to the monitor is lost.
Leave(gone) ==
    /\ online' = online \ gone /\ posted' = [p \in Watched |-> IF p \in gone THEN Zero ELSE posted[p]]
    /\ listen' = [h \in Handlers |-> [listen[h] EXCEPT !.ended = @ \/ hnd[h].of \in gone]]
Disconnect(p) ==
    /\ p \in online /\ Leave({p})
    /\ UNCHANGED <<known, hnd, entry, screen, died, twice, late, stale, numPosts, sessions>>

----------------------------------------------------------------------------
(* OnProviderAdded. *)

\* doUpdate: cancel the context of each provider removed and start the handler for
\* each one added.  One at a time here; the mutex makes their order irrelevant.
Removed(list) == {p \in Watched : known[p] # 0 /\ p \notin list}
Cancelled(gone) == [h \in Handlers |-> [hnd[h] EXCEPT !.done = @ \/ \E p \in gone : known[p] = h]]
NextHandler(h) == hnd[h].pc = "none" /\ (h > 1 => hnd[h - 1].pc # "none")
ProvidersChanged ==
    \/ /\ Removed(online) # {} /\ hnd' = Cancelled(Removed(online))
       /\ known' = [p \in Watched |-> IF p \in Removed(online) THEN 0 ELSE known[p]]
       /\ UNCHANGED <<online, posted, listen, entry, screen, died, twice, late, stale, numPosts, sessions>>
    \/ \E p \in online, h \in Handlers :
       /\ known[p] = 0 /\ NextHandler(h) /\ known' = [known EXCEPT ![p] = h]
       /\ hnd' = [hnd EXCEPT ![h].of = p, ![h].pc = "whois"]
       /\ UNCHANGED <<online, posted, listen, entry, screen, died, twice, late, stale, numPosts, sessions>>

\* The listener's own stream is lost: its expired handler calls doUpdate(nil), then
\* it connects again.
MonitorLost ==
    /\ online # {} /\ Leave(online) /\ hnd' = Cancelled(Watched) /\ known' = [p \in Watched |-> 0]
    /\ UNCHANGED <<entry, screen, died, twice, late, stale, numPosts, sessions>>

----------------------------------------------------------------------------
(* The handlers: Whois, the entry, OnValueChanged, and <-c.Done(). *)

Draw(p, rows) == IF p \in Exported THEN NoRows ELSE [q \in Table(p) |-> rows[q]]
Waiting(h) == hnd[h].pc = "waiting"
SameProvider(h) == \E g \in Handlers \ {h} : hnd[g].of = hnd[h].of /\ Waiting(g)

\* Whois fails when the provider has gone, and the handler is done with it; but the
\* exporter goes on to read the answer it did not get.
WaitAnyway == "waiting"                                  \* mutant of WhoisFailed
WhoisFailed == "over"
WhoisReply(h) ==
    /\ hnd[h].pc = "whois"
    /\ LET p == hnd[h].of IN
       \/ /\ p \notin online /\ hnd' = [hnd EXCEPT ![h].pc = WhoisFailed]
          /\ died' = (p \in Exported) /\ UNCHANGED <<entry, listen, twice>>
       \/ /\ p \in online /\ hnd' = [hnd EXCEPT ![h].pc = "waiting"]
          /\ entry' = [entry EXCEPT ![p] = IF p \in Listed THEN Zero ELSE @]
          /\ listen' = [listen EXCEPT ![h].pc = "recv"]
          /\ twice' = (twice \/ SameProvider(h)) /\ UNCHANGED died
    /\ UNCHANGED <<online, posted, known, screen, late, stale, numPosts, sessions>>

\* LoadAndDelete, which panics when there is nothing to delete, and doUpdate; or the
\* gauges are reset and an empty table is sent.
Cleared(p) == IF p \in Listed THEN Gone ELSE IF p \in Exported THEN entry[p] ELSE Zero
Drawn(h) == IF hnd[h].of \in Exported THEN "over" ELSE "rows"
Done(h) ==
    /\ Waiting(h) /\ hnd[h].done
    /\ LET p == hnd[h].of IN
          IF entry[p] = Gone
          THEN died' = TRUE /\ UNCHANGED <<entry, hnd>>
          ELSE /\ entry' = [entry EXCEPT ![p] = Cleared(p)]
               /\ hnd' = [hnd EXCEPT ![h].pc = Drawn(h), ![h].rows = Draw(p, entry')]
               /\ UNCHANGED died
    /\ UNCHANGED <<online, posted, known, listen, screen, twice, late, stale, numPosts, sessions>>

----------------------------------------------------------------------------
(* The goroutines of OnValueChanged, and the table. *)

\* The handler of a value: a row that is gone is left alone, a gauge is set in any
\* case.  doUpdate takes its rows, then waits for the table to receive them.
Apply(h, v, next) ==
    LET p == hnd[h].of IN
    IF entry[p] = Gone \/ p \in Exported
    THEN /\ listen' = [listen EXCEPT ![h].pc = next, ![h].last = v]
         /\ entry' = [entry EXCEPT ![p] = IF p \in Exported THEN v ELSE @]
    ELSE /\ entry' = [entry EXCEPT ![p] = v]
         /\ listen' = [listen EXCEPT ![h].pc = "rows", ![h].last = v, ![h].rows = Draw(p, entry')]
Changed(h) ==
    /\ listen[h].pc = "recv" /\ ~listen[h].ended
    /\ posted[hnd[h].of] \notin {Zero, listen[h].last} /\ Apply(h, posted[hnd[h].of], "recv")
    /\ late' = IF Waiting(h) THEN late ELSE late \cup {hnd[h].of}
    /\ UNCHANGED <<online, posted, known, hnd, screen, died, twice, stale, numPosts, sessions>>

\* The stream ended: OrExpired's handler, where there is one, sets the row to zero and
\* asks for no retry.
Expired(h) ==
    /\ listen[h].pc = "recv" /\ listen[h].ended
    /\ IF SourceOf(hnd[h].of).onExpired = "zero" THEN Apply(h, Zero, "over")
       ELSE listen' = [listen EXCEPT ![h].pc = "over"] /\ UNCHANGED entry
    /\ late' = IF Waiting(h) THEN late ELSE late \cup {hnd[h].of}
    /\ UNCHANGED <<online, posted, known, hnd, screen, died, twice, stale, numPosts, sessions>>

\* readFromDataSource receives the rows.  (A list's styles follow on another channel.)
Receive(rows) ==
    /\ screen' = [p \in Watched |-> IF p \in DOMAIN rows THEN rows[p] ELSE screen[p]]
    /\ stale' = (stale \ DOMAIN rows) \cup {p \in DOMAIN rows : rows[p] # entry[p]}
readFromDataSource(h) ==
    /\ \/ /\ hnd[h].pc = "rows" /\ Receive(hnd[h].rows)
          /\ hnd' = [hnd EXCEPT ![h].pc = "over", ![h].rows = NoRows] /\ UNCHANGED listen
       \/ /\ listen[h].pc = "rows" /\ Receive(listen[h].rows)
          /\ listen' = [listen EXCEPT ![h].rows = NoRows,
                                      ![h].pc = IF listen[h].last = Zero THEN "over" ELSE "recv"]
          /\ UNCHANGED hnd
    /\ UNCHANGED <<online, posted, known, entry, died, twice, late, numPosts, sessions>>

PWStep ==
    /\ ~died
    /\ \/ ProvidersChanged
       \/ \E h \in Handlers : WhoisReply(h) \/ Done(h) \/ Changed(h) \/ Expired(h) \/ readFromDataSource(h)
PWNext ==
    \/ PWStep
    \/ ~died /\ (MonitorLost \/ \E p \in Watched : Connect(p) \/ PostValue(p) \/ Disconnect(p))
PWSpec == PWInit /\ [][PWNext]_pwVars /\ WF_pwVars(PWStep)

----------------------------------------------------------------------------
(* Properties. *)

\* The handler's LoadAndDelete finds its entry, and does not panic (sources.go:273-276),
\* unless the provider came back while the handler of its earlier session was still
\* there: that one deletes the entry of the later one.  The exporter, though, ends the
\* monitor's process when a provider leaves before its Whois (prometheus.go:227-234).
PanicOnlyIfTwice ==
    died => twice \/ \E h \in Handlers : hnd[h].of \in Exported /\ hnd[h].pc = "over"

\* A provider has a row exactly when it is online, with the value it last posted, and
\* the gauge of a component that is gone is reset, but for the exporter's, which keep
\* their last value for good.  There are two exceptions, and
\* nothing undoes them.  A provider that left and came back between two lists is not
\* seen to, and the goroutine that received its values has ended.  And the goroutine
\* of an earlier session may apply its last value late, after the handler of that
\* session has deleted the row or reset the gauge (sources.go:436-441,
\* optimizer.go:87-92).
Unheard(p) == known[p] # 0 /\ listen[known[p]].ended
RowPerProvider ==
    /\ \A p \in online : \/ entry[p] # Gone /\ posted[p] \in {Zero, entry[p]}
                        \/ Unheard(p) \/ p \in late
    /\ \A p \in Listed \ online : entry[p] = Gone
    /\ \A p \in Gauges \ (online \cup Exported) : entry[p] # Zero => p \in late

\* A table has drawn every change of its entries, but for the empty row a provider
\* starts with, unless the rows of an earlier doUpdate were received after those of a
\* later one (sources.go:202).
TableDrawn ==
    \A p \in Watched \ Exported : screen[p] # entry[p] => p \in stale \/ (screen[p] = Gone /\ entry[p] = Zero)

\* The display ends up with a row per provider and draws it, with the exceptions
\* above, unless it has panicked or two handlers of one provider were there at once.
DisplaySettled == died \/ (TableDrawn /\ (twice \/ RowPerProvider))
=============================================================================
