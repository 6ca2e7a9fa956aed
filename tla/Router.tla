------------------------------- MODULE Router -------------------------------
(***************************************************************************)
(* The life of a route (pkg/scheduler/router.go).                          *)
(*                                                                         *)
(* A route is a channel shared by the consumerds and agents that have one  *)
(* toolchain.  It is made on demand by routeForToolchain and reference     *)
(* counted: one goroutine per attached consumerd or agent holds a          *)
(* reference, and the goroutine that drops the last one cancels the route; *)
(* a goroutine of the route then closes its channel and removes it from    *)
(* the map.  The counts are atomics, not guarded by routesMutex, so a      *)
(* decrement, the load of the other count and the cancel are three steps,  *)
(* and so are the lookup of a route and the attachment to it.              *)
(***************************************************************************)
EXTENDS Integers, Sequences, FiniteSets

CONSTANTS
  Tcs,        \* toolchain hashes
  Cds,        \* consumerd streams (senders)
  Agents,     \* agent streams (receivers)
  UuidOf,     \* [Cds \cup Agents -> UUIDs]
  TcsOf,      \* [Cds \cup Agents -> Seq(Tcs)]: Toolchains.GetItems()
  NewTcs,     \* [Cds -> Seq(Tcs)]: what a toolchain update would bring
  MayUpdate,  \* consumerds whose toolchains may be updated
  MayEnd,     \* streams that may end
  Calls,      \* calls of Route
  Caller,     \* [Calls -> Cds]: the stream whose context the call uses
  CallTc,     \* [Calls -> Tcs]
  MaxRoutes   \* bound on the routes made

ASSUME RouterAssumptions ==
  /\ Cds \cap Agents = {} /\ MayUpdate \subseteq Cds /\ MayEnd \subseteq Cds \cup Agents
  /\ TcsOf \in [Cds \cup Agents -> Seq(Tcs)] /\ NewTcs \in [Cds -> Seq(Tcs)]
  /\ Caller \in [Calls -> Cds] /\ CallTc \in [Calls -> Tcs]
  /\ MaxRoutes \in Nat

Parties == Cds \cup Agents
Ids == 1..MaxRoutes
NoRoute == 0

VARIABLES
  ctx,        \* [Parties]: the stream's context, "off", "live" or "done"
  phase,      \* [Parties]: "off", "adding", "ready", "updating", "end"
  queue,      \* [Parties]: toolchains left to attach to, in order
  drop,       \* [Parties]: positions in TcsOf[p] left to cancel, in order
  cur,        \* [Parties]: result of routeForToolchain not used yet
  made,       \* Seq(Tcs): toolchain of every route made so far
  routes,     \* [Tcs]: Router.routes
  rx, tx,     \* [Ids]: rxRefCount and txRefCount
  listed,     \* [Ids]: UUIDs in the sets senders and receivers of a route
  cancelled,  \* routes whose context was cancelled
  closed,     \* routes whose channel was closed
  att,        \* Seq: the goroutines of attachSender and attachReceiver
  call,       \* [Calls]: where a call of Route is
  callRt,     \* [Calls]: the route it found
  delivered,  \* [Calls]: times the request left a relay
  crashed     \* send on closed channel

partyVars == <<ctx, phase, queue, drop, cur>>
routeVars == <<made, routes, cancelled, closed>>
refVars == <<rx, tx, listed, att>>
callVars == <<call, callRt, delivered, crashed>>
vars == <<partyVars, routeVars, refVars, callVars>>

TypeOK ==
  /\ ctx \in [Parties -> {"off", "live", "done"}]
  /\ phase \in [Parties -> {"off", "adding", "ready", "updating", "end"}]
  /\ made \in Seq(Tcs) /\ Len(made) <= MaxRoutes
  /\ routes \in [Tcs -> Ids \cup {NoRoute}]
  /\ cur \in [Parties -> Ids \cup {NoRoute}]
  /\ rx \in [Ids -> Nat] /\ tx \in [Ids -> Nat]
  /\ cancelled \subseteq Ids /\ closed \subseteq cancelled
  /\ call \in [Calls -> {"new", "check", "select", "sent", "noagents", "cancelled", "panic"}]
  /\ callRt \in [Calls -> Ids \cup {NoRoute}]
  /\ delivered \in [Calls -> Nat]
  /\ crashed \in BOOLEAN

Init ==
  /\ ctx = [p \in Parties |-> "off"] /\ phase = [p \in Parties |-> "off"]
  /\ queue = [p \in Parties |-> <<>>] /\ drop = [p \in Parties |-> {}]
  /\ cur = [p \in Parties |-> NoRoute]
  /\ made = <<>> /\ routes = [t \in Tcs |-> NoRoute]
  /\ rx = [i \in Ids |-> 0] /\ tx = [i \in Ids |-> 0]
  /\ listed = [i \in Ids |-> {}]
  /\ cancelled = {} /\ closed = {}
  /\ att = <<>>
  /\ call = [x \in Calls |-> "new"] /\ callRt = [x \in Calls |-> NoRoute]
  /\ delivered = [x \in Calls |-> 0]
  /\ crashed = FALSE

-----------------------------------------------------------------------------
\* routeForToolchain, under routesMutex: the route in the map, or a new one.
RouteForToolchain(t, i) ==
  \/ routes[t] = i /\ i # NoRoute /\ UNCHANGED <<made, routes>>
  \/ /\ routes[t] = NoRoute /\ Len(made) < MaxRoutes /\ i = Len(made) + 1
     /\ made' = Append(made, t)
     /\ routes' = [routes EXCEPT ![t] = i]

\* sendersMutex or receiversMutex is held by a party that is in the middle of
\* AddSender, UpdateSenderToolchains or AddReceiver.
Kind(p) == IF p \in Cds THEN Cds ELSE Agents
MutexFree(p) == \A q \in Kind(p) : phase[q] \notin {"adding", "updating"}

\* The stream starts: AddSender or AddReceiver takes its mutex.
Add(p) ==
  /\ phase[p] = "off" /\ MutexFree(p)
  /\ ctx' = [ctx EXCEPT ![p] = "live"]
  /\ phase' = [phase EXCEPT ![p] = "adding"]
  /\ queue' = [queue EXCEPT ![p] = TcsOf[p]]
  /\ UNCHANGED <<drop, cur, routeVars, refVars, callVars>>

Lookup(p) ==
  /\ phase[p] \in {"adding", "updating"} /\ cur[p] = NoRoute
  /\ drop[p] = {} /\ queue[p] # <<>>
  /\ \E i \in Ids : RouteForToolchain(Head(queue[p]), i) /\ cur' = [cur EXCEPT ![p] = i]
  /\ UNCHANGED <<ctx, phase, queue, drop, cancelled, closed, refVars, callVars>>

\* attachSender, attachReceiver: outside routesMutex.
Attach(p) ==
  LET i == cur[p] IN
  /\ i # NoRoute /\ drop[p] = {}
  /\ listed' = [listed EXCEPT ![i] = @ \cup {UuidOf[p]}]
  /\ rx' = IF p \in Agents THEN [rx EXCEPT ![i] = @ + 1] ELSE rx
  /\ tx' = IF p \in Cds THEN [tx EXCEPT ![i] = @ + 1] ELSE tx
  /\ att' = Append(att, [party |-> p, route |-> i, pc |-> "wait", req |-> {}])
  /\ queue' = [queue EXCEPT ![p] = Tail(@)]
  /\ cur' = [cur EXCEPT ![p] = NoRoute]
  /\ UNCHANGED <<ctx, phase, drop, routeVars, callVars>>

\* The call returns and releases the mutex.
Added(p) ==
  /\ phase[p] \in {"adding", "updating"} /\ cur[p] = NoRoute
  /\ drop[p] = {} /\ queue[p] = <<>>
  /\ phase' = [phase EXCEPT ![p] = IF phase[p] = "adding" THEN "ready" ELSE "end"]
  /\ UNCHANGED <<ctx, queue, drop, cur, routeVars, refVars, callVars>>

Items(s) == {s[k] : k \in DOMAIN s}
FirstOf(S) == {k \in S : \A l \in S : k <= l}

\* UpdateSenderToolchains.  The toolchains the consumerd no longer has are
\* cancelled.  Each new one defers a closure over the loop variable newTc, so
\* all of them attach to the last toolchain of the list.  The goroutine of
\* NewConsumerdTaskStream that calls this handles one update and returns.
UpdateSenderToolchains(c) ==
  LET old == TcsOf[c]
      new == NewTcs[c]
      isNew == {k \in DOMAIN new : new[k] \notin Items(old)}
  IN
  /\ c \in MayUpdate /\ phase[c] = "ready" /\ ctx[c] = "live" /\ MutexFree(c)
  /\ phase' = [phase EXCEPT ![c] = "updating"]
  /\ drop' = [drop EXCEPT ![c] = {k \in DOMAIN old : old[k] \notin Items(new)}]
  /\ queue' = [queue EXCEPT ![c] = [k \in 1..Cardinality(isNew) |-> new[Len(new)]]]
  /\ UNCHANGED <<ctx, cur, routeVars, refVars, callVars>>

DropLookup(c) ==
  /\ cur[c] = NoRoute
  /\ \E k \in FirstOf(drop[c]), i \in Ids :
       RouteForToolchain(TcsOf[c][k], i) /\ cur' = [cur EXCEPT ![c] = i]
  /\ UNCHANGED <<ctx, phase, queue, drop, cancelled, closed, refVars, callVars>>

DropCancel(c) ==
  /\ drop[c] # {} /\ cur[c] # NoRoute
  /\ cancelled' = cancelled \cup {cur[c]}
  /\ drop' = [drop EXCEPT ![c] = @ \ FirstOf(@)]
  /\ cur' = [cur EXCEPT ![c] = NoRoute]
  /\ UNCHANGED <<ctx, phase, queue, made, routes, closed, refVars, callVars>>

\* The stream's context is done.
End(p) ==
  /\ p \in MayEnd /\ ctx[p] = "live"
  /\ ctx' = [ctx EXCEPT ![p] = "done"]
  /\ UNCHANGED <<phase, queue, drop, cur, routeVars, refVars, callVars>>

-----------------------------------------------------------------------------
(* The goroutine behind reference k.                                       *)

At(k, pc) == k \in DOMAIN att /\ att[k].pc = pc
Move(k, pc) == att' = [att EXCEPT ![k].pc = pc]
Count(k) == IF att[k].party \in Agents THEN rx ELSE tx
OtherCount(k) == IF att[k].party \in Agents THEN tx ELSE rx

\* Mutation of DecRefCount: a relay that finds its channel closed returns
\* without dropping its reference.
DecRefCountLeaks(k) ==
  LET i == att[k].route
      p == att[k].party
      n == Count(k)[i] - 1
  IN
  /\ At(k, "wait")
  /\ \/ /\ ctx[p] = "done"
        /\ rx' = IF p \in Agents THEN [rx EXCEPT ![i] = n] ELSE rx
        /\ tx' = IF p \in Cds THEN [tx EXCEPT ![i] = n] ELSE tx
     \/ p \in Agents /\ i \in closed /\ UNCHANGED <<rx, tx>>
  /\ Move(k, IF n <= 0 THEN "load" ELSE "remove")
  /\ UNCHANGED <<partyVars, routeVars, listed, callVars>>

\* It stops waiting when the context is done, or, in a relay, when it reads
\* from the closed channel, and drops its reference.
DecRefCount(k) ==
  LET i == att[k].route
      p == att[k].party
      n == Count(k)[i] - 1
  IN
  /\ At(k, "wait")
  /\ ctx[p] = "done" \/ (p \in Agents /\ i \in closed)
  /\ rx' = IF p \in Agents THEN [rx EXCEPT ![i] = n] ELSE rx
  /\ tx' = IF p \in Cds THEN [tx EXCEPT ![i] = n] ELSE tx
  /\ Move(k, IF n <= 0 THEN "load" ELSE "remove")
  /\ UNCHANGED <<partyVars, routeVars, listed, callVars>>

\* Mutation of LoadOther: the comparison is strict.
LoadOtherStrict(k) ==
  /\ At(k, "load")
  /\ Move(k, IF OtherCount(k)[att[k].route] < 0 THEN "cancel" ELSE "remove")
  /\ UNCHANGED <<partyVars, routeVars, rx, tx, listed, callVars>>

LoadOther(k) ==
  /\ At(k, "load")
  /\ Move(k, IF OtherCount(k)[att[k].route] <= 0 THEN "cancel" ELSE "remove")
  /\ UNCHANGED <<partyVars, routeVars, rx, tx, listed, callVars>>

CancelRoute(k) ==
  /\ At(k, "cancel")
  /\ cancelled' = cancelled \cup {att[k].route}
  /\ Move(k, "remove")
  /\ UNCHANGED <<partyVars, made, routes, closed, rx, tx, listed, callVars>>

\* The first deferred call, run last: the UUID leaves the route's set.
RemoveUuid(k) ==
  /\ At(k, "remove")
  /\ listed' = [listed EXCEPT ![att[k].route] = @ \ {UuidOf[att[k].party]}]
  /\ Move(k, "end")
  /\ UNCHANGED <<partyVars, routeVars, rx, tx, callVars>>

\* Mutation of CloseRoute: the map entry is left behind.
CloseRouteKeepsEntry(i) ==
  /\ i \in cancelled \ closed
  /\ closed' = closed \cup {i}
  /\ UNCHANGED <<partyVars, made, routes, cancelled, refVars, callVars>>

\* The goroutine of newRoute: close the channel, delete the map entry.
CloseRoute(i) ==
  /\ i \in cancelled \ closed
  /\ closed' = closed \cup {i}
  /\ routes' = [routes EXCEPT ![made[i]] = NoRoute]
  /\ UNCHANGED <<partyVars, made, cancelled, refVars, callVars>>

-----------------------------------------------------------------------------
(* Route.                                                                  *)

\* Mutation of RouteLookup: requests are handled before AddSender returns.
RouteLookupEarly(x) ==
  /\ call[x] = "new" /\ phase[Caller[x]] # "off"
  /\ \E i \in Ids : RouteForToolchain(CallTc[x], i) /\ callRt' = [callRt EXCEPT ![x] = i]
  /\ call' = [call EXCEPT ![x] = "check"]
  /\ UNCHANGED <<partyVars, cancelled, closed, refVars, delivered, crashed>>

\* handleConsumerdStream calls Route once AddSender has returned.
RouteLookup(x) ==
  /\ call[x] = "new" /\ phase[Caller[x]] \in {"ready", "updating", "end"}
  /\ \E i \in Ids : RouteForToolchain(CallTc[x], i) /\ callRt' = [callRt EXCEPT ![x] = i]
  /\ call' = [call EXCEPT ![x] = "check"]
  /\ UNCHANGED <<partyVars, cancelled, closed, refVars, delivered, crashed>>

RouteCheck(x) ==
  /\ call[x] = "check"
  /\ call' = [call EXCEPT ![x] = IF rx[callRt[x]] = 0 THEN "noagents" ELSE "select"]
  /\ UNCHANGED <<partyVars, routeVars, refVars, callRt, delivered, crashed>>

\* rt.C <- req meets the relay goroutine k.
RouteHandOff(x, k) ==
  /\ call[x] = "select" /\ callRt[x] \notin closed
  /\ At(k, "wait") /\ att[k].party \in Agents /\ att[k].route = callRt[x]
  /\ call' = [call EXCEPT ![x] = "sent"]
  /\ att' = [att EXCEPT ![k] = [@ EXCEPT !.pc = "pass", !.req = {x}]]
  /\ UNCHANGED <<partyVars, routeVars, rx, tx, listed, callRt, delivered, crashed>>

RouteCancelled(x) ==
  /\ call[x] = "select" /\ ctx[Caller[x]] = "done"
  /\ call' = [call EXCEPT ![x] = "cancelled"]
  /\ UNCHANGED <<partyVars, routeVars, refVars, callRt, delivered, crashed>>

\* A send on a closed channel panics, also in a select that could take
\* another case.
RoutePanic(x) ==
  /\ call[x] = "select" /\ callRt[x] \in closed
  /\ call' = [call EXCEPT ![x] = "panic"]
  /\ crashed' = TRUE
  /\ UNCHANGED <<partyVars, routeVars, refVars, callRt, delivered>>

\* Mutation of PassOn: the relay keeps the request and passes it on again.
PassOnAgain(k) ==
  /\ At(k, "pass")
  /\ \A x \in att[k].req : delivered[x] < 2
  /\ delivered' = [x \in Calls |-> IF x \in att[k].req THEN delivered[x] + 1 ELSE delivered[x]]
  /\ UNCHANGED <<partyVars, routeVars, refVars, call, callRt, crashed>>

\* r.filteredOutput <- i meets the agent's send goroutine.
PassOn(k) ==
  /\ At(k, "pass")
  /\ delivered' = [x \in Calls |-> IF x \in att[k].req THEN delivered[x] + 1 ELSE delivered[x]]
  /\ att' = [att EXCEPT ![k] = [@ EXCEPT !.pc = "wait", !.req = {}]]
  /\ UNCHANGED <<partyVars, routeVars, rx, tx, listed, call, callRt, crashed>>

-----------------------------------------------------------------------------
PartyStep(p) == Lookup(p) \/ Attach(p) \/ Added(p) \/ DropLookup(p) \/ DropCancel(p)
RefStep(k) == DecRefCount(k) \/ LoadOther(k) \/ CancelRoute(k) \/ RemoveUuid(k)
CallStep(x) ==
  \/ RouteCheck(x) \/ RouteCancelled(x) \/ RoutePanic(x)
  \/ \E k \in DOMAIN att : RouteHandOff(x, k)

Next ==
  /\ ~crashed
  /\ \/ \E p \in Parties : Add(p) \/ End(p) \/ PartyStep(p)
     \/ \E c \in Cds : UpdateSenderToolchains(c)
     \/ \E k \in DOMAIN att : RefStep(k) \/ PassOn(k)
     \/ \E i \in Ids : CloseRoute(i)
     \/ \E x \in Calls : RouteLookup(x) \/ CallStep(x)

Spec == Init /\ [][Next]_vars

\* The Go scheduler runs some goroutine that can run: a stream that is adding
\* or ending, a reference being given back, a route being closed.
Progress ==
  /\ ~crashed
  /\ \/ \E p \in Parties : PartyStep(p)
     \/ \E k \in DOMAIN att : RefStep(k)
     \/ \E i \in Ids : CloseRoute(i)

Fairness == WF_vars(Progress)

FairSpec == Spec /\ Fairness

-----------------------------------------------------------------------------
(* Properties.                                                             *)

Holding(i, kind) ==
  {k \in DOMAIN att : att[k].route = i /\ att[k].party \in kind /\ att[k].pc \in {"wait", "pass"}}

\* A reference count is the number of goroutines that hold a reference: none
\* is counted twice or forgotten, through attaching to a cancelled route,
\* closing under a relay and ending in any order.
RefCountsExact ==
  \A i \in Ids : rx[i] = Cardinality(Holding(i, Agents)) /\ tx[i] = Cardinality(Holding(i, Cds))

\* The map holds exactly the routes whose channel is open, so a toolchain
\* never has two open channels and the delete of a closing route never
\* removes its successor.
MapHoldsOpenRoutes ==
  \A t \in Tcs, i \in Ids :
    (routes[t] = i) <=> (i \in DOMAIN made /\ made[i] = t /\ i \notin closed)

\* A request is handed to one relay and leaves it at most once, and only when
\* Route returned nil.
DeliveredOnce ==
  \A x \in Calls :
    /\ delivered[x] + Cardinality({k \in DOMAIN att : x \in att[k].req}) <= 1
    /\ delivered[x] > 0 => call[x] = "sent"

\* Route sends on a closed channel (and panics) only when the consumerd's own
\* reference is stranded on a closed route of that toolchain, or when the
\* context of the call is done, or when the consumerd never announced the
\* toolchain.  Otherwise its reference keeps the channel it sends on open.
PanicNeedsStrandedCaller ==
  \A x \in Calls : call[x] = "panic" =>
    \/ \E k \in DOMAIN att :
         /\ att[k].party = Caller[x] /\ att[k].pc = "wait"
         /\ att[k].route \in closed /\ made[att[k].route] = CallTc[x]
    \/ ctx[Caller[x]] = "done"
    \/ CallTc[x] \notin Items(TcsOf[Caller[x]])

\* GetRoutes lists every agent and consumerd that is attached to a route in
\* the map (streams have different UUIDs in the run that checks this).
AttachedIsListed ==
  \A k \in DOMAIN att :
    att[k].pc \in {"wait", "pass"} => UuidOf[att[k].party] \in listed[att[k].route]

\* The accounting of routes: the reference counts are exact and GetRoutes lists
\* whoever is attached, in states that have their types.
RoutesAccounted == TypeOK /\ RefCountsExact /\ AttachedIsListed

\* The other half of that comment: once all streams have ended, a route that
\* was ever referenced is closed, unless a relay still holds a request (or the
\* process has panicked).
RoutesReclaimed ==
  \A i \in Ids :
    ((\E k \in DOMAIN att : att[k].route = i) /\ \A p \in Parties : ctx[p] = "done")
      ~> \/ i \in closed \/ crashed
         \/ \E k \in DOMAIN att : att[k].route = i /\ att[k].pc = "pass"
=============================================================================
